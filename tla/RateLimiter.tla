---------------------------- MODULE RateLimiter ----------------------------
(***************************************************************************)
(* allowRequest (internal/httpserver/server.go): a fixed window for every  *)
(* bucket, which is "ingest:" or "agent:" and the hash of a token.         *)
(*                                                                         *)
(* The clock is read under the mutex, so a call is one action.  Time is    *)
(* kept as ages: how many ticks ago a window started or a request was let  *)
(* through.  A refused call changes nothing and is no action.              *)
(***************************************************************************)
EXTENDS Naturals, FiniteSets

CONSTANTS
  Buckets,     \* keys requests come with
  Limit,       \* requests per window (60 of an agent, 120 of an app)
  Window,      \* ticks in a window (a minute)
  MaxBuckets   \* windows kept before old ones are pruned (10000)

ASSUME RateLimiterAssumption ==
  Limit \in Nat \ {0} /\ Window \in Nat \ {0} /\ MaxBuckets \in Nat

VARIABLES
  limits,      \* Buckets -> window: its age and its count, 0 when not kept
  admitted     \* history: Buckets -> requests let through in the last Window

limiterVars == <<limits, admitted>>

\* Ages above 2*Window are told apart by nothing.
Oldest == 2 * Window + 1
Ages   == 0..(Window - 1)

NoWindow == [age |-> 0, count |-> 0]
Kept(ws) == {b \in Buckets : ws[b].count > 0}

LimiterTypeOK ==
  /\ limits \in [Buckets -> [age : 0..Oldest, count : 0..Limit]]
  /\ admitted \in [Buckets -> SUBSET [age : Ages, nth : Nat]]

LimiterInit ==
  /\ limits = [b \in Buckets |-> NoWindow]
  /\ admitted = [b \in Buckets |-> {}]

\* Mutant of Current: a new window keeps the old count.
CurrentCounts(b) ==
  IF limits[b].age >= Window THEN [limits[b] EXCEPT !.age = 0] ELSE limits[b]

\* The window a request of bucket b falls into.
Current(b) == IF limits[b].count = 0 \/ limits[b].age >= Window
                THEN NoWindow ELSE limits[b]

\* Mutant of Prune: every window is dropped.
PruneAll(ws) == [b \in Buckets |-> NoWindow]

Prune(ws) == [b \in Buckets |-> IF ws[b].age > 2 * Window THEN NoWindow
                                                          ELSE ws[b]]

\* The history's entry of a request, told apart by its number in its tick.
Arrival(S) ==
  [age |-> 0, nth |-> Cardinality({r \in S : r.age = 0}) + 1]

\* The history one tick later.
Lingering(S) == {[age |-> r.age + 1, nth |-> r.nth] : r \in {q \in S : q.age + 1 < Window}}

\* Mutant of AllowRequest: off by one.
AllowOneMore(b) ==
  LET ws == [limits EXCEPT ![b] = [Current(b) EXCEPT !.count = @ + 1]] IN
  /\ Current(b).count <= Limit
  /\ limits' = IF Cardinality(Kept(ws)) > MaxBuckets THEN Prune(ws) ELSE ws
  /\ admitted' = [admitted EXCEPT ![b] = @ \union {Arrival(@)}]

\* A request is let through: the window it falls into counts it, and with
\* more than MaxBuckets windows the old ones go.
AllowRequest(b) ==
  LET ws == [limits EXCEPT ![b] = [Current(b) EXCEPT !.count = @ + 1]] IN
  /\ Current(b).count < Limit
  /\ limits' = IF Cardinality(Kept(ws)) > MaxBuckets THEN Prune(ws) ELSE ws
  /\ admitted' = [admitted EXCEPT ![b] = @ \union {Arrival(@)}]

LimiterTick ==
  /\ limits' = [b \in Buckets |->
       IF limits[b].count = 0 \/ limits[b].age = Oldest THEN limits[b]
       ELSE [limits[b] EXCEPT !.age = @ + 1]]
  /\ admitted' = [b \in Buckets |-> Lingering(admitted[b])]

LimiterNext == LimiterTick \/ \E b \in Buckets : AllowRequest(b)

LimiterSpec == LimiterInit /\ [][LimiterNext]_limiterVars

-----------------------------------------------------------------------------
(***************************************************************************)
(* Properties.                                                             *)
(***************************************************************************)
Lately(b) == Cardinality(admitted[b])

\* Whatever minute one looks at, a bucket gets at most two windows' worth of
\* requests through: fixed windows double the limit around a boundary, and
\* pruning, which other buckets cause, never opens a third.
BurstIsTwoWindows == \A b \in Buckets : Lately(b) <= 2 * Limit

\* A bucket is only refused after its whole limit went through within the
\* last minute.
RefusalIsEarned ==
  \A b \in Buckets : Current(b).count >= Limit => Lately(b) >= Limit
=============================================================================
