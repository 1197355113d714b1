------------------------------- MODULE Events -------------------------------
(***************************************************************************)
(* Informational events: CreateEvent and pruneEventsTx                     *)
(* (internal/inbox/events.go).  One transaction inserts the event, queues  *)
(* its outbound event and prunes the account's history, by age and by      *)
(* number; nothing else ever prunes it.                                    *)
(*                                                                         *)
(* Ids are random, so they say nothing of the order of creation: events    *)
(* of the same second are ordered by chance.  Times are kept as ages.      *)
(***************************************************************************)
EXTENDS Naturals, FiniteSets

CONSTANTS
  Accounts,    \* owners of projects
  MaxIds,      \* bound: events made
  MaxEvents,   \* MaxEventsPerAccount (10000)
  Retention    \* ticks an event is kept (30 days)

ASSUME EventsAssumption ==
  MaxIds \in Nat /\ MaxEvents \in Nat \ {0} /\ Retention \in Nat

VARIABLES
  events,     \* rows of the table
  queued,     \* ids with an outbound event, whose source is "notice:" and the id
  made        \* history: all events whose creation was answered with 201

eventVars == <<events, queued, made>>

Ids     == 1..MaxIds
Overdue == Retention + 1
Event   == [id : Ids, account : Accounts, age : 0..Overdue]

EventsTypeOK ==
  /\ events \subseteq made /\ made \subseteq Event
  /\ queued = {e.id : e \in made}

EventsInit == events = {} /\ queued = {} /\ made = {}

Of(es, a) == {e \in es : e.account = a}

\* ORDER BY created_at_unix DESC, id DESC.
Before(e, f) == e.age < f.age \/ (e.age = f.age /\ e.id > f.id)

\* The first MaxEvents of them.
Latest(es) == {e \in es : Cardinality({f \in es : Before(f, e)}) < MaxEvents}

\* Mutant of Pruned: without the owner.
PrunedForAll(es, a) == Latest({e \in Of(es, a) : e.age <= Retention})

\* pruneEventsTx: two DELETEs for the owner of the new event.
Pruned(es, a) ==
  (es \ Of(es, a)) \union Latest({e \in Of(es, a) : e.age <= Retention})

CreateEvent(id, a) ==
  LET new == [id |-> id, account |-> a, age |-> 0] IN
  /\ \A e \in made : e.id # id
  /\ events' = Pruned(events \union {new}, a)
  /\ queued' = queued \union {id}
  /\ made' = made \union {new}

Older(es) == {[e EXCEPT !.age = IF @ = Overdue THEN @ ELSE @ + 1] : e \in es}

EventsTick == events' = Older(events) /\ made' = Older(made) /\ UNCHANGED queued

EventsNext == EventsTick \/ \E id \in Ids, a \in Accounts : CreateEvent(id, a)

EventsSpec == EventsInit /\ [][EventsNext]_eventVars

-----------------------------------------------------------------------------
(***************************************************************************)
(* Properties.                                                             *)
(***************************************************************************)

\* "Events are account-scoped and retained for 30 days, with a maximum of the
\* newest 10,000 events per account": an event is missing only if it is older
\* or its account has made that many newer ones, whatever others do.
EventsRetained ==
  \A e \in made \ events :
    \/ e.age > Retention
    \/ Cardinality({f \in Of(made, e.account) : Before(f, e)}) >= MaxEvents
=============================================================================
