------------------------------ MODULE Outbound ------------------------------
(***************************************************************************)
(* Outbound events and their deliveries (internal/inbox/outbound.go, the   *)
(* endpoints of events.go, the answers of internal/outbound/client.go and  *)
(* internal/ntfy/client.go) for one account.                               *)
(*                                                                         *)
(* One action per SQL statement, transaction or HTTP exchange.  A row of   *)
(* outbound_deliveries is identified by its event and its destination      *)
(* (UNIQUE), an event by its source key (UNIQUE); sources are numbered in  *)
(* the order of created_at.                                                *)
(***************************************************************************)
EXTENDS Naturals, FiniteSets

CONSTANTS
  Errors,         \* source keys of error.* and notice.created events
  Issues,         \* source keys of github_issue.* events
  Tests,          \* source keys of webhook.test events
  Endpoints,      \* webhook endpoints that may be created
  Operator,       \* the ntfy destination
  NtfyEnabled,    \* operatorNtfyEnabled, and the account is the operator's
  MaxEndpoints,   \* MaxWebhookEndpointsPerAccount (20)
  Workers,        \* RunOutboundWorker loops (two while a deploy hands over)
  MaxAttempts,    \* maxOutboundJobAttempts (20)
  MaxDisruptions  \* bound: crashes, failing reads, manual retries and
                  \* endpoint changes

Sources      == Errors \union Issues \union Tests
Destinations == Endpoints \union {Operator}
Deliveries   == Sources \X Destinations

ASSUME OutboundAssumption ==
  /\ Sources \subseteq Nat
  /\ Errors \intersect Issues = {}
  /\ Operator \notin Endpoints
  /\ NtfyEnabled \in BOOLEAN
  /\ MaxEndpoints \in Nat /\ MaxAttempts \in Nat \ {0} /\ MaxDisruptions \in Nat

VARIABLES
  event,       \* Sources -> "absent", "fresh", "old" (30 days) or "pruned"
  delivery,    \* Deliveries -> row of outbound_deliveries
  endpoint,    \* Endpoints -> its state in webhook_endpoints
  follows,     \* Endpoints -> which kinds of event it subscribed to
  pc,          \* Workers -> next statement of the loop
  cur,         \* Workers -> the delivery in hand
  tries,       \* Workers -> the attempts the SELECT read
  fatal,       \* Workers -> was the last answer a permanent refusal?
  received,    \* history: deliveries their destination has accepted
  learnt,      \* history: acceptances less those not learnt (answer or worker lost)
  excused,     \* history: deliveries whose endpoint was off since enqueued
  unread,      \* history: deliveries completed because a read failed
  disruptions

rows  == <<event, delivery, endpoint, follows>>
local == <<cur, tries, fatal>>
hist  == <<received, learnt, excused, unread>>
vars  == <<event, delivery, endpoint, follows, pc, cur, tries, fatal,
           received, learnt, excused, unread, disruptions>>

KindOf(s) == IF s \in Errors THEN "error" ELSE "issue"
Kinds  == {KindOf(s) : s \in Errors \union Issues}
Row    == [state : {"absent", "pending", "working", "done", "dead", "purged"},
           attempts : 0..MaxAttempts, due : BOOLEAN, leased : BOOLEAN]
NoRow  == [state |-> "absent", attempts |-> 0, due |-> FALSE, leased |-> FALSE]
NoDelivery == <<>>

\* From "endpoint" to "fail" the worker holds the lease of cur.
Holding == {"endpoint", "send", "complete", "fail"}
PCs == {"idle", "pruneEvents", "recover", "select", "claim", "again"}
         \union Holding

TypeOK ==
  /\ event \in [Sources -> {"absent", "fresh", "old", "pruned"}]
  /\ delivery \in [Deliveries -> Row]
  /\ endpoint \in [Endpoints -> {"absent", "active", "inactive", "deleted"}]
  /\ follows \in [Endpoints -> SUBSET Kinds]
  /\ pc \in [Workers -> PCs]
  /\ cur \in [Workers -> Deliveries \union {NoDelivery}]
  /\ tries \in [Workers -> 0..MaxAttempts]
  /\ fatal \in [Workers -> BOOLEAN]
  /\ received \subseteq Deliveries /\ learnt \in [Deliveries -> Nat]
  /\ excused \subseteq Deliveries /\ unread \subseteq Deliveries
  /\ disruptions \in 0..MaxDisruptions

Init ==
  /\ event = [s \in Sources |-> "absent"]
  /\ delivery = [d \in Deliveries |-> NoRow]
  /\ endpoint = [e \in Endpoints |-> "absent"]
  /\ follows = [e \in Endpoints |-> {}]
  /\ pc = [w \in Workers |-> "idle"]
  /\ cur = [w \in Workers |-> NoDelivery]
  /\ tries = [w \in Workers |-> 0]
  /\ fatal = [w \in Workers |-> FALSE]
  /\ received = {}
  /\ learnt = [d \in Deliveries |-> 0]
  /\ excused = {}
  /\ unread = {}
  /\ disruptions = 0

Disrupt == disruptions < MaxDisruptions /\ disruptions' = disruptions + 1

Goto(w, label) == pc' = [pc EXCEPT ![w] = label]

\* The iteration is over: its locals no longer matter.
Leave(w, label) ==
  /\ Goto(w, label)
  /\ cur' = [cur EXCEPT ![w] = NoDelivery]
  /\ tries' = [tries EXCEPT ![w] = 0]
  /\ fatal' = [fatal EXCEPT ![w] = FALSE]

-----------------------------------------------------------------------------
(***************************************************************************)
(* Producers.                                                              *)
(***************************************************************************)
Subscribers(s) == {e \in Endpoints : /\ endpoint[e] = "active"
                                     /\ KindOf(s) \in follows[e]}

Audience(s) == Subscribers(s) \union
               (IF NtfyEnabled /\ s \in Errors THEN {Operator} ELSE {})

\* A webhook is due at once, the ntfy message of an error after five seconds.
Queued(d) == [NoRow EXCEPT !.state = "pending", !.due = d[2] # Operator]

\* enqueueOutboundEventTx: INSERT OR IGNORE of the event, then a delivery per
\* destination, in the caller's transaction.
Enqueue(s) ==
  /\ s \in Errors \union Issues
  /\ event[s] = "absent"
  /\ \A t \in Sources : t > s => event[t] = "absent"
  /\ event' = [event EXCEPT ![s] = "fresh"]
  /\ delivery' = [d \in Deliveries |->
                    IF d[1] = s /\ d[2] \in Audience(s) THEN Queued(d)
                                                        ELSE delivery[d]]
  /\ UNCHANGED <<endpoint, follows, pc, local, hist, disruptions>>

\* EnqueueWebhookTest inserts for the endpoint its first statement looked up,
\* active or not, deleted meanwhile or not.
EnqueueTest(s, e) ==
  /\ s \in Tests
  /\ event[s] = "absent"
  /\ \A t \in Sources : t > s => event[t] = "absent"
  /\ endpoint[e] # "absent"
  /\ event' = [event EXCEPT ![s] = "fresh"]
  /\ delivery' = [delivery EXCEPT ![<<s, e>>] = Queued(<<s, e>>)]
  /\ excused' = IF endpoint[e] = "active" THEN excused
                                          ELSE excused \union {<<s, e>>}
  /\ UNCHANGED <<endpoint, follows, pc, local, received, learnt, unread, disruptions>>

-----------------------------------------------------------------------------
(***************************************************************************)
(* The worker: PruneOutboundHistory, then ProcessOutboundDeliveriesOnce    *)
(* while something is due.                                                 *)
(***************************************************************************)
\* Mutant of PruneDeliveries: dead deliveries are kept for ever.
PruneDoneOnly(w) ==
  /\ pc[w] = "idle"
  /\ delivery' = [d \in Deliveries |->
       IF event[d[1]] = "old" /\ delivery[d].state = "done"
         THEN [NoRow EXCEPT !.state = "purged"] ELSE delivery[d]]
  /\ Goto(w, "pruneEvents")
  /\ UNCHANGED <<event, endpoint, follows, local, hist, disruptions>>

PruneDeliveries(w) ==
  /\ pc[w] = "idle"
  /\ delivery' = [d \in Deliveries |->
       IF event[d[1]] = "old" /\ delivery[d].state \in {"done", "dead"}
         THEN [NoRow EXCEPT !.state = "purged"] ELSE delivery[d]]
  /\ Goto(w, "pruneEvents")
  /\ UNCHANGED <<event, endpoint, follows, local, hist, disruptions>>

DeliveriesOf(s) == {d \in Deliveries : /\ d[1] = s
                                       /\ delivery[d].state \notin {"absent", "purged"}}

\* Mutant of PruneEvents: NOT EXISTS is missing.
PruneEventsBlindly(w) ==
  /\ pc[w] = "pruneEvents"
  /\ event' = [s \in Sources |-> IF event[s] = "old" THEN "pruned" ELSE event[s]]
  /\ Goto(w, "recover")
  /\ UNCHANGED <<delivery, endpoint, follows, local, hist, disruptions>>

PruneEvents(w) ==
  /\ pc[w] = "pruneEvents"
  /\ event' = [s \in Sources |-> IF event[s] = "old" /\ DeliveriesOf(s) = {}
                                   THEN "pruned" ELSE event[s]]
  /\ Goto(w, "recover")
  /\ UNCHANGED <<delivery, endpoint, follows, local, hist, disruptions>>

\* Mutant of Recover: expired leases are never recovered.
RecoverNothing(w) ==
  /\ pc[w] = "recover"
  /\ Goto(w, "select")
  /\ UNCHANGED <<rows, local, hist, disruptions>>

Recover(w) ==
  /\ pc[w] = "recover"
  /\ delivery' = [d \in Deliveries |->
       IF delivery[d].state = "working" /\ ~delivery[d].leased
         THEN [delivery[d] EXCEPT !.state = "pending"] ELSE delivery[d]]
  /\ Goto(w, "select")
  /\ UNCHANGED <<event, endpoint, follows, local, hist, disruptions>>

Due == {d \in Deliveries : delivery[d].state = "pending" /\ delivery[d].due}

\* ORDER BY created_at, id: the oldest event first, its deliveries in any
\* order (their ids are random).  The JOIN needs the event's row.
Select(w) ==
  /\ pc[w] = "select"
  /\ \E d \in Due :
       /\ event[d[1]] \in {"fresh", "old"}
       /\ \A c \in Due : d[1] <= c[1]
       /\ cur' = [cur EXCEPT ![w] = d]
       /\ tries' = [tries EXCEPT ![w] = delivery[d].attempts]
  /\ Goto(w, "claim")
  /\ UNCHANGED <<rows, fatal, hist, disruptions>>

NothingDue(w) ==
  /\ pc[w] = "select"
  /\ Due = {}
  /\ Leave(w, "again")
  /\ UNCHANGED <<rows, hist, disruptions>>

\* Mutant of Claim: AND state='pending' is missing.
ClaimBlindly(w) ==
  /\ pc[w] = "claim"
  /\ delivery' = [delivery EXCEPT ![cur[w]] =
                     [@ EXCEPT !.state = "working", !.leased = TRUE]]
  /\ Goto(w, IF cur[w][2] = Operator THEN "send" ELSE "endpoint")
  /\ UNCHANGED <<event, endpoint, follows, local, hist, disruptions>>

Claim(w) ==
  /\ pc[w] = "claim"
  /\ delivery[cur[w]].state = "pending"
  /\ delivery' = [delivery EXCEPT ![cur[w]] =
                     [@ EXCEPT !.state = "working", !.leased = TRUE]]
  /\ Goto(w, IF cur[w][2] = Operator THEN "send" ELSE "endpoint")
  /\ UNCHANGED <<event, endpoint, follows, local, hist, disruptions>>

LoseClaim(w) ==
  /\ pc[w] = "claim"
  /\ delivery[cur[w]].state # "pending"
  /\ Leave(w, "again")
  /\ UNCHANGED <<rows, hist, disruptions>>

\* The endpoint is read and decrypted.  Gone or inactive, the delivery is
\* completed.
ReadEndpoint(w) ==
  /\ pc[w] = "endpoint"
  /\ Goto(w, IF endpoint[cur[w][2]] = "active" THEN "send" ELSE "complete")
  /\ UNCHANGED <<rows, local, hist, disruptions>>

\* The read fails and active keeps its zero value: completed all the same.
ReadFails(w) ==
  /\ pc[w] = "endpoint"
  /\ Disrupt
  /\ unread' = unread \union {cur[w]}
  /\ Goto(w, "complete")
  /\ UNCHANGED <<rows, local, received, learnt, excused>>

\* The destination accepts; the answer arrives, or is lost on the way.
Accepted(w) ==
  /\ pc[w] = "send"
  /\ received' = received \union {cur[w]}
  /\ \/ Goto(w, "complete") /\ learnt' = [learnt EXCEPT ![cur[w]] = @ + 1]
     \/ Goto(w, "fail") /\ UNCHANGED learnt
  /\ UNCHANGED <<rows, local, excused, unread, disruptions>>

\* Mutant of Refused: a permanent refusal counts as an answer.
RefusedIsFine(w) ==
  /\ pc[w] = "send"
  /\ \/ Goto(w, "fail")
     \/ cur[w][2] # Operator /\ Goto(w, "complete")
  /\ UNCHANGED <<rows, local, hist, disruptions>>

\* It is refused or not reached, or the endpoint's secret cannot be decrypted.
\* Only a webhook's 4xx is permanent.
Refused(w) ==
  /\ pc[w] = "send"
  /\ \E permanent \in BOOLEAN :
       /\ permanent => cur[w][2] # Operator
       /\ fatal' = [fatal EXCEPT ![w] = permanent]
  /\ Goto(w, "fail")
  /\ UNCHANGED <<rows, cur, tries, hist, disruptions>>

\* completeOutbound: the UPDATE names the id only.
Complete(w) ==
  /\ pc[w] = "complete"
  /\ delivery' = [delivery EXCEPT ![cur[w]] =
                     [@ EXCEPT !.state = "done", !.leased = FALSE]]
  /\ Leave(w, "again")
  /\ UNCHANGED <<event, endpoint, follows, hist, disruptions>>

\* The attempts are those the SELECT read, plus one.
Fail(w) ==
  /\ pc[w] = "fail"
  /\ delivery' = [delivery EXCEPT ![cur[w]] =
                     [@ EXCEPT !.state = IF fatal[w] \/ tries[w] + 1 >= MaxAttempts
                                          THEN "dead" ELSE "pending",
                               !.attempts = tries[w] + 1,
                               !.due = FALSE,
                               !.leased = FALSE]]
  /\ Leave(w, "again")
  /\ UNCHANGED <<event, endpoint, follows, hist, disruptions>>

\* Up to twenty iterations while something is due.
Again(w) ==
  /\ pc[w] = "again"
  /\ \/ Due # {} /\ Goto(w, "recover")
     \/ Goto(w, "idle")
  /\ UNCHANGED <<rows, local, hist, disruptions>>

-----------------------------------------------------------------------------
(***************************************************************************)
(* Agents, time and failures.                                              *)
(***************************************************************************)
Existing == {e \in Endpoints : endpoint[e] \in {"active", "inactive"}}

\* CreateWebhookEndpoint counts and inserts in one transaction.
CreateEndpoint(e) ==
  /\ endpoint[e] = "absent"
  /\ Cardinality(Existing) < MaxEndpoints
  /\ endpoint' = [endpoint EXCEPT ![e] = "active"]
  /\ \E kinds \in SUBSET Kinds : follows' = [follows EXCEPT ![e] = kinds]
  /\ UNCHANGED <<event, delivery, pc, local, hist, disruptions>>

\* The endpoint's open deliveries need no longer arrive.
SwitchOff(e, state) ==
  /\ endpoint' = [endpoint EXCEPT ![e] = state]
  /\ excused' = excused \union {d \in Deliveries : d[2] = e /\ delivery[d].state
                                                    \notin {"absent", "purged"}}
  /\ UNCHANGED <<event, delivery, follows, pc, local, received, learnt, unread>>

\* UpdateWebhookEndpoint and DeleteWebhookEndpoint.
Deactivate(e) == endpoint[e] = "active" /\ Disrupt /\ SwitchOff(e, "inactive")

DeleteEndpoint(e) == e \in Existing /\ Disrupt /\ SwitchOff(e, "deleted")

Reactivate(e) ==
  /\ endpoint[e] = "inactive"
  /\ endpoint' = [endpoint EXCEPT ![e] = "active"]
  /\ UNCHANGED <<event, delivery, follows, pc, local, hist, disruptions>>

\* Mutant of Retry: AND state='dead' is missing.
RetryAny(d) ==
  /\ delivery[d].state \in {"dead", "done"}
  /\ d[2] # Operator
  /\ Disrupt
  /\ delivery' = [delivery EXCEPT ![d] = [NoRow EXCEPT !.state = "pending",
                                                       !.due = TRUE]]
  /\ UNCHANGED <<event, endpoint, follows, pc, local, hist>>

\* RetryWebhookDeliveryForUser: dead webhook deliveries only.
Retry(d) ==
  /\ delivery[d].state = "dead"
  /\ d[2] # Operator
  /\ Disrupt
  /\ delivery' = [delivery EXCEPT ![d] = [NoRow EXCEPT !.state = "pending",
                                                       !.due = TRUE]]
  /\ UNCHANGED <<event, endpoint, follows, pc, local, hist>>

ComesDue(d) ==
  /\ delivery[d].state = "pending" /\ ~delivery[d].due
  /\ delivery' = [delivery EXCEPT ![d] = [@ EXCEPT !.due = TRUE]]
  /\ UNCHANGED <<event, endpoint, follows, pc, local, hist, disruptions>>

\* An HTTP exchange times out after eight seconds, the lease after two
\* minutes: a worker that lives keeps its lease.
LeaseExpires(d) ==
  /\ delivery[d].state = "working" /\ delivery[d].leased
  /\ \A w \in Workers : ~(pc[w] \in Holding /\ cur[w] = d)
  /\ delivery' = [delivery EXCEPT ![d] = [@ EXCEPT !.leased = FALSE]]
  /\ UNCHANGED <<event, endpoint, follows, pc, local, hist, disruptions>>

\* Thirty days later; created_at of the deliveries is that of the event.
GrowsOld(s) ==
  /\ event[s] = "fresh"
  /\ event' = [event EXCEPT ![s] = "old"]
  /\ UNCHANGED <<delivery, endpoint, follows, pc, local, hist, disruptions>>

\* The process dies or a statement fails.
Crash(w) ==
  /\ pc[w] # "idle"
  /\ Disrupt
  /\ learnt' = IF pc[w] = "complete" /\ learnt[cur[w]] > 0
                 THEN [learnt EXCEPT ![cur[w]] = @ - 1] ELSE learnt
  /\ Leave(w, "idle")
  /\ UNCHANGED <<rows, received, excused, unread>>

Step(w) ==
  \/ PruneDeliveries(w) \/ PruneEvents(w) \/ Recover(w) \/ Select(w)
  \/ NothingDue(w) \/ Claim(w) \/ LoseClaim(w) \/ ReadEndpoint(w)
  \/ Accepted(w) \/ Refused(w) \/ Complete(w) \/ Fail(w) \/ Again(w)

Clock(d) == ComesDue(d) \/ LeaseExpires(d)

Next ==
  \/ \E w \in Workers : Step(w) \/ ReadFails(w) \/ Crash(w)
  \/ \E s \in Sources : \/ Enqueue(s) \/ GrowsOld(s)
                        \/ \E e \in Endpoints : EnqueueTest(s, e)
  \/ \E e \in Endpoints : \/ CreateEndpoint(e) \/ Deactivate(e)
                          \/ DeleteEndpoint(e) \/ Reactivate(e)
  \/ \E d \in Deliveries : Retry(d) \/ Clock(d)

Spec == Init /\ [][Next]_vars
FairSpec == /\ Spec
            /\ \A w \in Workers : WF_vars(Step(w))
            /\ \A d \in Deliveries : WF_vars(Clock(d))

-----------------------------------------------------------------------------
(***************************************************************************)
(* Properties.                                                             *)
(***************************************************************************)

\* A destination accepts a delivery once, and once more for every time its
\* acceptance was not learnt: claims, leases and deploys that run two
\* workers never repeat a delivery on their own.
RepeatsOnlyAfterLoss ==
  \A d \in Deliveries : learnt[d] <= 1

\* Retention never takes the event from under a delivery that still needs
\* it: such a delivery would never be selected again.
NoOrphans ==
  \A d \in Deliveries : delivery[d].state \notin {"absent", "purged"}
                          => event[d[1]] \in {"fresh", "old"}

DoneOnly(ds) == \A d \in Deliveries : delivery[d].state = "done" => d \in ds

\* A delivery reported done was accepted by its destination, unless its
\* endpoint was switched off since it was enqueued: "retries transient
\* network responses with backoff".  FALSE of the code: see ReadFails.
DoneWasReceived == DoneOnly(received \union excused)

\* A delivery reported done was accepted by its destination, unless its
\* endpoint was switched off since or could not be read: refusals, lost
\* answers, expired leases and manual retries never pass for an acceptance.
DoneUnlessUnread == DoneOnly(received \union excused \union unread)

\* Every delivery is settled in the end: done, or dead and listed.
DeliveriesSettle ==
  \A d \in Deliveries : delivery[d].state = "pending" ~>
    delivery[d].state \in {"done", "dead", "purged"}

\* Old events leave the database once the worker is left in peace.
HistoryIsPruned ==
  \A s \in Sources : event[s] = "old" ~> event[s] = "pruned"

\* The deliveries implement DeliveryQueue.
StageOf(row) == IF row.state \in {"pending", "working"} THEN "queued"
                                                        ELSE row.state
Queue == INSTANCE DeliveryQueue WITH
  Jobs      <- Deliveries,
  stage     <- [d \in Deliveries |-> StageOf(delivery[d])],
  performed <- received,
  excused   <- excused \union unread
QueueRefinement == Queue!QueueSpec
=============================================================================
