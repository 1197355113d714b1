--------------------------- MODULE OutboundProofs ---------------------------
(***************************************************************************)
(* Proofs about Outbound for every number of sources, endpoints, workers   *)
(* and attempts, and however many disruptions.                             *)
(***************************************************************************)
EXTENDS Outbound, TLAPS

\* A worker past Select has a delivery in hand, with attempts left: it never
\* tries once more than maxOutboundJobAttempts.
InHand ==
  \A w \in Workers : pc[w] \in Holding \union {"claim"} =>
    cur[w] \in Deliveries /\ tries[w] < MaxAttempts

\* So has a delivery that may be selected or recovered.
AttemptsLeft ==
  \A d \in Deliveries : delivery[d].state \in {"pending", "working"} =>
    delivery[d].attempts < MaxAttempts

TypeInv == TypeOK /\ InHand /\ AttemptsLeft

\* The two halves of TypeInv: a worker's locals and the database.
LocalType ==
  /\ pc \in [Workers -> PCs]
  /\ cur \in [Workers -> Deliveries \union {NoDelivery}]
  /\ tries \in [Workers -> 0..MaxAttempts]
  /\ fatal \in [Workers -> BOOLEAN]
  /\ InHand

RowType == delivery \in [Deliveries -> Row] /\ AttemptsLeft

StoreType ==
  /\ event \in [Sources -> {"absent", "fresh", "old", "pruned"}]
  /\ endpoint \in [Endpoints -> {"absent", "active", "inactive", "deleted"}]
  /\ follows \in [Endpoints -> SUBSET Kinds]
  /\ received \subseteq Deliveries /\ learnt \in [Deliveries -> Nat]
  /\ excused \subseteq Deliveries /\ unread \subseteq Deliveries
  /\ disruptions \in 0..MaxDisruptions

LEMMA TypeParts == TypeInv <=> LocalType /\ RowType /\ StoreType
BY DEF TypeInv, TypeOK, LocalType, RowType, StoreType

LEMMA TypeInit == Init => TypeInv
BY OutboundAssumption
   DEF Init, TypeInv, TypeOK, InHand, AttemptsLeft, NoRow, Row, PCs, Holding

\* What a handful of statements write are rows, with attempts left.
Fit(r) == r \in Row /\ (r.state \in {"pending", "working"} => r.attempts < MaxAttempts)

LEMMA NewRowsFit ==
  /\ Fit([NoRow EXCEPT !.state = "purged"])
  /\ Fit([NoRow EXCEPT !.state = "pending", !.due = TRUE])
  /\ \A d \in Deliveries : Fit(Queued(d))
<1>a. 0 \in 0..MaxAttempts /\ 0 < MaxAttempts
  BY OutboundAssumption
<1>b. NoRow \in Row /\ NoRow.attempts = 0
  BY <1>a DEF NoRow, Row
<1>1. ASSUME NEW b \in BOOLEAN
      PROVE  Fit([NoRow EXCEPT !.state = "pending", !.due = b])
  BY <1>a, <1>b DEF Fit, Row
<1>2. Fit([NoRow EXCEPT !.state = "purged"])
  BY <1>b DEF Fit, Row
<1>3. \A d \in Deliveries : (d[2] # Operator) \in BOOLEAN
  OBVIOUS
<1> QED
  BY <1>1, <1>2, <1>3, Zenon DEF Queued

LEMMA EditsFit ==
  ASSUME NEW r \in Row, Fit(r)
  PROVE  /\ r.state = "pending" =>
              Fit([r EXCEPT !.state = "working", !.leased = TRUE])
         /\ r.state = "working" => Fit([r EXCEPT !.state = "pending"])
         /\ Fit([r EXCEPT !.state = "done", !.leased = FALSE])
         /\ Fit([r EXCEPT !.due = TRUE]) /\ Fit([r EXCEPT !.leased = FALSE])
BY DEF Fit, Row

LEMMA FailFits ==
  ASSUME NEW r \in Row, NEW n \in Nat, n < MaxAttempts, NEW f \in BOOLEAN
  PROVE  Fit([r EXCEPT !.state = IF f \/ n + 1 >= MaxAttempts THEN "dead" ELSE "pending",
                       !.attempts = n + 1, !.due = FALSE, !.leased = FALSE])
<1> DEFINE s == IF f \/ n + 1 >= MaxAttempts THEN "dead" ELSE "pending"
<1>1. s \in {"dead", "pending"} /\ (s = "pending" => n + 1 < MaxAttempts)
  BY OutboundAssumption
<1>2. n + 1 \in 0..MaxAttempts
  BY OutboundAssumption
<1> HIDE DEF s
<1>3. Fit([r EXCEPT !.state = s, !.attempts = n + 1, !.due = FALSE, !.leased = FALSE])
  BY <1>1, <1>2 DEF Fit, Row
<1> QED
  BY <1>3 DEF s

LEMMA AllFit == RowType <=> /\ delivery \in [Deliveries -> Row]
                            /\ \A d \in Deliveries : Fit(delivery[d])
BY DEF RowType, AttemptsLeft, Fit

LEMMA AllFitNext == (\A d \in Deliveries : Fit(delivery'[d]))
                    /\ delivery' \in [Deliveries -> Row] => RowType'
BY DEF RowType, AttemptsLeft, Fit

\* One row at a time.
LEMMA OneRowFits ==
  ASSUME RowType, NEW d \in Deliveries, NEW r, Fit(r),
         delivery' = [delivery EXCEPT ![d] = r]
  PROVE  RowType'
<1>1. r \in Row
  BY DEF Fit
<1>2. delivery' \in [Deliveries -> Row] /\ \A c \in Deliveries : Fit(delivery'[c])
  BY <1>1, AllFit DEF RowType
<1> QED
  BY <1>2, AllFitNext

LEMMA LeaveType ==
  ASSUME LocalType, NEW w \in Workers, NEW label \in {"again", "idle"},
         Leave(w, label)
  PROVE  LocalType'
BY OutboundAssumption DEF LocalType, Leave, Goto, PCs, InHand, Holding

LEMMA GotoType ==
  ASSUME LocalType, NEW w \in Workers, NEW label \in PCs, Goto(w, label),
         UNCHANGED <<cur, tries>>, fatal' \in [Workers -> BOOLEAN],
         label \in Holding \union {"claim"} => pc[w] \in Holding \union {"claim"}
  PROVE  LocalType'
BY DEF LocalType, Goto, InHand

LEMMA TypeStep == TypeInv /\ [Next]_vars => TypeInv'
<1> SUFFICES ASSUME LocalType, RowType, StoreType, [Next]_vars
             PROVE  LocalType' /\ RowType' /\ StoreType'
    BY TypeParts DEF TypeInv, TypeOK, LocalType, RowType, StoreType
<1>1. ASSUME NEW s \in Sources, Enqueue(s) PROVE LocalType' /\ RowType' /\ StoreType'
  <2>1. RowType'
    <3>1. \A d \in Deliveries : Fit(delivery'[d])
      BY <1>1, NewRowsFit, AllFit DEF Enqueue
    <3> QED
      BY <1>1, <3>1, AllFitNext DEF Enqueue, Fit
  <2> QED
    BY <1>1, <2>1 DEF Enqueue, LocalType, InHand, StoreType, local, hist
<1>2. ASSUME NEW s \in Sources, NEW e \in Endpoints, EnqueueTest(s, e)
      PROVE  LocalType' /\ RowType' /\ StoreType'
  <2>1. <<s, e>> \in Deliveries
    BY DEF Deliveries, Destinations
  <2>2. RowType'
    BY <1>2, <2>1, NewRowsFit, OneRowFits DEF EnqueueTest
  <2> QED
    BY <1>2, <2>1, <2>2 DEF EnqueueTest, LocalType, InHand, StoreType, local
<1>3. ASSUME NEW w \in Workers, PruneDeliveries(w) \/ Recover(w)
      PROVE  LocalType' /\ RowType' /\ StoreType'
  <2>1. RowType'
    <3>1. CASE PruneDeliveries(w)
      <4>1. \A d \in Deliveries : Fit(delivery'[d])
        BY <3>1, NewRowsFit, AllFit DEF PruneDeliveries
      <4> QED
        BY <3>1, <4>1, AllFitNext DEF PruneDeliveries, Fit
    <3>2. CASE Recover(w)
      <4>1. \A d \in Deliveries : delivery[d] \in Row /\ Fit(delivery[d])
        BY AllFit DEF RowType
      <4>2. \A d \in Deliveries : Fit(delivery'[d])
        BY <3>2, <4>1, EditsFit DEF Recover
      <4> QED
        BY <3>2, <4>2, AllFitNext DEF Recover, Fit
    <3> QED
      BY <1>3, <3>1, <3>2
  <2>2. LocalType'
    BY <1>3 DEF PruneDeliveries, Recover, Goto, LocalType, InHand, PCs, Holding, local
  <2> QED
    BY <1>3, <2>1, <2>2 DEF PruneDeliveries, Recover, StoreType, hist
<1>4. ASSUME NEW w \in Workers, PruneEvents(w) \/ Again(w)
      PROVE  LocalType' /\ RowType' /\ StoreType'
  <2>1. LocalType'
    BY <1>4 DEF PruneEvents, Again, Goto, LocalType, InHand, PCs, Holding, local
  <2> QED
    BY <1>4, <2>1 DEF PruneEvents, Again, RowType, AttemptsLeft, StoreType, rows, hist
<1>5. ASSUME NEW w \in Workers, Select(w) PROVE LocalType' /\ RowType' /\ StoreType'
  <2>1. PICK d \in Due : /\ cur' = [cur EXCEPT ![w] = d]
                         /\ tries' = [tries EXCEPT ![w] = delivery[d].attempts]
    BY <1>5 DEF Select
  <2>2. d \in Deliveries /\ delivery[d].attempts \in 0..MaxAttempts
        /\ delivery[d].attempts < MaxAttempts
    BY <2>1 DEF Due, RowType, Row, AttemptsLeft
  <2>3. LocalType'
    BY <1>5, <2>1, <2>2 DEF Select, Goto, LocalType, InHand, PCs, Holding
  <2> QED
    BY <1>5, <2>3 DEF Select, RowType, AttemptsLeft, StoreType, rows, hist
<1>6. ASSUME NEW w \in Workers, NothingDue(w) \/ LoseClaim(w)
      PROVE  LocalType' /\ RowType' /\ StoreType'
  BY <1>6, LeaveType DEF NothingDue, LoseClaim, RowType, AttemptsLeft, StoreType,
                         rows, hist
<1>7. ASSUME NEW w \in Workers, Claim(w) PROVE LocalType' /\ RowType' /\ StoreType'
  <2>1. cur[w] \in Deliveries /\ tries[w] < MaxAttempts
    BY <1>7 DEF Claim, LocalType, InHand
  <2>2. Fit([delivery[cur[w]] EXCEPT !.state = "working", !.leased = TRUE])
    BY <1>7, <2>1, AllFit, EditsFit DEF Claim, RowType
  <2>3. RowType'
    BY <1>7, <2>1, <2>2, OneRowFits DEF Claim
  <2>4. LocalType'
    BY <1>7 DEF Claim, Goto, LocalType, InHand, PCs, Holding, local
  <2> QED
    BY <1>7, <2>3, <2>4 DEF Claim, StoreType, hist
<1>8. ASSUME NEW w \in Workers, ReadEndpoint(w) \/ ReadFails(w) \/ Accepted(w) \/ Refused(w)
      PROVE  LocalType' /\ RowType' /\ StoreType'
  <2>1. LocalType'
    BY <1>8 DEF ReadEndpoint, ReadFails, Accepted, Refused, Goto, LocalType, InHand,
                PCs, Holding, local
  <2>2. cur[w] \in Deliveries
    BY <1>8 DEF ReadEndpoint, ReadFails, Accepted, Refused, LocalType, InHand, Holding
  <2>3. UNCHANGED rows
    BY <1>8 DEF ReadEndpoint, ReadFails, Accepted, Refused
  <2>4. received' \subseteq Deliveries /\ learnt' \in [Deliveries -> Nat]
        /\ excused' \subseteq Deliveries /\ unread' \subseteq Deliveries
    BY <1>8, <2>2 DEF ReadEndpoint, ReadFails, Accepted, Refused, hist, StoreType
  <2>5. disruptions' \in 0..MaxDisruptions
    BY <1>8, OutboundAssumption DEF ReadEndpoint, ReadFails, Accepted, Refused, Disrupt, StoreType
  <2> QED
    BY <2>1, <2>3, <2>4, <2>5 DEF rows, RowType, AttemptsLeft, StoreType
<1>9. ASSUME NEW w \in Workers, Complete(w) PROVE LocalType' /\ RowType' /\ StoreType'
  <2>1. cur[w] \in Deliveries
    BY <1>9 DEF Complete, LocalType, InHand, Holding
  <2>2. Fit([delivery[cur[w]] EXCEPT !.state = "done", !.leased = FALSE])
    BY <2>1, AllFit, EditsFit DEF RowType
  <2>3. RowType'
    BY <1>9, <2>1, <2>2, OneRowFits DEF Complete
  <2> QED
    BY <1>9, <2>3, LeaveType DEF Complete, StoreType, hist
<1>10. ASSUME NEW w \in Workers, Fail(w) PROVE LocalType' /\ RowType' /\ StoreType'
  <2>1. cur[w] \in Deliveries /\ tries[w] \in Nat /\ tries[w] < MaxAttempts
        /\ fatal[w] \in BOOLEAN /\ delivery[cur[w]] \in Row
    BY <1>10, OutboundAssumption DEF Fail, LocalType, InHand, Holding, RowType
  <2> DEFINE row == [delivery[cur[w]] EXCEPT
                       !.state = IF fatal[w] \/ tries[w] + 1 >= MaxAttempts
                                   THEN "dead" ELSE "pending",
                       !.attempts = tries[w] + 1, !.due = FALSE, !.leased = FALSE]
  <2>2. Fit(row)
    BY <2>1, FailFits
  <2>3. delivery' = [delivery EXCEPT ![cur[w]] = row]
    BY <1>10 DEF Fail
  <2> HIDE DEF row
  <2>4. RowType'
    BY <2>1, <2>2, <2>3, OneRowFits
  <2> QED
    BY <1>10, <2>4, LeaveType DEF Fail, StoreType, hist
<1>11. ASSUME NEW e \in Endpoints, CreateEndpoint(e) \/ Reactivate(e)
       PROVE  LocalType' /\ RowType' /\ StoreType'
  BY <1>11 DEF CreateEndpoint, Reactivate, LocalType, InHand, RowType, AttemptsLeft,
               StoreType, local, hist
<1>12. ASSUME NEW e \in Endpoints, Deactivate(e) \/ DeleteEndpoint(e)
       PROVE  LocalType' /\ RowType' /\ StoreType'
  <2>1. disruptions' \in 0..MaxDisruptions
    BY <1>12, OutboundAssumption DEF Deactivate, DeleteEndpoint, Disrupt, StoreType
  <2> QED
    BY <1>12, <2>1 DEF Deactivate, DeleteEndpoint, SwitchOff, LocalType, InHand, RowType,
                       AttemptsLeft, StoreType, local
<1>13. ASSUME NEW d \in Deliveries, Retry(d) PROVE LocalType' /\ RowType' /\ StoreType'
  <2>1. RowType'
    BY <1>13, NewRowsFit, OneRowFits DEF Retry
  <2>2. disruptions' \in 0..MaxDisruptions
    BY <1>13, OutboundAssumption DEF Retry, Disrupt, StoreType
  <2> QED
    BY <1>13, <2>1, <2>2 DEF Retry, LocalType, InHand, StoreType, local, hist
<1>14. ASSUME NEW d \in Deliveries, Clock(d) PROVE LocalType' /\ RowType' /\ StoreType'
  <2>1. /\ Fit([delivery[d] EXCEPT !.due = TRUE])
        /\ Fit([delivery[d] EXCEPT !.leased = FALSE])
    BY AllFit, EditsFit DEF RowType
  <2>2. RowType'
    BY <1>14, <2>1, OneRowFits DEF Clock, ComesDue, LeaseExpires
  <2> QED
    BY <1>14, <2>2 DEF Clock, ComesDue, LeaseExpires, LocalType, InHand, StoreType,
                       local, hist
<1>15. ASSUME NEW s \in Sources, GrowsOld(s) PROVE LocalType' /\ RowType' /\ StoreType'
  BY <1>15 DEF GrowsOld, LocalType, InHand, RowType, AttemptsLeft, StoreType, local, hist
<1>16. ASSUME NEW w \in Workers, Crash(w) PROVE LocalType' /\ RowType' /\ StoreType'
  <2>1. disruptions' \in 0..MaxDisruptions
    BY <1>16, OutboundAssumption DEF Crash, Disrupt, StoreType
  <2>2. learnt' \in [Deliveries -> Nat]
    <3>1. CASE pc[w] = "complete" /\ learnt[cur[w]] > 0
      BY <1>16, <3>1 DEF Crash, StoreType, LocalType, InHand, Holding
    <3> QED
      BY <1>16, <3>1 DEF Crash, StoreType
  <2> QED
    BY <1>16, <2>1, <2>2, LeaveType DEF Crash, RowType, AttemptsLeft, StoreType, rows
<1>17. CASE UNCHANGED vars
  BY <1>17 DEF vars, LocalType, InHand, RowType, AttemptsLeft, StoreType
<1> QED
  BY <1>1, <1>2, <1>3, <1>4, <1>5, <1>6, <1>7, <1>8, <1>9, <1>10, <1>11, <1>12,
     <1>13, <1>14, <1>15, <1>16, <1>17 DEF Next, Step

\* Every reachable state is well typed: no delivery is ever tried more than
\* MaxAttempts times.
THEOREM TypeCorrect == Spec => []TypeOK
<1>1. Spec => []TypeInv
  BY TypeInit, TypeStep, PTL DEF Spec
<1> QED
  BY <1>1, PTL DEF TypeInv

-----------------------------------------------------------------------------
(***************************************************************************)
(* Leases and retention.                                                   *)
(***************************************************************************)

\* A worker that holds a delivery works under a lease that has not expired,
\* and no other worker holds it.
Leased ==
  \A w \in Workers : pc[w] \in Holding =>
    delivery[cur[w]].state = "working" /\ delivery[cur[w]].leased

Exclusive ==
  \A v, w \in Workers : pc[v] \in Holding /\ pc[w] \in Holding /\ cur[v] = cur[w]
                          => v = w

\* An event that is yet to come has no deliveries, not even purged ones.
Unsent == \A d \in Deliveries : event[d[1]] = "absent" => delivery[d].state = "absent"

LeaseInv == TypeInv /\ Leased /\ Exclusive /\ NoOrphans /\ Unsent

LEMMA LeaseInit == Init => LeaseInv
BY TypeInit DEF Init, LeaseInv, Leased, Exclusive, NoOrphans, Unsent, Holding, NoRow,
                Deliveries

\* A delivery's first component is its source.
LEMMA SourceOf == \A d \in Deliveries : d[1] \in Sources /\ d[2] \in Destinations
BY DEF Deliveries

LEMMA LeaseStep ==
  ASSUME LeaseInv, [Next]_vars
  PROVE  Leased' /\ Exclusive'
<1>a. LocalType /\ RowType
  BY TypeParts DEF LeaseInv
<1>b. \A w \in Workers : pc[w] \in Holding \union {"claim"} => cur[w] \in Deliveries
  BY <1>a DEF LocalType, InHand
<1> USE DEF LeaseInv, Leased, Exclusive, Holding, Goto
<1>1. ASSUME NEW s \in Sources, Enqueue(s) PROVE Leased' /\ Exclusive'
  <2>1. \A d \in Deliveries : delivery[d].state = "working" => delivery'[d] = delivery[d]
    BY <1>1 DEF Enqueue, Unsent
  <2> QED
    BY <1>1, <1>b, <2>1 DEF Enqueue, local
<1>2. ASSUME NEW s \in Sources, NEW e \in Endpoints, EnqueueTest(s, e)
      PROVE  Leased' /\ Exclusive'
  <2>1. \A d \in Deliveries : delivery[d].state = "working" => delivery'[d] = delivery[d]
    BY <1>2, <1>a DEF EnqueueTest, Unsent, RowType
  <2> QED
    BY <1>2, <1>b, <2>1 DEF EnqueueTest, local
<1>3. ASSUME NEW w \in Workers, PruneDeliveries(w) \/ PruneEvents(w) \/ Recover(w) \/ Again(w)
      PROVE  Leased' /\ Exclusive'
  <2>1. \A d \in Deliveries : delivery[d].state = "working" /\ delivery[d].leased
                                => delivery'[d] = delivery[d]
    BY <1>3, <1>a DEF PruneDeliveries, PruneEvents, Recover, Again, rows, RowType
  <2>2. cur' = cur /\ \E label \in PCs \ Holding : pc' = [pc EXCEPT ![w] = label]
    BY <1>3 DEF PruneDeliveries, PruneEvents, Recover, Again, local, PCs
  <2> QED
    BY <1>a, <1>b, <2>1, <2>2 DEF LocalType
<1>4. ASSUME NEW w \in Workers, Select(w) \/ NothingDue(w) \/ LoseClaim(w) \/ Crash(w)
      PROVE  Leased' /\ Exclusive'
  <2>1. /\ delivery' = delivery /\ \E d : cur' = [cur EXCEPT ![w] = d]
        /\ \E label \in PCs \ Holding : pc' = [pc EXCEPT ![w] = label]
    BY <1>4 DEF Select, NothingDue, LoseClaim, Crash, Leave, rows, PCs
  <2> QED
    BY <1>a, <2>1 DEF LocalType
<1>5. ASSUME NEW w \in Workers, Claim(w) PROVE Leased' /\ Exclusive'
  BY <1>5, <1>a, <1>b DEF Claim, local, LocalType, RowType, Row
<1>6. ASSUME NEW w \in Workers,
             ReadEndpoint(w) \/ ReadFails(w) \/ Accepted(w) \/ Refused(w)
      PROVE  Leased' /\ Exclusive'
  <2>1. /\ delivery' = delivery /\ cur' = cur /\ pc[w] \in Holding
        /\ \E label \in Holding : pc' = [pc EXCEPT ![w] = label]
    BY <1>6 DEF ReadEndpoint, ReadFails, Accepted, Refused, rows, local
  <2> QED
    BY <2>1, <1>a DEF LocalType
<1>7. ASSUME NEW w \in Workers, Complete(w) \/ Fail(w) PROVE Leased' /\ Exclusive'
  <2>1. /\ pc[w] \in Holding
        /\ \A d \in Deliveries : d # cur[w] => delivery'[d] = delivery[d]
        /\ cur' = [cur EXCEPT ![w] = NoDelivery] /\ pc' = [pc EXCEPT ![w] = "again"]
    BY <1>7, <1>a DEF Complete, Fail, Leave, RowType
  <2> QED
    BY <2>1, <1>a, <1>b DEF LocalType
<1>8. ASSUME NEW d \in Deliveries, Retry(d) \/ Clock(d) PROVE Leased' /\ Exclusive'
  BY <1>8, <1>a, <1>b DEF Retry, Clock, ComesDue, LeaseExpires, local, RowType, Row
<1>9. ASSUME \/ \E e \in Endpoints : \/ CreateEndpoint(e) \/ Deactivate(e)
                                     \/ DeleteEndpoint(e) \/ Reactivate(e)
             \/ \E s \in Sources : GrowsOld(s)
             \/ UNCHANGED vars
      PROVE  Leased' /\ Exclusive'
  BY <1>9 DEF CreateEndpoint, Deactivate, DeleteEndpoint, SwitchOff, Reactivate,
              GrowsOld, local, vars
<1> QED
  BY <1>1, <1>2, <1>3, <1>4, <1>5, <1>6, <1>7, <1>8, <1>9 DEF Next, Step

\* A step that neither withdraws an event nor makes a row keeps both facts.
LEMMA EventsKept ==
  ASSUME LeaseInv,
         \A s \in Sources : \/ event'[s] = event[s]
                            \/ event[s] = "fresh" /\ event'[s] = "old",
         \A d \in Deliveries : /\ delivery[d].state = "absent" => delivery'[d] = delivery[d]
                               /\ delivery[d].state = "purged" => delivery'[d] = delivery[d]
  PROVE  NoOrphans' /\ Unsent'
BY SourceOf DEF LeaseInv, NoOrphans, Unsent

LEMMA RetentionStep ==
  ASSUME LeaseInv, [Next]_vars
  PROVE  NoOrphans' /\ Unsent'
<1>a. LocalType /\ RowType /\ StoreType
  BY TypeParts DEF LeaseInv
<1>b. \A w \in Workers : pc[w] \in Holding \union {"claim"} => cur[w] \in Deliveries
  BY <1>a DEF LocalType, InHand
<1>1. ASSUME NEW s \in Sources, Enqueue(s) PROVE NoOrphans' /\ Unsent'
  BY <1>1, <1>a, SourceOf DEF Enqueue, LeaseInv, NoOrphans, Unsent, StoreType
<1>2. ASSUME NEW s \in Sources, NEW e \in Endpoints, EnqueueTest(s, e)
      PROVE  NoOrphans' /\ Unsent'
  BY <1>2, <1>a, SourceOf DEF EnqueueTest, LeaseInv, NoOrphans, Unsent, StoreType, RowType
<1>3. ASSUME NEW w \in Workers, PruneDeliveries(w)
      PROVE  NoOrphans' /\ Unsent'
  BY <1>3, EventsKept DEF PruneDeliveries
<1>4. ASSUME NEW w \in Workers, PruneEvents(w)
      PROVE  NoOrphans' /\ Unsent'
  BY <1>4, <1>a, SourceOf DEF PruneEvents, DeliveriesOf, LeaseInv, NoOrphans, Unsent
<1>5. ASSUME NEW w \in Workers, Recover(w) \/ Claim(w) \/ Complete(w) \/ Fail(w)
      PROVE  NoOrphans' /\ Unsent'
  <2>1. CASE Recover(w)
    BY <2>1, EventsKept DEF Recover
  <2>2. CASE Claim(w) \/ Complete(w) \/ Fail(w)
    <3>1. delivery[cur[w]].state \in {"pending", "working"} /\ cur[w] \in Deliveries
      BY <2>2, <1>b DEF Claim, Complete, Fail, Holding, LeaseInv, Leased
    <3>2. \A d \in Deliveries : d # cur[w] => delivery'[d] = delivery[d]
      BY <2>2, <1>a DEF Claim, Complete, Fail, RowType
    <3>3. UNCHANGED event
      BY <2>2 DEF Claim, Complete, Fail
    <3> QED
      BY <3>1, <3>2, <3>3, EventsKept
  <2> QED
    BY <1>5, <2>1, <2>2
<1>6. ASSUME NEW d \in Deliveries, Retry(d) \/ Clock(d) PROVE NoOrphans' /\ Unsent'
  <2>1. delivery[d].state \notin {"absent", "purged"}
        /\ \A c \in Deliveries : c # d => delivery'[c] = delivery[c]
    BY <1>6, <1>a DEF Retry, Clock, ComesDue, LeaseExpires, RowType
  <2>2. UNCHANGED event
    BY <1>6 DEF Retry, Clock, ComesDue, LeaseExpires
  <2> QED
    BY <2>1, <2>2, EventsKept
<1>7. ASSUME NEW s \in Sources, GrowsOld(s) PROVE NoOrphans' /\ Unsent'
  BY <1>7, <1>a, EventsKept DEF GrowsOld, StoreType
<1>8. ASSUME NEW w \in Workers,
             \/ Select(w) \/ NothingDue(w) \/ LoseClaim(w) \/ ReadEndpoint(w)
             \/ ReadFails(w) \/ Accepted(w) \/ Refused(w) \/ Again(w) \/ Crash(w)
      PROVE  UNCHANGED <<event, delivery>>
  BY <1>8 DEF Select, NothingDue, LoseClaim, ReadEndpoint, ReadFails, Accepted,
              Refused, Again, Crash, rows
<1>9. ASSUME \/ \E e \in Endpoints : \/ CreateEndpoint(e) \/ Deactivate(e)
                                     \/ DeleteEndpoint(e) \/ Reactivate(e)
             \/ UNCHANGED vars
      PROVE  UNCHANGED <<event, delivery>>
  BY <1>9 DEF CreateEndpoint, Deactivate, DeleteEndpoint, SwitchOff, Reactivate, vars
<1>10. CASE UNCHANGED <<event, delivery>>
  BY <1>10, EventsKept
<1> QED
  BY <1>1, <1>2, <1>3, <1>4, <1>5, <1>6, <1>7, <1>8, <1>9, <1>10 DEF Next, Step

LEMMA LeaseInvariant == Spec => []LeaseInv
<1>1. LeaseInv /\ [Next]_vars => LeaseInv'
  BY TypeStep, LeaseStep, RetentionStep DEF LeaseInv
<1> QED
  BY LeaseInit, <1>1, PTL DEF Spec

\* However many workers run and wherever they die, retention leaves every
\* event whose deliveries may still be selected, tried again or listed.
THEOREM NothingOrphaned == Spec => []NoOrphans
<1>1. LeaseInv => NoOrphans
  BY DEF LeaseInv
<1> QED
  BY <1>1, LeaseInvariant, PTL

-----------------------------------------------------------------------------
(***************************************************************************)
(* What "done" stands for.                                                 *)
(***************************************************************************)

\* Whose endpoint is off is excused, from the enqueueing or the switching off.
OffIsExcused ==
  \A d \in Deliveries :
    delivery[d].state \notin {"absent", "purged"} /\ d[2] \in Endpoints
      /\ endpoint[d[2]] # "active" => d \in excused

\* Only the deliveries of webhooks look for an endpoint, and none is about to
\* be completed without a reason.
AtWebhook == \A w \in Workers : pc[w] = "endpoint" => cur[w][2] \in Endpoints

Answered == \A w \in Workers : pc[w] = "complete" =>
              cur[w] \in received \union excused \union unread

DoneInv == LeaseInv /\ OffIsExcused /\ AtWebhook /\ Answered /\ DoneUnlessUnread

\* What is accepted, excused or unread stays so.
LEMMA HistoryGrows ==
  [Next]_vars => /\ received \subseteq received' /\ excused \subseteq excused'
                 /\ unread \subseteq unread'
BY DEF Next, Step, Clock, vars, hist, PruneDeliveries, PruneEvents, Recover, Select,
       NothingDue, Claim, LoseClaim, ReadEndpoint, Accepted, Refused, Complete, Fail,
       Again, ReadFails, Crash, Enqueue, GrowsOld, EnqueueTest, CreateEndpoint,
       Deactivate, DeleteEndpoint, SwitchOff, Reactivate, Retry, ComesDue, LeaseExpires

LEMMA DoneInit == Init => DoneInv
BY LeaseInit DEF Init, DoneInv, OffIsExcused, AtWebhook, Answered, DoneUnlessUnread,
                 DoneOnly, NoRow

LEMMA DoneStep ==
  ASSUME DoneInv, [Next]_vars
  PROVE  OffIsExcused' /\ AtWebhook' /\ Answered' /\ DoneUnlessUnread'
<1>a. LocalType /\ RowType
  BY TypeParts DEF DoneInv, LeaseInv
<1>b. \A w \in Workers : pc[w] \in Holding \union {"claim"} => cur[w] \in Deliveries
  BY <1>a DEF LocalType, InHand
<1>c. \A w \in Workers : pc[w] \in Holding => delivery[cur[w]].state = "working"
  BY DEF DoneInv, LeaseInv, Leased
<1> USE DEF DoneInv, OffIsExcused, AtWebhook, Answered, DoneUnlessUnread, DoneOnly,
            Holding, Goto
<1>1. ASSUME NEW s \in Sources, Enqueue(s)
      PROVE  OffIsExcused' /\ AtWebhook' /\ Answered' /\ DoneUnlessUnread'
  <2>1. \A d \in Deliveries : \/ delivery'[d] = delivery[d]
                              \/ /\ delivery'[d].state = "pending"
                                 /\ d[2] \in Endpoints => endpoint[d[2]] = "active"
    BY <1>1, OutboundAssumption DEF Enqueue, Audience, Subscribers, Queued, NoRow
  <2> QED
    BY <1>1, <2>1 DEF Enqueue, local, hist
<1>2. ASSUME NEW s \in Sources, NEW e \in Endpoints, EnqueueTest(s, e)
      PROVE  OffIsExcused' /\ AtWebhook' /\ Answered' /\ DoneUnlessUnread'
  <2>1. \A d \in Deliveries : \/ delivery'[d] = delivery[d]
                              \/ d = <<s, e>> /\ delivery'[d].state = "pending"
    BY <1>2, <1>a DEF EnqueueTest, RowType, Queued, NoRow
  <2> QED
    BY <1>2, <2>1 DEF EnqueueTest, local
<1>3. ASSUME NEW w \in Workers, PruneDeliveries(w) \/ PruneEvents(w) \/ Recover(w) \/ Again(w)
      PROVE  OffIsExcused' /\ AtWebhook' /\ Answered' /\ DoneUnlessUnread'
  <2>1. \A d \in Deliveries : \/ delivery'[d] = delivery[d]
                              \/ delivery'[d].state = "purged"
                              \/ delivery[d].state = "working" /\ delivery'[d].state = "pending"
    BY <1>3, <1>a DEF PruneDeliveries, PruneEvents, Recover, Again, rows, RowType, Row, NoRow
  <2>2. /\ UNCHANGED <<endpoint, cur, received, excused, unread>>
        /\ \E label \in PCs \ Holding : pc' = [pc EXCEPT ![w] = label]
    BY <1>3 DEF PruneDeliveries, PruneEvents, Recover, Again, rows, local, hist, PCs
  <2> QED
    BY <1>a, <2>1, <2>2 DEF LocalType
<1>4. ASSUME NEW w \in Workers, Select(w) \/ NothingDue(w) \/ LoseClaim(w) \/ Crash(w)
      PROVE  OffIsExcused' /\ AtWebhook' /\ Answered' /\ DoneUnlessUnread'
  <2>1. /\ UNCHANGED <<delivery, endpoint, received, excused, unread>>
        /\ \E d : cur' = [cur EXCEPT ![w] = d]
        /\ \E label \in PCs \ Holding : pc' = [pc EXCEPT ![w] = label]
    BY <1>4 DEF Select, NothingDue, LoseClaim, Crash, Leave, rows, hist, PCs
  <2> QED
    BY <1>a, <2>1 DEF LocalType
<1>5. ASSUME NEW w \in Workers, Claim(w)
      PROVE  OffIsExcused' /\ AtWebhook' /\ Answered' /\ DoneUnlessUnread'
  <2>1. cur[w] \in Deliveries /\ delivery[cur[w]].state = "pending"
    BY <1>5, <1>b DEF Claim
  <2>2. cur[w][2] = Operator \/ cur[w][2] \in Endpoints
    BY <2>1, SourceOf DEF Destinations
  <2>3. /\ delivery'[cur[w]].state = "working"
        /\ \A d \in Deliveries : d # cur[w] => delivery'[d] = delivery[d]
    BY <1>5, <2>1, <1>a DEF Claim, RowType, Row
  <2> QED
    BY <1>5, <1>a, <2>1, <2>2, <2>3 DEF Claim, local, hist, LocalType
<1>6. ASSUME NEW w \in Workers,
             ReadEndpoint(w) \/ ReadFails(w) \/ Accepted(w) \/ Refused(w)
      PROVE  OffIsExcused' /\ AtWebhook' /\ Answered' /\ DoneUnlessUnread'
  <2>1. UNCHANGED <<delivery, endpoint, cur>>
    BY <1>6 DEF ReadEndpoint, ReadFails, Accepted, Refused, rows, local
  <2>2. \A v \in Workers : v # w => pc'[v] = pc[v]
    BY <1>6, <1>a DEF ReadEndpoint, ReadFails, Accepted, Refused, LocalType
  <2>3. pc'[w] # "endpoint" /\ (pc'[w] = "complete" =>
           cur[w] \in received' \union excused' \union unread')
    BY <1>6, <1>a, <1>b, <1>c
       DEF ReadEndpoint, ReadFails, Accepted, Refused, LocalType, hist
  <2> QED
    BY <2>1, <2>2, <2>3, HistoryGrows
<1>7. ASSUME NEW w \in Workers, Complete(w) \/ Fail(w)
      PROVE  OffIsExcused' /\ AtWebhook' /\ Answered' /\ DoneUnlessUnread'
  <2>1. cur[w] \in Deliveries /\ delivery[cur[w]].state = "working"
    BY <1>7, <1>b, <1>c DEF Complete, Fail
  <2>2. /\ \A d \in Deliveries : d # cur[w] => delivery'[d] = delivery[d]
        /\ cur' = [cur EXCEPT ![w] = NoDelivery] /\ pc' = [pc EXCEPT ![w] = "again"]
        /\ UNCHANGED <<endpoint, received, excused, unread>>
    BY <1>7, <1>a DEF Complete, Fail, Leave, RowType, hist
  <2>3. delivery'[cur[w]].state = "done" =>
          cur[w] \in received \union excused \union unread
    <3>1. CASE Complete(w)
      BY <3>1 DEF Complete
    <3>2. CASE Fail(w)
      BY <3>2, <2>1, <1>a DEF Fail, RowType, Row
    <3> QED
      BY <1>7, <3>1, <3>2
  <2> QED
    BY <2>1, <2>2, <2>3, <1>a DEF LocalType
<1>8. ASSUME NEW d \in Deliveries, Retry(d) \/ Clock(d)
      PROVE  OffIsExcused' /\ AtWebhook' /\ Answered' /\ DoneUnlessUnread'
  <2>1. \A c \in Deliveries : \/ delivery'[c].state = delivery[c].state
                              \/ delivery[c].state = "dead" /\ delivery'[c].state = "pending"
    <3>1. CASE Retry(d)
      BY <3>1, <1>a DEF Retry, RowType, Row
    <3>2. CASE Clock(d)
      BY <3>2, <1>a DEF Clock, ComesDue, LeaseExpires, RowType, Row
    <3> QED
      BY <1>8, <3>1, <3>2
  <2> QED
    BY <1>8, <2>1 DEF Retry, Clock, ComesDue, LeaseExpires, local, hist
<1>9. ASSUME NEW e \in Endpoints, CreateEndpoint(e) \/ Reactivate(e)
      PROVE  OffIsExcused' /\ AtWebhook' /\ Answered' /\ DoneUnlessUnread'
  <2>1. \A f \in Endpoints : endpoint'[f] # "active" => endpoint[f] # "active"
    BY <1>9, TypeParts DEF CreateEndpoint, Reactivate, LeaseInv, StoreType
  <2> QED
    BY <1>9, <2>1 DEF CreateEndpoint, Reactivate, local, hist
<1>10. ASSUME NEW e \in Endpoints, Deactivate(e) \/ DeleteEndpoint(e)
       PROVE  OffIsExcused' /\ AtWebhook' /\ Answered' /\ DoneUnlessUnread'
  <2>1. \A f \in Endpoints : f # e => endpoint'[f] = endpoint[f]
    BY <1>10, TypeParts DEF Deactivate, DeleteEndpoint, SwitchOff, LeaseInv, StoreType
  <2> QED
    BY <1>10, <2>1 DEF Deactivate, DeleteEndpoint, SwitchOff, local
<1>11. ASSUME (\E s \in Sources : GrowsOld(s)) \/ UNCHANGED vars
       PROVE  OffIsExcused' /\ AtWebhook' /\ Answered' /\ DoneUnlessUnread'
  BY <1>11 DEF GrowsOld, local, hist, vars
<1> QED
  BY <1>1, <1>2, <1>3, <1>4, <1>5, <1>6, <1>7, <1>8, <1>9, <1>10, <1>11 DEF Next, Step

LEMMA DoneInvariant == Spec => []DoneInv
<1>1. DoneInv => LeaseInv
  BY DEF DoneInv
<1>2. LeaseInv' /\ DoneInv /\ [Next]_vars => DoneInv'
  BY DoneStep DEF DoneInv
<1> QED
  BY DoneInit, LeaseInvariant, <1>1, <1>2, PTL DEF Spec

\* A delivery shown as done was accepted, or its endpoint was off at some
\* time since it was enqueued, or could not be read: no refusal, lost answer,
\* crash, expired lease or manual retry ever passes for an acceptance.
THEOREM DoneIsHonest == Spec => []DoneUnlessUnread
<1>1. DoneInv => DoneUnlessUnread
  BY DEF DoneInv
<1> QED
  BY <1>1, DoneInvariant, PTL

-----------------------------------------------------------------------------
(***************************************************************************)
(* Acceptances that were learnt.                                           *)
(***************************************************************************)

\* Once the server has learnt of an acceptance, the delivery is done or the
\* worker that learnt of it is about to say so.
Concluding(d) == \E w \in Workers : pc[w] = "complete" /\ cur[w] = d

LearntIsKept ==
  \A d \in Deliveries : learnt[d] > 0 =>
    delivery[d].state \in {"done", "purged"} \/ Concluding(d)

LearntInv == LeaseInv /\ RepeatsOnlyAfterLoss /\ LearntIsKept

LEMMA LearntInit == Init => LearntInv
BY LeaseInit DEF Init, LearntInv, RepeatsOnlyAfterLoss, LearntIsKept

\* A step that keeps the workers at "complete", learns nothing and leaves done
\* rows done keeps both facts.
LEMMA LearntKept ==
  ASSUME LearntInv, UNCHANGED learnt,
         \A w \in Workers : pc[w] = "complete" => pc'[w] = "complete" /\ cur'[w] = cur[w],
         \A d \in Deliveries : delivery[d].state \in {"done", "purged"} =>
                                 delivery'[d].state \in {"done", "purged"}
  PROVE  RepeatsOnlyAfterLoss' /\ LearntIsKept'
BY DEF LearntInv, RepeatsOnlyAfterLoss, LearntIsKept, Concluding

LEMMA LearntStep ==
  ASSUME LearntInv, [Next]_vars
  PROVE  RepeatsOnlyAfterLoss' /\ LearntIsKept'
<1>a. LocalType /\ RowType /\ StoreType /\ Leased /\ Exclusive
  BY TypeParts DEF LearntInv, LeaseInv
<1>b. \A w \in Workers : pc[w] \in Holding \union {"claim"} => cur[w] \in Deliveries
  BY <1>a DEF LocalType, InHand
<1> USE DEF Goto
<1>1. ASSUME NEW s \in Sources, Enqueue(s)
      PROVE  RepeatsOnlyAfterLoss' /\ LearntIsKept'
  <2>1. \A d \in Deliveries : delivery[d].state # "absent" => delivery'[d] = delivery[d]
    BY <1>1 DEF Enqueue, LearntInv, LeaseInv, Unsent
  <2> QED
    BY <1>1, <2>1, LearntKept DEF Enqueue, local, hist
<1>2. ASSUME NEW s \in Sources, NEW e \in Endpoints, EnqueueTest(s, e)
      PROVE  RepeatsOnlyAfterLoss' /\ LearntIsKept'
  <2>1. \A d \in Deliveries : delivery[d].state # "absent" => delivery'[d] = delivery[d]
    BY <1>2, <1>a DEF EnqueueTest, LearntInv, LeaseInv, Unsent, RowType
  <2> QED
    BY <1>2, <2>1, LearntKept DEF EnqueueTest, local
<1>3. ASSUME NEW w \in Workers,
             \/ PruneDeliveries(w) \/ PruneEvents(w) \/ Recover(w) \/ Select(w)
             \/ NothingDue(w) \/ Claim(w) \/ LoseClaim(w) \/ ReadEndpoint(w)
             \/ ReadFails(w) \/ Refused(w) \/ Fail(w) \/ Again(w)
      PROVE  RepeatsOnlyAfterLoss' /\ LearntIsKept'
  <2>1. UNCHANGED learnt
    BY <1>3 DEF PruneDeliveries, PruneEvents, Recover, Select, NothingDue, Claim,
                LoseClaim, ReadEndpoint, ReadFails, Refused, Fail, Again, hist
  <2>2. pc[w] # "complete" /\ \A v \in Workers : v # w => pc'[v] = pc[v] /\ cur'[v] = cur[v]
    BY <1>3, <1>a DEF PruneDeliveries, PruneEvents, Recover, Select, NothingDue, Claim,
                LoseClaim, ReadEndpoint, ReadFails, Refused, Fail, Again, Leave, local,
                LocalType
  <2>3. \A d \in Deliveries : delivery[d].state \in {"done", "purged"} =>
                                delivery'[d].state \in {"done", "purged"}
    <3>1. CASE PruneDeliveries(w) \/ Recover(w)
      BY <3>1 DEF PruneDeliveries, Recover, NoRow
    <3>2. CASE Claim(w) \/ Fail(w)
      <4>1. cur[w] \in Deliveries /\ delivery[cur[w]].state \in {"pending", "working"}
        BY <3>2, <1>a, <1>b DEF Claim, Fail, Leased, Holding
      <4> QED
        BY <3>2, <4>1, <1>a DEF Claim, Fail, RowType
    <3>3. CASE UNCHANGED delivery
      BY <3>3
    <3> QED
      BY <1>3, <3>1, <3>2, <3>3
         DEF PruneEvents, Select, NothingDue, LoseClaim, ReadEndpoint, ReadFails,
             Refused, Again, rows
  <2> QED
    BY <2>1, <2>2, <2>3, LearntKept
<1>4. ASSUME NEW w \in Workers, Accepted(w)
      PROVE  RepeatsOnlyAfterLoss' /\ LearntIsKept'
  <2>1. /\ cur[w] \in Deliveries /\ delivery[cur[w]].state = "working"
        /\ ~Concluding(cur[w])
    BY <1>4, <1>a, <1>b DEF Accepted, Leased, Exclusive, Holding, Concluding
  <2>2. learnt[cur[w]] = 0
    BY <2>1, <1>a DEF LearntInv, LearntIsKept, StoreType
  <2>3. /\ UNCHANGED <<delivery, cur>>
        /\ \A v \in Workers : v # w => pc'[v] = pc[v]
        /\ pc[w] = "send"
        /\ \/ learnt' = learnt
           \/ learnt' = [learnt EXCEPT ![cur[w]] = 1] /\ pc'[w] = "complete"
    BY <1>4, <1>a, <2>1, <2>2 DEF Accepted, rows, local, LocalType, StoreType
  <2> QED
    BY <2>1, <2>2, <2>3, <1>a
       DEF LearntInv, RepeatsOnlyAfterLoss, LearntIsKept, Concluding, StoreType
<1>5. ASSUME NEW w \in Workers, Complete(w)
      PROVE  RepeatsOnlyAfterLoss' /\ LearntIsKept'
  <2>1. cur[w] \in Deliveries
    BY <1>5, <1>b DEF Complete, Holding
  <2>2. /\ delivery'[cur[w]].state = "done"
        /\ \A d \in Deliveries : d # cur[w] => delivery'[d] = delivery[d]
        /\ \A v \in Workers : v # w => pc'[v] = pc[v] /\ cur'[v] = cur[v]
        /\ UNCHANGED learnt
    BY <1>5, <2>1, <1>a DEF Complete, Leave, RowType, Row, hist, LocalType
  <2> QED
    BY <2>1, <2>2 DEF LearntInv, RepeatsOnlyAfterLoss, LearntIsKept, Concluding
<1>6. ASSUME NEW w \in Workers, Crash(w)
      PROVE  RepeatsOnlyAfterLoss' /\ LearntIsKept'
  <2>1. /\ UNCHANGED delivery
        /\ \A v \in Workers : v # w => pc'[v] = pc[v] /\ cur'[v] = cur[v]
    BY <1>6, <1>a DEF Crash, Leave, rows, LocalType
  <2>2. CASE pc[w] = "complete" /\ learnt[cur[w]] > 0
    <3>1. cur[w] \in Deliveries /\ learnt[cur[w]] = 1
      BY <2>2, <1>a, <1>b DEF Holding, StoreType, LearntInv, RepeatsOnlyAfterLoss
    <3>2. learnt' = [learnt EXCEPT ![cur[w]] = 0]
      BY <1>6, <2>2, <3>1, <1>a DEF Crash, StoreType
    <3> QED
      BY <2>1, <3>1, <3>2, <1>a
         DEF LearntInv, RepeatsOnlyAfterLoss, LearntIsKept, Concluding, StoreType
  <2>3. CASE ~(pc[w] = "complete" /\ learnt[cur[w]] > 0)
    <3>1. UNCHANGED learnt
      BY <1>6, <2>3 DEF Crash
    <3> QED
      BY <2>1, <2>3, <3>1 DEF LearntInv, RepeatsOnlyAfterLoss, LearntIsKept, Concluding
  <2> QED
    BY <2>2, <2>3
<1>7. ASSUME NEW d \in Deliveries, Retry(d) \/ Clock(d)
      PROVE  RepeatsOnlyAfterLoss' /\ LearntIsKept'
  <2>1. /\ delivery[d].state \notin {"done", "purged"}
        /\ \A c \in Deliveries : c # d => delivery'[c] = delivery[c]
        /\ UNCHANGED <<pc, cur, learnt>>
    BY <1>7, <1>a DEF Retry, Clock, ComesDue, LeaseExpires, RowType, local, hist
  <2> QED
    BY <2>1, LearntKept
<1>8. ASSUME \/ \E e \in Endpoints : \/ CreateEndpoint(e) \/ Deactivate(e)
                                     \/ DeleteEndpoint(e) \/ Reactivate(e)
             \/ \E s \in Sources : GrowsOld(s)
             \/ UNCHANGED vars
      PROVE  RepeatsOnlyAfterLoss' /\ LearntIsKept'
  <2>1. UNCHANGED <<delivery, pc, cur, learnt>>
    BY <1>8 DEF CreateEndpoint, Deactivate, DeleteEndpoint, SwitchOff, Reactivate,
                GrowsOld, local, hist, vars
  <2> QED
    BY <2>1, LearntKept
<1> QED
  BY <1>1, <1>2, <1>3, <1>4, <1>5, <1>6, <1>7, <1>8 DEF Next, Step

\* Claims, leases, retries and deploys that run two workers never repeat a
\* delivery whose acceptance was learnt: a destination sees a delivery twice
\* only when an answer, or the worker that had it, was lost.
THEOREM NoRepeatWithoutLoss == Spec => []RepeatsOnlyAfterLoss
<1>1. LearntInv => LeaseInv /\ RepeatsOnlyAfterLoss
  BY DEF LearntInv
<1>2. LeaseInv' /\ LearntInv /\ [Next]_vars => LearntInv'
  BY LearntStep DEF LearntInv
<1> QED
  BY LearntInit, LeaseInvariant, <1>1, <1>2, PTL DEF Spec

-----------------------------------------------------------------------------
(***************************************************************************)
(* The deliveries implement DeliveryQueue.                                 *)
(***************************************************************************)
Stage == [d \in Deliveries |-> StageOf(delivery[d])]

LEMMA QueueInitial == Init => Queue!QueueInit
BY DEF Init, Queue!QueueInit, StageOf, NoRow

LEMMA StageIsStage == RowType => Stage \in [Deliveries -> Queue!Stages]
BY DEF RowType, Row, Stage, StageOf, Queue!Stages

\* A step that changes one row moves one delivery.
LEMMA StageMoves ==
  ASSUME RowType, NEW d \in Deliveries, NEW r, delivery' = [delivery EXCEPT ![d] = r]
  PROVE  Stage' = [Stage EXCEPT ![d] = StageOf(r)]
BY DEF Stage, RowType

LEMMA QueueStep == DoneInv /\ [Next]_vars => [Queue!QueueNext]_Queue!queue
<1> SUFFICES ASSUME DoneInv, [Next]_vars PROVE Queue!QueueNext
    OBVIOUS
<1>a. LocalType /\ RowType /\ Leased
  BY TypeParts DEF DoneInv, LeaseInv
<1>b. RowType'
  BY <1>a, TypeStep, TypeParts DEF DoneInv, LeaseInv, TypeInv, TypeOK, RowType
<1>c. \A w \in Workers : pc[w] \in Holding =>
        cur[w] \in Deliveries /\ delivery[cur[w]].state = "working"
        /\ Stage[cur[w]] = "queued"
  BY <1>a DEF LocalType, InHand, Leased, Stage, StageOf
<1>d. Stage' \in [Deliveries -> Queue!Stages]
  BY <1>b, StageIsStage DEF RowType, Row, Stage, StageOf, Queue!Stages
<1>e. excused \union unread \subseteq (excused \union unread)'
  BY HistoryGrows
<1> SUFFICES \/ Queue!Submit \/ Queue!Purge \/ UNCHANGED <<Stage, received>>
             \/ \E d \in Deliveries : \/ Queue!Perform(d) \/ Queue!Settle(d)
                                      \/ Queue!GiveUp(d) \/ Queue!Revive(d)
    BY <1>e DEF Queue!QueueNext, Queue!Excuse, Stage
<1>1. ASSUME NEW s \in Sources, Enqueue(s) \/ \E e \in Endpoints : EnqueueTest(s, e)
      PROVE  Queue!Submit
  <2>1. \A d \in Deliveries : \/ delivery'[d] = delivery[d]
                              \/ delivery[d].state = "absent"
                                 /\ delivery'[d].state = "pending"
    <3>1. CASE Enqueue(s)
      BY <3>1 DEF Enqueue, Queued, NoRow, DoneInv, LeaseInv, Unsent
    <3>2. ASSUME NEW e \in Endpoints, EnqueueTest(s, e)
          PROVE  \A d \in Deliveries : \/ delivery'[d] = delivery[d]
                                       \/ delivery[d].state = "absent"
                                          /\ delivery'[d].state = "pending"
      BY <3>2, <1>a DEF EnqueueTest, Queued, NoRow, DoneInv, LeaseInv, Unsent, RowType
    <3> QED
      BY <1>1, <3>1, <3>2
  <2>2. UNCHANGED received
    BY <1>1 DEF Enqueue, EnqueueTest, hist
  <2>3. \A d \in Deliveries : Stage'[d] # Stage[d] =>
          Stage[d] = "absent" /\ Stage'[d] = "queued"
    BY <2>1 DEF Stage, StageOf
  <2> QED
    BY <1>d, <2>2, <2>3 DEF Queue!Submit, Stage
<1>2. ASSUME NEW w \in Workers, PruneDeliveries(w)
      PROVE  Queue!Purge
  <2>1. \A d \in Deliveries : \/ delivery'[d] = delivery[d]
                              \/ delivery[d].state \in {"done", "dead"}
                                 /\ delivery'[d].state = "purged"
    BY <1>2 DEF PruneDeliveries, NoRow
  <2>2. UNCHANGED received
    BY <1>2 DEF PruneDeliveries, hist
  <2>3. \A d \in Deliveries : Stage'[d] # Stage[d] =>
          Stage[d] \in {"done", "dead"} /\ Stage'[d] = "purged"
    BY <2>1 DEF Stage, StageOf
  <2> QED
    BY <1>d, <2>2, <2>3 DEF Queue!Purge, Stage
<1>3. ASSUME NEW w \in Workers, Accepted(w)
      PROVE  \E d \in Deliveries : Queue!Perform(d)
  BY <1>3, <1>c DEF Accepted, Holding, Queue!Perform, Stage, rows
<1>4. ASSUME NEW w \in Workers, Complete(w)
      PROVE  \E d \in Deliveries : Queue!Settle(d)
  <2>1. cur[w] \in Deliveries /\ Stage[cur[w]] = "queued"
    BY <1>4, <1>c DEF Complete, Holding
  <2>2. cur[w] \in received \union (excused \union unread)
    BY <1>4 DEF Complete, DoneInv, Answered
  <2> DEFINE row == [delivery[cur[w]] EXCEPT !.state = "done", !.leased = FALSE]
  <2>3. delivery' = [delivery EXCEPT ![cur[w]] = row] /\ UNCHANGED received
    BY <1>4 DEF Complete, hist
  <2>4. StageOf(row) = "done"
    BY <2>1, <1>a DEF RowType, Row, StageOf
  <2> HIDE DEF row
  <2>5. Stage' = [Stage EXCEPT ![cur[w]] = "done"]
    BY <1>a, <2>1, <2>3, <2>4, StageMoves
  <2> QED
    BY <2>1, <2>2, <2>3, <2>5 DEF Queue!Settle, Queue!Move, Stage
<1>5. ASSUME NEW w \in Workers, Fail(w)
      PROVE  UNCHANGED <<Stage, received>> \/ \E d \in Deliveries : Queue!GiveUp(d)
  <2>1. cur[w] \in Deliveries /\ Stage[cur[w]] = "queued"
    BY <1>5, <1>c DEF Fail, Holding
  <2>2. /\ delivery'[cur[w]].state \in {"dead", "pending"}
        /\ \A d \in Deliveries : d # cur[w] => delivery'[d] = delivery[d]
    BY <1>5, <2>1, <1>a DEF Fail, RowType, Row
  <2>3. UNCHANGED received
    BY <1>5 DEF Fail, hist
  <2>4. CASE delivery'[cur[w]].state = "dead"
    <3>1. Stage' = [Stage EXCEPT ![cur[w]] = "dead"]
      BY <2>1, <2>2, <2>4 DEF Stage, StageOf
    <3> QED
      BY <2>1, <2>3, <3>1 DEF Queue!GiveUp, Queue!Move, Stage
  <2>5. CASE delivery'[cur[w]].state = "pending"
    <3>1. \A d \in Deliveries : StageOf(delivery'[d]) = StageOf(delivery[d])
      BY <2>1, <2>2, <2>5 DEF Stage, StageOf
    <3> QED
      BY <2>3, <3>1 DEF Stage
  <2> QED
    BY <2>2, <2>4, <2>5
<1>6. ASSUME NEW d \in Deliveries, Retry(d)
      PROVE  Queue!Revive(d)
  <2>1. delivery' = [delivery EXCEPT ![d] = [NoRow EXCEPT !.state = "pending",
                                                          !.due = TRUE]]
        /\ UNCHANGED received
    BY <1>6 DEF Retry, hist
  <2>2. StageOf([NoRow EXCEPT !.state = "pending", !.due = TRUE]) = "queued"
    BY DEF StageOf, NoRow
  <2>3. Stage[d] = "dead"
    BY <1>6 DEF Retry, Stage, StageOf
  <2>4. Stage' = [Stage EXCEPT ![d] = "queued"]
    BY <1>a, <2>1, <2>2, StageMoves
  <2> QED
    BY <2>1, <2>3, <2>4 DEF Queue!Revive, Queue!Move, Stage
\* Every other step keeps each delivery in its stage.
<1>7. ASSUME UNCHANGED received,
             \A d \in Deliveries : StageOf(delivery'[d]) = StageOf(delivery[d])
      PROVE  UNCHANGED <<Stage, received>>
  BY <1>7 DEF Stage
<1>8. ASSUME NEW w \in Workers, Recover(w) \/ Claim(w)
      PROVE  UNCHANGED <<Stage, received>>
  <2>1. CASE Recover(w)
    BY <2>1, <1>a, <1>7 DEF Recover, StageOf, RowType, Row, hist
  <2>2. CASE Claim(w)
    BY <2>2, <1>a, <1>7 DEF Claim, StageOf, RowType, Row, LocalType, InHand, hist
  <2> QED
    BY <1>8, <2>1, <2>2
<1>9. ASSUME NEW d \in Deliveries, Clock(d)
      PROVE  UNCHANGED <<Stage, received>>
  BY <1>9, <1>a, <1>7 DEF Clock, ComesDue, LeaseExpires, StageOf, RowType, Row, hist
<1>10. ASSUME NEW w \in Workers,
              \/ PruneEvents(w) \/ Select(w) \/ NothingDue(w) \/ LoseClaim(w)
              \/ ReadEndpoint(w) \/ Refused(w) \/ Again(w) \/ ReadFails(w) \/ Crash(w)
       PROVE  UNCHANGED <<Stage, received>>
  BY <1>10 DEF PruneEvents, Select, NothingDue, LoseClaim, ReadEndpoint, Refused, Again,
               ReadFails, Crash, rows, hist, Stage
<1>11. ASSUME \/ \E e \in Endpoints : \/ CreateEndpoint(e) \/ Deactivate(e)
                                      \/ DeleteEndpoint(e) \/ Reactivate(e)
              \/ \E s \in Sources : GrowsOld(s)
              \/ UNCHANGED vars
       PROVE  UNCHANGED <<Stage, received>>
  BY <1>11 DEF CreateEndpoint, Deactivate, DeleteEndpoint, SwitchOff, Reactivate,
               GrowsOld, local, hist, vars, Stage
<1> QED
  BY <1>1, <1>2, <1>3, <1>4, <1>5, <1>6, <1>8, <1>9, <1>10, <1>11 DEF Next, Step

\* The outbound deliveries are a DeliveryQueue: whatever leases, workers,
\* retries, retention and crashes do underneath, a delivery stays queued until
\* it is settled or given up, and is settled only for a reason.
THEOREM QueueImplemented == Spec => QueueRefinement
<1>1. DoneInv /\ [Next]_vars => [Queue!QueueNext]_Queue!queue
  BY QueueStep
<1> QED
  BY QueueInitial, DoneInvariant, <1>1, PTL DEF Spec, QueueRefinement, Queue!QueueSpec
=============================================================================
