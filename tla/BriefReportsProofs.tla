------------------------ MODULE BriefReportsProofs ------------------------
(***************************************************************************)
(* Proofs about BriefReports for every calendar and every number of        *)
(* workers, commands, attempts and crashes.                                *)
(***************************************************************************)
EXTENDS BriefReports, TLAPS

\* A worker past Select has attempts left, and so has a brief that may be
\* selected or recovered.
InHand ==
  \A w \in Workers : pc[w] \in Holding \union {"claim"} => tries[w] < MaxAttempts

AttemptsLeft ==
  \A d \in Dates : report[d].state \in {"pending", "working"} =>
    report[d].attempts < MaxAttempts

\* The three parts of the type invariant: the processes, the table, the rest.
LocalType ==
  /\ pc \in [Processes -> PCs]
  /\ todo \in [Workers -> SUBSET Dates]
  /\ cur \in [Processes -> Dates]
  /\ tries \in [Workers -> 0..MaxAttempts]
  /\ InHand

RowType == report \in [Dates -> Row] /\ AttemptsLeft

HistType ==
  /\ sent \in [Dates -> Nat] /\ lost \in [Dates -> Nat] /\ canary \in [Dates -> Nat]
  /\ crashes \in 0..MaxCrashes

ClockType == day \in Dates /\ late \in BOOLEAN

TypeInv == LocalType /\ RowType /\ HistType /\ ClockType

LEMMA TypeParts == TypeInv <=> TypeOK /\ InHand /\ AttemptsLeft
BY DEF TypeInv, TypeOK, LocalType, RowType, HistType, ClockType

LEMMA DatesNat == Dates \subseteq Nat /\ 0 \in Dates /\ StartDay \in Dates
BY BriefReportsAssumption DEF Dates

LEMMA TypeInit == Init => TypeInv
<1> SUFFICES ASSUME Init PROVE TypeInv
  OBVIOUS
<1>1. NoRow \in Row /\ 0 \in 0..MaxAttempts /\ 0 \in 0..MaxCrashes
  BY BriefReportsAssumption DEF NoRow, Row
<1>2. LocalType
  <2>1. /\ pc \in [Processes -> PCs] /\ cur \in [Processes -> Dates]
        /\ todo \in [Workers -> SUBSET Dates]
    BY DatesNat DEF Init, PCs
  <2>2. tries \in [Workers -> 0..MaxAttempts]
    BY <1>1 DEF Init
  <2>3. InHand
    BY DEF Init, InHand, Holding, Processes
  <2> QED
    BY <2>1, <2>2, <2>3 DEF LocalType
<1>3. RowType
  BY <1>1 DEF Init, RowType, AttemptsLeft, NoRow
<1>4. HistType /\ ClockType
  BY <1>1, DatesNat DEF Init, HistType, ClockType
<1> QED
  BY <1>2, <1>3, <1>4 DEF TypeInv

\* A worker that returns has nothing in hand.
LEMMA LeaveType ==
  ASSUME LocalType, NEW w \in Workers, NEW l \in {"idle", "recover"}, Leave(w, l)
  PROVE  LocalType'
BY BriefReportsAssumption, DatesNat
   DEF LocalType, Leave, Goto, InHand, PCs, Holding, Processes

\* What the statements write are rows.
Fit(r) == r \in Row /\ (r.state \in {"pending", "working"} => r.attempts < MaxAttempts)

\* One field of a row is set.
LEMMA SetState ==
  ASSUME NEW r \in Row, NEW s \in {"absent", "pending", "working", "done", "dead"}
  PROVE  /\ [r EXCEPT !.state = s] \in Row
         /\ [r EXCEPT !.state = s].state = s
         /\ [r EXCEPT !.state = s].attempts = r.attempts
BY DEF Row

LEMMA SetAttempts ==
  ASSUME NEW r \in Row, NEW n \in 0..MaxAttempts
  PROVE  /\ [r EXCEPT !.attempts = n] \in Row
         /\ [r EXCEPT !.attempts = n].state = r.state
         /\ [r EXCEPT !.attempts = n].attempts = n
BY DEF Row

LEMMA SetFlag ==
  ASSUME NEW r \in Row, NEW b \in BOOLEAN
  PROVE  /\ [r EXCEPT !.due = b] \in Row
         /\ [r EXCEPT !.due = b].state = r.state
         /\ [r EXCEPT !.due = b].attempts = r.attempts
         /\ [r EXCEPT !.leased = b] \in Row
         /\ [r EXCEPT !.leased = b].state = r.state
         /\ [r EXCEPT !.leased = b].attempts = r.attempts
BY DEF Row

LEMMA EditsFit ==
  ASSUME NEW r, Fit(r)
  PROVE  /\ Fit([r EXCEPT !.state = "done", !.leased = FALSE])
         /\ r.state = "working" => Fit([r EXCEPT !.state = "pending", !.due = TRUE])
         /\ r.state = "pending" => Fit([r EXCEPT !.state = "working", !.leased = TRUE])
         /\ Fit([r EXCEPT !.due = TRUE])
         /\ Fit([r EXCEPT !.leased = FALSE])
<1>1. r \in Row
  BY DEF Fit
<1> QED
  BY <1>1 DEF Fit, Row

LEMMA FailFits ==
  ASSUME NEW r, Fit(r), NEW n \in 0..MaxAttempts, n < MaxAttempts
  PROVE  Fit([r EXCEPT !.state = IF n + 1 >= MaxAttempts THEN "dead" ELSE "pending",
                       !.attempts = n + 1, !.due = FALSE, !.leased = FALSE])
<1> DEFINE s  == IF n + 1 >= MaxAttempts THEN "dead" ELSE "pending"
           r1 == [r EXCEPT !.state = s]
           r2 == [r1 EXCEPT !.attempts = n + 1]
           r3 == [r2 EXCEPT !.due = FALSE]
           r4 == [r3 EXCEPT !.leased = FALSE]
<1>1. /\ n + 1 \in 0..MaxAttempts /\ s \in {"dead", "pending"}
      /\ s = "pending" => n + 1 < MaxAttempts
  BY BriefReportsAssumption
<1>2. s \in {"absent", "pending", "working", "done", "dead"}
  BY <1>1
<1> HIDE DEF s
<1>. r \in Row
  BY DEF Fit
<1>3. r1 \in Row /\ r1.state = s
  BY ONLY r \in Row, <1>2, SetState
<1> HIDE DEF r1
<1>4. r2 \in Row /\ r2.state = s /\ r2.attempts = n + 1
  BY ONLY <1>1, <1>3, SetAttempts
<1> HIDE DEF r2
<1>5. r3 \in Row /\ r3.state = s /\ r3.attempts = n + 1
  BY <1>4, SetFlag
<1> HIDE DEF r3
<1>6. r4 \in Row /\ r4.state = s /\ r4.attempts = n + 1
  BY <1>5, SetFlag
<1> HIDE DEF r4
<1>7. Fit(r4)
  BY <1>1, <1>6 DEF Fit
<1> QED
  BY <1>7 DEF r4, r3, r2, r1, s

LEMMA NewFits == Fit([NoRow EXCEPT !.state = "pending", !.due = TRUE])
<1> DEFINE r1 == [NoRow EXCEPT !.state = "pending"]
           r2 == [r1 EXCEPT !.due = TRUE]
<1>1. 0 \in 0..MaxAttempts /\ 0 < MaxAttempts
  BY BriefReportsAssumption
<1>2. NoRow \in Row /\ NoRow.attempts = 0
  BY <1>1 DEF NoRow, Row
<1>3. r1 \in Row /\ r1.state = "pending" /\ r1.attempts = 0
  BY <1>2, SetState
<1> HIDE DEF r1
<1>4. r2 \in Row /\ r2.state = "pending" /\ r2.attempts = 0
  BY <1>3, SetFlag
<1> HIDE DEF r2
<1>5. Fit(r2)
  BY <1>1, <1>4 DEF Fit
<1> QED
  BY <1>5 DEF r2, r1

\* One row is replaced by another one that fits.
LEMMA RowEdit ==
  ASSUME RowType, NEW d \in Dates, NEW r, Fit(r), report' = [report EXCEPT ![d] = r]
  PROVE  RowType'
BY DEF RowType, AttemptsLeft, Fit

-----------------------------------------------------------------------------
(***************************************************************************)
(* The type invariant is inductive.                                        *)
(***************************************************************************)

\* Handlers that leave the processes, the table or the rest alone.
LEMMA SameLocals ==
  ASSUME LocalType, UNCHANGED <<pc, todo, cur, tries>> PROVE LocalType'
BY DEF LocalType, InHand

LEMMA SameRows ==
  ASSUME RowType, UNCHANGED report PROVE RowType'
BY DEF RowType, AttemptsLeft

LEMMA SameRest ==
  ASSUME HistType, UNCHANGED <<hist, crashes>> PROVE HistType'
BY DEF HistType, hist

LEMMA SameClock ==
  ASSUME ClockType, UNCHANGED clock PROVE ClockType'
BY DEF ClockType, clock

\* A worker moves on with what it has in hand.
LEMMA GotoType ==
  ASSUME LocalType, NEW w \in Workers, NEW l \in PCs, Goto(w, l),
         UNCHANGED <<todo, cur, tries>>,
         l \in Holding \union {"claim"} => pc[w] \in Holding \union {"claim"}
  PROVE  LocalType'
<1>1. pc' \in [Processes -> PCs] /\ \A v \in Workers : pc'[v] = IF v = w THEN l ELSE pc[v]
  BY DEF LocalType, Goto, Processes
<1>2. InHand'
  BY <1>1 DEF LocalType, InHand
<1> QED
  BY <1>1, <1>2 DEF LocalType

LEMMA WorkerStepType ==
  ASSUME TypeInv, NEW w \in Workers, Step(w)
  PROVE  TypeInv'
<1> USE DEF TypeInv
<1>0. w \in Processes /\ cur[w] \in Dates /\ cur \in [Processes -> Dates]
  BY DEF LocalType, Processes
<1>rows. ASSUME NEW d \in Dates PROVE report[d] \in Row /\ Fit(report[d])
  BY DEF RowType, AttemptsLeft, Fit
<1>clock. ClockType'
  BY SameClock DEF Step, Wake, InsertDue, AllInserted, Recover, Select, NothingDue, Claim,
                   LoseClaim, Accepted, Refused, Complete, Fail
<1>1. CASE Wake(w)
  <2>1. LocalType'
    BY <1>0, <1>1 DEF Wake, Goto, LocalType, DueDates, InHand, PCs, Holding
  <2> QED
    BY <1>1, <1>clock, <2>1, SameRows, SameRest DEF Wake
<1>2. CASE InsertDue(w)
  <2> PICK d \in todo[w] :
        /\ todo' = [todo EXCEPT ![w] = @ \ {d}]
        /\ report' = IF report[d].state = "absent"
                       THEN [report EXCEPT ![d] =
                               [NoRow EXCEPT !.state = "pending", !.due = TRUE]]
                       ELSE report
    BY <1>2 DEF InsertDue
  <2>1. LocalType'
    BY <1>2 DEF InsertDue, LocalType, InHand
  <2>2. d \in Dates
    BY DEF LocalType
  <2>3. RowType'
    BY <2>2, NewFits, RowEdit, SameRows
  <2> QED
    BY <1>2, <1>clock, <2>1, <2>3, SameRest DEF InsertDue
<1>3. CASE AllInserted(w)
  <2>1. LocalType'
    BY <1>0, <1>3 DEF AllInserted, Goto, LocalType, InHand, PCs, Holding
  <2> QED
    BY <1>3, <1>clock, <2>1, SameRows, SameRest DEF AllInserted
<1>4. CASE Recover(w)
  <2>1. LocalType'
    BY <1>4, GotoType DEF Recover, PCs, Holding
  <2>2. ASSUME NEW d \in Dates PROVE Fit(report'[d])
    BY <1>4, <1>rows, EditsFit DEF Recover
  <2>3. report' \in [Dates -> Row]
    BY <1>4, <2>2 DEF Recover, Fit
  <2>4. RowType'
    BY <2>2, <2>3 DEF RowType, AttemptsLeft, Fit
  <2> QED
    BY <1>4, <1>clock, <2>1, <2>4, SameRest DEF Recover
<1>5. CASE Select(w)
  <2> PICK d \in Due : /\ cur' = [cur EXCEPT ![w] = d]
                       /\ tries' = [tries EXCEPT ![w] = report[d].attempts]
    BY <1>5 DEF Select
  <2>1. /\ d \in Dates
        /\ report[d].attempts \in 0..MaxAttempts
        /\ report[d].attempts < MaxAttempts
    BY DEF Due, RowType, AttemptsLeft, Row
  <2>2. LocalType'
    BY <1>0, <1>5, <2>1 DEF Select, Goto, LocalType, InHand, PCs, Holding
  <2> QED
    BY <1>5, <1>clock, <2>2, SameRows, SameRest DEF Select
<1>6. CASE NothingDue(w)
  BY <1>6, <1>clock, LeaveType, SameRows, SameRest DEF NothingDue
<1>7. CASE Claim(w)
  <2>1. LocalType'
    BY <1>0, <1>7 DEF Claim, Goto, LocalType, InHand, PCs, Holding
  <2>2. RowType'
    BY <1>0, <1>7, <1>rows, EditsFit, RowEdit DEF Claim
  <2> QED
    BY <1>7, <1>clock, <2>1, <2>2, SameRest DEF Claim
<1>8. CASE LoseClaim(w)
  BY <1>8, <1>clock, LeaveType, SameRows, SameRest DEF LoseClaim
<1>9. CASE Accepted(w)
  <2>1. LocalType'
    BY <1>9, GotoType DEF Accepted, PCs, Holding
  <2>2. HistType'
    BY <1>0, <1>9 DEF Accepted, HistType
  <2> QED
    BY <1>9, <1>clock, <2>1, <2>2, SameRows DEF Accepted
<1>10. CASE Refused(w)
  <2>1. LocalType'
    BY <1>0, <1>10 DEF Refused, Goto, LocalType, InHand, PCs, Holding
  <2> QED
    BY <1>10, <1>clock, <2>1, SameRows, SameRest DEF Refused
<1>11. CASE Complete(w)
  <2>1. RowType'
    BY <1>0, <1>11, <1>rows, EditsFit, RowEdit DEF Complete
  <2> QED
    BY <1>11, <1>clock, <2>1, LeaveType, SameRest DEF Complete
<1>12. CASE Fail(w)
  <2>1. tries[w] \in 0..MaxAttempts /\ tries[w] < MaxAttempts
    BY <1>12 DEF Fail, LocalType, InHand, Holding
  <2>2. RowType'
    BY <1>0, <1>12, <1>rows, <2>1, FailFits, RowEdit DEF Fail
  <2> QED
    BY <1>12, <1>clock, <2>2, LeaveType, SameRest DEF Fail
<1> QED
  BY <1>1, <1>2, <1>3, <1>4, <1>5, <1>6, <1>7, <1>8, <1>9, <1>10, <1>11, <1>12 DEF Step

LEMMA CommandStepType ==
  ASSUME TypeInv, NEW c \in Commands, Command(c)
  PROVE  TypeInv'
<1> USE DEF TypeInv
<1>0. /\ c \in Processes /\ c \notin Workers
      /\ cur[c] \in Dates /\ cur \in [Processes -> Dates]
  BY BriefReportsAssumption DEF LocalType, Processes
<1>rows. ASSUME NEW d \in Dates PROVE Fit(report[d])
  BY DEF RowType, AttemptsLeft, Fit
<1>clock. ClockType'
  BY SameClock DEF Command, StartCommand, CheckDelivered, Mail, RecordDelivered
<1>1. LocalType'
  <2>1. /\ pc' \in [Processes -> PCs] /\ cur' \in [Processes -> Dates]
        /\ \A w \in Workers : pc'[w] = pc[w]
        /\ UNCHANGED <<todo, tries>>
    BY <1>0 DEF Command, StartCommand, CheckDelivered, Mail, RecordDelivered, Goto,
                LocalType, ClockType, PCs, Processes
  <2> QED
    BY <2>1 DEF LocalType, InHand
<1>2. RowType'
  BY <1>0, <1>rows, EditsFit, RowEdit, SameRows
     DEF Command, StartCommand, CheckDelivered, Mail, RecordDelivered
<1>3. HistType'
  BY <1>0 DEF Command, StartCommand, CheckDelivered, Mail, RecordDelivered, hist, HistType
<1> QED
  BY <1>clock, <1>1, <1>2, <1>3

LEMMA TypeStep == TypeInv /\ [Next]_vars => TypeInv'
<1> SUFFICES ASSUME TypeInv, [Next]_vars PROVE TypeInv'
  OBVIOUS
<1>1. CASE \E w \in Workers : Step(w)
  BY <1>1, WorkerStepType
<1>2. ASSUME NEW w \in Workers, Crash(w) PROVE TypeInv'
  <2>1. HistType'
    <3>1. cur[w] \in Dates
      BY DEF TypeInv, LocalType, Processes
    <3>2. lost' \in [Dates -> Nat]
      BY <1>2, <3>1 DEF Crash, TypeInv, HistType
    <3>3. crashes' \in 0..MaxCrashes
      BY <1>2, BriefReportsAssumption DEF Crash, TypeInv, HistType
    <3> QED
      BY <1>2, <3>2, <3>3 DEF Crash, TypeInv, HistType
  <2> QED
    BY <1>2, <2>1, LeaveType, SameRows, SameClock DEF Crash, TypeInv
<1>3. CASE \E c \in Commands : Command(c)
  BY <1>3, CommandStepType
<1>4. ASSUME NEW d \in Dates, Clock(d) PROVE TypeInv'
  <2>1. Fit(report[d])
    BY DEF TypeInv, RowType, AttemptsLeft, Fit
  <2>2. RowType'
    BY <1>4, <2>1, EditsFit, RowEdit DEF Clock, ComesDue, LeaseExpires, TypeInv
  <2> QED
    BY <1>4, <2>2, SameLocals, SameRest, SameClock
       DEF Clock, ComesDue, LeaseExpires, TypeInv
<1>5. CASE SendTime \/ Midnight
  <2>1. ClockType'
    <3>1. CASE SendTime
      BY <3>1 DEF SendTime, TypeInv, ClockType
    <3>2. CASE Midnight
      <4>1. day + 1 \in Dates
        BY <3>2, BriefReportsAssumption DEF Midnight, TypeInv, ClockType, Dates
      <4> QED
        BY <3>2, <4>1 DEF Midnight, ClockType
    <3> QED
      BY <1>5, <3>1, <3>2
  <2> QED
    BY <1>5, <2>1, SameLocals, SameRows, SameRest DEF SendTime, Midnight, TypeInv
<1>6. CASE UNCHANGED vars
  BY <1>6, SameLocals, SameRows, SameRest, SameClock DEF vars, hist, clock, TypeInv
<1> QED
  BY <1>1, <1>2, <1>3, <1>4, <1>5, <1>6 DEF Next

\* Everything has its type, and a brief that may still be sent has attempts
\* left: the table never gets past maxBriefJobAttempts.
THEOREM TypeCorrect == Spec => []TypeOK
<1>1. TypeInv => TypeOK
  BY TypeParts
<1> QED
  BY <1>1, TypeInit, TypeStep, PTL DEF Spec

-----------------------------------------------------------------------------
(***************************************************************************)
(* A brief that is settled stays settled.                                  *)
(***************************************************************************)
Busy == Holding \union {"mail", "record"}

\* Nobody who could write the row or send the brief has it in hand, and after
\* the step nobody has got it in hand.
Untouched(d) ==
  /\ report'[d].state = "done"
  /\ \A p \in Processes : ~(cur'[p] = d /\ pc'[p] \in Busy)
  /\ sent'[d] = sent[d] /\ canary'[d] = canary[d]

LEMMA SettledParts ==
  ASSUME NEW d \in Dates
  PROVE  /\ Settled(d) <=> /\ report[d].state = "done"
                           /\ \A p \in Processes : ~(cur[p] = d /\ pc[p] \in Busy)
         /\ Untouched(d) <=> Settled(d)' /\ sent'[d] = sent[d] /\ canary'[d] = canary[d]
BY DEF Settled, Handled, Busy, Untouched

\* One process takes its step; the others have what they had.
LEMMA OneMoves ==
  ASSUME NEW d \in Dates, NEW p \in Processes, LocalType,
         \A q \in Processes : ~(cur[q] = d /\ pc[q] \in Busy),
         \A q \in Processes \ {p} : cur'[q] = cur[q] /\ pc'[q] = pc[q],
         pc'[p] \in Busy => cur'[p] # d
  PROVE  \A q \in Processes : ~(cur'[q] = d /\ pc'[q] \in Busy)
OBVIOUS

LEMMA WorkerSettles ==
  ASSUME TypeInv, NEW d \in Dates, Settled(d), NEW w \in Workers, Step(w) \/ Crash(w)
  PROVE  Untouched(d)
<1> USE DEF Busy, Holding
<1>0. /\ w \in Processes /\ cur[w] \in Dates /\ cur \in [Processes -> Dates]
      /\ pc \in [Processes -> PCs] /\ report \in [Dates -> Row] /\ LocalType
      /\ sent \in [Dates -> Nat]
  BY DEF TypeInv, LocalType, RowType, HistType, Processes
<1>1. /\ report[d].state = "done"
      /\ \A p \in Processes : ~(cur[p] = d /\ pc[p] \in Busy)
  BY SettledParts
<1>2. \A q \in Processes \ {w} : cur'[q] = cur[q] /\ pc'[q] = pc[q]
  BY <1>0 DEF Step, Wake, InsertDue, AllInserted, Recover, Select, NothingDue, Claim, LoseClaim,
              Accepted, Refused, Complete, Fail, Crash, Goto, Leave
<1>3. pc'[w] \in Busy => cur'[w] # d
  BY <1>0, <1>1
     DEF Step, Wake, InsertDue, AllInserted, Recover, Select, NothingDue, Claim, LoseClaim,
         Accepted, Refused, Complete, Fail, Crash, Goto, Leave
<1>4. \A q \in Processes : ~(cur'[q] = d /\ pc'[q] \in Busy)
  BY <1>0, <1>1, <1>2, <1>3, OneMoves
<1>5. report'[d].state = "done"
  <2>1. CASE InsertDue(w)
    BY <1>0, <1>1, <2>1 DEF InsertDue, TypeInv, LocalType
  <2>2. CASE Claim(w) \/ Complete(w) \/ Fail(w)
    <3>1. cur[w] # d
      BY <1>0, <1>1, <2>2 DEF Claim, Complete, Fail
    <3> QED
      BY <1>0, <1>1, <2>2, <3>1 DEF Claim, Complete, Fail
  <2>3. CASE Recover(w)
    BY <1>0, <1>1, <2>3 DEF Recover
  <2> QED
    BY <1>1, <2>1, <2>2, <2>3
       DEF Step, Wake, AllInserted, Select, NothingDue, LoseClaim, Accepted, Refused, Crash
<1>6. sent'[d] = sent[d] /\ canary'[d] = canary[d]
  <2>1. CASE Accepted(w)
    <3>1. cur[w] # d
      BY <1>0, <1>1, <2>1 DEF Accepted
    <3> QED
      BY <1>0, <2>1, <3>1 DEF Accepted
  <2> QED
    BY <2>1 DEF Step, Wake, InsertDue, AllInserted, Recover, Select, NothingDue, Claim, LoseClaim,
                Refused, Complete, Fail, Crash, hist
<1> QED
  BY <1>4, <1>5, <1>6 DEF Untouched

LEMMA CommandSettles ==
  ASSUME TypeInv, NEW d \in Dates, Settled(d), NEW c \in Commands, Command(c)
  PROVE  Untouched(d)
<1> USE DEF Busy, Holding
<1>0. /\ c \in Processes /\ cur[c] \in Dates /\ cur \in [Processes -> Dates]
      /\ pc \in [Processes -> PCs] /\ report \in [Dates -> Row] /\ LocalType
      /\ canary \in [Dates -> Nat]
  BY DEF TypeInv, LocalType, RowType, HistType, Processes
<1>1. /\ report[d].state = "done"
      /\ \A p \in Processes : ~(cur[p] = d /\ pc[p] \in Busy)
  BY SettledParts
<1>2. \A q \in Processes \ {c} : cur'[q] = cur[q] /\ pc'[q] = pc[q]
  BY <1>0 DEF Command, StartCommand, CheckDelivered, Mail, RecordDelivered, Goto
<1>3. pc'[c] \in Busy => cur'[c] # d
  BY <1>0, <1>1 DEF Command, StartCommand, CheckDelivered, Mail, RecordDelivered, Goto
<1>4. \A q \in Processes : ~(cur'[q] = d /\ pc'[q] \in Busy)
  BY <1>0, <1>1, <1>2, <1>3, OneMoves
<1>5. report'[d].state = "done"
  <2>1. CASE RecordDelivered(c)
    BY <1>0, <1>1, <2>1 DEF RecordDelivered
  <2> QED
    BY <1>1, <2>1 DEF Command, StartCommand, CheckDelivered, Mail
<1>6. sent'[d] = sent[d] /\ canary'[d] = canary[d]
  <2>1. CASE Mail(c)
    <3>1. cur[c] # d
      BY <1>0, <1>1, <2>1 DEF Mail
    <3> QED
      BY <1>0, <2>1, <3>1 DEF Mail
  <2> QED
    BY <2>1 DEF Command, StartCommand, CheckDelivered, RecordDelivered, hist
<1> QED
  BY <1>4, <1>5, <1>6 DEF Untouched

LEMMA SettledStep ==
  ASSUME TypeInv, [Next]_vars, NEW d \in Dates, Settled(d)
  PROVE  Settled(d)' /\ sent'[d] = sent[d] /\ canary'[d] = canary[d]
<1>1. CASE \E w \in Workers : Step(w) \/ Crash(w)
  BY <1>1, WorkerSettles, SettledParts
<1>2. CASE \E c \in Commands : Command(c)
  BY <1>2, CommandSettles, SettledParts
<1>3. CASE \E e \in Dates : Clock(e)
  <2>1. report'[d].state = "done"
    BY <1>3, SettledParts DEF Clock, ComesDue, LeaseExpires, TypeInv, RowType
  <2> QED
    BY <1>3, <2>1, SettledParts DEF Clock, ComesDue, LeaseExpires, hist, Untouched
<1>4. CASE SendTime \/ Midnight \/ UNCHANGED vars
  BY <1>4, SettledParts DEF SendTime, Midnight, vars, hist, Untouched
<1> QED
  BY <1>1, <1>2, <1>3, <1>4 DEF Next

\* A brief that is recorded as sent and that nobody is handling is never
\* claimed, reopened or sent again, by a worker with a stale SELECT or by a
\* command.
THEOREM SettledStays == Spec => SettledStaysSettled
<1>1. TypeInv /\ [Next]_vars =>
        [\A d \in Dates : Settled(d) =>
           /\ Settled(d)'
           /\ sent'[d] = sent[d] /\ canary'[d] = canary[d]]_vars
  BY SettledStep
<1> QED
  BY <1>1, TypeInit, TypeStep, PTL DEF Spec, SettledStaysSettled

-----------------------------------------------------------------------------
(***************************************************************************)
(* No brief is sent before its time.                                       *)
(***************************************************************************)
Passed(d) == d < day \/ (d = day /\ late)

TimeInv ==
  /\ \A d \in Dates : report[d].state \in {"pending", "working"} => Passed(d)
  /\ \A w \in Workers : \A d \in todo[w] : Passed(d)
  /\ \A w \in Workers : pc[w] \in Holding \union {"claim"} => Passed(cur[w])
  /\ \A d \in Dates : sent[d] > 0 => Passed(d)

\* Time only adds to what has passed.
LEMMA TimePasses ==
  ASSUME TypeInv, [Next]_vars, NEW d \in Dates, Passed(d) PROVE Passed(d)'
<1>1. CASE UNCHANGED clock
  BY <1>1 DEF clock, Passed
<1>2. CASE SendTime
  BY <1>2 DEF SendTime, Passed
<1>3. CASE Midnight
  <2>1. d \in Nat /\ day \in Nat /\ d <= day /\ day' = day + 1
    BY <1>3, DatesNat DEF Midnight, Passed, TypeInv, ClockType
  <2>2. d < day'
    BY <2>1
  <2> QED
    BY <2>2 DEF Passed
<1> QED
  BY <1>1, <1>2, <1>3
     DEF Next, Step, Command, Clock, Wake, InsertDue, AllInserted, Recover, Select, NothingDue,
         Claim, LoseClaim, Accepted, Refused, Complete, Fail, Crash, StartCommand,
         CheckDelivered, Mail, RecordDelivered, ComesDue, LeaseExpires, vars, clock

\* What EnqueueDueBriefs inserts is due.
LEMMA DueDatesPassed == ASSUME ClockType, NEW d \in DueDates PROVE Passed(d)
<1>1. d \in Nat /\ day \in Nat
  BY DatesNat DEF DueDates, ClockType
<1> QED
  BY <1>1 DEF DueDates, Passed

\* One step adds only what has passed.
LEMMA RowsPassed ==
  ASSUME TypeInv, TimeInv, [Next]_vars, NEW d \in Dates,
         report'[d].state \in {"pending", "working"}
  PROVE  Passed(d)
<1> USE DEF TimeInv
<1>0. report \in [Dates -> Row] /\ \A w \in Workers : cur[w] \in Dates
  BY DEF TypeInv, RowType, LocalType, Processes
<1>1. CASE UNCHANGED report
  BY <1>1
<1>2. ASSUME NEW w \in Workers, InsertDue(w) PROVE Passed(d)
  BY <1>0, <1>2 DEF InsertDue
<1>3. ASSUME NEW w \in Workers, Recover(w) PROVE Passed(d)
  BY <1>0, <1>3 DEF Recover
<1>4. ASSUME NEW w \in Workers, Claim(w) \/ Complete(w) \/ Fail(w) PROVE Passed(d)
  BY <1>0, <1>4 DEF Claim, Complete, Fail, Holding
<1>5. ASSUME NEW c \in Commands, RecordDelivered(c) PROVE Passed(d)
  <2>1. c \in Processes /\ cur[c] \in Dates
    BY DEF Processes, TypeInv, LocalType
  <2> QED
    BY <1>0, <1>5, <2>1 DEF RecordDelivered
<1>6. ASSUME NEW e \in Dates, Clock(e) PROVE Passed(d)
  BY <1>0, <1>6 DEF Clock, ComesDue, LeaseExpires
<1> QED
  BY <1>1, <1>2, <1>3, <1>4, <1>5, <1>6
     DEF Next, Step, Command, Wake, AllInserted, Select, NothingDue, LoseClaim, Accepted,
         Refused, Crash, StartCommand, CheckDelivered, Mail, SendTime, Midnight, vars

LEMMA HandsPassed ==
  ASSUME TypeInv, TimeInv, [Next]_vars, NEW v \in Workers
  PROVE  /\ \A d \in todo'[v] : d \in Dates /\ Passed(d)
         /\ pc'[v] \in Holding \union {"claim"} => cur'[v] \in Dates /\ Passed(cur'[v])
<1> USE DEF TimeInv
<1>0. /\ v \in Processes /\ cur[v] \in Dates /\ todo[v] \subseteq Dates
      /\ cur \in [Processes -> Dates] /\ pc \in [Processes -> PCs]
      /\ todo \in [Workers -> SUBSET Dates]
      /\ Workers \subseteq Processes /\ Commands \subseteq Processes
      /\ Workers \intersect Commands = {}
  BY BriefReportsAssumption DEF Processes, TypeInv, LocalType
<1>1. CASE UNCHANGED <<pc, todo, cur>>
  BY <1>0, <1>1
<1>2. ASSUME NEW w \in Workers, Wake(w) PROVE \A d \in todo'[v] : d \in Dates /\ Passed(d)
  <2>1. \A d \in DueDates : d \in Dates /\ Passed(d)
    BY DueDatesPassed DEF TypeInv, DueDates
  <2> QED
    BY <1>0, <1>2, <2>1 DEF Wake
<1>3. ASSUME NEW w \in Workers, Select(w)
      PROVE  pc'[v] \in Holding \union {"claim"} => cur'[v] \in Dates /\ Passed(cur'[v])
  BY <1>0, <1>3 DEF Select, Due, Goto
<1>4. ASSUME NEW w \in Workers, Step(w) \/ Crash(w), ~Wake(w)
      PROVE  \A d \in todo'[v] : d \in Dates /\ Passed(d)
  BY <1>0, <1>4
     DEF Step, InsertDue, AllInserted, Recover, Select, NothingDue, Claim, LoseClaim,
         Accepted, Refused, Complete, Fail, Crash, Leave
<1>5. ASSUME NEW w \in Workers, Step(w) \/ Crash(w), ~Select(w)
      PROVE  pc'[v] \in Holding \union {"claim"} => cur'[v] \in Dates /\ Passed(cur'[v])
  BY <1>0, <1>5
     DEF Step, Wake, InsertDue, AllInserted, Recover, NothingDue, Claim, LoseClaim,
         Accepted, Refused, Complete, Fail, Crash, Leave, Goto, Holding
<1>6. ASSUME NEW c \in Commands, Command(c)
      PROVE  UNCHANGED todo /\ cur'[v] = cur[v] /\ pc'[v] = pc[v]
  BY <1>0, <1>6 DEF Command, StartCommand, CheckDelivered, Mail, RecordDelivered, Goto
<1>7. CASE \E w \in Workers : Step(w) \/ Crash(w)
  BY <1>2, <1>3, <1>4, <1>5, <1>7
<1>8. CASE \E c \in Commands : Command(c)
  BY <1>0, <1>6, <1>8
<1> QED
  BY <1>1, <1>7, <1>8 DEF Next, Clock, ComesDue, LeaseExpires, SendTime, Midnight, vars

LEMMA SentPassed ==
  ASSUME TypeInv, TimeInv, [Next]_vars, NEW d \in Dates, sent'[d] > 0
  PROVE  Passed(d)
<1>1. CASE UNCHANGED sent
  BY <1>1 DEF TimeInv
<1>2. ASSUME NEW w \in Workers, Accepted(w) PROVE Passed(d)
  <2>1. CASE cur[w] = d
    BY <1>2, <2>1 DEF Accepted, TimeInv, Holding
  <2>2. CASE cur[w] # d
    BY <1>2, <2>2 DEF Accepted, TimeInv, TypeInv, HistType
  <2> QED
    BY <2>1, <2>2
<1> QED
  BY <1>1, <1>2
     DEF Next, Step, Command, Clock, Wake, InsertDue, AllInserted, Recover, Select, NothingDue,
         Claim, LoseClaim, Refused, Complete, Fail, Crash, StartCommand,
         CheckDelivered, Mail, RecordDelivered, ComesDue, LeaseExpires, SendTime, Midnight,
         vars, hist

LEMMA TimeInit == Init => TimeInv
BY DEF Init, TimeInv, NoRow, Holding, Processes

LEMMA TimeStep == TypeInv /\ TimeInv /\ [Next]_vars => TimeInv'
<1> SUFFICES ASSUME TypeInv, TimeInv, [Next]_vars PROVE TimeInv'
  OBVIOUS
<1>1. \A d \in Dates : report'[d].state \in {"pending", "working"} => Passed(d)'
  BY RowsPassed, TimePasses
<1>2. \A w \in Workers : \A d \in todo'[w] : Passed(d)'
  BY HandsPassed, TimePasses
<1>3. ASSUME NEW w \in Workers, pc'[w] \in Holding \union {"claim"} PROVE Passed(cur[w])'
  <2>1. cur'[w] \in Dates /\ Passed(cur'[w])
    BY <1>3, HandsPassed
  <2> DEFINE d == cur'[w]
  <2> HIDE DEF d
  <2>2. d \in Dates /\ Passed(d)
    BY <2>1 DEF d
  <2> QED
    BY <2>1, TimePasses DEF Passed
<1>4. \A d \in Dates : sent'[d] > 0 => Passed(d)'
  BY SentPassed, TimePasses
<1> QED
  BY <1>1, <1>2, <1>3, <1>4 DEF TimeInv, Passed

\* No worker sends a brief before its period is over and its send time has
\* come, whatever midnight, crash or slow pass comes between: the SELECT only
\* finds rows that were due when they were inserted, and time does not turn
\* back.
THEOREM NothingEarly == Spec => []NotTooEarly
<1>1. TimeInv => NotTooEarly
  BY DEF TimeInv, NotTooEarly, Passed
<1> QED
  BY <1>1, TypeInit, TypeStep, TimeInit, TimeStep, PTL DEF Spec

-----------------------------------------------------------------------------
(***************************************************************************)
(* No brief is repeated unless a delivery was lost.                        *)
(***************************************************************************)

\* A deploy that overlaps workers must not also let one outlive its lease.
Exclusive == ~LeaseOverrun \/ \A v, w \in Workers : v = w

Holds(w, d) == pc[w] \in Holding /\ cur[w] = d

\* A brief that a worker holds is marked as such, unless a command has
\* recorded it meanwhile, and its lease is good.
Marked ==
  \A w \in Workers, d \in Dates : Holds(w, d) =>
    /\ report[d].state \in {"working", "done"}
    /\ report[d].state = "working" /\ ~report[d].leased => LeaseOverrun

OneHolder ==
  \A v, w \in Workers, d \in Dates : Holds(v, d) /\ Holds(w, d) => v = w

\* A brief that is open, or that a worker is about to send or has failed to
\* send, has only been sent by workers that did not learn it.
Accounted ==
  /\ \A d \in Dates : sent[d] <= lost[d] + 1
  /\ \A w \in Workers, d \in Dates :
       Holds(w, d) /\ pc[w] # "complete" => sent[d] <= lost[d]
  /\ \A d \in Dates :
       (report[d].state # "done" /\ \A w \in Workers : ~(Holds(w, d) /\ pc[w] = "complete"))
         => sent[d] <= lost[d]

RepeatInv == Marked /\ OneHolder /\ Accounted

LEMMA RepeatInit == Init => RepeatInv
<1> SUFFICES ASSUME Init PROVE RepeatInv
  OBVIOUS
<1>1. \A w \in Workers, d \in Dates : ~Holds(w, d)
  BY DEF Init, Holds, Holding, Processes
<1>2. \A d \in Dates : sent[d] = 0 /\ lost[d] = 0
  BY DEF Init
<1> QED
  BY <1>1, <1>2 DEF RepeatInv, Marked, OneHolder, Accounted

\* Steps in which no worker takes or gives back a brief, and none is sent.
LEMMA SameHolders ==
  ASSUME TypeInv, RepeatInv, UNCHANGED <<sent, lost>>,
         \A w \in Workers : pc'[w] = pc[w] \/ {pc[w], pc'[w]} \intersect Holding = {},
         \A w \in Workers : pc[w] \in Holding => cur'[w] = cur[w],
         \A d \in Dates : report[d].state = "done" => report'[d].state = "done",
         \A w \in Workers, d \in Dates : Holds(w, d) =>
           /\ report'[d].state \in {"working", "done"}
           /\ report'[d].state = "working" /\ ~report'[d].leased => LeaseOverrun
  PROVE  RepeatInv'
<1>1. \A w \in Workers, d \in Dates :
        Holds(w, d)' <=> Holds(w, d) /\ pc'[w] = pc[w]
  BY DEF Holds
<1>2. \A w \in Workers, d \in Dates : Holds(w, d) => Holds(w, d)' /\ pc'[w] = pc[w]
  BY <1>1 DEF Holds
<1>3. Marked'
  BY <1>1 DEF Marked
<1>4. OneHolder'
  BY <1>1 DEF OneHolder, RepeatInv
<1>5. Accounted'
  BY <1>1, <1>2 DEF Accounted, RepeatInv
<1> QED
  BY <1>3, <1>4, <1>5 DEF RepeatInv

\* Steps of a worker before it has claimed, and a claim that is lost.
LEMMA SearchRepeats ==
  ASSUME TypeInv, RepeatInv, Exclusive, NEW w \in Workers,
         \/ Wake(w) \/ InsertDue(w) \/ AllInserted(w) \/ Recover(w) \/ Select(w)
         \/ NothingDue(w) \/ LoseClaim(w)
  PROVE  RepeatInv'
<1>0. /\ Workers \subseteq Processes /\ pc \in [Processes -> PCs]
      /\ cur \in [Processes -> Dates] /\ report \in [Dates -> Row]
      /\ \A v \in Workers : todo[v] \subseteq Dates
  BY DEF Processes, TypeInv, LocalType, RowType
<1>1. UNCHANGED <<sent, lost>>
  BY DEF Wake, InsertDue, AllInserted, Recover, Select, NothingDue, LoseClaim, hist
<1>2. \A v \in Workers : pc'[v] = pc[v] \/ {pc[v], pc'[v]} \intersect Holding = {}
  BY <1>0 DEF Wake, InsertDue, AllInserted, Recover, Select, NothingDue, LoseClaim,
              Leave, Goto, Holding
<1>3. \A v \in Workers : pc[v] \in Holding => cur'[v] = cur[v]
  BY <1>0 DEF Wake, InsertDue, AllInserted, Recover, Select, NothingDue, LoseClaim,
              Leave, Goto, Holding
<1>4. ASSUME NEW d \in Dates
      PROVE  /\ report[d].state = "done" => report'[d].state = "done"
             /\ \A v \in Workers : Holds(v, d) =>
                  /\ report'[d].state \in {"working", "done"}
                  /\ report'[d].state = "working" /\ ~report'[d].leased => LeaseOverrun
  <2>1. CASE UNCHANGED report
    BY <2>1 DEF RepeatInv, Marked
  <2>2. CASE InsertDue(w)
    BY <1>0, <2>2 DEF InsertDue, RepeatInv, Marked
  <2>3. CASE Recover(w)
    <3>1. CASE report[d].state = "working" /\ ~report[d].leased
      <4>1. ASSUME NEW v \in Workers, Holds(v, d) PROVE FALSE
        <5>1. LeaseOverrun
          BY <3>1, <4>1 DEF RepeatInv, Marked
        <5>2. v = w
          BY <5>1 DEF Exclusive
        <5> QED
          BY <2>3, <4>1, <5>2 DEF Recover, Holds, Holding
      <4> QED
        BY <3>1, <4>1
    <3>2. CASE ~(report[d].state = "working" /\ ~report[d].leased)
      <4>1. report'[d] = report[d]
        BY <2>3, <3>2 DEF Recover
      <4> QED
        BY <4>1 DEF RepeatInv, Marked
    <3> QED
      BY <3>1, <3>2
  <2> QED
    BY <2>1, <2>2, <2>3 DEF Wake, AllInserted, Select, NothingDue, LoseClaim
<1> QED
  BY <1>1, <1>2, <1>3, <1>4, SameHolders

\* Steps of the commands and of the clock.
LEMMA OthersRepeat ==
  ASSUME TypeInv, RepeatInv,
         \/ \E c \in Commands : Command(c)
         \/ \E d \in Dates : Clock(d)
         \/ SendTime \/ Midnight \/ UNCHANGED vars
  PROVE  RepeatInv'
<1>0. /\ Workers \subseteq Processes /\ pc \in [Processes -> PCs]
      /\ cur \in [Processes -> Dates] /\ report \in [Dates -> Row]
      /\ Commands \subseteq Processes /\ Workers \intersect Commands = {}
  BY BriefReportsAssumption DEF Processes, TypeInv, LocalType, RowType
<1>1. /\ UNCHANGED <<sent, lost>>
      /\ \A v \in Workers : pc'[v] = pc[v] /\ cur'[v] = cur[v]
  <2>1. UNCHANGED <<sent, lost>>
    BY DEF Command, StartCommand, CheckDelivered, Mail, RecordDelivered, Clock,
           ComesDue, LeaseExpires, SendTime, Midnight, vars, hist
  <2>2. ASSUME NEW c \in Commands, Command(c), NEW v \in Workers
        PROVE  pc'[v] = pc[v] /\ cur'[v] = cur[v]
    BY <1>0, <2>2 DEF Command, StartCommand, CheckDelivered, Mail, RecordDelivered, Goto
  <2>3. CASE \E c \in Commands : Command(c)
    BY <2>1, <2>2, <2>3
  <2> QED
    BY <2>1, <2>3 DEF Clock, ComesDue, LeaseExpires, SendTime, Midnight, vars
<1>2. ASSUME NEW d \in Dates
      PROVE  /\ report[d].state = "done" => report'[d].state = "done"
             /\ \A v \in Workers : Holds(v, d) =>
                  /\ report'[d].state \in {"working", "done"}
                  /\ report'[d].state = "working" /\ ~report'[d].leased => LeaseOverrun
  <2>1. CASE UNCHANGED report
    BY <2>1 DEF RepeatInv, Marked
  <2>2. ASSUME NEW c \in Commands, RecordDelivered(c)
        PROVE  report'[d] = report[d] \/ report'[d].state = "done"
    BY <1>0, <2>2 DEF RecordDelivered
  <2>3. ASSUME NEW e \in Dates, ComesDue(e)
        PROVE  /\ report'[d].state = report[d].state
               /\ report'[d].leased = report[d].leased
    BY <1>0, <2>3 DEF ComesDue, Row
  <2>4. ASSUME NEW e \in Dates, LeaseExpires(e)
        PROVE  /\ report'[d].state = report[d].state
               /\ report'[d].leased # report[d].leased =>
                    LeaseOverrun \/ \A v \in Workers : ~Holds(v, d)
    BY <1>0, <2>4 DEF LeaseExpires, Row, Holds
  <2>5. CASE \E c \in Commands : RecordDelivered(c)
    BY <2>2, <2>5 DEF RepeatInv, Marked
  <2>6. CASE \E e \in Dates : ComesDue(e)
    BY <2>3, <2>6 DEF RepeatInv, Marked
  <2>7. CASE \E e \in Dates : LeaseExpires(e)
    BY <2>4, <2>7 DEF RepeatInv, Marked
  <2> QED
    BY <2>1, <2>5, <2>6, <2>7
       DEF Command, StartCommand, CheckDelivered, Mail, Clock, SendTime, Midnight, vars
<1> QED
  BY <1>1, <1>2, SameHolders

\* A claim succeeds on a pending brief, so nobody holds it.
LEMMA ClaimRepeats ==
  ASSUME TypeInv, RepeatInv, NEW w \in Workers, Claim(w) PROVE RepeatInv'
<1> DEFINE c == cur[w]
<1>0. /\ w \in Processes /\ Workers \subseteq Processes /\ pc \in [Processes -> PCs]
      /\ cur \in [Processes -> Dates] /\ report \in [Dates -> Row] /\ c \in Dates
  BY DEF Processes, TypeInv, LocalType, RowType
<1>1. \A v \in Workers : ~Holds(v, c)
  BY <1>0 DEF Claim, RepeatInv, Marked
<1>2. \A v \in Workers : /\ pc'[v] = IF v = w THEN "send" ELSE pc[v]
                         /\ cur'[v] = cur[v]
  BY <1>0 DEF Claim, Goto
<1>3. \A v \in Workers, d \in Dates :
        Holds(v, d)' <=> Holds(v, d) \/ (v = w /\ d = c)
  BY <1>2 DEF Holds, Holding, Claim
<1>4. \A d \in Dates : d # c => report'[d] = report[d]
  BY <1>0 DEF Claim
<1>5. report'[c].state = "working" /\ report'[c].leased
  BY <1>0 DEF Claim, Row
<1>6. sent[c] <= lost[c]
  BY <1>0, <1>1 DEF Claim, RepeatInv, Accounted
<1>7. UNCHANGED <<sent, lost>>
  BY DEF Claim, hist
<1>8. Marked'
  BY <1>3, <1>4, <1>5 DEF Marked, RepeatInv
<1>9. OneHolder'
  BY <1>1, <1>3 DEF OneHolder, RepeatInv
<1>10. Accounted'
  <2>1. \A d \in Dates : sent[d] <= lost[d] + 1
    BY DEF Accounted, RepeatInv
  <2>2. ASSUME NEW v \in Workers, NEW d \in Dates, Holds(v, d)', pc'[v] # "complete"
        PROVE  sent[d] <= lost[d]
    BY <1>2, <1>3, <1>6, <2>2 DEF Accounted, RepeatInv, Claim
  <2>3. ASSUME NEW d \in Dates, report'[d].state # "done",
               \A v \in Workers : ~(Holds(v, d)' /\ pc'[v] = "complete")
        PROVE  sent[d] <= lost[d]
    <3>1. CASE d = c
      BY <3>1, <1>6
    <3>2. CASE d # c
      BY <3>2, <2>3, <1>2, <1>3, <1>4 DEF Accounted, RepeatInv, Claim
    <3> QED
      BY <3>1, <3>2
  <2> QED
    BY <1>7, <2>1, <2>2, <2>3 DEF Accounted
<1> QED
  BY <1>8, <1>9, <1>10 DEF RepeatInv

\* The holder of a brief goes on to another statement.
LEMMA SendRepeats ==
  ASSUME TypeInv, RepeatInv, NEW w \in Workers, Accepted(w) \/ Refused(w)
  PROVE  RepeatInv'
<1> DEFINE c == cur[w]
<1>0. /\ w \in Processes /\ Workers \subseteq Processes /\ pc \in [Processes -> PCs]
      /\ cur \in [Processes -> Dates] /\ c \in Dates
      /\ sent \in [Dates -> Nat] /\ lost \in [Dates -> Nat]
  BY DEF Processes, TypeInv, LocalType, HistType
<1>1. Holds(w, c) /\ pc[w] = "send" /\ UNCHANGED <<report, cur>>
  BY DEF Accepted, Refused, Holds, Holding
<1>2. /\ \A v \in Workers : v # w => pc'[v] = pc[v]
      /\ pc'[w] \in {"complete", "fail"}
  BY <1>0 DEF Accepted, Refused, Goto
<1>3. \A v \in Workers, d \in Dates : Holds(v, d)' <=> Holds(v, d)
  BY <1>1, <1>2 DEF Holds, Holding
<1>4. \A v \in Workers : v # w => ~Holds(v, c)
  BY <1>0, <1>1 DEF RepeatInv, OneHolder
<1>5. \A d \in Dates : d # c => sent'[d] = sent[d] /\ lost'[d] = lost[d]
  BY <1>0 DEF Accepted, Refused, hist
<1>6. sent[c] <= lost[c]
  BY <1>0, <1>1 DEF RepeatInv, Accounted
<1>7. /\ sent'[c] <= lost'[c] + 1
      /\ pc'[w] # "complete" => sent'[c] <= lost'[c]
  BY <1>0, <1>6 DEF Accepted, Refused, hist, Goto
<1>8. Marked'
  BY <1>1, <1>3 DEF Marked, RepeatInv
<1>9. OneHolder'
  BY <1>3 DEF OneHolder, RepeatInv
<1>10. ASSUME NEW d \in Dates
       PROVE  /\ sent'[d] <= lost'[d] + 1
              /\ \A v \in Workers :
                   Holds(v, d)' /\ pc'[v] # "complete" => sent'[d] <= lost'[d]
              /\ (report'[d].state # "done"
                  /\ \A v \in Workers : ~(Holds(v, d)' /\ pc'[v] = "complete"))
                   => sent'[d] <= lost'[d]
  <2>1. CASE d = c
    BY <1>1, <1>3, <1>4, <1>7, <2>1
  <2>2. CASE d # c
    <3>1. sent'[d] = sent[d] /\ lost'[d] = lost[d] /\ ~Holds(w, d)
      BY <1>5, <2>2 DEF Holds
    <3> QED
      BY <3>1, <1>1, <1>2, <1>3 DEF Accounted, RepeatInv
  <2> QED
    BY <2>1, <2>2
<1>11. Accounted'
  BY <1>10 DEF Accounted
<1> QED
  BY <1>8, <1>9, <1>11 DEF RepeatInv

\* The holder of a brief records what became of it, or dies.
LEMMA ReturnRepeats ==
  ASSUME TypeInv, RepeatInv, NEW w \in Workers, Complete(w) \/ Fail(w) \/ Crash(w)
  PROVE  RepeatInv'
<1> DEFINE c == cur[w]
<1>0. /\ w \in Processes /\ Workers \subseteq Processes /\ pc \in [Processes -> PCs]
      /\ cur \in [Processes -> Dates] /\ c \in Dates /\ report \in [Dates -> Row]
      /\ sent \in [Dates -> Nat] /\ lost \in [Dates -> Nat]
  BY DEF Processes, TypeInv, LocalType, RowType, HistType
<1>1. /\ pc'[w] \notin Holding
      /\ \A v \in Workers : v # w => pc'[v] = pc[v] /\ cur'[v] = cur[v]
  BY <1>0 DEF Complete, Fail, Crash, Leave, Goto, Holding
<1>2. \A v \in Workers, d \in Dates : Holds(v, d)' <=> Holds(v, d) /\ v # w
  BY <1>1 DEF Holds
<1>3. \A v \in Workers : Holds(w, c) /\ v # w => ~Holds(v, c)
  BY <1>0 DEF RepeatInv, OneHolder
<1>4. \A d \in Dates :
        d # c => sent'[d] = sent[d] /\ lost'[d] = lost[d] /\ report'[d] = report[d]
  BY <1>0 DEF Complete, Fail, Crash, hist
<1>5. UNCHANGED report \/ Holds(w, c)
  BY DEF Complete, Fail, Crash, Holds, Holding
<1>6. Marked'
  BY <1>2, <1>3, <1>4, <1>5 DEF Marked, RepeatInv
<1>7. OneHolder'
  BY <1>2 DEF OneHolder, RepeatInv
<1>8. /\ Complete(w) => report'[c].state = "done" /\ UNCHANGED <<sent, lost>>
      /\ Fail(w) => sent[c] <= lost[c] /\ UNCHANGED <<sent, lost>>
  <2>1. Complete(w) => report'[c].state = "done" /\ UNCHANGED <<sent, lost>>
    BY <1>0 DEF Complete, Row, hist
  <2>2. Fail(w) => Holds(w, c) /\ pc[w] # "complete" /\ UNCHANGED <<sent, lost>>
    BY <1>0 DEF Fail, hist, Holds, Holding
  <2> QED
    BY <1>0, <2>1, <2>2 DEF RepeatInv, Accounted
<1>9. Crash(w) => /\ UNCHANGED <<sent, report>>
                  /\ pc[w] # "complete" => UNCHANGED lost
                  /\ pc[w] = "complete" => Holds(w, c) /\ lost'[c] = lost[c] + 1
  BY <1>0 DEF Crash, Holds, Holding
<1>10. ASSUME NEW d \in Dates
       PROVE  /\ sent'[d] <= lost'[d] + 1
              /\ \A v \in Workers :
                   Holds(v, d)' /\ pc'[v] # "complete" => sent'[d] <= lost'[d]
              /\ (report'[d].state # "done"
                  /\ \A v \in Workers : ~(Holds(v, d)' /\ pc'[v] = "complete"))
                   => sent'[d] <= lost'[d]
  <2>0. sent[d] \in Nat /\ lost[d] \in Nat /\ sent[d] <= lost[d] + 1
    BY <1>0 DEF RepeatInv, Accounted
  <2>1. CASE d = c /\ Complete(w)
    BY <1>1, <1>2, <1>8, <2>0, <2>1 DEF Accounted, RepeatInv
  <2>2. CASE d = c /\ Fail(w)
    BY <1>8, <2>0, <2>2
  <2>3. CASE d = c /\ Crash(w) /\ pc[w] = "complete"
    BY <1>9, <2>0, <2>3
  <2>4. CASE d = c /\ Crash(w) /\ pc[w] # "complete"
    BY <1>1, <1>2, <1>9, <2>4 DEF Accounted, RepeatInv
  <2>5. CASE d # c
    <3>1. /\ sent'[d] = sent[d] /\ lost'[d] = lost[d] /\ report'[d] = report[d]
          /\ ~Holds(w, d)
      BY <1>4, <2>5 DEF Holds
    <3> QED
      BY <3>1, <1>1, <1>2 DEF Accounted, RepeatInv
  <2> QED
    BY <2>1, <2>2, <2>3, <2>4, <2>5
<1>11. Accounted'
  BY <1>10 DEF Accounted
<1> QED
  BY <1>6, <1>7, <1>11 DEF RepeatInv

LEMMA RepeatStep ==
  ASSUME Exclusive PROVE TypeInv /\ RepeatInv /\ [Next]_vars => RepeatInv'
BY SearchRepeats, OthersRepeat, ClaimRepeats, SendRepeats, ReturnRepeats DEF Next, Step

\* Workers send a brief at most once more than its loss was not learnt,
\* however many passes, crashes and commands there are: as long as no worker
\* outlives its lease, or there is only one.
THEOREM NoRepeatWithoutLoss == Exclusive => (Spec => []RepeatsOnlyAfterLoss)
<1> SUFFICES ASSUME Exclusive PROVE Spec => []RepeatsOnlyAfterLoss
  OBVIOUS
<1>1. TypeInv /\ RepeatInv => RepeatsOnlyAfterLoss
  <2> SUFFICES ASSUME TypeInv, RepeatInv, NEW d \in Dates PROVE sent[d] <= 1 + lost[d]
    BY DEF RepeatsOnlyAfterLoss
  <2>1. sent[d] \in Nat /\ lost[d] \in Nat /\ sent[d] <= lost[d] + 1
    BY DEF TypeInv, HistType, RepeatInv, Accounted
  <2> QED
    BY <2>1
<1>2. TypeInv /\ RepeatInv /\ [Next]_vars => RepeatInv'
  BY RepeatStep
<1> QED
  BY <1>1, <1>2, TypeInit, TypeStep, RepeatInit, PTL DEF Spec
===========================================================================
