-------------------------- MODULE IssueJobsProofs --------------------------
(***************************************************************************)
(* Proofs about IssueJobs for every number of groups, repositories,        *)
(* handlers, jobs and issues.                                              *)
(***************************************************************************)
EXTENDS IssueJobs, FiniteSetTheorems, TLAPS

USE DEF tables

\* A handler past Select has a job in hand, and one that is to talk to GitHub
\* has read a repository.
JobInHand == \A p \in Processors :
  /\ pc[p] \in Holding \union {"claim"} => cur[p] \in JobId
  /\ pc[p] \in {"quota", "find", "open", "record", "reopen"} => target[p] \in Repos

TypeInv == TypeOK /\ JobInHand

LEMMA SomeGroupExists == SomeGroup \in Groups
BY IssueJobsAssumption DEF SomeGroup

LEMMA NoRowIsRow == NoRow \in Row /\ NoWant \in [group : Groups, action : Actions]
BY SomeGroupExists DEF NoRow, NoWant, Row, States, Actions

\* What claiming, failing and finishing make of a row is a row.
LEMMA RowEdits ==
  ASSUME NEW r \in Row, NEW n \in Nat
  PROVE  /\ [r EXCEPT !.state = "working", !.leased = TRUE] \in Row
         /\ [r EXCEPT !.state = IF n >= MaxAttempts THEN "dead" ELSE "pending",
                      !.attempts = n, !.due = FALSE, !.leased = FALSE] \in Row
         /\ [r EXCEPT !.state = "done", !.leased = FALSE, !.recent = TRUE] \in Row
         /\ [r EXCEPT !.state = "pending", !.due = FALSE, !.leased = FALSE] \in Row
BY DEF Row, States

LEMMA TypeInit == Init => TypeInv
<1> SUFFICES ASSUME Init PROVE TypeInv
    OBVIOUS
<1>1. TypeOK
  BY NoRowIsRow DEF Init, TypeOK, PCs
<1>2. JobInHand
  BY DEF Init, JobInHand, Holding
<1> QED
  BY <1>1, <1>2 DEF TypeInv

\* A handler that returns leaves well-typed locals.
LocalType ==
  /\ pc \in [Processors -> PCs]
  /\ want \in [Processors -> [group : Groups, action : Actions]]
  /\ cur \in [Processors -> JobId \union {0}]
  /\ target \in [Processors -> Repos \union {Unbound}]
  /\ num \in [Processors -> Number \union {0}]
  /\ att \in [Processors -> Nat]
  /\ JobInHand

StoreType ==
  /\ known \in SUBSET Groups
  /\ issue \in [Groups -> Number \union {0}]
  /\ home \in [Groups -> Repos \union {Unbound}]
  /\ repo \in Repos \union {Unbound}
  /\ job \in [JobId -> Row]
  /\ heir \in [JobId -> JobId \union {0}]
  /\ github \in [Repos -> [Number -> JobId \union {0}]]
  /\ events \in SUBSET JobId
  /\ disruptions \in Nat

LEMMA LeaveType ==
  ASSUME LocalType, NEW p \in Processors, Leave(p)
  PROVE  LocalType'
BY NoRowIsRow DEF LocalType, Leave, PCs, JobInHand, Holding

LEMMA GotoType ==
  ASSUME LocalType, NEW p \in Processors, NEW label \in PCs, Goto(p, label),
         UNCHANGED local,
         label \in Holding \union {"claim"} => cur[p] \in JobId,
         label \in {"quota", "find", "open", "record", "reopen"} => target[p] \in Repos
  PROVE  LocalType'
BY DEF LocalType, Goto, JobInHand, local

LEMMA TypeStep == TypeInv /\ [Next]_vars => TypeInv'
<1> SUFFICES ASSUME LocalType, StoreType, [Next]_vars
             PROVE  LocalType' /\ StoreType'
    BY DEF TypeInv, TypeOK, LocalType, StoreType
<1>1. ASSUME NEW p \in Processors, EnqueueCheck(p) PROVE LocalType' /\ StoreType'
  <2>4. heir' \in [JobId -> JobId \union {0}]
    BY <1>1 DEF EnqueueCheck, HandOver, Open, StoreType
  <2>1. StoreType' /\ UNCHANGED <<cur, target, num, att>>
    BY <1>1, <2>4 DEF EnqueueCheck, StoreType
  <2>2. want' \in [Processors -> [group : Groups, action : Actions]]
    BY <1>1, NoRowIsRow DEF EnqueueCheck, Return, LocalType
  <2>3. pc' \in [Processors -> PCs] /\ JobInHand'
    BY <1>1, ZenonT(40) DEF EnqueueCheck, Return, AfterEnqueue, Goto, LocalType, JobInHand,
                            Holding, PCs
  <2> QED
    BY <2>1, <2>2, <2>3 DEF LocalType
<1>2. ASSUME NEW p \in Processors, EnqueueInsert(p) PROVE LocalType' /\ StoreType'
  <2>1. PICK j \in JobId :
          job' = [job EXCEPT ![j] = [NoRow EXCEPT !.state = "pending", !.due = TRUE,
                                                  !.group = want[p].group,
                                                  !.action = want[p].action]]
    BY <1>2 DEF EnqueueInsert
  <2>2. [NoRow EXCEPT !.state = "pending", !.due = TRUE, !.group = want[p].group,
                      !.action = want[p].action] \in Row
    BY NoRowIsRow DEF LocalType, Row, States
  <2>3. job' \in [JobId -> Row]
    BY <2>1, <2>2 DEF StoreType
  <2>4. LocalType'
    BY <1>2, NoRowIsRow
       DEF EnqueueInsert, Return, AfterEnqueue, Goto, LocalType, JobInHand, Holding, PCs
  <2>5. heir' \in [JobId -> JobId \union {0}]
    BY <1>2 DEF EnqueueInsert, HandOver, StoreType
  <2> QED
    BY <1>2, <2>3, <2>4, <2>5 DEF EnqueueInsert, StoreType
<1>3. ASSUME NEW p \in Processors, EnqueueFails(p) PROVE LocalType' /\ StoreType'
  <2>1. StoreType'
    BY <1>3 DEF EnqueueFails, StoreType, store
  <2>2. LocalType'
    BY <1>3, NoRowIsRow, SMTT(30)
       DEF EnqueueFails, Return, Goto, LocalType, JobInHand, Holding, PCs
  <2> QED
    BY <2>1, <2>2
<1>4. ASSUME NEW p \in Processors, Wake(p) PROVE LocalType' /\ StoreType'
  BY <1>4 DEF Wake, Goto, LocalType, StoreType, JobInHand, Holding, PCs, store,
              local
<1>5. ASSUME NEW p \in Processors, Recover(p) PROVE LocalType' /\ StoreType'
  <2>1. LocalType'
    BY <1>5 DEF Recover, Goto, LocalType, JobInHand, Holding, PCs, local
  <2>2. \A j \in JobId : [job[j] EXCEPT !.state = "pending", !.due = TRUE] \in Row
    BY ZenonT(40) DEF StoreType, Row, States
  <2>3. job' \in [JobId -> Row]
    BY <1>5, <2>2 DEF Recover, StoreType
  <2> QED
    BY <1>5, <2>1, <2>3 DEF Recover, StoreType
<1>6. ASSUME NEW p \in Processors, Select(p) PROVE LocalType' /\ StoreType'
  BY <1>6 DEF Select, Due, Goto, LocalType, StoreType, JobInHand, Holding, PCs,
              store
<1>7. ASSUME NEW p \in Processors, NothingDue(p) \/ LoseClaim(p) \/ Abandon(p)
      PROVE  LocalType' /\ StoreType'
  BY <1>7, LeaveType DEF NothingDue, LoseClaim, Abandon, StoreType, store
<1>8. ASSUME NEW p \in Processors, Claim(p) PROVE LocalType' /\ StoreType'
  <2>1. LocalType'
    BY <1>8 DEF Claim, Goto, LocalType, JobInHand, Holding, PCs, local
  <2>2. cur[p] \in JobId
    BY <1>8 DEF Claim, LocalType, JobInHand
  <2>4. [job[cur[p]] EXCEPT !.state = "working", !.leased = TRUE] \in Row
    BY <2>2, RowEdits DEF StoreType
  <2>3. job' \in [JobId -> Row]
    BY <1>8, <2>2, <2>4 DEF Claim, StoreType
  <2> QED
    BY <1>8, <2>1, <2>3 DEF Claim, StoreType
<1>9. ASSUME NEW p \in Processors, Load(p) PROVE LocalType' /\ StoreType'
  <2>1. cur[p] \in JobId
    BY <1>9 DEF Load, LocalType, JobInHand, Holding
  <2>2. job[cur[p]].group \in Groups
    BY <2>1 DEF StoreType, Row
  <2>3. num' \in [Processors -> Number \union {0}]
    BY <1>9, <2>2 DEF Load, LocalType, StoreType
  <2>4. want' \in [Processors -> [group : Groups, action : Actions]]
    BY <1>9, <2>2 DEF Load, LocalType, Actions
  <2>6. target' \in [Processors -> Repos \union {Unbound}]
    BY <1>9 DEF Load, LocalType, StoreType
  <2>5. pc' \in [Processors -> PCs] /\ JobInHand'
    <3>1. /\ cur' = cur /\ target' = [target EXCEPT ![p] = repo]
          /\ \E label \in {"failRead", "quota", "reopen", "rerouteCheck"} :
               /\ pc' = [pc EXCEPT ![p] = label]
               /\ label # "failRead" => repo \in Repos
      BY <1>9 DEF Load, Goto, StoreType
    <3> QED
      BY <2>1, <3>1 DEF LocalType, JobInHand, Holding, PCs
  <2> QED
    BY <1>9, <2>3, <2>4, <2>5, <2>6 DEF Load, LocalType, StoreType, store
<1>10. ASSUME NEW p \in Processors, CheckQuota(p) PROVE LocalType' /\ StoreType'
  BY <1>10 DEF CheckQuota, Goto, LocalType, StoreType, JobInHand, Holding, PCs,
               store, local
<1>11. ASSUME NEW p \in Processors, Postpone(p) PROVE LocalType' /\ StoreType'
  <2>2. cur[p] \in JobId
    BY <1>11 DEF Postpone, LocalType, JobInHand, Holding
  <2>1. job' \in [JobId -> Row]
    BY <1>11, <2>2, RowEdits DEF Postpone, StoreType
  <2> QED
    BY <1>11, <2>1, LeaveType DEF Postpone, StoreType
<1>12. ASSUME NEW p \in Processors, FindByMarker(p) PROVE LocalType' /\ StoreType'
  <2>1. StoreType' /\ UNCHANGED <<want, cur, target, att>>
    BY <1>12 DEF FindByMarker, StoreType, store
  <2>2. num' \in [Processors -> Number \union {0}]
    BY <1>12 DEF FindByMarker, LocalType
  <2>3. pc' \in [Processors -> PCs] /\ JobInHand'
    BY <1>12 DEF FindByMarker, Goto, LocalType, JobInHand, Holding, PCs
  <2> QED
    BY <2>1, <2>2, <2>3 DEF LocalType
<1>13. ASSUME NEW p \in Processors, OpenIssue(p) PROVE LocalType' /\ StoreType'
  <2>3. num' \in [Processors -> Number \union {0}] /\ UNCHANGED <<want, cur, target, att>>
    BY <1>13 DEF OpenIssue, LocalType
  <2>4. pc' \in [Processors -> PCs] /\ JobInHand'
    BY <1>13 DEF OpenIssue, Goto, LocalType, JobInHand, Holding, PCs
  <2>1. LocalType'
    BY <2>3, <2>4 DEF LocalType
  <2>2. github' \in [Repos -> [Number -> JobId \union {0}]]
    <3>1. cur[p] \in JobId /\ target[p] \in Repos
      BY <1>13 DEF OpenIssue, LocalType, JobInHand, Holding
    <3>2. PICK n \in Number : github' = [github EXCEPT ![target[p]][n] = cur[p]]
      BY <1>13 DEF OpenIssue
    <3>3. [github[target[p]] EXCEPT ![n] = cur[p]] \in [Number -> JobId \union {0}]
      BY <3>1 DEF StoreType
    <3> QED
      BY <3>1, <3>2, <3>3 DEF StoreType
  <2> QED
    BY <1>13, <2>1, <2>2 DEF OpenIssue, StoreType, store
<1>14. ASSUME NEW p \in Processors, RecordIssue(p) PROVE LocalType' /\ StoreType'
  BY <1>14 DEF RecordIssue, Goto, LocalType, StoreType, JobInHand, Holding, PCs,
               local
<1>15. ASSUME NEW p \in Processors, Reopen(p) \/ WorkFails(p)
       PROVE  LocalType' /\ StoreType'
  BY <1>15 DEF Reopen, WorkFails, Goto, LocalType, StoreType, JobInHand,
               Holding, PCs, store, local
<1>16. ASSUME NEW p \in Processors, EmitLifecycle(p) PROVE LocalType' /\ StoreType'
  BY <1>16 DEF EmitLifecycle, Goto, LocalType, StoreType, JobInHand, Holding,
               PCs, local
<1>17. ASSUME NEW p \in Processors, Finish(p) PROVE LocalType' /\ StoreType'
  <2>1. cur[p] \in JobId
    BY <1>17 DEF Finish, LocalType, JobInHand, Holding
  <2> DEFINE row == [job[cur[p]] EXCEPT !.state = "done", !.leased = FALSE, !.recent = TRUE]
  <2>2. row \in Row
    BY <2>1, RowEdits DEF StoreType
  <2>3. job' = [job EXCEPT ![cur[p]] = row]
    BY <1>17 DEF Finish
  <2>4. job' \in [JobId -> Row]
    BY <2>2, <2>3 DEF StoreType
  <2> QED
    BY <1>17, <2>4, LeaveType DEF Finish, StoreType
<1>18. ASSUME NEW p \in Processors, FailRead(p) PROVE LocalType' /\ StoreType'
  <2>1. cur[p] \in JobId /\ job[cur[p]].attempts \in Nat
    BY <1>18 DEF FailRead, LocalType, StoreType, JobInHand, Holding, Row
  <2> QED
    BY <1>18, <2>1 DEF FailRead, Goto, LocalType, StoreType, JobInHand, Holding,
                       PCs, store
<1>19. ASSUME NEW p \in Processors, FailWrite(p) PROVE LocalType' /\ StoreType'
  <2>1. att[p] \in Nat /\ cur[p] \in JobId
    BY <1>19 DEF FailWrite, LocalType, JobInHand, Holding
  <2> DEFINE row == [job[cur[p]] EXCEPT
                       !.state = IF att[p] >= MaxAttempts THEN "dead" ELSE "pending",
                       !.attempts = att[p], !.due = FALSE, !.leased = FALSE]
  <2>3. row \in Row
    BY <2>1, RowEdits DEF StoreType
  <2>4. job' = [job EXCEPT ![cur[p]] = row]
    BY <1>19 DEF FailWrite
  <2>2. job' \in [JobId -> Row]
    BY <2>3, <2>4 DEF StoreType
  <2> QED
    BY <1>19, <2>2, LeaveType DEF FailWrite, StoreType
<1>20. ASSUME NEW p \in Processors, NEW g \in Groups, Report(p, g)
       PROVE  LocalType' /\ StoreType'
  <2>3. [group |-> g, action |-> IF g \in known THEN "reopen" ELSE "open"]
          \in [group : Groups, action : Actions]
    BY DEF Actions
  <2>1. want' \in [Processors -> [group : Groups, action : Actions]]
    BY <1>20, <2>3 DEF Report, LocalType
  <2>2. pc' \in [Processors -> PCs] /\ JobInHand'
    BY <1>20 DEF Report, Goto, LocalType, JobInHand, Holding, PCs
  <2> QED
    BY <1>20, <2>1, <2>2 DEF Report, LocalType, StoreType
<1>21. ASSUME NEW j \in JobId, Retry(j) PROVE LocalType' /\ StoreType'
  <2> DEFINE row == [job[j] EXCEPT !.state = "pending", !.attempts = 0,
                                   !.due = TRUE, !.recent = FALSE]
  <2>2. row \in Row
    BY ZenonT(40) DEF StoreType, Row, States
  <2>1. job' \in [JobId -> Row]
    BY <1>21, <2>2 DEF Retry, StoreType
  <2> QED
    BY <1>21, <2>1 DEF Retry, LocalType, JobInHand, StoreType, local
<1>22. ASSUME NEW j \in JobId, Clock(j) PROVE LocalType' /\ StoreType'
  <2>2. /\ [job[j] EXCEPT !.due = TRUE] \in Row
        /\ [job[j] EXCEPT !.leased = FALSE] \in Row
        /\ [job[j] EXCEPT !.recent = FALSE] \in Row
    BY DEF StoreType, Row
  <2>1. job' \in [JobId -> Row]
    BY <1>22, <2>2 DEF Clock, ComesDue, LeaseExpires, Ages, StoreType
  <2> QED
    BY <1>22, <2>1 DEF Clock, ComesDue, LeaseExpires, Ages, LocalType, JobInHand,
                       StoreType, local
<1>23. CASE SetRepository
  BY <1>23 DEF SetRepository, LocalType, JobInHand, StoreType, local
<1>24. CASE UNCHANGED vars
  BY <1>24 DEF vars, LocalType, JobInHand, StoreType
<1> QED
  BY <1>1, <1>2, <1>3, <1>4, <1>5, <1>6, <1>7, <1>8, <1>9, <1>10, <1>11, <1>12,
     <1>13, <1>14, <1>15, <1>16, <1>17, <1>18, <1>19, <1>20, <1>21, <1>22,
     <1>23, <1>24 DEF Next, Step

\* The clock only sets one flag of one row.
LEMMA ClockEffect ==
  ASSUME StoreType, NEW k \in JobId, Clock(k)
  PROVE  /\ UNCHANGED <<tables, github, pc, local>>
         /\ \A j \in JobId :
              /\ job'[j].state = job[j].state /\ job'[j].group = job[j].group
              /\ job'[j].action = job[j].action
              /\ job'[j].recent => job[j].recent
              /\ j # k => job'[j] = job[j]
<1>1. UNCHANGED <<tables, github, pc, local>>
  BY DEF Clock, ComesDue, LeaseExpires, Ages
<1>2. CASE ComesDue(k)
  BY <1>1, <1>2 DEF ComesDue, StoreType, Row
<1>3. CASE LeaseExpires(k)
  BY <1>1, <1>3 DEF LeaseExpires, StoreType, Row
<1>4. CASE Ages(k)
  BY <1>1, <1>4 DEF Ages, StoreType, Row
<1> QED
  BY <1>2, <1>3, <1>4 DEF Clock

\* Every reachable state is well typed: no handler ever works without a job
\* in hand, and no row leaves the states its readers know.
THEOREM TypeCorrect == Spec => []TypeOK
<1>1. Spec => []TypeInv
  BY TypeInit, TypeStep, PTL DEF Spec
<1> QED
  BY <1>1, PTL DEF TypeInv

-----------------------------------------------------------------------------
(***************************************************************************)
(* Leases and markers, when no handler outlives its lease.                 *)
(***************************************************************************)

\* A handler that holds a job works under a lease that has not expired.
Leased == \A p \in Processors : pc[p] \in Holding =>
            job[cur[p]].state = "working" /\ job[cur[p]].leased

\* Who is about to open an issue has searched that repository in vain, and
\* nobody else can have opened it there since.
Searched == \A p \in Processors : pc[p] = "open" =>
              \A n \in Number : github[target[p]][n] # cur[p]

LeaseInv == TypeInv /\ Leased /\ NoSharedLease

LEMMA LeaseInit == Init => LeaseInv
BY TypeInit DEF Init, LeaseInv, Leased, NoSharedLease, Holding

LEMMA LeaseStep ==
  ASSUME ~LeaseOverrun, LeaseInv, [Next]_vars
  PROVE  LeaseInv'
<1>a. LocalType /\ StoreType
  BY DEF LeaseInv, TypeInv, TypeOK, LocalType, StoreType
<1>b. \A p \in Processors : pc[p] \in Holding \union {"claim"} => cur[p] \in JobId
  BY <1>a DEF LocalType, JobInHand
<1> USE DEF LeaseInv, Leased, NoSharedLease, Holding, Goto
<1> SUFFICES Leased' /\ NoSharedLease'
    BY TypeStep
<1>1. ASSUME NEW p \in Processors,
             EnqueueCheck(p) \/ EnqueueFails(p) \/ Wake(p) \/ Select(p)
      PROVE  Leased' /\ NoSharedLease'
  <2>1. CASE EnqueueCheck(p)
    <3>1. /\ job' = job /\ cur' = cur
          /\ \E label : /\ pc' = [pc EXCEPT ![p] = label]
                        /\ label \in Holding => pc[p] \in Holding
      BY <2>1 DEF EnqueueCheck, Return, AfterEnqueue
    <3> QED
      BY <3>1, <1>a DEF LocalType
  <2>2. CASE EnqueueFails(p) \/ Wake(p)
    BY <2>2, <1>a, SMTT(30) DEF EnqueueFails, Return, Wake, store, local, LocalType, PCs
  <2>3. CASE Select(p)
    BY <2>3, <1>a DEF Select, store, LocalType, PCs
  <2> QED
    BY <1>1, <2>1, <2>2, <2>3
<1>2. ASSUME NEW p \in Processors, EnqueueInsert(p)
      PROVE  Leased' /\ NoSharedLease'
  BY <1>2, <1>a, <1>b DEF EnqueueInsert, Return, AfterEnqueue, NextFree, local,
                          LocalType, StoreType, PCs
<1>3. ASSUME NEW p \in Processors, Recover(p)
      PROVE  Leased' /\ NoSharedLease'
  BY <1>3, <1>a, <1>b DEF Recover, Expired, local, LocalType, StoreType
<1>4. ASSUME NEW p \in Processors, NothingDue(p) \/ LoseClaim(p) \/ Abandon(p)
      PROVE  Leased' /\ NoSharedLease'
  <2>1. job' = job /\ cur' = [cur EXCEPT ![p] = 0] /\ pc' = [pc EXCEPT ![p] = "idle"]
    BY <1>4 DEF NothingDue, LoseClaim, Abandon, Leave, store
  <2> QED
    BY <2>1, <1>a DEF LocalType
<1>5. ASSUME NEW p \in Processors, Claim(p)
      PROVE  Leased' /\ NoSharedLease'
  BY <1>5, <1>a, <1>b DEF Claim, local, LocalType, StoreType, Row
<1>6. ASSUME NEW p \in Processors,
             \/ Load(p) \/ CheckQuota(p) \/ FindByMarker(p) \/ OpenIssue(p)
             \/ WorkFails(p) \/ RecordIssue(p) \/ Reopen(p) \/ EmitLifecycle(p)
             \/ FailRead(p)
      PROVE  Leased' /\ NoSharedLease'
  <2>1. /\ job' = job /\ cur' = cur /\ pc[p] \in Holding
        /\ \E label \in Holding : pc' = [pc EXCEPT ![p] = label]
    BY <1>6 DEF Load, CheckQuota, FindByMarker, OpenIssue, WorkFails,
                RecordIssue, Reopen, EmitLifecycle, FailRead, store, local
  <2> QED
    BY <2>1, <1>a DEF LocalType
<1>7. ASSUME NEW p \in Processors, Postpone(p) \/ Finish(p) \/ FailWrite(p)
      PROVE  Leased' /\ NoSharedLease'
  <2>1. /\ pc[p] \in Holding
        /\ \A j \in JobId : j # cur[p] => job'[j] = job[j]
        /\ cur' = [cur EXCEPT ![p] = 0] /\ pc' = [pc EXCEPT ![p] = "idle"]
    BY <1>7, <1>a DEF Postpone, Finish, FailWrite, Leave, StoreType
  <2> QED
    BY <2>1, <1>a, <1>b DEF LocalType
<1>8. ASSUME NEW p \in Processors, NEW g \in Groups, Report(p, g)
      PROVE  Leased' /\ NoSharedLease'
  BY <1>8, <1>a DEF Report, LocalType
<1>9. ASSUME NEW j \in JobId, Retry(j)
      PROVE  Leased' /\ NoSharedLease'
  BY <1>9, <1>a, <1>b DEF Retry, local, StoreType, Row
<1>10. ASSUME NEW j \in JobId, Clock(j)
      PROVE  Leased' /\ NoSharedLease'
  <2>1. UNCHANGED <<pc, cur>> /\ \A k \in JobId : job'[k].state = job[k].state
    BY <1>10, <1>a, ClockEffect DEF local
  <2>2. \A p \in Processors : pc[p] \in Holding => job'[cur[p]].leased
    <3>1. CASE ComesDue(j)
      BY <3>1, <1>a, <1>b DEF ComesDue, StoreType, Row
    <3>2. CASE LeaseExpires(j)
      BY <3>2, <1>a, <1>b DEF LeaseExpires, Holds, StoreType, Row
    <3>3. CASE Ages(j)
      BY <3>3, <1>a, <1>b DEF Ages, StoreType, Row
    <3> QED
      BY <1>10, <3>1, <3>2, <3>3 DEF Clock
  <2> QED
    BY <2>1, <2>2, <1>b
<1>11. CASE SetRepository \/ UNCHANGED vars
  BY <1>11 DEF SetRepository, local, vars
<1> QED
  BY <1>1, <1>2, <1>3, <1>4, <1>5, <1>6, <1>7, <1>8, <1>9, <1>10, <1>11
     DEF Next, Step

\* Unless a handler outlives its lease, no two handlers ever work on the
\* same job, whatever crashes, expired leases and manual retries intervene.
THEOREM LeasesExclude == ~LeaseOverrun => (Spec => []NoSharedLease)
<1> SUFFICES ASSUME ~LeaseOverrun PROVE Spec => []NoSharedLease
    OBVIOUS
<1>1. LeaseInv /\ [Next]_vars => LeaseInv'
  BY LeaseStep
<1>2. Spec => []LeaseInv
  BY LeaseInit, <1>1, PTL DEF Spec
<1> QED
  BY <1>2, PTL DEF LeaseInv

MarkerInv == LeaseInv /\ Searched /\ OneIssuePerDelivery

LEMMA MarkerInit == Init => MarkerInv
BY LeaseInit DEF Init, MarkerInv, Searched, OneIssuePerDelivery

LEMMA MarkerStep ==
  ASSUME ~LeaseOverrun, MarkerInv, [Next]_vars
  PROVE  MarkerInv'
<1>a. LocalType /\ StoreType
  BY DEF MarkerInv, LeaseInv, TypeInv, TypeOK, LocalType, StoreType
<1>b. \A p, q \in Processors : p # q /\ pc[p] = "open" /\ pc[q] = "open"
                                 => cur[p] # cur[q]
  BY DEF MarkerInv, LeaseInv, NoSharedLease, Holding
<1>c. \A p \in Processors : pc[p] = "open" => cur[p] \in JobId /\ target[p] \in Repos
  BY <1>a DEF LocalType, JobInHand, Holding
<1>d. 0 \notin JobId
  BY DEF JobId
<1> USE DEF MarkerInv, Searched, OneIssuePerDelivery, Goto
<1> SUFFICES Searched' /\ OneIssuePerDelivery'
    BY LeaseStep
\* GitHub is left alone, and no handler comes to open an issue.
<1>1. ASSUME UNCHANGED github,
             NEW p \in Processors, NEW label, label # "open",
             pc' = [pc EXCEPT ![p] = label],
             \A q \in Processors : q # p => cur'[q] = cur[q] /\ target'[q] = target[q]
      PROVE  Searched' /\ OneIssuePerDelivery'
  BY <1>1, <1>a DEF LocalType
<1>2. ASSUME UNCHANGED <<github, pc, cur, target>>
      PROVE  Searched' /\ OneIssuePerDelivery'
  BY <1>2
<1>3. ASSUME NEW p \in Processors, FindByMarker(p)
      PROVE  Searched' /\ OneIssuePerDelivery'
  BY <1>3, <1>a DEF FindByMarker, store, LocalType
<1>4. ASSUME NEW p \in Processors, OpenIssue(p)
      PROVE  Searched' /\ OneIssuePerDelivery'
  <2>1. PICK n \in Number : github[target[p]][n] = 0
                            /\ github' = [github EXCEPT ![target[p]][n] = cur[p]]
    BY <1>4 DEF OpenIssue, NextNumber
  <2>2. pc[p] = "open" /\ cur' = cur /\ target' = target
        /\ \E label \in {"record", "failRead"} : pc' = [pc EXCEPT ![p] = label]
    BY <1>4 DEF OpenIssue
  <2>3. /\ cur[p] \in JobId /\ target[p] \in Repos
        /\ \A m \in Number : github[target[p]][m] # cur[p]
    BY <2>2, <1>c
  <2>6. \A r \in Repos, m \in Number :
          github'[r][m] = IF r = target[p] /\ m = n THEN cur[p] ELSE github[r][m]
    BY <2>1, <2>3, <1>a DEF StoreType
  <2>4. OneIssuePerDelivery'
    BY <2>3, <2>6
  <2>5. Searched'
    <3> SUFFICES ASSUME NEW q \in Processors, pc'[q] = "open", NEW m \in Number
                 PROVE  github'[target[q]][m] # cur[q]
        BY <2>2
    <3>1. q # p /\ pc[q] = "open"
      BY <2>2, <1>a DEF LocalType
    <3>2. cur[q] # cur[p] /\ target[q] \in Repos /\ github[target[q]][m] # cur[q]
      BY <3>1, <2>2, <1>b, <1>c
    <3> QED
      BY <3>2, <2>6
  <2> QED
    BY <2>4, <2>5
<1>5. ASSUME NEW p \in Processors, Step(p), ~FindByMarker(p), ~OpenIssue(p)
      PROVE  Searched' /\ OneIssuePerDelivery'
  <2>1. UNCHANGED github
    BY <1>5 DEF Step, EnqueueCheck, EnqueueInsert, EnqueueFails, Return, Wake,
                Recover, Select, NothingDue, Claim, LoseClaim, Load, CheckQuota,
                Postpone, WorkFails, RecordIssue, Reopen, EmitLifecycle, Finish,
                FailRead, FailWrite
  <2>2. \E label : label # "open" /\ pc' = [pc EXCEPT ![p] = label]
    BY <1>5 DEF Step, EnqueueCheck, EnqueueInsert, EnqueueFails, Return,
                AfterEnqueue, Wake, Recover, Select, NothingDue, Claim,
                LoseClaim, Load, CheckQuota, Postpone, WorkFails, RecordIssue,
                Reopen, EmitLifecycle, Finish, FailRead, FailWrite, Leave
  <2>3. \A q \in Processors : q # p => cur'[q] = cur[q] /\ target'[q] = target[q]
    BY <1>5, <1>a
       DEF Step, EnqueueCheck, EnqueueInsert, EnqueueFails, Return, Wake,
           Recover, Select, NothingDue, Claim, LoseClaim, Load, CheckQuota,
           Postpone, WorkFails, RecordIssue, Reopen, EmitLifecycle, Finish,
           FailRead, FailWrite, Leave, local, LocalType
  <2> QED
    BY <2>1, <2>2, <2>3, <1>1, ZenonT(40)
<1>6. ASSUME NEW p \in Processors, Abandon(p)
      PROVE  Searched' /\ OneIssuePerDelivery'
  BY <1>6, <1>a DEF Abandon, Leave, LocalType
<1>7. ASSUME NEW p \in Processors, NEW g \in Groups, Report(p, g)
      PROVE  Searched' /\ OneIssuePerDelivery'
  BY <1>7, <1>a DEF Report, LocalType
<1>8. ASSUME NEW j \in JobId, Retry(j) \/ Clock(j)
      PROVE  Searched' /\ OneIssuePerDelivery'
  BY <1>8, <1>2 DEF Retry, Clock, ComesDue, LeaseExpires, Ages, local
<1>9. CASE SetRepository \/ UNCHANGED vars
  BY <1>9, <1>2 DEF SetRepository, local, vars
<1> QED
  BY <1>3, <1>4, <1>5, <1>6, <1>7, <1>8, <1>9 DEF Next

\* Unless a handler outlives its lease, no repository ever holds two issues
\* with the marker of one job: the search before each attempt and the lease
\* together make opening an issue in it idempotent, however often the project
\* is bound elsewhere and back.
THEOREM MarkersReconcile == ~LeaseOverrun => (Spec => []OneIssuePerDelivery)
<1> SUFFICES ASSUME ~LeaseOverrun PROVE Spec => []OneIssuePerDelivery
    OBVIOUS
<1>1. MarkerInv /\ [Next]_vars => MarkerInv'
  BY MarkerStep
<1>2. Spec => []MarkerInv
  BY MarkerInit, <1>1, PTL DEF Spec
<1> QED
  BY <1>2, PTL DEF MarkerInv

-----------------------------------------------------------------------------
(***************************************************************************)
(* What jobs, issues and events say of each other, whoever outlives its    *)
(* lease.                                                                  *)
(***************************************************************************)
\* A handler only reroutes a reopen, and only to an open of the same group.
ReroutingOf(p) ==
  pc[p] \in {"rerouteCheck", "rerouteInsert"} =>
    /\ job[cur[p]].action = "reopen"
    /\ want[p] = [group |-> job[cur[p]].group, action |-> "open"]

\* Who is about to report success told subscribers or handed over.
BackedOf(p) == pc[p] = "finish" => cur[p] \in events \union HandedOver

\* What job j was handed over to is an open job of its group.
HeirOf(j) == /\ job[j].state # "absent" /\ job[j].action = "reopen"
             /\ job[heir[j]].state # "absent"
             /\ job[heir[j]].action = "open"
             /\ job[heir[j]].group = job[j].group

\* The job in hand has a row.
RowInHand == \A p \in Processors :
               pc[p] \in Holding \union {"claim"} => job[cur[p]].state # "absent"

BackedInv ==
  /\ TypeInv /\ RowInHand
  /\ \A p \in Processors : ReroutingOf(p) /\ BackedOf(p)
  /\ \A j \in HandedOver : HeirOf(j)

\* Rows are never deleted, and keep their group and action.
LEMMA RowsStay ==
  ASSUME TypeInv, [Next]_vars, NEW j \in JobId, job[j].state # "absent"
  PROVE  /\ job'[j].state # "absent"
         /\ job'[j].group = job[j].group /\ job'[j].action = job[j].action
<1>a. LocalType /\ StoreType
  BY DEF TypeInv, TypeOK, LocalType, StoreType
<1>1. CASE UNCHANGED job
  BY <1>1
<1>2. ASSUME NEW p \in Processors, EnqueueInsert(p)
      PROVE  job'[j] = job[j]
  BY <1>2, <1>a DEF EnqueueInsert, NextFree, StoreType
<1>3. ASSUME NEW p \in Processors, Recover(p) \/ Claim(p) \/ Postpone(p) \/ Finish(p)
      PROVE  /\ job'[j].state # "absent"
             /\ job'[j].group = job[j].group /\ job'[j].action = job[j].action
  <2>1. CASE Recover(p)
    BY <2>1, <1>a DEF Recover, StoreType, Row
  <2>2. CASE Claim(p)
    BY <2>2, <1>a DEF Claim, StoreType, Row
  <2>3. CASE Postpone(p)
    BY <2>3, <1>a DEF Postpone, StoreType, Row
  <2>4. CASE Finish(p)
    BY <2>4, <1>a DEF Finish, StoreType, Row
  <2> QED
    BY <1>3, <2>1, <2>2, <2>3, <2>4
<1>4. ASSUME NEW p \in Processors, FailWrite(p)
      PROVE  /\ job'[j].state # "absent"
             /\ job'[j].group = job[j].group /\ job'[j].action = job[j].action
  BY <1>4, <1>a DEF FailWrite, StoreType, Row
<1>5. ASSUME NEW k \in JobId, Retry(k) \/ Clock(k)
      PROVE  /\ job'[j].state # "absent"
             /\ job'[j].group = job[j].group /\ job'[j].action = job[j].action
  <2>1. CASE Retry(k)
    BY <2>1, <1>a DEF Retry, StoreType, Row
  <2>2. CASE Clock(k)
    BY <2>2, <1>a, ClockEffect
  <2> QED
    BY <1>5, <2>1, <2>2
<1>6. ASSUME NEW p \in Processors, Step(p), ~EnqueueInsert(p), ~Recover(p),
             ~Claim(p), ~Postpone(p), ~Finish(p), ~FailWrite(p)
      PROVE  UNCHANGED job
  BY <1>6 DEF Step, EnqueueCheck, EnqueueFails, Wake, Select, NothingDue, LoseClaim,
              Load, CheckQuota, FindByMarker, OpenIssue, WorkFails, RecordIssue,
              Reopen, EmitLifecycle, FailRead, store
<1>7. ASSUME NEW p \in Processors, Abandon(p) \/ \E g \in Groups : Report(p, g)
      PROVE  UNCHANGED job
  BY <1>7 DEF Abandon, Report, store
<1>8. CASE SetRepository \/ UNCHANGED vars
  BY <1>1, <1>8 DEF SetRepository, vars
<1> QED
  BY <1>1, <1>2, <1>3, <1>4, <1>5, <1>6, <1>7, <1>8 DEF Next

\* A job is only handed over by the handler that reroutes it, to a job that
\* has a row then.
LEMMA HeirBy ==
  ASSUME TypeInv, [Next]_vars, NEW j \in JobId, heir'[j] # heir[j]
  PROVE  \E p \in Processors :
           /\ pc[p] \in {"rerouteCheck", "rerouteInsert"} /\ cur[p] = j
           /\ heir'[j] \in JobId
           /\ job'[heir'[j]].state # "absent"
           /\ job'[heir'[j]].action = want[p].action
           /\ job'[heir'[j]].group = want[p].group
<1>a. LocalType /\ StoreType
  BY DEF TypeInv, TypeOK, LocalType, StoreType
<1>1. PICK p \in Processors : EnqueueCheck(p) \/ EnqueueInsert(p)
  BY ZenonT(60)
     DEF Next, vars, Step, EnqueueFails, Wake, Recover, Select, NothingDue, Claim,
         LoseClaim, Load, CheckQuota, Postpone, FindByMarker, OpenIssue, WorkFails,
         RecordIssue, Reopen, EmitLifecycle, Finish, FailRead, FailWrite, Abandon,
         Report, Retry, Clock, ComesDue, LeaseExpires, Ages, SetRepository, store
\* Whoever hands over reroutes the job in hand.
<1>2. ASSUME NEW k \in JobId, HandOver(p, k)
      PROVE  pc[p] \in Holding /\ cur[p] = j /\ heir'[j] = k
  BY <1>2, <1>a DEF HandOver, StoreType
<1>3. CASE EnqueueCheck(p)
  <2>1. PICK k \in Open(want[p].group, want[p].action) : HandOver(p, k)
    BY <1>3 DEF EnqueueCheck
  <2>2. /\ k \in JobId /\ job[k].state # "absent"
        /\ job[k].group = want[p].group /\ job[k].action = want[p].action
    BY DEF Open
  <2>3. UNCHANGED job /\ pc[p] \in {"enqueueCheck", "rerouteCheck"}
    BY <1>3 DEF EnqueueCheck
  <2> QED
    BY <2>1, <2>2, <2>3, <1>2 DEF Holding
<1>4. CASE EnqueueInsert(p)
  <2>1. PICK k \in JobId :
          /\ HandOver(p, k)
          /\ job' = [job EXCEPT ![k] = [NoRow EXCEPT !.state = "pending", !.due = TRUE,
                                                     !.group = want[p].group,
                                                     !.action = want[p].action]]
    BY <1>4 DEF EnqueueInsert
  <2>2. /\ job'[k].state # "absent"
        /\ job'[k].group = want[p].group /\ job'[k].action = want[p].action
    BY <2>1, <1>a DEF StoreType, NoRow
  <2>3. pc[p] \in {"enqueueInsert", "rerouteInsert"}
    BY <1>4 DEF EnqueueInsert
  <2> QED
    BY <2>1, <2>2, <2>3, <1>2 DEF Holding
<1> QED
  BY <1>1, <1>3, <1>4

\* A job that was handed over stays so, and its heir stays an open job of its
\* group.
LEMMA HeirsStay ==
  ASSUME BackedInv, [Next]_vars
  PROVE  /\ HandedOver \subseteq HandedOver'
         /\ \A j \in HandedOver' : HeirOf(j)'
<1>1. ASSUME NEW j \in JobId, heir'[j] # heir[j]
      PROVE  heir'[j] # 0 /\ HeirOf(j)'
  <2>1. PICK p \in Processors :
          /\ pc[p] \in {"rerouteCheck", "rerouteInsert"} /\ cur[p] = j
          /\ heir'[j] \in JobId
          /\ job'[heir'[j]].state # "absent"
          /\ job'[heir'[j]].action = want[p].action
          /\ job'[heir'[j]].group = want[p].group
    BY <1>1, HeirBy DEF BackedInv
  <2>4. job[j].state # "absent"
    BY <2>1 DEF BackedInv, RowInHand, Holding
  <2>5. ReroutingOf(p)
    BY DEF BackedInv
  <2>2. /\ job[j].state # "absent" /\ job[j].action = "reopen"
        /\ want[p].group = job[j].group /\ want[p].action = "open"
    BY <2>1, <2>4, <2>5 DEF ReroutingOf
  <2>3. /\ job'[j].state # "absent" /\ job'[j].group = job[j].group
        /\ job'[j].action = job[j].action
    BY <2>2, RowsStay DEF BackedInv
  <2> QED
    BY <2>1, <2>2, <2>3 DEF HeirOf, JobId
<1>2. ASSUME NEW j \in HandedOver, heir'[j] = heir[j]
      PROVE  HeirOf(j)'
  <2>1. /\ j \in JobId /\ heir[j] \in JobId /\ HeirOf(j)
    BY DEF BackedInv, HandedOver, TypeInv, TypeOK
  <2>2. /\ job'[j].state # "absent" /\ job'[j].group = job[j].group
        /\ job'[j].action = job[j].action
    BY <2>1, RowsStay DEF BackedInv, HeirOf
  <2>3. /\ job'[heir[j]].state # "absent" /\ job'[heir[j]].group = job[heir[j]].group
        /\ job'[heir[j]].action = job[heir[j]].action
    BY <2>1, RowsStay DEF BackedInv, HeirOf
  <2> QED
    BY <1>2, <2>1, <2>2, <2>3 DEF HeirOf
<1> QED
  BY <1>1, <1>2 DEF HandedOver

\* Lifecycle events are never withdrawn.
LEMMA EventsStay == [Next]_vars => events \subseteq events'
BY ZenonT(60)
   DEF Next, vars, Step, EnqueueCheck, EnqueueInsert, EnqueueFails, Wake, Recover,
       Select, NothingDue, Claim, LoseClaim, Load, CheckQuota, Postpone,
       FindByMarker, OpenIssue, WorkFails, RecordIssue, Reopen, EmitLifecycle,
       Finish, FailRead, FailWrite, Abandon, Report, Retry, Clock, ComesDue,
       LeaseExpires, Ages, SetRepository, store

\* A handler moves by its own steps, or is given up, or starts with a report;
\* otherwise its locals stay.
LEMMA OwnSteps ==
  ASSUME TypeInv, [Next]_vars, NEW q \in Processors
  PROVE  \/ Step(q)
         \/ pc'[q] \in {"idle", "enqueueCheck"}
         \/ /\ pc'[q] = pc[q] /\ cur'[q] = cur[q] /\ target'[q] = target[q]
            /\ want'[q] = want[q] /\ num'[q] = num[q]
<1>a. LocalType
  BY DEF TypeInv, TypeOK, LocalType
<1>1. ASSUME NEW p \in Processors, Step(p), p # q
      PROVE  /\ pc'[q] = pc[q] /\ cur'[q] = cur[q] /\ target'[q] = target[q]
             /\ want'[q] = want[q] /\ num'[q] = num[q]
  BY <1>1, <1>a
     DEF Step, EnqueueCheck, EnqueueInsert, EnqueueFails, Return, Wake, Recover,
         Select, NothingDue, Claim, LoseClaim, Load, CheckQuota, Postpone,
         FindByMarker, OpenIssue, WorkFails, RecordIssue, Reopen, EmitLifecycle,
         Finish, FailRead, FailWrite, Goto, Leave, store, local, LocalType
<1>2. ASSUME NEW p \in Processors, Abandon(p) \/ \E g \in Groups : Report(p, g)
      PROVE  \/ pc'[q] \in {"idle", "enqueueCheck"}
             \/ /\ pc'[q] = pc[q] /\ cur'[q] = cur[q] /\ target'[q] = target[q]
                /\ want'[q] = want[q] /\ num'[q] = num[q]
  BY <1>2, <1>a DEF Abandon, Report, Leave, Goto, LocalType
<1>3. ASSUME \/ \E j \in JobId : Retry(j) \/ Clock(j)
             \/ SetRepository \/ UNCHANGED vars
      PROVE  /\ pc'[q] = pc[q] /\ cur'[q] = cur[q] /\ target'[q] = target[q]
             /\ want'[q] = want[q] /\ num'[q] = num[q]
  BY <1>3 DEF Retry, Clock, ComesDue, LeaseExpires, Ages, SetRepository, local, vars
<1> QED
  BY <1>1, <1>2, <1>3 DEF Next

\* A handler works on the job it claimed, and claims one that is due.
LEMMA HandKept ==
  ASSUME TypeInv, [Next]_vars, NEW q \in Processors,
         pc'[q] \in Holding \union {"claim"}
  PROVE  \/ pc[q] \in Holding \union {"claim"} /\ cur'[q] = cur[q]
         \/ cur'[q] \in Due /\ UNCHANGED job
<1>a. LocalType
  BY DEF TypeInv, TypeOK, LocalType
<1>1. CASE Step(q)
  BY <1>1, <1>a, ZenonT(60)
     DEF Step, EnqueueCheck, EnqueueInsert, EnqueueFails, Return, AfterEnqueue, Wake,
         Recover, Select, NothingDue, Claim, LoseClaim, Load, CheckQuota, Postpone,
         FindByMarker, OpenIssue, WorkFails, RecordIssue, Reopen, EmitLifecycle,
         Finish, FailRead, FailWrite, Goto, Leave, Holding, store, local, LocalType
<1> QED
  BY <1>1, OwnSteps DEF Holding

LEMMA RowInHandStep ==
  ASSUME TypeInv, RowInHand, [Next]_vars
  PROVE  RowInHand'
<1> SUFFICES ASSUME NEW q \in Processors, pc'[q] \in Holding \union {"claim"}
             PROVE  job'[cur'[q]].state # "absent"
    BY DEF RowInHand
<1>1. CASE pc[q] \in Holding \union {"claim"} /\ cur'[q] = cur[q]
  <2>1. cur[q] \in JobId /\ job[cur[q]].state # "absent"
    BY <1>1 DEF TypeInv, JobInHand, RowInHand
  <2> QED
    BY <1>1, <2>1, RowsStay
<1>2. CASE cur'[q] \in Due /\ UNCHANGED job
  BY <1>2 DEF Due
<1> QED
  BY <1>1, <1>2, HandKept

\* What holds of a handler's own steps stays true under those of others.
LEMMA OthersStay ==
  ASSUME BackedInv, [Next]_vars, NEW q \in Processors,
         pc'[q] = pc[q], cur'[q] = cur[q], want'[q] = want[q]
  PROVE  ReroutingOf(q)' /\ BackedOf(q)'
<1>1. CASE pc[q] \notin {"rerouteCheck", "rerouteInsert", "finish"}
  BY <1>1 DEF ReroutingOf, BackedOf
<1>2. CASE pc[q] \in {"rerouteCheck", "rerouteInsert", "finish"}
  <2>1. cur[q] \in JobId /\ job[cur[q]].state # "absent"
    BY <1>2 DEF BackedInv, RowInHand, TypeInv, JobInHand, Holding
  <2>2. job'[cur[q]].group = job[cur[q]].group /\ job'[cur[q]].action = job[cur[q]].action
    BY <2>1, RowsStay DEF BackedInv
  <2>3. events \subseteq events' /\ HandedOver \subseteq HandedOver'
    BY EventsStay, HeirsStay
  <2> QED
    BY <2>2, <2>3 DEF BackedInv, ReroutingOf, BackedOf
<1> QED
  BY <1>1, <1>2

LEMMA BackedInit == Init => BackedInv
BY TypeInit DEF Init, BackedInv, RowInHand, ReroutingOf, BackedOf, HandedOver,
                Holding

LEMMA BackedStep ==
  ASSUME BackedInv, [Next]_vars
  PROVE  BackedInv'
<1>a. LocalType /\ StoreType
  BY DEF BackedInv, TypeInv, TypeOK, LocalType, StoreType
<1>b. TypeInv' /\ RowInHand'
  BY TypeStep, RowInHandStep DEF BackedInv
<1> SUFFICES ASSUME NEW q \in Processors PROVE ReroutingOf(q)' /\ BackedOf(q)'
    BY <1>b, HeirsStay DEF BackedInv
<1>1. CASE pc'[q] \notin {"rerouteCheck", "rerouteInsert", "finish"}
  BY <1>1 DEF ReroutingOf, BackedOf
<1>2. CASE pc'[q] = pc[q] /\ cur'[q] = cur[q] /\ want'[q] = want[q]
  BY <1>2, OthersStay
<1>3. CASE Load(q)
  BY <1>3, <1>a DEF Load, Goto, ReroutingOf, BackedOf, LocalType, store
<1>4. CASE EnqueueCheck(q) \/ EnqueueInsert(q)
  <2>1. CASE pc[q] \in {"rerouteCheck", "rerouteInsert"}
    <3>1. cur[q] \in JobId /\ job[cur[q]].state # "absent" /\ pc[q] \in Holding
      BY <2>1 DEF BackedInv, RowInHand, TypeInv, JobInHand, Holding
    <3>2. /\ job'[cur[q]].action = job[cur[q]].action
          /\ job'[cur[q]].group = job[cur[q]].group
      BY <3>1, RowsStay DEF BackedInv
    <3>3. CASE pc'[q] = "finish"
      <4>1. \E k \in JobId : HandOver(q, k)
        BY <1>4, <2>1, <3>3, <1>a DEF EnqueueCheck, EnqueueInsert, Goto, Open, LocalType
      <4>2. heir'[cur[q]] # 0
        BY <4>1, <3>1, <1>a DEF HandOver, StoreType, JobId
      <4>3. cur'[q] = cur[q]
        BY <1>4 DEF EnqueueCheck, EnqueueInsert
      <4> QED
        BY <3>1, <3>3, <4>2, <4>3 DEF ReroutingOf, BackedOf, HandedOver
    <3>4. CASE pc'[q] # "finish"
      <4>1. /\ pc'[q] = "rerouteInsert" /\ cur'[q] = cur[q] /\ want'[q] = want[q]
        BY <1>4, <2>1, <3>1, <3>4, <1>a
           DEF EnqueueCheck, EnqueueInsert, Return, AfterEnqueue, Goto, LocalType
      <4> QED
        BY <2>1, <3>2, <4>1 DEF BackedInv, ReroutingOf, BackedOf
    <3> QED
      BY <3>3, <3>4
  <2> QED
    BY <1>4, <2>1, <1>a DEF EnqueueCheck, EnqueueInsert, Return, AfterEnqueue, Goto,
                            ReroutingOf, BackedOf, LocalType, Holding
<1>6. CASE EmitLifecycle(q)
  BY <1>6, <1>a DEF EmitLifecycle, Goto, ReroutingOf, BackedOf, LocalType, local
<1>7. ASSUME Step(q), ~Load(q), ~EnqueueCheck(q), ~EnqueueInsert(q),
             ~EmitLifecycle(q)
      PROVE  pc'[q] \notin {"rerouteCheck", "rerouteInsert", "finish"}
  BY <1>7, <1>a
     DEF Step, EnqueueFails, Return, Wake, Recover, Select, NothingDue, Claim,
         LoseClaim, CheckQuota, Postpone, FindByMarker, OpenIssue, WorkFails,
         RecordIssue, Reopen, Finish, FailRead, FailWrite, Goto, Leave,
         LocalType
<1> QED
  BY <1>1, <1>2, <1>3, <1>4, <1>6, <1>7, OwnSteps DEF BackedInv

LEMMA BackedInvariant == Spec => []BackedInv
<1>1. BackedInv /\ [Next]_vars => BackedInv'
  BY BackedStep
<1> QED
  BY BackedInit, <1>1, PTL DEF Spec

\* The markers on GitHub and the keys of events name jobs that have a row.
MarkersHaveRows == \A r \in Repos, n \in Number :
                     github[r][n] # 0 => job[github[r][n]].state # "absent"
EventsHaveRows  == \A j \in events : job[j].state # "absent"

\* What the handler found or opened carries its job's marker, and a handler
\* only tells subscribers of a group that has its issue.
FilingOf(p) ==
  /\ pc[p] = "record" => num[p] # 0 /\ github[target[p]][num[p]] = cur[p]
  /\ pc[p] = "quota" /\ num[p] # 0 => issue[job[cur[p]].group] # 0
  /\ pc[p] \in {"reopen", "emit"} => issue[job[cur[p]].group] # 0

FiledInv ==
  /\ BackedInv /\ MarkersHaveRows /\ EventsHaveRows
  /\ \A p \in Processors : FilingOf(p)
  /\ IssueIsOurs /\ EventsFollowIssues /\ DoneIsBacked

LEMMA FiledInit == Init => FiledInv
BY BackedInit DEF Init, FiledInv, MarkersHaveRows, EventsHaveRows, FilingOf,
                  IssueIsOurs, EventsFollowIssues, DoneIsBacked, NoRow

\* The handlers that change GitHub, the groups' issues and the events.
LEMMA FiledBy ==
  ASSUME [Next]_vars
  PROVE  /\ UNCHANGED github \/ \E p \in Processors : OpenIssue(p)
         /\ UNCHANGED <<issue, home>> \/ \E p \in Processors : RecordIssue(p)
         /\ UNCHANGED events \/ \E p \in Processors : EmitLifecycle(p)
BY ZenonT(60)
   DEF Next, vars, Step, EnqueueCheck, EnqueueInsert, EnqueueFails, Wake, Recover,
       Select, NothingDue, Claim, LoseClaim, Load, CheckQuota, Postpone,
       FindByMarker, WorkFails, Reopen, Finish, FailRead, FailWrite, OpenIssue,
       RecordIssue, EmitLifecycle, Abandon, Report, Retry, Clock, ComesDue,
       LeaseExpires, Ages, SetRepository, store

\* An issue keeps its marker, and a group keeps having an issue.
LEMMA IssuesStay ==
  ASSUME FiledInv, [Next]_vars
  PROVE  /\ \A r \in Repos, n \in Number :
              github[r][n] # 0 => github'[r][n] = github[r][n]
         /\ \A g \in Groups : issue[g] # 0 => issue'[g] # 0
<1>a. LocalType /\ StoreType
  BY DEF FiledInv, BackedInv, TypeInv, TypeOK, LocalType, StoreType
<1>1. ASSUME NEW p \in Processors, OpenIssue(p)
      PROVE  \A r \in Repos, n \in Number :
               github[r][n] # 0 => github'[r][n] = github[r][n]
  <2>1. PICK n \in Number : github[target[p]][n] = 0
                            /\ github' = [github EXCEPT ![target[p]][n] = cur[p]]
    BY <1>1 DEF OpenIssue, NextNumber
  <2> QED
    BY <2>1, <1>a DEF StoreType
<1>2. ASSUME NEW p \in Processors, RecordIssue(p)
      PROVE  \A g \in Groups : issue[g] # 0 => issue'[g] # 0
  BY <1>2, <1>a DEF RecordIssue, FiledInv, FilingOf, StoreType
<1> QED
  BY <1>1, <1>2, FiledBy

\* Only Finish makes a job done, and done within the hour.
LEMMA DoneByFinish ==
  ASSUME TypeInv, [Next]_vars, NEW j \in JobId, job'[j].state = "done",
         \A p \in Processors : ~(Finish(p) /\ cur[p] = j)
  PROVE  job[j].state = "done" /\ (job'[j].recent => job[j].recent)
<1>a. LocalType /\ StoreType
  BY DEF TypeInv, TypeOK, LocalType, StoreType
<1>b. \A p \in Processors : pc[p] \in Holding \union {"claim"} => cur[p] \in JobId
  BY <1>a DEF LocalType, JobInHand
<1>1. ASSUME NEW p \in Processors,
             EnqueueInsert(p) \/ Recover(p) \/ Claim(p) \/ Postpone(p) \/ FailWrite(p)
      PROVE  job[j].state = "done" /\ (job'[j].recent => job[j].recent)
  <2>1. CASE EnqueueInsert(p)
    BY <2>1, <1>a DEF EnqueueInsert, NoRow, StoreType
  <2>2. CASE Recover(p)
    BY <2>2, <1>a, ZenonT(60) DEF Recover, StoreType, Row
  <2>3. CASE Claim(p)
    BY <2>3, <1>a, <1>b DEF Claim, StoreType, Row
  <2>4. CASE Postpone(p)
    BY <2>4, <1>a, <1>b DEF Postpone, StoreType, Row, Holding
  <2>5. CASE FailWrite(p)
    BY <2>5, <1>a, <1>b DEF FailWrite, StoreType, Row, Holding
  <2> QED
    BY <1>1, <2>1, <2>2, <2>3, <2>4, <2>5
<1>2. ASSUME NEW p \in Processors, Finish(p)
      PROVE  job'[j] = job[j]
  BY <1>2, <1>a, <1>b DEF Finish, StoreType, Holding
<1>3. ASSUME NEW k \in JobId, Retry(k) \/ Clock(k)
      PROVE  job[j].state = "done" /\ (job'[j].recent => job[j].recent)
  <2>1. CASE Retry(k)
    BY <2>1, <1>a DEF Retry, StoreType, Row
  <2>2. CASE Clock(k)
    BY <2>2, <1>a, ClockEffect
  <2> QED
    BY <1>3, <2>1, <2>2
<1>4. ASSUME NEW p \in Processors, Step(p), ~EnqueueInsert(p), ~Recover(p),
             ~Claim(p), ~Postpone(p), ~Finish(p), ~FailWrite(p)
      PROVE  job[j].state = "done" /\ (job'[j].recent => job[j].recent)
  BY <1>4 DEF Step, EnqueueCheck, EnqueueFails, Wake, Select, NothingDue, LoseClaim,
              Load, CheckQuota, FindByMarker, OpenIssue, WorkFails, RecordIssue,
              Reopen, EmitLifecycle, FailRead, store
<1>5. ASSUME \/ \E p \in Processors : Abandon(p) \/ \E g \in Groups : Report(p, g)
             \/ SetRepository \/ UNCHANGED vars
      PROVE  job[j].state = "done" /\ (job'[j].recent => job[j].recent)
  BY <1>5 DEF Abandon, Report, SetRepository, store, vars
<1> QED
  BY <1>1, <1>2, <1>3, <1>4, <1>5 DEF Next

\* A handler comes to these statements by its own step only.
LEMMA FilingStep ==
  ASSUME FiledInv, [Next]_vars, NEW q \in Processors
  PROVE  FilingOf(q)'
<1>a. LocalType /\ StoreType
  BY DEF FiledInv, BackedInv, TypeInv, TypeOK, LocalType, StoreType
<1>b. ASSUME pc[q] \in Holding, cur'[q] = cur[q]
      PROVE  /\ cur[q] \in JobId /\ cur'[q] # 0
             /\ job'[cur'[q]].group = job[cur[q]].group
             /\ job[cur[q]].group \in Groups
  <2>1. cur[q] \in JobId /\ job[cur[q]].state # "absent"
    BY <1>b DEF FiledInv, BackedInv, RowInHand, TypeInv, JobInHand
  <2>2. job[cur[q]].group \in Groups /\ cur[q] # 0
    BY <2>1, <1>a DEF StoreType, Row, JobId
  <2> QED
    BY <1>b, <2>1, <2>2, RowsStay DEF FiledInv, BackedInv
<1>1. CASE pc'[q] \notin {"record", "quota", "reopen", "emit"}
  BY <1>1 DEF FilingOf
<1>2. CASE /\ pc'[q] = pc[q] /\ cur'[q] = cur[q]
           /\ num'[q] = num[q] /\ target'[q] = target[q]
  <2>1. pc[q] \in {"record", "quota", "reopen", "emit"} => pc[q] \in Holding
    BY DEF Holding
  <2>2. FilingOf(q)
    BY DEF FiledInv
  <2>3. num[q] \in Number \union {0} /\ (pc[q] = "record" => target[q] \in Repos)
    BY <1>a DEF LocalType, JobInHand
  <2> QED
    BY <1>2, <1>b, <2>1, <2>2, <2>3, IssuesStay DEF FilingOf
<1>3. CASE Load(q)
  <2>1. /\ pc[q] = "load" /\ cur'[q] = cur[q] /\ num'[q] = issue[job[cur[q]].group]
        /\ pc'[q] \in {"failRead", "quota", "reopen", "rerouteCheck"}
        /\ pc'[q] = "reopen" => issue[job[cur[q]].group] # 0
    BY <1>3, <1>a DEF Load, Goto, LocalType
  <2>2. pc[q] \in Holding
    BY <2>1 DEF Holding
  <2> QED
    BY <2>1, <2>2, <1>b, IssuesStay DEF FilingOf
<1>4. CASE CheckQuota(q) \/ Reopen(q)
  <2>1. /\ pc[q] \in {"quota", "reopen"} /\ cur'[q] = cur[q]
        /\ pc'[q] \in {"postpone", "find", "emit", "failRead"}
        /\ pc[q] = "quota" /\ pc'[q] = "emit" => num[q] # 0
    BY <1>4, <1>a DEF CheckQuota, Reopen, Goto, local, LocalType
  <2>2. pc[q] \in Holding
    BY <2>1 DEF Holding
  <2>3. FilingOf(q)
    BY DEF FiledInv
  <2> QED
    BY <2>1, <2>2, <2>3, <1>b, IssuesStay DEF FilingOf
<1>5. CASE FindByMarker(q)
  <2>1. cur[q] # 0 /\ cur'[q] = cur[q]
    BY <1>5, <1>b DEF FindByMarker, Holding
  <2>2. /\ pc'[q] \in {"record", "open", "failRead"}
        /\ pc'[q] = "record" => num'[q] \in Number /\ github[target[q]][num'[q]] = cur[q]
        /\ UNCHANGED <<github, target>>
    BY <1>5, <1>a DEF FindByMarker, Goto, LocalType
  <2> QED
    BY <2>1, <2>2 DEF FilingOf, Number
<1>6. CASE OpenIssue(q)
  <2>1. cur'[q] = cur[q] /\ target'[q] = target[q] /\ target[q] \in Repos
    BY <1>6, <1>a DEF OpenIssue, LocalType, JobInHand
  <2>2. /\ pc'[q] \in {"record", "failRead"}
        /\ pc'[q] = "record" => num'[q] \in Number /\ github'[target[q]][num'[q]] = cur[q]
    BY <1>6, <2>1, <1>a DEF OpenIssue, Goto, LocalType, StoreType
  <2> QED
    BY <2>1, <2>2 DEF FilingOf, Number
<1>7. CASE RecordIssue(q)
  <2>1. /\ cur'[q] = cur[q] /\ pc[q] = "record" /\ pc'[q] = "emit"
        /\ issue' = [issue EXCEPT ![job[cur[q]].group] = num[q]]
    BY <1>7, <1>a DEF RecordIssue, Goto, local, LocalType
  <2>2. pc[q] \in Holding
    BY <2>1 DEF Holding
  <2>3. num[q] # 0
    BY <2>1 DEF FiledInv, FilingOf
  <2> QED
    BY <2>1, <2>2, <2>3, <1>a, <1>b DEF FilingOf, StoreType
<1>8. ASSUME Step(q), ~Load(q), ~CheckQuota(q), ~Reopen(q), ~FindByMarker(q),
             ~OpenIssue(q), ~RecordIssue(q)
      PROVE  pc'[q] \notin {"record", "quota", "reopen", "emit"}
  BY <1>8, <1>a
     DEF Step, EnqueueCheck, EnqueueInsert, EnqueueFails, Return, AfterEnqueue, Wake,
         Recover, Select, NothingDue, Claim, LoseClaim, Postpone, WorkFails,
         EmitLifecycle, Finish, FailRead, FailWrite, Goto, Leave, LocalType
<1> QED
  BY <1>1, <1>2, <1>3, <1>4, <1>5, <1>6, <1>7, <1>8, OwnSteps DEF FiledInv, BackedInv

LEMMA FiledStep ==
  ASSUME FiledInv, [Next]_vars
  PROVE  /\ MarkersHaveRows' /\ EventsHaveRows'
         /\ IssueIsOurs' /\ EventsFollowIssues' /\ DoneIsBacked'
<1>a. LocalType /\ StoreType
  BY DEF FiledInv, BackedInv, TypeInv, TypeOK, LocalType, StoreType
<1>r. \A j \in JobId : job[j].state # "absent" =>
        /\ job'[j].state # "absent"
        /\ job'[j].group = job[j].group /\ job'[j].action = job[j].action
        /\ job[j].group \in Groups
  BY RowsStay, <1>a DEF FiledInv, BackedInv, StoreType, Row
<1>h. \A p \in Processors : pc[p] \in Holding =>
        cur[p] \in JobId /\ job[cur[p]].state # "absent"
  BY DEF FiledInv, BackedInv, RowInHand, TypeInv, JobInHand
<1>1. MarkersHaveRows'
  <2>1. ASSUME NEW p \in Processors, OpenIssue(p)
        PROVE  MarkersHaveRows'
    <3>1. \A r \in Repos, n \in Number :
            github'[r][n] = github[r][n] \/ github'[r][n] = cur[p]
      BY <2>1, <1>a DEF OpenIssue, StoreType
    <3>2. cur[p] \in JobId /\ job[cur[p]].state # "absent"
      BY <2>1, <1>h DEF OpenIssue, Holding
    <3> QED
      BY <3>1, <3>2, <1>r, <1>a DEF FiledInv, MarkersHaveRows, StoreType
  <2>2. CASE UNCHANGED github
    BY <2>2, <1>r, <1>a DEF FiledInv, MarkersHaveRows, StoreType
  <2> QED
    BY <2>1, <2>2, FiledBy
<1>2. EventsHaveRows' /\ EventsFollowIssues'
  <2>0. \A j \in events : /\ job'[j].state # "absent"
                          /\ issue'[job'[j].group] # 0
    BY <1>r, <1>a, IssuesStay
       DEF FiledInv, EventsHaveRows, EventsFollowIssues, StoreType
  <2>1. ASSUME NEW p \in Processors, EmitLifecycle(p)
        PROVE  EventsHaveRows' /\ EventsFollowIssues'
    <3>1. cur[p] \in JobId /\ job[cur[p]].state # "absent"
      BY <2>1, <1>h DEF EmitLifecycle, Holding
    <3>2. issue[job[cur[p]].group] # 0
      BY <2>1 DEF EmitLifecycle, FiledInv, FilingOf
    <3>3. job'[cur[p]].state # "absent" /\ issue'[job'[cur[p]].group] # 0
      BY <3>1, <3>2, <1>r, IssuesStay
    <3>4. events' = events \union {cur[p]}
      BY <2>1 DEF EmitLifecycle
    <3> QED
      BY <2>0, <3>3, <3>4 DEF EventsHaveRows, EventsFollowIssues
  <2>2. CASE UNCHANGED events
    BY <2>0, <2>2 DEF EventsHaveRows, EventsFollowIssues
  <2> QED
    BY <2>1, <2>2, FiledBy
<1>3. IssueIsOurs'
  <2>1. ASSUME NEW r \in Repos, NEW n \in Number, github[r][n] # 0
        PROVE  /\ github'[r][n] = github[r][n]
               /\ job'[github'[r][n]].group = job[github[r][n]].group
    <3>1. github'[r][n] = github[r][n]
      BY <2>1, IssuesStay
    <3>2. github[r][n] \in JobId /\ job[github[r][n]].state # "absent"
      BY <2>1, <1>a DEF FiledInv, MarkersHaveRows, StoreType
    <3> QED
      BY <3>1, <3>2, <1>r
  <2>2. \A g \in Groups : issue[g] # 0 =>
          /\ home[g] \in Repos
          /\ github'[home[g]][issue[g]] # 0
          /\ job'[github'[home[g]][issue[g]]].group = g
    <3> SUFFICES ASSUME NEW g \in Groups, issue[g] # 0
                 PROVE  /\ home[g] \in Repos
                        /\ github'[home[g]][issue[g]] # 0
                        /\ job'[github'[home[g]][issue[g]]].group = g
        OBVIOUS
    <3>1. /\ home[g] \in Repos /\ issue[g] \in Number
          /\ github[home[g]][issue[g]] # 0
          /\ job[github[home[g]][issue[g]]].group = g
      BY <1>a DEF FiledInv, IssueIsOurs, StoreType
    <3> QED
      BY <3>1, <2>1
  <2>3. ASSUME NEW p \in Processors, RecordIssue(p)
        PROVE  IssueIsOurs'
    <3>1. /\ cur[p] \in JobId /\ job[cur[p]].group \in Groups
          /\ target[p] \in Repos /\ num[p] \in Number
          /\ github[target[p]][num[p]] = cur[p]
      BY <2>3, <1>a, <1>h DEF RecordIssue, Holding, FiledInv, FilingOf, LocalType,
                              JobInHand, StoreType, Row
    <3>2. \A g \in Groups :
            /\ issue'[g] = IF g = job[cur[p]].group THEN num[p] ELSE issue[g]
            /\ home'[g] = IF g = job[cur[p]].group THEN target[p] ELSE home[g]
      BY <2>3, <1>a DEF RecordIssue, StoreType
    <3>3. github[target[p]][num[p]] # 0
      BY <3>1 DEF JobId
    <3>4. /\ github'[target[p]][num[p]] # 0
          /\ job'[github'[target[p]][num[p]]].group = job[cur[p]].group
      BY <3>1, <3>3, <2>1
    <3> QED
      BY <2>2, <3>1, <3>2, <3>4 DEF IssueIsOurs
  <2>4. CASE UNCHANGED <<issue, home>>
    BY <2>2, <2>4 DEF IssueIsOurs
  <2> QED
    BY <2>3, <2>4, FiledBy
<1>4. DoneIsBacked'
  <2> DEFINE Backed(j) == \/ j \in events /\ issue[job[j].group] # 0
                          \/ j \in HandedOver
  <2>1. ASSUME NEW j \in JobId, job'[j].state = "done"
        PROVE  Backed(j)
    <3>1. CASE job[j].state = "done"
      BY <3>1 DEF FiledInv, DoneIsBacked
    <3>2. CASE job[j].state # "done"
      <4>1. PICK p \in Processors : Finish(p) /\ cur[p] = j
        BY <2>1, <3>2, DoneByFinish DEF FiledInv, BackedInv
      <4> QED
        BY <4>1 DEF Finish, FiledInv, BackedInv, BackedOf, EventsFollowIssues
    <3> QED
      BY <3>1, <3>2
  <2>2. ASSUME NEW j \in JobId, j \in events, issue[job[j].group] # 0
        PROVE  j \in events' /\ issue'[job'[j].group] # 0
    <3>1. job[j].state # "absent"
      BY <2>2 DEF FiledInv, EventsHaveRows
    <3> QED
      BY <2>2, <3>1, <1>r, EventsStay, IssuesStay
  <2>3. \A j \in HandedOver : j \in HandedOver' /\ HeirOf(j)'
    BY HeirsStay DEF FiledInv
  <2> QED
    BY <2>1, <2>2, <2>3 DEF DoneIsBacked, HeirOf
<1> QED
  BY <1>1, <1>2, <1>3, <1>4

LEMMA FiledInvariant == Spec => []FiledInv
<1>1. ASSUME FiledInv, [Next]_vars, BackedInv' PROVE FiledInv'
  <2>1. \A p \in Processors : FilingOf(p)'
    BY <1>1, FilingStep
  <2> QED
    BY <1>1, <2>1, FiledStep DEF FiledInv
<1>2. FiledInv => BackedInv
  BY DEF FiledInv
<1> QED
  BY FiledInit, BackedInvariant, <1>1, <1>2, PTL DEF Spec

\* Even when handlers outlive their leases and race to record what they
\* opened, in whatever repositories the project is bound to meanwhile, a
\* group's number and URL name one issue, opened for one of its own jobs.
THEOREM IssuesAreOurs == Spec => []IssueIsOurs
<1>1. FiledInv => IssueIsOurs
  BY DEF FiledInv
<1> QED
  BY <1>1, FiledInvariant, PTL

\* Even then, subscribers hear of an issue only after the group has one.
THEOREM EventsComeAfter == Spec => []EventsFollowIssues
<1>1. FiledInv => EventsFollowIssues
  BY DEF FiledInv
<1> QED
  BY <1>1, FiledInvariant, PTL

\* Even then, a job that is done told subscribers of its group's issue or was
\* handed over to an open job its handler saw: nothing is reported done
\* because two handlers overwrote each other's rows.
THEOREM DoneMeansDone == Spec => []DoneIsBacked
<1>1. FiledInv => DoneIsBacked
  BY DEF FiledInv
<1> QED
  BY <1>1, FiledInvariant, PTL

-----------------------------------------------------------------------------
(***************************************************************************)
(* The hourly quota.                                                       *)
(***************************************************************************)

\* Handlers of open jobs that the quota has let through.
Admitted == {p \in Processors : /\ pc[p] \in {"find", "open", "record", "emit", "finish"}
                                /\ job[cur[p]].action = "open"}

\* A reopen is not subject to the quota.
ReopeningOf(p) == pc[p] = "reopen" => job[cur[p]].action = "reopen"

QuotaInv ==
  /\ BackedInv /\ \A p \in Processors : ReopeningOf(p)
  /\ Cardinality(RecentOpens) + Cardinality(Admitted)
       < OpenQuota + Cardinality(Processors)

\* Both counts are of finite sets.
LEMMA FiniteBounds == IsFiniteSet(Processors) /\ IsFiniteSet(JobId)
<1>1. IsFiniteSet(Processors)
  BY IssueJobsAssumption, FS_Union DEF Processors
<1>2. MaxJobs \in Int /\ 1 \in Int
  BY IssueJobsAssumption
<1>3. IsFiniteSet(JobId)
  BY <1>2, FS_Interval DEF JobId
<1> QED
  BY <1>1, <1>3

LEMMA Countable ==
  /\ Cardinality(Processors) \in Nat
  /\ IsFiniteSet(Admitted) /\ Cardinality(Admitted) \in Nat
  /\ Cardinality(Admitted) <= Cardinality(Processors)
  /\ IsFiniteSet(RecentOpens) /\ Cardinality(RecentOpens) \in Nat
<1>1. Admitted \in SUBSET Processors /\ RecentOpens \in SUBSET JobId
  BY DEF Admitted, RecentOpens
<1> QED
  BY <1>1, FiniteBounds, FS_Subset, FS_CardinalityType

LEMMA CountableNext ==
  /\ Cardinality(Admitted') \in Nat /\ Cardinality(RecentOpens') \in Nat
  /\ Cardinality(Admitted') <= Cardinality(Processors)
<1>1. Admitted' \in SUBSET Processors /\ RecentOpens' \in SUBSET JobId
  BY DEF Admitted, RecentOpens
<1> QED
  BY <1>1, FiniteBounds, FS_Subset, FS_CardinalityType

LEMMA QuotaInit == Init => QuotaInv
<1> SUFFICES ASSUME Init PROVE QuotaInv
    OBVIOUS
<1>1. RecentOpens = {} /\ Admitted = {}
  BY DEF Init, RecentOpens, Admitted, NoRow
<1>2. Cardinality(RecentOpens) + Cardinality(Admitted)
        < OpenQuota + Cardinality(Processors)
  BY <1>1, Countable, FS_EmptySet, IssueJobsAssumption
<1> QED
  BY <1>2, BackedInit DEF Init, QuotaInv, ReopeningOf

\* A handler that keeps its job keeps its action.
LEMMA ActionStays ==
  ASSUME QuotaInv, [Next]_vars, NEW q \in Processors,
         pc[q] \in Holding, cur'[q] = cur[q]
  PROVE  job'[cur'[q]].action = job[cur[q]].action
<1>1. cur[q] \in JobId /\ job[cur[q]].state # "absent"
  BY DEF QuotaInv, BackedInv, RowInHand, TypeInv, JobInHand
<1> QED
  BY <1>1, RowsStay DEF QuotaInv, BackedInv

LEMMA ReopeningStep ==
  ASSUME QuotaInv, [Next]_vars, NEW q \in Processors
  PROVE  ReopeningOf(q)'
<1>a. LocalType
  BY DEF QuotaInv, BackedInv, TypeInv, TypeOK, LocalType
<1>1. CASE pc'[q] # "reopen"
  BY <1>1 DEF ReopeningOf
<1>2. CASE pc'[q] = pc[q] /\ cur'[q] = cur[q]
  BY <1>2, ActionStays DEF QuotaInv, ReopeningOf, Holding
<1>3. CASE Load(q)
  <2>1. cur'[q] = cur[q] /\ pc[q] = "load"
        /\ (pc'[q] = "reopen" => job[cur[q]].action = "reopen")
    BY <1>3, <1>a DEF Load, Goto, LocalType
  <2> QED
    BY <2>1, ActionStays DEF ReopeningOf, Holding
<1>4. ASSUME Step(q), ~Load(q)
      PROVE  pc'[q] # "reopen"
  BY <1>4, <1>a
     DEF Step, EnqueueCheck, EnqueueInsert, EnqueueFails, Return, AfterEnqueue, Wake,
         Recover, Select, NothingDue, Claim, LoseClaim, CheckQuota, Postpone,
         FindByMarker, OpenIssue, WorkFails, RecordIssue, Reopen, EmitLifecycle,
         Finish, FailRead, FailWrite, Goto, Leave, LocalType
<1> QED
  BY <1>1, <1>2, <1>3, <1>4, OwnSteps DEF QuotaInv, BackedInv

\* Only the quota check admits a handler.
LEMMA AdmittedByQuota ==
  ASSUME QuotaInv, [Next]_vars, NEW q \in Processors,
         q \in Admitted', q \notin Admitted
  PROVE  CheckQuota(q) /\ Cardinality(RecentOpens) < OpenQuota
<1> DEFINE Labels == {"find", "open", "record", "emit", "finish"}
<1>a. LocalType
  BY DEF QuotaInv, BackedInv, TypeInv, TypeOK, LocalType
<1>b. /\ pc'[q] \in Labels /\ job'[cur'[q]].action = "open"
      /\ ~(pc[q] \in Labels /\ job[cur[q]].action = "open")
  BY DEF Admitted
<1>c. ASSUME pc[q] \in Holding, cur'[q] = cur[q]
      PROVE  pc[q] \notin Labels /\ job[cur[q]].action = "open"
  BY <1>b, <1>c, ActionStays
<1>1. CASE pc'[q] = pc[q] /\ cur'[q] = cur[q]
  BY <1>1, <1>b, <1>c DEF Holding
<1>2. CASE EnqueueCheck(q) \/ EnqueueInsert(q)
  <2>1. cur'[q] = cur[q] /\ pc[q] \in {"rerouteCheck", "rerouteInsert"}
    BY <1>2, <1>a, <1>b
       DEF EnqueueCheck, EnqueueInsert, Return, AfterEnqueue, Goto, LocalType, Holding
  <2>2. job[cur[q]].action = "reopen"
    BY <2>1 DEF QuotaInv, BackedInv, ReroutingOf
  <2> QED
    BY <2>1, <2>2, <1>c DEF Holding
<1>3. CASE Reopen(q)
  <2>1. cur'[q] = cur[q] /\ pc[q] = "reopen"
    BY <1>3 DEF Reopen, local
  <2> QED
    BY <2>1, <1>c DEF Holding, QuotaInv, ReopeningOf
<1>4. CASE FindByMarker(q) \/ OpenIssue(q) \/ RecordIssue(q) \/ EmitLifecycle(q)
  <2>1. cur'[q] = cur[q] /\ pc[q] \in Labels
    BY <1>4 DEF FindByMarker, OpenIssue, RecordIssue, EmitLifecycle, local
  <2> QED
    BY <2>1, <1>c DEF Holding
<1>5. CASE CheckQuota(q)
  <2>1. pc'[q] # "postpone"
    BY <1>b
  <2>2. Cardinality(RecentOpens) >= OpenQuota => pc'[q] = "postpone"
    BY <1>5, <1>a DEF CheckQuota, Goto, LocalType
  <2> QED
    BY <1>5, <2>1, <2>2, Countable, IssueJobsAssumption
<1>6. ASSUME Step(q), ~EnqueueCheck(q), ~EnqueueInsert(q), ~Reopen(q),
             ~FindByMarker(q), ~OpenIssue(q), ~RecordIssue(q), ~EmitLifecycle(q),
             ~CheckQuota(q)
      PROVE  FALSE
  BY <1>6, <1>a, <1>b
     DEF Step, EnqueueFails, Return, Wake, Recover, Select, NothingDue, Claim,
         LoseClaim, Load, Postpone, WorkFails, Finish, FailRead, FailWrite, Goto,
         Leave, LocalType
<1> QED
  BY <1>1, <1>2, <1>3, <1>4, <1>5, <1>6, <1>b, OwnSteps DEF QuotaInv, BackedInv

\* Only an admitted handler that finishes adds to the hour's opens.
LEMMA CountedByFinish ==
  ASSUME QuotaInv, [Next]_vars, NEW j \in RecentOpens', j \notin RecentOpens
  PROVE  \E p \in Admitted : Finish(p) /\ cur[p] = j
<1>1. j \in JobId /\ job'[j].state = "done" /\ job'[j].action = "open" /\ job'[j].recent
  BY DEF RecentOpens
<1>2. job[j].state # "absent" => job[j].action = "open"
  BY <1>1, RowsStay DEF QuotaInv, BackedInv
<1>3. PICK p \in Processors : Finish(p) /\ cur[p] = j
  BY <1>1, <1>2, DoneByFinish DEF RecentOpens, QuotaInv, BackedInv
<1>4. job[cur[p]].state # "absent" /\ pc[p] = "finish"
  BY <1>3 DEF Finish, Holding, QuotaInv, BackedInv, RowInHand
<1> QED
  BY <1>2, <1>3, <1>4 DEF Admitted

LEMMA QuotaStep ==
  ASSUME QuotaInv, [Next]_vars
  PROVE  Cardinality(RecentOpens') + Cardinality(Admitted')
           < OpenQuota + Cardinality(Processors)
<1>1. CASE \E p \in Admitted : Finish(p)
  <2>1. PICK p \in Admitted : Finish(p)
    BY <1>1
  <2>a. LocalType /\ p \in Processors
    BY DEF QuotaInv, BackedInv, TypeInv, TypeOK, LocalType, Admitted
  <2>2. p \notin Admitted'
    BY <2>1, <2>a DEF Finish, Leave, LocalType, Admitted
  <2>3. \A q \in Processors : q # p => pc'[q] = pc[q] /\ cur'[q] = cur[q]
    BY <2>1, <2>a DEF Finish, Leave, LocalType
  <2>4. Admitted' \subseteq Admitted \ {p}
    <3> SUFFICES ASSUME NEW q \in Admitted', q \notin Admitted PROVE FALSE
        BY <2>2
    <3>1. q \in Processors /\ CheckQuota(q)
      BY AdmittedByQuota DEF Admitted
    <3>2. pc[q] = "quota" /\ pc'[q] # "quota"
      BY <3>1, <2>a DEF CheckQuota, Goto, LocalType
    <3>3. q # p
      BY <2>1, <3>2 DEF Finish
    <3> QED
      BY <2>3, <3>1, <3>2, <3>3
  <2>5. RecentOpens' \subseteq RecentOpens \union {cur[p]}
    <3> SUFFICES ASSUME NEW j \in RecentOpens', j \notin RecentOpens PROVE j = cur[p]
        OBVIOUS
    <3>1. PICK q \in Admitted : Finish(q) /\ cur[q] = j
      BY CountedByFinish
    <3>2. q \in Processors /\ pc[q] = "finish" /\ pc'[q] = "idle"
      BY <3>1, <2>a DEF Admitted, Finish, Leave, LocalType
    <3> QED
      BY <2>3, <3>1, <3>2
  <2>6. /\ Cardinality(Admitted \ {p}) = Cardinality(Admitted) - 1
        /\ Cardinality(Admitted') <= Cardinality(Admitted \ {p})
    BY <2>4, Countable, FS_RemoveElement, FS_Subset
  <2>7. Cardinality(RecentOpens') <= Cardinality(RecentOpens) + 1
    <3>1. IsFiniteSet(RecentOpens \union {cur[p]})
      BY Countable, FS_AddElement
    <3>2. Cardinality(RecentOpens') <= Cardinality(RecentOpens \union {cur[p]})
      BY <2>5, <3>1, FS_Subset
    <3>3. Cardinality(RecentOpens \union {cur[p]})
            = IF cur[p] \in RecentOpens THEN Cardinality(RecentOpens)
                                        ELSE Cardinality(RecentOpens) + 1
      BY Countable, FS_AddElement
    <3> QED
      BY <3>2, <3>3, Countable, CountableNext
  <2> QED
    BY <2>6, <2>7, Countable, CountableNext, IssueJobsAssumption DEF QuotaInv
<1>2. CASE ~\E p \in Admitted : Finish(p)
  <2>1. RecentOpens' \subseteq RecentOpens
    BY <1>2, CountedByFinish
  <2>2. Cardinality(RecentOpens') <= Cardinality(RecentOpens)
    BY <2>1, Countable, FS_Subset
  <2>3. CASE Admitted' \subseteq Admitted
    <3>1. Cardinality(Admitted') <= Cardinality(Admitted)
      BY <2>3, Countable, FS_Subset
    <3> QED
      BY <2>2, <3>1, Countable, CountableNext, IssueJobsAssumption DEF QuotaInv
  <2>4. CASE \E q \in Admitted' : q \notin Admitted
    <3>1. Cardinality(RecentOpens) < OpenQuota
      BY <2>4, AdmittedByQuota DEF Admitted
    <3> QED
      BY <2>2, <3>1, Countable, CountableNext, IssueJobsAssumption
  <2> QED
    BY <2>3, <2>4
<1> QED
  BY <1>1, <1>2

\* Whatever handlers check and complete at the same time, or outlive their
\* leases, fewer open jobs are completed within an hour than the quota and
\* one per handler beyond it.
THEOREM QuotaKept == Spec => []QuotaHolds
<1>1. QuotaInv /\ BackedInv' /\ [Next]_vars => QuotaInv'
  BY ReopeningStep, QuotaStep DEF QuotaInv
<1>2. QuotaInv => QuotaHolds
  BY Countable, IssueJobsAssumption DEF QuotaInv, QuotaHolds
<1> QED
  BY QuotaInit, BackedInvariant, <1>1, <1>2, PTL DEF Spec

-----------------------------------------------------------------------------
(***************************************************************************)
(* The queue implements DeliveryQueue.                                     *)
(***************************************************************************)
LEMMA QueueInitial == Init => Queue!QueueInit
BY DEF Init, Queue!QueueInit, JobStage, StageOf, HandedOver, NoRow

\* A step that changes one row changes the stage of that job only.
LEMMA StageUpdate ==
  ASSUME StoreType, NEW j \in JobId, NEW row \in Row, job' = [job EXCEPT ![j] = row]
  PROVE  JobStage' = [JobStage EXCEPT ![j] = StageOf(row)]
BY DEF JobStage, StoreType

LEMMA QueueStep ==
  ASSUME LeaseInv, BackedInv, [Next]_vars
  PROVE  [Queue!QueueNext]_Queue!queue
<1>a. LocalType /\ StoreType /\ Leased
  BY DEF LeaseInv, TypeInv, TypeOK, LocalType, StoreType
<1>b. LocalType' /\ StoreType'
  BY TypeStep DEF LeaseInv, TypeInv, TypeOK, LocalType, StoreType
<1>c. HandedOver \subseteq HandedOver'
  BY HeirsStay
<1>d. \A p \in Processors : pc[p] \in Holding =>
        cur[p] \in JobId /\ job[cur[p]].state = "working" /\ JobStage[cur[p]] = "queued"
  BY <1>a DEF LocalType, JobInHand, Leased, JobStage, StageOf
<1> SUFFICES \/ UNCHANGED <<JobStage, events>>
             \/ Queue!Submit
             \/ \E j \in JobId : \/ Queue!Perform(j) \/ Queue!Settle(j)
                                 \/ Queue!GiveUp(j) \/ Queue!Revive(j)
    BY <1>c DEF Queue!QueueNext, Queue!Excuse
<1>1. ASSUME NEW p \in Processors, EnqueueInsert(p)
      PROVE  Queue!Submit
  <2>1. PICK j \in JobId :
          /\ job[j].state = "absent"
          /\ job' = [job EXCEPT ![j] =
                       [NoRow EXCEPT !.state = "pending", !.due = TRUE,
                                     !.group = want[p].group,
                                     !.action = want[p].action]]
    BY <1>1 DEF EnqueueInsert, NextFree
  <2>2. job'[j].state = "pending"
    BY <2>1, <1>a DEF StoreType, NoRow
  <2>3. \A k \in JobId : k # j => job'[k] = job[k]
    BY <2>1, <1>a DEF StoreType
  <2>4. \A d \in JobId : JobStage'[d] # JobStage[d] => d = j /\ JobStage'[d] = "queued"
    BY <2>2, <2>3 DEF JobStage, StageOf
  <2>7. JobStage' \in [JobId -> Queue!Stages]
    BY <1>b DEF JobStage, StageOf, Queue!Stages, StoreType, Row, States
  <2>5. JobStage[j] = "absent"
    BY <2>1 DEF JobStage, StageOf
  <2> QED
    BY <1>1, <2>4, <2>5, <2>7 DEF EnqueueInsert, Queue!Submit
<1>2. ASSUME NEW p \in Processors, EmitLifecycle(p)
      PROVE  \E j \in JobId : Queue!Perform(j)
  <2>1. cur[p] \in JobId /\ JobStage[cur[p]] = "queued"
    BY <1>2, <1>d DEF EmitLifecycle, Holding
  <2> QED
    BY <1>2, <2>1 DEF EmitLifecycle, Queue!Perform, JobStage
<1>3. ASSUME NEW p \in Processors, Finish(p)
      PROVE  \E j \in JobId : Queue!Settle(j)
  <2>1. cur[p] \in JobId /\ job[cur[p]].state = "working" /\ JobStage[cur[p]] = "queued"
    BY <1>3, <1>d DEF Finish, Holding
  <2>2. cur[p] \in events \union HandedOver
    BY <1>3, <2>1 DEF BackedInv, BackedOf, Finish
  <2>3. [job[cur[p]] EXCEPT !.state = "done", !.leased = FALSE, !.recent = TRUE] \in Row
    BY <2>1, RowEdits, <1>a DEF StoreType
  <2>4. JobStage' = [JobStage EXCEPT ![cur[p]] = "done"]
    <3>1. StageOf([job[cur[p]] EXCEPT !.state = "done", !.leased = FALSE,
                                      !.recent = TRUE]) = "done"
      BY <2>1, <1>a DEF StageOf, StoreType, Row
    <3>2. job' = [job EXCEPT ![cur[p]] = [job[cur[p]] EXCEPT
                    !.state = "done", !.leased = FALSE, !.recent = TRUE]]
      BY <1>3 DEF Finish
    <3> QED
      BY <2>1, <2>3, <3>1, <3>2, <1>a, StageUpdate
  <2> QED
    BY <1>3, <2>1, <2>2, <2>4 DEF Finish, Queue!Settle, Queue!Move
<1>4. ASSUME NEW p \in Processors, FailWrite(p)
      PROVE  UNCHANGED <<JobStage, events>> \/ \E j \in JobId : Queue!GiveUp(j)
  <2>1. cur[p] \in JobId /\ JobStage[cur[p]] = "queued"
    BY <1>4, <1>d DEF FailWrite, Holding
  <2>2. job'[cur[p]].state \in {"dead", "pending"}
    BY <1>4, <2>1, <1>a DEF FailWrite, StoreType, Row
  <2>3. \A k \in JobId : k # cur[p] => job'[k] = job[k]
    BY <1>4, <1>a DEF FailWrite, StoreType
  <2>4. events' = events
    BY <1>4 DEF FailWrite
  <2>5. CASE job'[cur[p]].state = "dead"
    <3>1. JobStage' = [JobStage EXCEPT ![cur[p]] = "dead"]
      BY <2>1, <2>3, <2>5 DEF JobStage, StageOf
    <3> QED
      BY <2>1, <2>4, <3>1 DEF Queue!GiveUp, Queue!Move
  <2>6. CASE job'[cur[p]].state = "pending"
    BY <2>1, <2>3, <2>4, <2>6 DEF JobStage, StageOf
  <2> QED
    BY <2>2, <2>5, <2>6
<1>5. ASSUME NEW j \in JobId, Retry(j)
      PROVE  Queue!Revive(j)
  <2>1. job'[j].state = "pending" /\ \A k \in JobId : k # j => job'[k] = job[k]
    BY <1>5, <1>a DEF Retry, StoreType, Row
  <2>2. JobStage' = [JobStage EXCEPT ![j] = "queued"]
    BY <2>1 DEF JobStage, StageOf
  <2>3. job[j].state = "dead" /\ UNCHANGED events
    BY <1>5 DEF Retry
  <2>4. StageOf(job[j]) = "dead"
    BY <2>3 DEF StageOf
  <2>5. JobStage[j] = "dead"
    BY <2>4 DEF JobStage
  <2> QED
    BY <2>2, <2>3, <2>5 DEF Queue!Revive, Queue!Move
\* Every other step keeps each job in its stage.
<1>6. ASSUME UNCHANGED events,
             \A j \in JobId : StageOf(job'[j]) = StageOf(job[j])
      PROVE  UNCHANGED <<JobStage, events>>
  BY <1>6 DEF JobStage
<1>7. ASSUME NEW p \in Processors, Recover(p) \/ Claim(p) \/ Postpone(p)
      PROVE  UNCHANGED <<JobStage, events>>
  <2>1. CASE Recover(p)
    BY <2>1, <1>a, <1>6 DEF Recover, Expired, StageOf, StoreType, Row
  <2>2. CASE Claim(p)
    BY <2>2, <1>a, <1>6 DEF Claim, StageOf, StoreType, Row, LocalType, JobInHand
  <2>3. CASE Postpone(p)
    BY <2>3, <1>a, <1>d, <1>6 DEF Postpone, StageOf, StoreType, Row, Holding
  <2> QED
    BY <1>7, <2>1, <2>2, <2>3
<1>8. ASSUME NEW j \in JobId, Clock(j)
      PROVE  UNCHANGED <<JobStage, events>>
  BY <1>8, <1>a, <1>6, ClockEffect DEF StageOf
<1>9. ASSUME \/ SetRepository \/ UNCHANGED vars
             \/ \E p \in Processors : Abandon(p) \/ \E g \in Groups : Report(p, g)
      PROVE  UNCHANGED <<JobStage, events>>
  BY <1>9 DEF SetRepository, vars, Abandon, Report, store, JobStage
<1>10. ASSUME NEW p \in Processors, Step(p), ~EnqueueInsert(p), ~EmitLifecycle(p),
              ~Finish(p), ~FailWrite(p), ~Recover(p), ~Claim(p), ~Postpone(p)
       PROVE  UNCHANGED <<JobStage, events>>
  BY <1>10
     DEF Step, EnqueueCheck, EnqueueFails, Wake, Select, NothingDue, LoseClaim, Load,
         CheckQuota, FindByMarker, OpenIssue, WorkFails, RecordIssue, Reopen,
         FailRead, store, JobStage
<1> QED
  BY <1>1, <1>2, <1>3, <1>4, <1>5, <1>7, <1>8, <1>9, <1>10 DEF Next

\* Unless a handler outlives its lease, the issue queue is a DeliveryQueue:
\* a submitted job stays queued until it is settled or given up, and it is
\* settled only after its lifecycle event or a hand-over to an open job.
THEOREM QueueImplemented == ~LeaseOverrun => (Spec => QueueRefinement)
<1> SUFFICES ASSUME ~LeaseOverrun PROVE Spec => QueueRefinement
    OBVIOUS
<1>1. LeaseInv /\ [Next]_vars => LeaseInv'
  BY LeaseStep
<1>2. LeaseInv /\ BackedInv /\ [Next]_vars => [Queue!QueueNext]_Queue!queue
  BY QueueStep
<1> QED
  BY LeaseInit, BackedInvariant, QueueInitial, <1>1, <1>2, PTL
     DEF Spec, QueueRefinement, Queue!QueueSpec
=============================================================================
