---------------------------- MODULE InboxProofs ----------------------------
(***************************************************************************)
(* Proofs about Inbox for all projects, prints, revisions, handlers and    *)
(* bounds: the row of a group follows the history of its notices and of    *)
(* the agent's calls.                                                      *)
(***************************************************************************)
EXTENDS Inbox, SequenceTheorems, FiniteSetTheorems, TLAPS

-----------------------------------------------------------------------------
(***************************************************************************)
(* Types.                                                                  *)
(***************************************************************************)
Group == [project : Projects \union {SomeProject}, count : Nat, revision : Revisions,
          acked : BOOLEAN, suppressed : BOOLEAN, notices : Seq(Nat)]
Req   == [project : Projects \union {SomeProject}, print : Prints \union {NoReq.print},
          revision : Revisions, linked : BOOLEAN, at : Nat]
LogEntry == [op : {"notice", "ack", "suppress", "unsuppress"}, key : Keys,
             project : Projects \union {SomeProject}, revision : Revisions,
             outcome : Outcomes \union {"ack", "suppress", "unsuppress"}]
Event == [type : {"error.created", "error.regressed"}, key : Keys, at : Nat]

LocalType ==
  /\ pc \in [Requests -> {"idle", "ingest", "file"}]
  /\ req \in [Requests -> Req]
  /\ \A r \in Requests : pc[r] # "idle" =>
       req[r].project \in Projects /\ req[r].print \in Prints

\* A key without a row has never been written.
GroupType ==
  /\ group \in [Keys -> Group]
  /\ \A k \in Keys : group[k].count = 0 => group[k] = NoGroup

HistType == log \in Seq(LogEntry) /\ events \in Seq(Event)

TypeInv == LocalType /\ GroupType /\ HistType

LEMMA NullTypes ==
  /\ NoReq \in Req /\ NoGroup \in Group
  /\ NoGroup.count = 0 /\ ~NoGroup.acked /\ NoGroup.notices = <<>>
<1>1. <<>> \in Seq(Nat)
  BY EmptySeq
<1> QED
  BY <1>1, InboxAssumption DEF NoReq, NoGroup, Req, Group

LEMMA KeyType ==
  ASSUME LocalType, NEW r \in Requests, pc[r] # "idle" PROVE KeyOf(r) \in Keys
BY DEF LocalType, KeyOf, Keys

\* What is kept is the end of the list, and all of it while it is short.
LEMMA NewestKept ==
  ASSUME NEW s \in Seq(Nat), Len(s) <= Keep, NEW x \in Nat
  PROVE  LET t == Newest(Append(s, x))
             d == Len(s) + 1 - Len(t)
         IN  /\ t \in Seq(Nat) /\ d \in {0, 1}
             /\ Len(t) = IF Len(s) < Keep THEN Len(s) + 1 ELSE Keep
             /\ \A i \in 1..Len(t) : /\ i + d \in 1..(Len(s) + 1)
                                     /\ t[i] = Append(s, x)[i + d]
<1> DEFINE u == Append(s, x)
<1>1. Len(s) \in Nat /\ Keep \in Nat \ {0}
  BY InboxAssumption, LenProperties
<1>2. u \in Seq(Nat) /\ Len(u) = Len(s) + 1 /\ \A i \in 1..Len(u) : u[i] \in Nat
  BY <1>1, AppendProperties, ElementOfSeq
<1> HIDE DEF u
<1>3. CASE Len(s) < Keep
  <2>1. Newest(u) = u
    BY <1>1, <1>2, <1>3 DEF Newest
  <2>2. Len(s) + 1 - Len(u) = 0 /\ \A i \in 1..Len(u) : i + 0 = i
    BY <1>1, <1>2
  <2> QED
    BY <1>1, <1>2, <1>3, <2>1, <2>2 DEF u
<1>4. CASE ~(Len(s) < Keep)
  <2>1. Len(s) = Keep /\ Len(u) - Keep + 1 = 2 /\ ~(Len(u) <= Keep)
    BY <1>1, <1>2, <1>4
  <2> DEFINE t == SubSeq(u, 2, Len(u))
  <2>2. Newest(u) = t
    BY <2>1 DEF Newest
  <2>3. /\ t \in Seq(Nat) /\ Len(t) = Keep
        /\ \A i \in 1..Keep : t[i] = u[2 + i - 1]
    BY <1>1, <1>2, <2>1, SubSeqProperties
  <2>4. Len(s) + 1 - Len(t) = 1 /\ \A i \in 1..Keep : 2 + i - 1 = i + 1 /\ i + 1 \in 1..(Len(s) + 1)
    BY <1>1, <2>1, <2>3
  <2> HIDE DEF t
  <2> QED
    BY <1>1, <1>4, <2>1, <2>2, <2>3, <2>4 DEF u
<1> QED
  BY <1>3, <1>4

LEMMA NewestType ==
  ASSUME NEW s \in Seq(Nat), NEW x \in Nat
  PROVE  Newest(Append(s, x)) \in Seq(Nat)
<1>1. /\ Append(s, x) \in Seq(Nat) /\ Len(Append(s, x)) \in Nat
      /\ \A i \in 1..Len(Append(s, x)) : Append(s, x)[i] \in Nat
  BY AppendProperties, LenProperties, ElementOfSeq
<1>2. Keep \in Nat \ {0}
  BY InboxAssumption
<1> DEFINE u == Append(s, x)
<1> HIDE DEF u
<1>3. u \in Seq(Nat) /\ Len(u) \in Nat /\ \A i \in 1..Len(u) : u[i] \in Nat
  BY <1>1 DEF u
<1>4. CASE ~(Len(u) <= Keep)
  <2>1. \A i \in (Len(u) - Keep + 1)..Len(u) : u[i] \in Nat
    BY <1>2, <1>3, <1>4
  <2>2. SubSeq(u, Len(u) - Keep + 1, Len(u)) \in Seq(Nat)
    BY <1>2, <1>3, <2>1, SubSeqProperties
  <2> QED
    BY <1>4, <2>2 DEF Newest, u
<1> QED
  BY <1>3, <1>4 DEF Newest, u

\* The row after a notice.
LEMMA UpdatedRow ==
  ASSUME NEW g \in Group, NEW r \in Requests, req[r].revision \in Revisions,
         NEW b \in BOOLEAN, HistType
  PROVE  /\ Updated(g, r, b) \in Group
         /\ Updated(g, r, b).count = g.count + 1
         /\ Updated(g, r, b).revision = req[r].revision
         /\ Updated(g, r, b).acked = (g.acked /\ ~b)
         /\ Updated(g, r, b).notices = Newest(Append(g.notices, Len(log) + 1))
<1> DEFINE s == Newest(Append(g.notices, Len(log) + 1))
           a == (g.acked /\ ~b)
           v == req[r].revision
           g1 == [g EXCEPT !.count = @ + 1]
           g2 == [g1 EXCEPT !.revision = v]
           g3 == [g2 EXCEPT !.acked = a]
           g4 == [g3 EXCEPT !.notices = s]
<1>1. Len(log) + 1 \in Nat /\ g.notices \in Seq(Nat)
  BY LenProperties DEF HistType, Group
<1>2. s \in Seq(Nat) /\ a \in BOOLEAN /\ v \in Revisions
  BY <1>1, NewestType
<1>3. Updated(g, r, b) = g4
  BY DEF Updated, Group
<1> HIDE DEF s, a, v
<1>4. g1 \in Group /\ g1.count = g.count + 1
  BY DEF Group
<1> HIDE DEF g1
<1>5. g2 \in Group /\ g2.count = g.count + 1 /\ g2.revision = v
  BY <1>2, <1>4 DEF Group
<1> HIDE DEF g2
<1>6. g3 \in Group /\ g3.count = g.count + 1 /\ g3.revision = v /\ g3.acked = a
  BY <1>2, <1>5 DEF Group
<1> HIDE DEF g3
<1>7. /\ g4 \in Group /\ g4.count = g.count + 1 /\ g4.revision = v /\ g4.acked = a
      /\ g4.notices = s
  BY <1>2, <1>6 DEF Group
<1> QED
  BY <1>3, <1>7 DEF s, a, v

-----------------------------------------------------------------------------
(***************************************************************************)
(* What a step does to a group and to the history.                         *)
(***************************************************************************)

\* A notice for the group k: its row, its entry and, unless it only recurs,
\* its event.
NoticeStep(k, e) ==
  /\ k \in Keys /\ e \in LogEntry
  /\ e.op = "notice" /\ e.key = k /\ e.outcome \in Outcomes
  /\ log' = Append(log, e)
  /\ \A j \in Keys : j # k => group'[j] = group[j]
  /\ group'[k].count = group[k].count + 1
  /\ group'[k].revision = e.revision
  /\ e.outcome = "regressed" => group[k].acked
  /\ group'[k].acked = (group[k].acked /\ e.outcome # "regressed")
  /\ group'[k].notices = Newest(Append(group[k].notices, Len(log) + 1))
  /\ IF e.outcome = "stored"
       THEN UNCHANGED events
       ELSE \E type \in {"error.created", "error.regressed"} :
              events' = Append(events, [type |-> type, key |-> k, at |-> Len(log) + 1])

\* A call of the agent for the group k.
CallStep(k, e) ==
  /\ k \in Keys /\ e \in LogEntry
  /\ e.op \in {"ack", "suppress", "unsuppress"} /\ e.key = k /\ e.outcome = e.op
  /\ log' = Append(log, e) /\ UNCHANGED events
  /\ \A j \in Keys : j # k => group'[j] = group[j]
  /\ group'[k].count = group[k].count /\ group[k].count > 0
  /\ group'[k].revision = group[k].revision
  /\ group'[k].notices = group[k].notices
  /\ group'[k].acked = (group[k].acked \/ e.op = "ack")

LEMMA RecordedEntry ==
  ASSUME NEW op \in {"notice", "ack", "suppress", "unsuppress"}, NEW k \in Keys,
         NEW p \in Projects \union {SomeProject}, NEW rev \in Revisions,
         NEW outcome \in Outcomes \union {"ack", "suppress", "unsuppress"},
         Record(op, k, p, rev, outcome)
  PROVE  \E e \in LogEntry :
           /\ log' = Append(log, e)
           /\ e.op = op /\ e.key = k /\ e.revision = rev /\ e.outcome = outcome
<1> DEFINE e == [op |-> op, key |-> k, project |-> p, revision |-> rev, outcome |-> outcome]
<1>1. e \in LogEntry
  BY DEF LogEntry
<1> QED
  BY <1>1 DEF Record

LEMMA IngestMoves ==
  ASSUME TypeInv, NEW r \in Requests, Create(r) \/ Regress(r) \/ Recur(r)
  PROVE  /\ \E e \in LogEntry : NoticeStep(KeyOf(r), e)
         /\ group' \in [Keys -> Group] /\ group'[KeyOf(r)].count # 0
<1> DEFINE k == KeyOf(r)
<1>0. /\ k \in Keys /\ group \in [Keys -> Group] /\ group[k] \in Group
      /\ req[r].project \in Projects /\ req[r].revision \in Revisions
      /\ group[k].count \in Nat /\ HistType
  <2>1. k \in Keys
    BY KeyType DEF TypeInv, Create, Regress, Recur
  <2> QED
    BY <2>1 DEF TypeInv, LocalType, GroupType, Create, Regress, Recur, Req, Group
<1> HIDE DEF k
<1>1. CASE Create(r)
  <2> DEFINE g == [NoGroup EXCEPT !.project = req[r].project]
  <2>1. /\ g \in Group /\ g.count = 0 /\ ~g.acked /\ g.notices = <<>>
    BY <1>0, NullTypes DEF Group
  <2>2. group[k] = NoGroup
    BY <1>0, <1>1 DEF Create, Exists, TypeInv, GroupType, k
  <2> HIDE DEF g
  <2> DEFINE row == Updated(g, r, FALSE)
  <2>3. /\ row \in Group /\ row.count = 1 /\ row.revision = req[r].revision
        /\ row.acked = FALSE /\ row.notices = Newest(Append(<<>>, Len(log) + 1))
    <3>1. /\ row \in Group /\ row.count = g.count + 1 /\ row.revision = req[r].revision
          /\ row.acked = (g.acked /\ ~FALSE)
          /\ row.notices = Newest(Append(g.notices, Len(log) + 1))
      BY <1>0, <2>1, UpdatedRow
    <3> HIDE DEF row
    <3>2. row.count = 1 /\ row.notices = Newest(Append(<<>>, Len(log) + 1))
      BY <2>1, <3>1
    <3>3. row.acked = FALSE
      BY ONLY <2>1, <3>1, Zenon
    <3> QED
      BY <3>1, <3>2, <3>3
  <2> HIDE DEF row
  <2>4. group' = [group EXCEPT ![k] = row]
    BY <1>1 DEF Create, row, g, k
  <2>5. \E type \in {"error.created", "error.regressed"} :
          events' = Append(events, [type |-> type, key |-> k, at |-> Len(log) + 1])
    BY <1>1 DEF Create, Announce, k
  <2> PICK e \in LogEntry :
        /\ log' = Append(log, e)
        /\ e.op = "notice" /\ e.key = k /\ e.revision = req[r].revision
        /\ e.outcome = "created"
    BY <1>0, <1>1, RecordedEntry DEF Create, Outcomes, k
  <2>6. /\ group' \in [Keys -> Group] /\ group'[k] = row
        /\ \A j \in Keys : j # k => group'[j] = group[j]
    BY <1>0, <2>3, <2>4
  <2>7. group'[k].acked = (group[k].acked /\ e.outcome # "regressed")
    BY <2>2, <2>3, <2>6, NullTypes, Zenon
  <2>8. /\ group'[k].count = group[k].count + 1
        /\ group'[k].notices = Newest(Append(group[k].notices, Len(log) + 1))
    BY <2>2, <2>3, <2>6, NullTypes
  <2>9. NoticeStep(k, e)
    BY <1>0, <2>3, <2>5, <2>6, <2>7, <2>8 DEF NoticeStep, Outcomes
  <2> QED
    BY <2>3, <2>6, <2>9 DEF k
<1>2. ASSUME NEW b \in BOOLEAN, NEW outcome \in {"regressed", "stored"},
             b <=> outcome = "regressed", b => group[k].acked,
             group' = [group EXCEPT ![k] = Updated(@, r, b)],
             Record("notice", k, req[r].project, req[r].revision, outcome),
             IF b
               THEN \E type \in {"error.created", "error.regressed"} :
                      events' = Append(events, [type |-> type, key |-> k, at |-> Len(log) + 1])
               ELSE UNCHANGED events
      PROVE  /\ \E e \in LogEntry : NoticeStep(k, e)
             /\ group' \in [Keys -> Group] /\ group'[k].count # 0
  <2> DEFINE g == group[k]
             row == Updated(g, r, b)
  <2>1. /\ row \in Group /\ row.count = g.count + 1 /\ row.revision = req[r].revision
        /\ row.acked = (g.acked /\ ~b)
        /\ row.notices = Newest(Append(g.notices, Len(log) + 1))
    BY <1>0, UpdatedRow
  <2>2. /\ group' \in [Keys -> Group] /\ group'[k] = row
        /\ \A j \in Keys : j # k => group'[j] = group[j]
    BY <1>0, <1>2, <2>1
  <2> HIDE DEF row
  <2>3. row.count # 0
    BY <1>0, <2>1
  <2> PICK e \in LogEntry :
        /\ log' = Append(log, e)
        /\ e.op = "notice" /\ e.key = k /\ e.revision = req[r].revision
        /\ e.outcome = outcome
    BY <1>0, <1>2, RecordedEntry DEF Outcomes
  <2>4. row.acked = (g.acked /\ e.outcome # "regressed")
    BY <1>2, <2>1
  <2>5. NoticeStep(k, e)
    BY <1>0, <1>2, <2>1, <2>2, <2>4 DEF NoticeStep, Outcomes
  <2> QED
    BY <2>2, <2>3, <2>5
<1>3. CASE Regress(r)
  <2>1. /\ group[k].acked
        /\ group' = [group EXCEPT ![k] = Updated(@, r, TRUE)]
        /\ Record("notice", k, req[r].project, req[r].revision, "regressed")
        /\ events' = Append(events, [type |-> "error.regressed", key |-> k, at |-> Len(log) + 1])
    BY <1>3 DEF Regress, Regressed, Announce, k
  <2> QED
    BY <1>2, <2>1 DEF k
<1>4. CASE Recur(r)
  <2>1. /\ group' = [group EXCEPT ![k] = Updated(@, r, FALSE)]
        /\ Record("notice", k, req[r].project, req[r].revision, "stored")
        /\ UNCHANGED events
    BY <1>4 DEF Recur, k
  <2> QED
    BY <1>2, <2>1 DEF k
<1> QED
  BY <1>1, <1>3, <1>4

LEMMA AgentMoves ==
  ASSUME TypeInv, NEW k \in Keys, Ack(k) \/ Suppress(k) \/ Unsuppress(k)
  PROVE  /\ \E e \in LogEntry : CallStep(k, e)
         /\ group' \in [Keys -> Group] /\ group'[k].count # 0
<1>0. /\ group \in [Keys -> Group] /\ group[k] \in Group
      /\ group[k].count \in Nat /\ group[k].project \in Projects \union {SomeProject}
      /\ NoRevision \in Revisions
  BY InboxAssumption DEF TypeInv, GroupType, Group
<1>1. ASSUME NEW op \in {"ack", "suppress", "unsuppress"}, NEW row \in Group,
             AgentCall(op, k, row),
             row.count = group[k].count, row.revision = group[k].revision,
             row.notices = group[k].notices,
             row.acked = (group[k].acked \/ op = "ack")
      PROVE  /\ \E e \in LogEntry : CallStep(k, e)
             /\ group' \in [Keys -> Group] /\ group'[k].count # 0
  <2>1. /\ group' \in [Keys -> Group] /\ group'[k] = row /\ group[k].count > 0
        /\ UNCHANGED events
        /\ \A j \in Keys : j # k => group'[j] = group[j]
    BY <1>0, <1>1 DEF AgentCall, Exists
  <2> PICK e \in LogEntry :
        /\ log' = Append(log, e)
        /\ e.op = op /\ e.key = k /\ e.outcome = op
    <3>1. Record(op, k, group[k].project, NoRevision, op)
      BY <1>1 DEF AgentCall
    <3>2. /\ op \in {"notice", "ack", "suppress", "unsuppress"}
          /\ op \in Outcomes \union {"ack", "suppress", "unsuppress"}
      OBVIOUS
    <3> QED
      BY ONLY <1>0, <3>1, <3>2, k \in Keys, RecordedEntry
  <2>2. CallStep(k, e)
    BY <1>1, <2>1 DEF CallStep
  <2> QED
    BY <1>0, <1>1, <2>1, <2>2
<1>2. CASE Ack(k)
  <2> DEFINE row == [group[k] EXCEPT !.acked = TRUE]
  <2>1. /\ row \in Group /\ row.count = group[k].count /\ row.revision = group[k].revision
        /\ row.notices = group[k].notices /\ row.acked = TRUE
    BY <1>0 DEF Group
  <2> HIDE DEF row
  <2>2. row.acked = (group[k].acked \/ "ack" = "ack")
    BY <2>1
  <2> QED
    BY <1>1, <1>2, <2>1, <2>2 DEF Ack, row
<1>3. CASE Suppress(k)
  <2> DEFINE row == [group[k] EXCEPT !.suppressed = TRUE]
  <2>1. /\ row \in Group /\ row.count = group[k].count /\ row.revision = group[k].revision
        /\ row.notices = group[k].notices /\ row.acked = group[k].acked
    BY <1>0 DEF Group
  <2>2. row.acked = (group[k].acked \/ "suppress" = "ack")
    BY <1>0, <2>1 DEF Group
  <2> HIDE DEF row
  <2> QED
    BY <1>1, <1>3, <2>1, <2>2 DEF Suppress, row
<1>4. CASE Unsuppress(k)
  <2> DEFINE row == [group[k] EXCEPT !.suppressed = FALSE]
  <2>1. /\ row \in Group /\ row.count = group[k].count /\ row.revision = group[k].revision
        /\ row.notices = group[k].notices /\ row.acked = group[k].acked
    BY <1>0 DEF Group
  <2>2. row.acked = (group[k].acked \/ "unsuppress" = "ack")
    BY <1>0, <2>1 DEF Group
  <2> HIDE DEF row
  <2> QED
    BY <1>1, <1>4, <2>1, <2>2 DEF Unsuppress, row
<1> QED
  BY <1>2, <1>3, <1>4

LEMMA Moves ==
  ASSUME TypeInv, [Next]_vars
  PROVE  \/ \E k \in Keys, e \in LogEntry : NoticeStep(k, e)
         \/ \E k \in Keys, e \in LogEntry : CallStep(k, e)
         \/ UNCHANGED <<group, events, log>>
<1>1. ASSUME NEW r \in Requests, Create(r) \/ Regress(r) \/ Recur(r)
      PROVE  \E k \in Keys, e \in LogEntry : NoticeStep(k, e)
  <2>1. KeyOf(r) \in Keys
    BY <1>1, KeyType DEF TypeInv, Create, Regress, Recur
  <2> QED
    BY <1>1, <2>1, IngestMoves
<1>2. ASSUME NEW k \in Keys, Ack(k) \/ Suppress(k) \/ Unsuppress(k)
      PROVE  \E e \in LogEntry : CallStep(k, e)
  BY <1>2, AgentMoves
<1> QED
  BY <1>1, <1>2 DEF Next, Authenticate, Refuse, File, Abandon, SetLive, SetLinked, vars

-----------------------------------------------------------------------------
(***************************************************************************)
(* The types are inductive.                                                *)
(***************************************************************************)
LEMMA TypeInit == Init => TypeInv
<1> SUFFICES ASSUME Init PROVE TypeInv
  OBVIOUS
<1>1. LocalType
  BY NullTypes DEF Init, LocalType
<1>2. GroupType
  BY NullTypes DEF Init, GroupType
<1>3. HistType
  BY EmptySeq DEF Init, HistType
<1> QED
  BY <1>1, <1>2, <1>3 DEF TypeInv

LEMMA ReturnType ==
  ASSUME LocalType, NEW r \in Requests, Return(r) PROVE LocalType'
BY NullTypes DEF LocalType, Return

\* The handler goes on to file issue work for the notice it committed.
LEMMA AnnounceType ==
  ASSUME TypeInv, NEW r \in Requests, NEW type, Announce(r, type), pc[r] # "idle"
  PROVE  LocalType'
<1>1. CASE Return(r)
  BY <1>1, ReturnType DEF TypeInv
<1>2. CASE /\ pc' = [pc EXCEPT ![r] = "file"]
           /\ req' = [req EXCEPT ![r].at = Len(log) + 1]
  <2>1. Len(log) + 1 \in Nat /\ req[r] \in Req
    BY LenProperties DEF TypeInv, HistType, LocalType
  <2> DEFINE q == [req[r] EXCEPT !.at = Len(log) + 1]
  <2>2. q \in Req /\ q.project = req[r].project /\ q.print = req[r].print
    BY <2>1 DEF Req
  <2>3. req' = [req EXCEPT ![r] = q]
    BY <1>2 DEF TypeInv, LocalType
  <2> HIDE DEF q
  <2> QED
    BY <1>2, <2>2, <2>3 DEF TypeInv, LocalType
<1> QED
  BY <1>1, <1>2 DEF Announce

LEMMA LocalStep == TypeInv /\ [Next]_vars => LocalType'
<1> SUFFICES ASSUME TypeInv, [Next]_vars PROVE LocalType'
  OBVIOUS
<1>0. LocalType
  BY DEF TypeInv
<1>1. CASE UNCHANGED <<pc, req>>
  BY <1>0, <1>1 DEF LocalType
<1>2. ASSUME NEW r \in Requests, NEW p \in Projects, NEW f \in Prints, NEW rev \in Revisions,
             Authenticate(r, p, f, rev)
      PROVE  LocalType'
  <2> DEFINE q == [project |-> p, print |-> f, revision |-> rev,
                   linked |-> p \in linked, at |-> 0]
  <2>1. (p \in linked) \in BOOLEAN
    OBVIOUS
  <2>2. q \in Req /\ q.project = p /\ q.print = f
    BY <2>1 DEF Req
  <2>3. req' = [req EXCEPT ![r] = q] /\ pc' = [pc EXCEPT ![r] = "ingest"]
    BY <1>2 DEF Authenticate
  <2> HIDE DEF q
  <2> QED
    BY <1>0, <2>2, <2>3 DEF LocalType
<1>3. ASSUME NEW r \in Requests, Create(r) \/ Regress(r) PROVE LocalType'
  BY <1>3, AnnounceType DEF Create, Regress
<1>4. ASSUME NEW r \in Requests, Refuse(r) \/ Recur(r) \/ File(r) \/ Abandon(r)
      PROVE  LocalType'
  BY <1>0, <1>4, ReturnType DEF Refuse, Recur, File, Abandon
<1> QED
  BY <1>1, <1>2, <1>3, <1>4
     DEF Next, Ack, Suppress, Unsuppress, AgentCall, SetLive, SetLinked, vars

LEMMA GroupStep == TypeInv /\ [Next]_vars => GroupType'
<1> SUFFICES ASSUME TypeInv, [Next]_vars PROVE GroupType'
  OBVIOUS
<1>1. CASE UNCHANGED group
  BY <1>1 DEF TypeInv, GroupType
<1>2. ASSUME NEW k \in Keys, group' \in [Keys -> Group], group'[k].count # 0,
             \A j \in Keys : j # k => group'[j] = group[j]
      PROVE  GroupType'
  BY <1>2 DEF TypeInv, GroupType
<1>3. ASSUME NEW r \in Requests, Create(r) \/ Regress(r) \/ Recur(r) PROVE GroupType'
  <2>1. KeyOf(r) \in Keys
    BY <1>3, KeyType DEF TypeInv, Create, Regress, Recur
  <2>2. /\ group' \in [Keys -> Group] /\ group'[KeyOf(r)].count # 0
        /\ \A j \in Keys : j # KeyOf(r) => group'[j] = group[j]
    BY <1>3, IngestMoves DEF NoticeStep
  <2> QED
    BY <1>2, <2>1, <2>2
<1>4. ASSUME NEW k \in Keys, Ack(k) \/ Suppress(k) \/ Unsuppress(k) PROVE GroupType'
  <2>1. /\ group' \in [Keys -> Group] /\ group'[k].count # 0
        /\ \A j \in Keys : j # k => group'[j] = group[j]
    BY <1>4, AgentMoves DEF CallStep
  <2> QED
    BY <1>2, <2>1
<1> QED
  BY <1>1, <1>3, <1>4 DEF Next, Authenticate, Refuse, File, Abandon, SetLive, SetLinked, vars

LEMMA HistStep == TypeInv /\ [Next]_vars => HistType'
<1> SUFFICES ASSUME TypeInv, [Next]_vars PROVE HistType'
  OBVIOUS
<1>0. log \in Seq(LogEntry) /\ events \in Seq(Event) /\ Len(log) + 1 \in Nat
  BY LenProperties DEF TypeInv, HistType
<1>1. ASSUME NEW k \in Keys, NEW e \in LogEntry, NoticeStep(k, e) PROVE HistType'
  <2>1. log' \in Seq(LogEntry)
    BY <1>0, <1>1, AppendProperties DEF NoticeStep
  <2>2. ASSUME NEW type \in {"error.created", "error.regressed"},
               events' = Append(events, [type |-> type, key |-> k, at |-> Len(log) + 1])
        PROVE  events' \in Seq(Event)
    <3>1. [type |-> type, key |-> k, at |-> Len(log) + 1] \in Event
      BY <1>0 DEF Event
    <3> QED
      BY <1>0, <2>2, <3>1, AppendProperties
  <2>3. events' \in Seq(Event)
    BY <1>0, <1>1, <2>2 DEF NoticeStep
  <2> QED
    BY <2>1, <2>3 DEF HistType
<1>2. ASSUME NEW k \in Keys, NEW e \in LogEntry, CallStep(k, e) PROVE HistType'
  BY <1>0, <1>2, AppendProperties DEF CallStep, HistType
<1>3. CASE UNCHANGED <<group, events, log>>
  BY <1>0, <1>3 DEF HistType
<1> QED
  BY <1>1, <1>2, <1>3, Moves

LEMMA TypeStep == TypeInv /\ [Next]_vars => TypeInv'
BY LocalStep, GroupStep, HistStep DEF TypeInv

-----------------------------------------------------------------------------
(***************************************************************************)
(* Acknowledgements and regressions.                                       *)
(***************************************************************************)

\* Entry a acknowledges the group k, and it has not regressed up to entry n.
AckedSince(k, a, n) ==
  /\ log[a].op = "ack" /\ log[a].key = k
  /\ \A m \in (a + 1)..n : ~(log[m].key = k /\ log[m].outcome = "regressed")

LEMMA LogGrows ==
  ASSUME TypeInv, NEW e \in LogEntry, log' = Append(log, e)
  PROVE  /\ Len(log) \in Nat /\ Len(log') = Len(log) + 1
         /\ DOMAIN log = 1..Len(log) /\ DOMAIN log' = 1..(Len(log) + 1)
         /\ \A i \in 1..Len(log) : log'[i] = log[i]
         /\ log'[Len(log) + 1] = e
<1>1. log \in Seq(LogEntry)
  BY DEF TypeInv, HistType
<1>2. log' \in Seq(LogEntry) /\ Len(log') = Len(log) + 1
  BY <1>1, AppendProperties
<1> QED
  BY <1>1, <1>2, AppendProperties, LenProperties

\* What another entry means for the acknowledgement of a group.
LEMMA AckedNext ==
  ASSUME TypeInv, NEW e \in LogEntry, log' = Append(log, e), NEW k \in Keys
  PROVE  (\E a \in DOMAIN log' : AckedSince(k, a, Len(log))') <=>
           \/ e.op = "ack" /\ e.key = k
           \/ /\ \E a \in DOMAIN log : AckedSince(k, a, Len(log))
              /\ ~(e.key = k /\ e.outcome = "regressed")
<1> DEFINE n == Len(log)
<1>0. /\ n \in Nat /\ Len(log') = n + 1 /\ DOMAIN log = 1..n /\ DOMAIN log' = 1..(n + 1)
      /\ \A i \in 1..n : log'[i] = log[i]
      /\ log'[n + 1] = e
  BY LogGrows
<1> HIDE DEF n
<1>1. ASSUME NEW a \in 1..n
      PROVE  AckedSince(k, a, Len(log))' <=>
               /\ log[a].op = "ack" /\ log[a].key = k
               /\ \A m \in (a + 1)..n : ~(log[m].key = k /\ log[m].outcome = "regressed")
               /\ ~(e.key = k /\ e.outcome = "regressed")
  <2>1. /\ log'[a] = log[a]
        /\ \A m \in (a + 1)..(n + 1) : m = n + 1 \/ (m \in (a + 1)..n /\ log'[m] = log[m])
        /\ n + 1 \in (a + 1)..(n + 1)
        /\ \A m \in (a + 1)..n : m \in (a + 1)..(n + 1) /\ log'[m] = log[m]
    BY <1>0
  <2> QED
    BY <1>0, <2>1 DEF AckedSince
<1>2. ASSUME NEW a, a = n + 1
      PROVE  AckedSince(k, a, Len(log))' <=> e.op = "ack" /\ e.key = k
  <2>1. (a + 1)..(n + 1) = {}
    BY <1>0, <1>2
  <2> QED
    BY <1>0, <1>2, <2>1 DEF AckedSince
<1>3. \A a \in 1..n : AckedSince(k, a, Len(log)) <=>
                        /\ log[a].op = "ack" /\ log[a].key = k
                        /\ \A m \in (a + 1)..n : ~(log[m].key = k /\ log[m].outcome = "regressed")
  BY DEF AckedSince, n
<1>4. \A a : a \in 1..(n + 1) <=> a \in 1..n \/ a = n + 1
  BY <1>0
<1>5. \A a \in 1..n : AckedSince(k, a, Len(log))' <=>
        AckedSince(k, a, Len(log)) /\ ~(e.key = k /\ e.outcome = "regressed")
  BY <1>1, <1>3
<1>6. \E a : a = n + 1
  OBVIOUS
<1> QED
  BY <1>0, <1>2, <1>4, <1>5, <1>6, Zenon

AckInv ==
  /\ \A k \in Keys : group[k].acked <=> \E a \in DOMAIN log : AckedSince(k, a, Len(log))
  /\ RegressionNeedsAck

LEMMA AckInit == Init => AckInv
<1> SUFFICES ASSUME Init PROVE AckInv
  OBVIOUS
<1>1. DOMAIN log = {} /\ \A k \in Keys : ~group[k].acked
  BY DEF Init, NoGroup
<1> QED
  BY <1>1 DEF AckInv, RegressionNeedsAck

\* A new entry leaves the earlier ones as they are, and a regression follows
\* an acknowledgement.
LEMMA RegressionAcked ==
  ASSUME TypeInv, AckInv, NEW e \in LogEntry, log' = Append(log, e),
         e.outcome = "regressed" => e.key \in Keys /\ group[e.key].acked
  PROVE  RegressionNeedsAck'
<1> DEFINE n == Len(log)
<1>0. /\ n \in Nat /\ Len(log') = n + 1 /\ DOMAIN log = 1..n /\ DOMAIN log' = 1..(n + 1)
      /\ \A i \in 1..n : log'[i] = log[i]
      /\ log'[n + 1] = e
  BY LogGrows
<1> HIDE DEF n
<1> SUFFICES ASSUME NEW i \in 1..(n + 1), log'[i].outcome = "regressed"
             PROVE  \E a \in 1..(i - 1) :
                      /\ log'[a].op = "ack" /\ log'[a].key = log'[i].key
                      /\ \A m \in (a + 1)..(i - 1) :
                           ~(log'[m].key = log'[i].key /\ log'[m].outcome = "regressed")
  BY <1>0 DEF RegressionNeedsAck
<1>1. \A a \in 1..(i - 1) : a \in 1..n /\ log'[a] = log[a]
  BY <1>0
<1>2. \A a \in 1..(i - 1) : \A m \in (a + 1)..(i - 1) : log'[m] = log[m]
  BY <1>0
<1>3. CASE i = n + 1
  <2>1. e.key \in Keys /\ group[e.key].acked /\ log'[i] = e
    BY <1>0, <1>3
  <2> PICK a \in 1..n : AckedSince(e.key, a, Len(log))
    BY <1>0, <2>1 DEF AckInv
  <2>2. a \in 1..(i - 1) /\ i - 1 = n
    BY <1>0, <1>3
  <2> QED
    BY <1>1, <1>2, <2>1, <2>2 DEF AckedSince, n
<1>4. CASE i # n + 1
  <2>1. i \in DOMAIN log /\ log'[i] = log[i]
    BY <1>0, <1>4
  <2> PICK a \in 1..(i - 1) :
        /\ log[a].op = "ack" /\ log[a].key = log[i].key
        /\ \A m \in (a + 1)..(i - 1) :
             ~(log[m].key = log[i].key /\ log[m].outcome = "regressed")
    BY <2>1 DEF AckInv, RegressionNeedsAck
  <2> QED
    BY <1>1, <1>2, <2>1
<1> QED
  BY <1>3, <1>4

LEMMA AckStep == TypeInv /\ AckInv /\ [Next]_vars => AckInv'
<1> SUFFICES ASSUME TypeInv, AckInv, [Next]_vars PROVE AckInv'
  OBVIOUS
<1>1. ASSUME NEW k \in Keys, NEW e \in LogEntry, NoticeStep(k, e) \/ CallStep(k, e)
      PROVE  AckInv'
  <2>0. /\ log' = Append(log, e) /\ e.key = k
        /\ e.outcome = "regressed" => group[k].acked
        /\ \A j \in Keys : j # k => group'[j] = group[j]
    BY <1>1 DEF NoticeStep, CallStep
  <2>1. RegressionNeedsAck'
    BY <2>0, RegressionAcked
  <2>2. group'[k].acked <=> e.op = "ack" \/ (group[k].acked /\ e.outcome # "regressed")
    <3>1. CASE NoticeStep(k, e)
      BY <3>1 DEF NoticeStep
    <3>2. CASE CallStep(k, e)
      <4>1. e.outcome # "regressed"
        BY <3>2 DEF CallStep
      <4> QED
        BY <3>2, <4>1 DEF CallStep
    <3> QED
      BY <1>1, <3>1, <3>2
  <2>3. ASSUME NEW j \in Keys
        PROVE  group'[j].acked <=> \E a \in DOMAIN log' : AckedSince(j, a, Len(log))'
    <3>1. (\E a \in DOMAIN log' : AckedSince(j, a, Len(log))') <=>
            \/ e.op = "ack" /\ e.key = j
            \/ group[j].acked /\ ~(e.key = j /\ e.outcome = "regressed")
      BY <2>0, AckedNext DEF AckInv
    <3> QED
      BY <2>0, <2>2, <3>1
  <2> QED
    BY <2>1, <2>3 DEF AckInv
<1>2. CASE UNCHANGED <<group, events, log>>
  BY <1>2 DEF AckInv, AckedSince, RegressionNeedsAck
<1> QED
  BY <1>1, <1>2, Moves

LEMMA AckParts == AckInv => AckedUntilRegression /\ RegressionNeedsAck
BY DEF AckInv, AckedSince, AckedUntilRegression

\* A group is acknowledged exactly when its last acknowledgement came after
\* its last regression, in whatever order notices and calls commit.
THEOREM AcksHoldUntilRegression == Spec => []AckedUntilRegression
BY AckParts, TypeInit, TypeStep, AckInit, AckStep, PTL DEF Spec

\* Between two regressions of a group an agent acknowledged it.
THEOREM RegressionsAnswerAcks == Spec => []RegressionNeedsAck
BY AckParts, TypeInit, TypeStep, AckInit, AckStep, PTL DEF Spec

-----------------------------------------------------------------------------
(***************************************************************************)
(* Announcements.                                                          *)
(***************************************************************************)
Announcements(i) == {n \in DOMAIN events : events[n].at = i}

\* No event is ahead of the history.
AnnounceInv ==
  /\ \A n \in DOMAIN events : events[n].at \in DOMAIN log
  /\ AnnouncedOnce

LEMMA AnnounceInit == Init => AnnounceInv
<1> SUFFICES ASSUME Init PROVE AnnounceInv
  OBVIOUS
<1>1. DOMAIN log = {} /\ DOMAIN events = {}
  BY DEF Init
<1> QED
  BY <1>1 DEF AnnounceInv, AnnouncedOnce

\* A new entry without an event: it is none that must be announced.
LEMMA EntryUnannounced ==
  ASSUME TypeInv, AnnounceInv, NEW e \in LogEntry, log' = Append(log, e), UNCHANGED events,
         e.outcome \notin {"created", "regressed"}
  PROVE  AnnounceInv'
<1> DEFINE n == Len(log)
<1>0. /\ n \in Nat /\ Len(log') = n + 1 /\ DOMAIN log = 1..n /\ DOMAIN log' = 1..(n + 1)
      /\ \A i \in 1..n : log'[i] = log[i]
      /\ log'[n + 1] = e
  BY LogGrows
<1> HIDE DEF n
<1>1. ASSUME NEW i \in DOMAIN log'
      PROVE  Cardinality(Announcements(i))
               = IF log'[i].outcome \in {"created", "regressed"} THEN 1 ELSE 0
  <2>1. CASE i = n + 1
    <3>1. Announcements(i) = {}
      BY <1>0, <2>1 DEF Announcements, AnnounceInv
    <3> QED
      BY <1>0, <2>1, <3>1, FS_EmptySet
  <2>2. CASE i # n + 1
    <3>1. i \in DOMAIN log /\ log'[i] = log[i]
      BY <1>0, <2>2
    <3> QED
      BY <3>1 DEF AnnounceInv, AnnouncedOnce, Announcements
  <2> QED
    BY <2>1, <2>2
<1>2. \A m \in DOMAIN events' : events'[m].at \in DOMAIN log'
  BY <1>0 DEF AnnounceInv
<1> QED
  BY <1>1, <1>2 DEF AnnounceInv, AnnouncedOnce, Announcements

\* A new entry with its event.
LEMMA EntryAnnounced ==
  ASSUME TypeInv, AnnounceInv, NEW e \in LogEntry, log' = Append(log, e),
         e.outcome \in {"created", "regressed"}, NEW k \in Keys,
         NEW type \in {"error.created", "error.regressed"},
         events' = Append(events, [type |-> type, key |-> k, at |-> Len(log) + 1])
  PROVE  AnnounceInv'
<1> DEFINE n == Len(log)
           v == [type |-> type, key |-> k, at |-> n + 1]
           l == Len(events)
<1>0. /\ n \in Nat /\ Len(log') = n + 1 /\ DOMAIN log = 1..n /\ DOMAIN log' = 1..(n + 1)
      /\ \A i \in 1..n : log'[i] = log[i]
      /\ log'[n + 1] = e
  BY LogGrows
<1>1. v \in Event /\ v.at = n + 1 /\ events' = Append(events, v)
  BY <1>0 DEF Event
<1>2. /\ l \in Nat /\ DOMAIN events = 1..l /\ DOMAIN events' = 1..(l + 1)
      /\ \A i \in 1..l : events'[i] = events[i]
      /\ events'[l + 1] = v
  <2>1. events \in Seq(Event)
    BY DEF TypeInv, HistType
  <2>2. events' \in Seq(Event) /\ Len(events') = l + 1
    BY <1>1, <2>1, AppendProperties
  <2> QED
    BY <1>1, <2>1, <2>2, AppendProperties, LenProperties
<1>3. \A i \in 1..l : events[i].at \in 1..n
  BY <1>0, <1>2 DEF AnnounceInv
<1> HIDE DEF n, l, v
<1>4. ASSUME NEW i \in DOMAIN log'
      PROVE  Cardinality({m \in DOMAIN events' : events'[m].at = i})
               = IF log'[i].outcome \in {"created", "regressed"} THEN 1 ELSE 0
  <2>1. CASE i = n + 1
    <3>1. \A m \in 1..(l + 1) : events'[m].at = i <=> m = l + 1
      <4>1. ASSUME NEW m \in 1..(l + 1), m # l + 1 PROVE events'[m].at # i
        <5>1. m \in 1..l /\ events'[m] = events[m]
          BY <1>2, <4>1
        <5>2. events'[m].at \in 1..n
          BY <1>3, <5>1
        <5>3. \A y \in 1..n : y # n + 1
          BY <1>0
        <5> QED
          BY <2>1, <5>2, <5>3
      <4>2. events'[l + 1].at = i
        BY <1>1, <1>2, <2>1
      <4> QED
        BY <4>1, <4>2
    <3>2. l + 1 \in 1..(l + 1)
      BY <1>2
    <3>3. {m \in DOMAIN events' : events'[m].at = i} = {l + 1}
      BY <1>2, <3>1, <3>2
    <3> QED
      BY <1>0, <2>1, <3>3, FS_Singleton
  <2>2. CASE i # n + 1
    <3>1. i \in DOMAIN log /\ log'[i] = log[i]
      BY <1>0, <2>2
    <3>2. \A m : /\ m \in 1..(l + 1) <=> m \in 1..l \/ m = l + 1
      BY <1>2
    <3>3. {m \in DOMAIN events' : events'[m].at = i} = Announcements(i)
      BY <1>1, <1>2, <2>2, <3>2 DEF Announcements
    <3> QED
      BY <3>1, <3>3 DEF AnnounceInv, AnnouncedOnce, Announcements
  <2> QED
    BY <2>1, <2>2
<1>5. ASSUME NEW m \in DOMAIN events' PROVE events'[m].at \in DOMAIN log'
  BY <1>0, <1>1, <1>2, <1>3
<1> QED
  BY <1>4, <1>5 DEF AnnounceInv, AnnouncedOnce

LEMMA AnnounceStep == TypeInv /\ AnnounceInv /\ [Next]_vars => AnnounceInv'
<1> SUFFICES ASSUME TypeInv, AnnounceInv, [Next]_vars PROVE AnnounceInv'
  OBVIOUS
<1>1. ASSUME NEW k \in Keys, NEW e \in LogEntry, NoticeStep(k, e) PROVE AnnounceInv'
  <2>1. CASE e.outcome = "stored"
    <3>1. log' = Append(log, e) /\ UNCHANGED events /\ e.outcome \notin {"created", "regressed"}
      BY <1>1, <2>1 DEF NoticeStep
    <3> QED
      BY <3>1, EntryUnannounced
  <2>2. CASE e.outcome # "stored"
    <3>1. log' = Append(log, e) /\ e.outcome \in {"created", "regressed"}
      BY <1>1, <2>2 DEF NoticeStep, Outcomes
    <3> PICK type \in {"error.created", "error.regressed"} :
          events' = Append(events, [type |-> type, key |-> k, at |-> Len(log) + 1])
      BY <1>1, <2>2 DEF NoticeStep
    <3> QED
      BY <3>1, EntryAnnounced
  <2> QED
    BY <2>1, <2>2
<1>2. ASSUME NEW k \in Keys, NEW e \in LogEntry, CallStep(k, e) PROVE AnnounceInv'
  <2>1. log' = Append(log, e) /\ UNCHANGED events /\ e.outcome \notin {"created", "regressed"}
    BY <1>2 DEF CallStep
  <2> QED
    BY <2>1, EntryUnannounced
<1>3. CASE UNCHANGED <<group, events, log>>
  BY <1>3 DEF AnnounceInv, AnnouncedOnce
<1> QED
  BY <1>1, <1>2, <1>3, Moves

\* Every created or regressed group is announced exactly once, whatever
\* crashes: the event commits with the notice or not at all.
THEOREM AnnouncedExactlyOnce == Spec => []AnnouncedOnce
<1>1. AnnounceInv => AnnouncedOnce
  BY DEF AnnounceInv
<1> QED
  BY <1>1, TypeInit, TypeStep, AnnounceInit, AnnounceStep, PTL DEF Spec

-----------------------------------------------------------------------------
(***************************************************************************)
(* The evidence.                                                           *)
(***************************************************************************)

\* The notices s, kept of the notices all, are the newest ones in order.
Keeps(s, all) ==
  /\ \A i, j \in 1..Len(s) : i < j => s[i] < s[j]
  /\ \A i \in 1..Len(s) : s[i] \in all
  /\ \A n \in all : (\A i \in 1..Len(s) : s[i] # n) => \A i \in 1..Len(s) : n < s[i]

Evidence(k) ==
  /\ group[k].count = Cardinality(NoticesOf(k))
  /\ Len(group[k].notices) = IF group[k].count < Keep THEN group[k].count ELSE Keep
  /\ Keeps(group[k].notices, NoticesOf(k))
  /\ \A n \in NoticesOf(k) :
       (\A m \in NoticesOf(k) : m <= n) => group[k].revision = log[n].revision

LEMMA EvidenceParts ==
  TypeInv => (EvidenceIsHistory <=> \A k \in Keys : Evidence(k))
<1> SUFFICES ASSUME TypeInv, NEW k \in Keys
             PROVE  Keeps(group[k].notices, NoticesOf(k)) <=>
                      LET all  == NoticesOf(k)
                          kept == group[k].notices
                      IN
                      /\ \A i, j \in DOMAIN kept : i < j => kept[i] < kept[j]
                      /\ ToSet(kept) \subseteq all
                      /\ \A n \in all \ ToSet(kept), m \in ToSet(kept) : n < m
  BY DEF EvidenceIsHistory, Evidence
<1>1. DOMAIN group[k].notices = 1..Len(group[k].notices)
  BY LenProperties DEF TypeInv, GroupType, Group
<1> QED
  BY <1>1 DEF Keeps, ToSet

\* A newer notice is added to what is kept.
LEMMA KeepsNewer ==
  ASSUME NEW s \in Seq(Nat), Len(s) <= Keep, NEW all \in SUBSET Nat, Keeps(s, all),
         NEW x \in Nat, \A n \in all : n < x
  PROVE  Keeps(Newest(Append(s, x)), all \union {x})
<1> DEFINE u == Append(s, x)
           t == Newest(u)
           d == Len(s) + 1 - Len(t)
<1>1. Len(s) \in Nat /\ Keep \in Nat \ {0}
  BY InboxAssumption, LenProperties
<1>2. /\ \A i \in 1..Len(s) : u[i] = s[i]
      /\ u[Len(s) + 1] = x
  BY AppendProperties
<1>3. /\ t \in Seq(Nat) /\ d \in {0, 1}
      /\ \A i \in 1..Len(t) : i + d \in 1..(Len(s) + 1) /\ t[i] = u[i + d]
  BY NewestKept
<1>4. Len(t) \in Nat /\ Len(t) + d = Len(s) + 1 /\ d \in Nat
  BY <1>1, <1>3, LenProperties
<1> HIDE DEF u, t, d
<1>5. \A i, j \in 1..(Len(s) + 1) : i < j => u[i] < u[j]
  <2> SUFFICES ASSUME NEW i \in 1..(Len(s) + 1), NEW j \in 1..(Len(s) + 1), i < j
               PROVE  u[i] < u[j]
    OBVIOUS
  <2>1. i \in 1..Len(s) /\ u[i] = s[i] /\ s[i] \in all
    BY <1>1, <1>2 DEF Keeps
  <2>2. CASE j = Len(s) + 1
    BY <1>2, <2>1, <2>2
  <2>3. CASE j # Len(s) + 1
    <3>1. j \in 1..Len(s)
      BY <1>1, <2>3
    <3> QED
      BY <1>2, <2>1, <3>1 DEF Keeps
  <2> QED
    BY <2>2, <2>3
<1>6. ASSUME NEW i \in 1..Len(t), NEW j \in 1..Len(t), i < j PROVE t[i] < t[j]
  <2>1. /\ i + d \in 1..(Len(s) + 1) /\ j + d \in 1..(Len(s) + 1)
        /\ t[i] = u[i + d] /\ t[j] = u[j + d]
    BY <1>3
  <2>2. i + d < j + d
    BY <1>4, <1>6
  <2> QED
    BY <1>5, <2>1, <2>2
<1>7. \A i \in 1..(Len(s) + 1) : u[i] \in all \union {x}
  <2>1. ASSUME NEW i \in 1..(Len(s) + 1), i # Len(s) + 1 PROVE u[i] \in all
    <3>1. i \in 1..Len(s)
      BY <1>1, <2>1
    <3> QED
      BY <1>2, <3>1 DEF Keeps
  <2> QED
    BY <1>2, <2>1
<1>8. \A i \in 1..Len(t) : t[i] \in all \union {x}
  BY <1>3, <1>7
<1>9. ASSUME NEW n \in all \union {x}, \A i \in 1..Len(t) : t[i] # n, NEW i \in 1..Len(t)
      PROVE  n < t[i]
  <2>1. i + d \in 1..(Len(s) + 1) /\ t[i] = u[i + d]
    BY <1>3
  <2>2. Len(t) \in 1..Len(t) /\ t[Len(t)] = x
    <3>1. Len(t) \in 1..Len(t)
      BY <1>4
    <3>2. t[Len(t)] = u[Len(t) + d]
      BY <1>3, <3>1
    <3> QED
      BY <1>2, <1>4, <3>1, <3>2
  <2>3. n \in all /\ n # x
    BY <1>9, <2>2
  <2>4. CASE \A j \in 1..Len(s) : s[j] # n
    <3>1. CASE i + d = Len(s) + 1
      BY <1>2, <2>1, <2>3, <3>1
    <3>2. CASE i + d # Len(s) + 1
      <4>1. i + d \in 1..Len(s)
        BY <1>1, <2>1, <3>2
      <4> QED
        BY <1>2, <2>1, <2>3, <2>4, <4>1 DEF Keeps
    <3> QED
      BY <3>1, <3>2
  <2>5. ASSUME NEW j \in 1..Len(s), s[j] = n PROVE n < t[i]
    <3>1. j \in 1..(Len(s) + 1) /\ u[j] = n
      BY <1>1, <1>2, <2>5
    <3>2. CASE j < i + d
      BY <1>5, <2>1, <3>1, <3>2
    <3>3. CASE ~(j < i + d)
      <4>1. j - d \in 1..Len(t) /\ j - d + d = j
        BY <1>1, <1>4, <2>1, <3>3
      <4>2. t[j - d] = u[j]
        BY <1>3, <4>1
      <4> QED
        BY <1>9, <3>1, <4>1, <4>2
    <3> QED
      BY <3>2, <3>3
  <2> QED
    BY <2>4, <2>5
<1>10. Keeps(t, all \union {x})
  BY <1>6, <1>8, <1>9 DEF Keeps
<1> QED
  BY <1>10 DEF t, u

LEMMA EvidenceInit == Init => \A k \in Keys : Evidence(k)
<1> SUFFICES ASSUME Init, NEW k \in Keys PROVE Evidence(k)
  OBVIOUS
<1>1. NoticesOf(k) = {}
  BY DEF Init, NoticesOf
<1>2. group[k].count = 0 /\ group[k].notices = <<>> /\ Len(<<>>) = 0
  BY DEF Init, NoGroup
<1>3. Cardinality({}) = 0 /\ 0 < Keep
  BY FS_EmptySet, InboxAssumption
<1>4. 1..0 = {}
  OBVIOUS
<1> QED
  BY <1>1, <1>2, <1>3, <1>4 DEF Evidence, Keeps

LEMMA NoticesFinite ==
  ASSUME TypeInv, NEW k \in Keys
  PROVE  /\ NoticesOf(k) \subseteq 1..Len(log) /\ Len(log) \in Nat
         /\ NoticesOf(k) \subseteq Nat
         /\ IsFiniteSet(NoticesOf(k))
<1>1. Len(log) \in Nat /\ DOMAIN log = 1..Len(log)
  BY LenProperties DEF TypeInv, HistType
<1>2. NoticesOf(k) \subseteq 1..Len(log)
  BY <1>1 DEF NoticesOf
<1>3. IsFiniteSet(1..Len(log))
  BY <1>1, FS_Interval
<1>4. IsFiniteSet(NoticesOf(k))
  BY <1>2, <1>3, FS_Subset
<1> QED
  BY <1>1, <1>2, <1>4

\* Which notices a group has after another entry.
LEMMA NoticesNext ==
  ASSUME TypeInv, NEW e \in LogEntry, log' = Append(log, e), NEW k \in Keys
  PROVE  NoticesOf(k)' = IF e.op = "notice" /\ e.key = k
                           THEN NoticesOf(k) \union {Len(log) + 1} ELSE NoticesOf(k)
<1> DEFINE n == Len(log)
<1>1. /\ n \in Nat /\ DOMAIN log = 1..n /\ DOMAIN log' = 1..(n + 1)
      /\ \A i \in 1..n : log'[i] = log[i]
      /\ log'[n + 1] = e
  BY LogGrows
<1> HIDE DEF n
<1>2. \A i : i \in 1..(n + 1) <=> i \in 1..n \/ i = n + 1
  BY <1>1
<1>3. NoticesOf(k)' = {i \in 1..(n + 1) : log'[i].op = "notice" /\ log'[i].key = k}
  BY <1>1 DEF NoticesOf
<1>4. NoticesOf(k) = {i \in 1..n : log[i].op = "notice" /\ log[i].key = k}
  BY <1>1 DEF NoticesOf
<1>5. \A i : i \in NoticesOf(k)' <=>
               i \in NoticesOf(k) \/ (i = n + 1 /\ e.op = "notice" /\ e.key = k)
  BY <1>1, <1>2, <1>3, <1>4
<1> QED
  BY <1>5 DEF n

\* Groups that are not the one the entry is about.
LEMMA EvidenceStays ==
  ASSUME TypeInv, NEW k \in Keys, Evidence(k), NEW e \in LogEntry, log' = Append(log, e),
         ~(e.op = "notice" /\ e.key = k),
         group'[k].count = group[k].count, group'[k].notices = group[k].notices,
         group'[k].revision = group[k].revision
  PROVE  Evidence(k)'
<1>1. NoticesOf(k)' = NoticesOf(k)
  BY NoticesNext
<1>2. \A n \in NoticesOf(k) : log'[n] = log[n]
  BY LogGrows, NoticesFinite
<1>3. Keeps(group[k].notices, NoticesOf(k))'
  BY <1>1 DEF Evidence, Keeps
<1> QED
  BY <1>1, <1>2, <1>3 DEF Evidence

LEMMA EvidenceNotice ==
  ASSUME TypeInv, NEW k \in Keys, Evidence(k), NEW e \in LogEntry, NoticeStep(k, e)
  PROVE  Evidence(k)'
<1> DEFINE x == Len(log) + 1
           all == NoticesOf(k)
           s == group[k].notices
           c == group[k].count
<1>0. /\ log' = Append(log, e) /\ e.op = "notice" /\ e.key = k
      /\ group'[k].count = c + 1 /\ group'[k].revision = e.revision
      /\ group'[k].notices = Newest(Append(s, x))
  BY DEF NoticeStep
<1>1. /\ Len(log) \in Nat /\ all \subseteq 1..Len(log) /\ IsFiniteSet(all)
      /\ log'[x] = e
  BY <1>0, NoticesFinite, LogGrows
<1>2. NoticesOf(k)' = all \union {x}
  BY <1>0, NoticesNext
<1>3. s \in Seq(Nat) /\ c \in Nat /\ Keep \in Nat \ {0}
  BY InboxAssumption DEF TypeInv, GroupType, Group
<1>4. Len(s) = (IF c < Keep THEN c ELSE Keep) /\ c = Cardinality(all) /\ Keeps(s, all)
  BY DEF Evidence
<1>5. Len(s) <= Keep /\ x \in Nat /\ all \subseteq Nat /\ x \notin all
      /\ \A n \in all : n < x
  BY <1>1, <1>3, <1>4
<1> HIDE DEF x, all, s, c
<1>6. Keeps(Newest(Append(s, x)), all \union {x})
  BY <1>3, <1>4, <1>5, KeepsNewer
<1>7. Cardinality(all \union {x}) = c + 1
  BY <1>1, <1>4, <1>5, FS_AddElement
<1>8. Len(Newest(Append(s, x))) = IF c + 1 < Keep THEN c + 1 ELSE Keep
  <2>1. Len(Newest(Append(s, x))) = IF Len(s) < Keep THEN Len(s) + 1 ELSE Keep
    BY <1>3, <1>5, NewestKept
  <2> QED
    BY <1>3, <1>4, <2>1
<1>9. ASSUME NEW n \in all \union {x}, \A m \in all \union {x} : m <= n
      PROVE  e.revision = log'[n].revision
  <2>1. n = x
    BY <1>5, <1>9
  <2> QED
    BY <1>1, <2>1
<1>10. Keeps(group[k].notices, NoticesOf(k))'
  BY <1>0, <1>2, <1>6 DEF Keeps
<1> QED
  BY <1>0, <1>2, <1>7, <1>8, <1>9, <1>10 DEF Evidence

LEMMA EvidenceStep ==
  TypeInv /\ (\A k \in Keys : Evidence(k)) /\ [Next]_vars => (\A k \in Keys : Evidence(k))'
<1> SUFFICES ASSUME TypeInv, \A k \in Keys : Evidence(k), [Next]_vars, NEW j \in Keys
             PROVE  Evidence(j)'
  OBVIOUS
<1>1. ASSUME NEW k \in Keys, NEW e \in LogEntry, NoticeStep(k, e) PROVE Evidence(j)'
  <2>1. CASE j = k
    BY <1>1, <2>1, EvidenceNotice
  <2>2. CASE j # k
    <3>1. group'[j] = group[j] /\ log' = Append(log, e) /\ e.key # j
      BY <1>1, <2>2 DEF NoticeStep
    <3> QED
      BY <3>1, EvidenceStays
  <2> QED
    BY <2>1, <2>2
<1>2. ASSUME NEW k \in Keys, NEW e \in LogEntry, CallStep(k, e) PROVE Evidence(j)'
  <2>1. /\ log' = Append(log, e) /\ e.op # "notice"
        /\ group'[j].count = group[j].count /\ group'[j].notices = group[j].notices
        /\ group'[j].revision = group[j].revision
    BY <1>2 DEF CallStep
  <2> QED
    BY <2>1, EvidenceStays
<1>3. CASE UNCHANGED <<group, events, log>>
  <2>1. group' = group /\ log' = log
    BY <1>3
  <2>2. NoticesOf(j)' = NoticesOf(j)
    BY <2>1 DEF NoticesOf
  <2>3. Evidence(j)
    OBVIOUS
  <2> QED
    BY <2>1, <2>2, <2>3 DEF Evidence, Keeps
<1> QED
  BY <1>1, <1>2, <1>3, Moves

\* The evidence an agent reads is the history of the group, however notices
\* of several handlers interleave: each is counted once, the newest Keep of
\* them are retained in order, and the last revision is the newest one's.
THEOREM EvidenceFollowsHistory == Spec => []EvidenceIsHistory
<1>1. TypeInv /\ (\A k \in Keys : Evidence(k)) => EvidenceIsHistory
  BY EvidenceParts
<1> QED
  BY <1>1, TypeInit, TypeStep, EvidenceInit, EvidenceStep, PTL DEF Spec
============================================================================
