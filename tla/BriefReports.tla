---------------------------- MODULE BriefReports ----------------------------
(***************************************************************************)
(* KPI briefs by email (internal/inbox/reporting.go): the worker that      *)
(* enqueues and sends what is due, and the daily-brief send command of     *)
(* cmd/raises/main.go, which works on the same table by itself.            *)
(*                                                                         *)
(* Every date has one brief, the weekly one on a Friday and the daily one  *)
(* otherwise, so a row of report_deliveries (UNIQUE kind, report_date) is  *)
(* identified by its date.  One action per SQL statement or SES call.      *)
(***************************************************************************)
EXTENDS Naturals, FiniteSets

CONSTANTS
  StartDay,        \* the server is set up on this day
  LastDay,         \* bound: the last day of the calendar
  Friday,          \* the day of the week of Fridays
  Workers,         \* RunBriefWorker loops (two while a deploy hands over)
  Commands,        \* runs of daily-brief send
  MaxAttempts,     \* maxBriefJobAttempts (20)
  MaxCrashes,      \* bound: crashes and failed statements
  LeaseOverrun     \* may a worker outlive its two-minute lease?

\* The first pass may look back to the Friday of the week before.
ASSUME BriefReportsAssumption ==
  /\ StartDay \in Nat /\ LastDay \in Nat /\ 6 <= StartDay /\ StartDay <= LastDay
  /\ Friday \in 0..6
  /\ Workers \intersect Commands = {}
  /\ MaxAttempts \in Nat \ {0} /\ MaxCrashes \in Nat
  /\ LeaseOverrun \in BOOLEAN

Dates     == 0..LastDay
Processes == Workers \union Commands
IsFriday(d) == d % 7 = Friday

VARIABLES
  day,      \* today, in the report's time zone
  late,     \* is it past SendHour:SendMinute?
  report,   \* Dates -> row of report_deliveries
  pc,       \* Processes -> next statement
  todo,     \* Workers -> due dates still to be inserted
  cur,      \* Processes -> the date of the brief in hand
  tries,    \* Workers -> the attempts the SELECT read
  sent,     \* history: emails of workers that SES accepted for the date
  lost,     \* history: how often that was not learnt
  canary,   \* history: emails of commands that SES accepted for the date
  crashes

vars == <<day, late, report, pc, todo, cur, tries, sent, lost, canary, crashes>>
clock == <<day, late>>
hist  == <<sent, lost, canary>>

Row   == [state : {"absent", "pending", "working", "done", "dead"},
          attempts : 0..MaxAttempts, due : BOOLEAN, leased : BOOLEAN]
NoRow == [state |-> "absent", attempts |-> 0, due |-> FALSE, leased |-> FALSE]

\* In "send", "complete" and "fail" a worker holds the lease of cur.
Holding == {"send", "complete", "fail"}
PCs == {"idle", "insert", "recover", "select", "claim",
        "check", "mail", "record", "finished"} \union Holding

TypeOK ==
  /\ day \in Dates /\ late \in BOOLEAN
  /\ report \in [Dates -> Row]
  /\ pc \in [Processes -> PCs]
  /\ todo \in [Workers -> SUBSET Dates]
  /\ cur \in [Processes -> Dates]
  /\ tries \in [Workers -> 0..MaxAttempts]
  /\ {sent, lost, canary} \subseteq [Dates -> Nat]
  /\ crashes \in 0..MaxCrashes

Init ==
  /\ day = StartDay /\ late \in BOOLEAN
  /\ report = [d \in Dates |-> NoRow]
  /\ pc = [p \in Processes |-> "idle"]
  /\ todo = [w \in Workers |-> {}]
  /\ cur = [p \in Processes |-> 0]
  /\ tries = [w \in Workers |-> 0]
  /\ sent = [d \in Dates |-> 0]
  /\ lost = [d \in Dates |-> 0]
  /\ canary = [d \in Dates |-> 0]
  /\ crashes = 0

Goto(p, label) == pc' = [pc EXCEPT ![p] = label]

Leave(w, label) ==
  /\ Goto(w, label)
  /\ todo' = [todo EXCEPT ![w] = {}]
  /\ cur' = [cur EXCEPT ![w] = 0]
  /\ tries' = [tries EXCEPT ![w] = 0]

-----------------------------------------------------------------------------
(***************************************************************************)
(* EnqueueDueBriefs.                                                       *)
(***************************************************************************)

\* Mutants of DueDates: Friday's brief is only enqueued on Friday; briefs are
\* due from midnight on.
DueToday    == IF late THEN {day} ELSE {}
DueMidnight == {d \in Dates : d = day \/ (IsFriday(d) /\ d < day /\ day - d < 7)}

\* Today's daily brief, and the weekly one of the latest Friday.
DueDates ==
  {d \in Dates :
     \/ d = day /\ late /\ ~IsFriday(d)
     \/ IsFriday(d) /\ d <= day /\ day - d < 7 /\ (d < day \/ late)}

\* The ticker fires.
Wake(w) ==
  /\ w \in Workers
  /\ pc[w] = "idle"
  /\ todo' = [todo EXCEPT ![w] = DueDates]
  /\ Goto(w, "insert")
  /\ UNCHANGED <<clock, report, cur, tries, hist, crashes>>

\* INSERT OR IGNORE, the oldest date first.
InsertDue(w) ==
  /\ pc[w] = "insert"
  /\ \E d \in todo[w] :
       /\ \A e \in todo[w] : d <= e
       /\ todo' = [todo EXCEPT ![w] = @ \ {d}]
       /\ report' = IF report[d].state = "absent"
                      THEN [report EXCEPT ![d] =
                              [NoRow EXCEPT !.state = "pending", !.due = TRUE]]
                      ELSE report
  /\ UNCHANGED <<clock, pc, cur, tries, hist, crashes>>

AllInserted(w) ==
  /\ pc[w] = "insert" /\ todo[w] = {}
  /\ Goto(w, "recover")
  /\ UNCHANGED <<clock, report, todo, cur, tries, hist, crashes>>

-----------------------------------------------------------------------------
(***************************************************************************)
(* ProcessBriefDeliveryOnce, up to five times.                             *)
(***************************************************************************)

Recover(w) ==
  /\ pc[w] = "recover"
  /\ report' = [d \in Dates |->
       IF report[d].state = "working" /\ ~report[d].leased
         THEN [report[d] EXCEPT !.state = "pending", !.due = TRUE]
         ELSE report[d]]
  /\ Goto(w, "select")
  /\ UNCHANGED <<clock, todo, cur, tries, hist, crashes>>

Due == {d \in Dates : report[d].state = "pending" /\ report[d].due}

Select(w) ==
  /\ pc[w] = "select"
  /\ \E d \in Due :
       /\ \A e \in Due : d <= e
       /\ cur' = [cur EXCEPT ![w] = d]
       /\ tries' = [tries EXCEPT ![w] = report[d].attempts]
  /\ Goto(w, "claim")
  /\ UNCHANGED <<clock, report, todo, hist, crashes>>

\* The iterations left would find what the next pass finds.
NothingDue(w) ==
  /\ pc[w] = "select"
  /\ Due = {}
  /\ Leave(w, "idle")
  /\ UNCHANGED <<clock, report, hist, crashes>>

\* Mutant of Claim: AND state = 'pending' is missing.
ClaimBlindly(w) ==
  /\ pc[w] = "claim"
  /\ report' = [report EXCEPT ![cur[w]] =
                  [@ EXCEPT !.state = "working", !.leased = TRUE]]
  /\ Goto(w, "send")
  /\ UNCHANGED <<clock, todo, cur, tries, hist, crashes>>

Claim(w) ==
  /\ pc[w] = "claim"
  /\ report[cur[w]].state = "pending"
  /\ report' = [report EXCEPT ![cur[w]] =
                  [@ EXCEPT !.state = "working", !.leased = TRUE]]
  /\ Goto(w, "send")
  /\ UNCHANGED <<clock, todo, cur, tries, hist, crashes>>

LoseClaim(w) ==
  /\ pc[w] = "claim"
  /\ report[cur[w]].state # "pending"
  /\ Leave(w, "recover") \/ Leave(w, "idle")
  /\ UNCHANGED <<clock, report, hist, crashes>>

\* The brief is built and SES accepts it; the answer may be lost.
Accepted(w) ==
  /\ pc[w] = "send"
  /\ sent' = [sent EXCEPT ![cur[w]] = @ + 1]
  /\ \/ Goto(w, "complete") /\ UNCHANGED lost
     \/ Goto(w, "fail") /\ lost' = [lost EXCEPT ![cur[w]] = @ + 1]
  /\ UNCHANGED <<clock, report, todo, cur, tries, canary, crashes>>

\* The metrics cannot be read, or SES refuses.
Refused(w) ==
  /\ pc[w] = "send"
  /\ Goto(w, "fail")
  /\ UNCHANGED <<clock, report, todo, cur, tries, hist, crashes>>

\* Mutant of Complete: the UPDATE forgets the state.
CompleteForgets(w) ==
  /\ pc[w] = "complete"
  /\ report' = [report EXCEPT ![cur[w]].leased = FALSE]
  /\ Leave(w, "idle")
  /\ UNCHANGED <<clock, hist, crashes>>

\* The worker goes on after a brief that was sent, until its fifth.
Complete(w) ==
  /\ pc[w] = "complete"
  /\ report' = [report EXCEPT ![cur[w]] =
                  [@ EXCEPT !.state = "done", !.leased = FALSE]]
  /\ Leave(w, "recover") \/ Leave(w, "idle")
  /\ UNCHANGED <<clock, hist, crashes>>

\* The UPDATE names the id only; its error ends the pass.
Fail(w) ==
  /\ pc[w] = "fail"
  /\ report' = [report EXCEPT ![cur[w]] =
       [@ EXCEPT !.state = IF tries[w] + 1 >= MaxAttempts THEN "dead" ELSE "pending",
                 !.attempts = tries[w] + 1, !.due = FALSE, !.leased = FALSE]]
  /\ Leave(w, "idle")
  /\ UNCHANGED <<clock, hist, crashes>>

-----------------------------------------------------------------------------
(***************************************************************************)
(* daily-brief send: BriefWasDelivered, SES, RecordBriefDelivered.         *)
(***************************************************************************)
StartCommand(c) ==
  /\ c \in Commands
  /\ pc[c] = "idle"
  /\ cur' = [cur EXCEPT ![c] = day]
  /\ Goto(c, "check")
  /\ UNCHANGED <<clock, report, todo, tries, hist, crashes>>

CheckDelivered(c) ==
  /\ pc[c] = "check"
  /\ Goto(c, IF report[cur[c]].state = "done" THEN "finished" ELSE "mail")
  /\ UNCHANGED <<clock, report, todo, cur, tries, hist, crashes>>

Mail(c) ==
  /\ pc[c] = "mail"
  /\ \/ /\ canary' = [canary EXCEPT ![cur[c]] = @ + 1]
        /\ Goto(c, "record") \/ Goto(c, "finished")
     \/ Goto(c, "finished") /\ UNCHANGED canary
  /\ UNCHANGED <<clock, report, todo, cur, tries, sent, lost, crashes>>

RecordDelivered(c) ==
  /\ pc[c] = "record"
  /\ report' = [report EXCEPT ![cur[c]] =
                  [@ EXCEPT !.state = "done", !.leased = FALSE]]
  /\ Goto(c, "finished")
  /\ UNCHANGED <<clock, todo, cur, tries, hist, crashes>>

-----------------------------------------------------------------------------
SendTime ==
  /\ ~late /\ late' = TRUE
  /\ UNCHANGED <<day, report, pc, todo, cur, tries, hist, crashes>>

Midnight ==
  /\ late /\ day < LastDay
  /\ day' = day + 1 /\ late' = FALSE
  /\ UNCHANGED <<report, pc, todo, cur, tries, hist, crashes>>

ComesDue(d) ==
  /\ report[d].state = "pending" /\ ~report[d].due
  /\ report' = [report EXCEPT ![d].due = TRUE]
  /\ UNCHANGED <<clock, pc, todo, cur, tries, hist, crashes>>

LeaseExpires(d) ==
  /\ report[d].state = "working" /\ report[d].leased
  /\ LeaseOverrun \/ \A w \in Workers : ~(pc[w] \in Holding /\ cur[w] = d)
  /\ report' = [report EXCEPT ![d].leased = FALSE]
  /\ UNCHANGED <<clock, pc, todo, cur, tries, hist, crashes>>

\* The server dies or a statement fails: the pass ends here.
Crash(w) ==
  /\ w \in Workers
  /\ pc[w] # "idle"
  /\ crashes < MaxCrashes /\ crashes' = crashes + 1
  /\ lost' = IF pc[w] = "complete" THEN [lost EXCEPT ![cur[w]] = @ + 1] ELSE lost
  /\ Leave(w, "idle")
  /\ UNCHANGED <<clock, report, sent, canary>>

Step(w) ==
  \/ Wake(w) \/ InsertDue(w) \/ AllInserted(w) \/ Recover(w) \/ Select(w)
  \/ NothingDue(w) \/ Claim(w) \/ LoseClaim(w) \/ Accepted(w) \/ Refused(w)
  \/ Complete(w) \/ Fail(w)

Command(c) ==
  StartCommand(c) \/ CheckDelivered(c) \/ Mail(c) \/ RecordDelivered(c)

Clock(d) == ComesDue(d) \/ LeaseExpires(d)

Next ==
  \/ \E w \in Workers : Step(w) \/ Crash(w)
  \/ \E c \in Commands : Command(c)
  \/ \E d \in Dates : Clock(d)
  \/ SendTime \/ Midnight

Spec == Init /\ [][Next]_vars
FairSpec == /\ Spec
            /\ \A w \in Workers : WF_vars(Step(w))
            /\ \A d \in Dates : WF_vars(Clock(d))

-----------------------------------------------------------------------------
(***************************************************************************)
(* Properties.                                                             *)
(***************************************************************************)

\* Workers send a brief once, and again only when they did not learn that it
\* had been sent, however many passes, crashes and commands there are.
\* The command itself takes no lease: it may send what a worker is sending,
\* and that worker's failure reopens the brief the command has recorded.
RepeatsOnlyAfterLoss == \A d \in Dates : sent[d] <= 1 + lost[d]

\* A brief that is recorded as sent, by a worker or by the command, and that
\* nobody is still handling is never claimed, reopened or sent again: not by
\* a worker that read it while it was due, nor by a command.
Handled(d) == \E p \in Processes :
                 cur[p] = d /\ pc[p] \in Holding \union {"mail", "record"}
Settled(d) == report[d].state = "done" /\ ~Handled(d)
SettledStaysSettled ==
  [][\A d \in Dates : Settled(d) =>
       /\ Settled(d)'
       /\ sent'[d] = sent[d] /\ canary'[d] = canary[d]]_vars

\* No worker sends a brief before its time, even when it began a pass before
\* midnight: the period of the brief is over and its send time has come.
NotTooEarly ==
  \A d \in Dates : sent[d] > 0 => d < day \/ (d = day /\ late)

\* Friday's brief is settled in the end, however long the server was down
\* within the week in which that Friday is the latest: EnqueueDueBriefs looks
\* back no further.  (The calendar ends with LastDay, in that week.)
WeeklyIsCaughtUp ==
  \A f \in Dates :
    (IsFriday(f) /\ StartDay <= f /\ LastDay < f + 7 /\ day = f /\ late)
      ~> report[f].state \in {"done", "dead"}
=============================================================================
