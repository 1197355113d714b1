------------------------------ MODULE Service ------------------------------
(***************************************************************************)
(* The server process (run of cmd/raises/main.go, recoverPanics and        *)
(* ListenAndServe of internal/httpserver/server.go) and its operational    *)
(* alerts (internal/operational/alerter.go).                               *)
(*                                                                         *)
(* HTTP handlers, background workers and main report to one Alerter.       *)
(* Report reads the time of the last alert of its key under the mutex,     *)
(* sends the email without it, and takes it again to store the time at     *)
(* which it began; nothing keeps two reports of a key from overlapping.    *)
(* Times are kept as ages in ticks, so the process may run for ever.       *)
(***************************************************************************)
EXTENDS Naturals

CONSTANTS
  Callers,        \* requests for one route that may run at a time
  Loops,          \* background workers started by runProtected
  Main,           \* the main goroutine
  Settings,       \* the values OPERATIONAL_ALERTS_ENABLED may have
  Cooldown,       \* ticks between two alerts of a key (30 minutes)
  SendTimeout,    \* ticks a report may take (5 seconds)
  Grace           \* ticks Shutdown waits for handlers (10 seconds)

ASSUME ServiceAssumption ==
  /\ Callers \intersect Loops = {} /\ Main \notin Callers \union Loops
  /\ Settings \subseteq BOOLEAN
  /\ Cooldown \in Nat /\ SendTimeout \in 0..(Cooldown - 1) /\ Grace \in Nat

VARIABLES
  alerts,     \* main made an Alerter
  stage,      \* what each goroutine does
  report,     \* the report it has in flight: [key, age], or Silent
  lastSent,   \* alert keys -> age of lastSent[key], Cooldown: none or older
  newest,     \* history: age of the youngest alert of the key that was sent
  waited,     \* ticks since Shutdown was called
  signalled   \* SIGTERM came: runCtx is cancelled

serviceVars == <<alerts, stage, report, lastSent, newest, waited, signalled>>

Goroutines == Callers \union Loops \union {Main}

\* From these a goroutine goes on to report.
Alarms == {"panic", "failure", "stop"}
Stages == [Goroutines -> Alarms \union {"idle", "handling", "dropped", "working",
                                        "ended", "serving", "draining", "closed",
                                        "gone"}]

\* "http-panic:" and the route, "panic:" and the worker, the worker,
\* "http-server".
AlertKeys == {<<"route", "panic">>, <<"http-server", "stop">>}
               \union (Loops \X {"panic", "failure"})
KeyOf(g) == CASE g \in Callers -> <<"route", "panic">>
              [] g \in Loops   -> <<g, stage[g]>>
              [] g = Main      -> <<"http-server", "stop">>
Silent   == [sending |-> FALSE, age |-> 0]
Alive    == stage[Main] # "gone"
Running  == {c \in Callers : stage[c] \notin {"idle", "dropped"}}

Smaller(a, b) == IF a < b THEN a ELSE b

ServiceTypeOK ==
  /\ alerts \in Settings
  /\ stage \in Stages
  /\ report \in [Goroutines -> [sending : BOOLEAN, age : 0..SendTimeout]]
  /\ lastSent \in [AlertKeys -> 0..Cooldown]
  /\ newest \in [AlertKeys -> 0..Cooldown]
  /\ waited \in 0..Grace
  /\ signalled \in BOOLEAN

Starting == [g \in Goroutines |-> CASE g \in Callers -> "idle"
                                    [] g \in Loops   -> "working"
                                    [] g = Main      -> "serving"]
Quiet    == [g \in Goroutines |-> Silent]
Never    == [k \in AlertKeys |-> Cooldown]

ServiceInit ==
  /\ alerts \in Settings
  /\ stage = Starting /\ report = Quiet
  /\ lastSent = Never /\ newest = Never
  /\ waited = 0 /\ signalled = FALSE

Enter(g, s) == stage' = [stage EXCEPT ![g] = s]

-----------------------------------------------------------------------------
(***************************************************************************)
(* Requests and background workers.                                        *)
(***************************************************************************)
Serves(c, from, to) ==
  /\ Alive /\ stage[c] \in from
  /\ Enter(c, to)
  /\ UNCHANGED <<alerts, report, lastSent, newest, waited, signalled>>

Arrives(c) == stage[Main] = "serving" /\ Serves(c, {"idle", "dropped"}, "handling")

\* A handler answers or panics, however late.
Answers(c) == Serves(c, {"handling"}, "idle")
Panics(c)  == Serves(c, {"handling"}, "panic")

\* A pass of the worker fails and its onError reports, or the worker panics,
\* or it finds its context cancelled.
LoopFails(w)  == Serves(w, {"working"}, "failure")
LoopPanics(w) == Serves(w, {"working"}, "panic")
LoopEnds(w)   == signalled /\ Serves(w, {"working"}, "ended")

-----------------------------------------------------------------------------
(***************************************************************************)
(* Alerter.Report and what follows it.                                     *)
(***************************************************************************)

\* A panicking request is answered with a 500; a worker goes on, or panics
\* again, which ends the process; main returns and closes the store.
AfterReport(g) ==
  IF g \in Loops /\ stage[g] = "panic"
    THEN Enter(Main, "gone")
    ELSE Enter(g, CASE g \in Callers -> "idle" [] g \in Loops -> "working"
                    [] g = Main -> "closed")

Reports(g) == Alive /\ stage[g] \in Alarms /\ ~report[g].sending

\* The key was reported less than the cooldown ago.
Suppressed(g) ==
  /\ Reports(g) /\ alerts
  /\ lastSent[KeyOf(g)] < Cooldown
  /\ AfterReport(g)
  /\ UNCHANGED <<alerts, report, lastSent, newest, waited, signalled>>

BeginReport(g) ==
  /\ Reports(g) /\ alerts
  /\ lastSent[KeyOf(g)] >= Cooldown
  /\ report' = [report EXCEPT ![g].sending = TRUE]
  /\ UNCHANGED <<alerts, stage, lastSent, newest, waited, signalled>>

\* main's reportOperational checks for a nil Alerter.  recoverPanics has it
\* in an interface, where it is no longer nil: Report panics inside the
\* deferred function and net/http drops the connection.
NoReporter(g) ==
  /\ Reports(g) /\ ~alerts
  /\ IF g \in Callers THEN Enter(g, "dropped") ELSE AfterReport(g)
  /\ UNCHANGED <<alerts, report, lastSent, newest, waited, signalled>>

\* Mutant of ReportSent: the time of the alert is not stored.
SentUnrecorded(g) ==
  /\ Alive /\ report[g].sending
  /\ newest' = [newest EXCEPT ![KeyOf(g)] = Smaller(@, report[g].age)]
  /\ report' = [report EXCEPT ![g] = Silent]
  /\ AfterReport(g)
  /\ UNCHANGED <<alerts, lastSent, waited, signalled>>

\* The email is accepted; lastSent becomes the time the report began, even
\* when a younger report has stored its own already.
ReportSent(g) ==
  /\ Alive /\ report[g].sending
  /\ lastSent' = [lastSent EXCEPT ![KeyOf(g)] = report[g].age]
  /\ newest' = [newest EXCEPT ![KeyOf(g)] = Smaller(@, report[g].age)]
  /\ report' = [report EXCEPT ![g] = Silent]
  /\ AfterReport(g)
  /\ UNCHANGED <<alerts, waited, signalled>>

\* Mutant of ReportFails: the alert counts as sent.
FailsAsSent(g) ==
  /\ Alive /\ report[g].sending
  /\ lastSent' = [lastSent EXCEPT ![KeyOf(g)] = report[g].age]
  /\ report' = [report EXCEPT ![g] = Silent]
  /\ AfterReport(g)
  /\ UNCHANGED <<alerts, newest, waited, signalled>>

\* It is refused, or the five seconds are over.  The error is logged.
ReportFails(g) ==
  /\ Alive /\ report[g].sending
  /\ report' = [report EXCEPT ![g] = Silent]
  /\ AfterReport(g)
  /\ UNCHANGED <<alerts, lastSent, newest, waited, signalled>>

-----------------------------------------------------------------------------
(***************************************************************************)
(* ListenAndServe and the end of run.                                      *)
(***************************************************************************)
MainStep(from, to) ==
  /\ stage[Main] = from
  /\ Enter(Main, to)
  /\ UNCHANGED <<alerts, report, lastSent, newest, waited>>

Signal      == MainStep("serving", "draining") /\ signalled' = TRUE
ServerFails == MainStep("serving", "stop") /\ UNCHANGED signalled

\* Shutdown returns when no handler runs, or with an error after the grace
\* period, which is reported.
Drained   == Running = {} /\ MainStep("draining", "closed") /\ UNCHANGED signalled

\* Mutant of GraceOver: Shutdown has no deadline.
GraceEndless == FALSE /\ UNCHANGED serviceVars

GraceOver == waited = Grace /\ MainStep("draining", "stop") /\ UNCHANGED signalled

\* The store is closed and nobody waits for the workers.
Exit == MainStep("closed", "gone") /\ UNCHANGED signalled

\* restart: unless-stopped.  The alerter's memory starts empty.
Restart ==
  /\ ~Alive
  /\ stage' = Starting /\ report' = Quiet
  /\ lastSent' = Never /\ newest' = Never
  /\ waited' = 0 /\ signalled' = FALSE
  /\ UNCHANGED alerts

\* A report has its deadline and so has Shutdown.
ServiceTick ==
  /\ Alive
  /\ \A g \in Goroutines : report[g].age < SendTimeout
  /\ stage[Main] = "draining" => waited < Grace
  /\ report' = [g \in Goroutines |-> IF report[g].sending
                  THEN [report[g] EXCEPT !.age = @ + 1] ELSE report[g]]
  /\ lastSent' = [k \in AlertKeys |-> Smaller(lastSent[k] + 1, Cooldown)]
  /\ newest' = [k \in AlertKeys |-> Smaller(newest[k] + 1, Cooldown)]
  /\ waited' = IF stage[Main] = "draining" THEN waited + 1 ELSE waited
  /\ UNCHANGED <<alerts, stage, signalled>>

ReportStep(g) == \/ Suppressed(g) \/ BeginReport(g) \/ NoReporter(g)
                 \/ ReportSent(g) \/ ReportFails(g)
Shutdown == Drained \/ GraceOver \/ Exit

ServiceNext ==
  \/ \E c \in Callers : Arrives(c) \/ Answers(c) \/ Panics(c)
  \/ \E w \in Loops : LoopFails(w) \/ LoopPanics(w) \/ LoopEnds(w)
  \/ \E g \in Goroutines : ReportStep(g)
  \/ Signal \/ ServerFails \/ Shutdown \/ Restart \/ ServiceTick

\* Nothing makes a handler return or a worker end.
ServiceFairness ==
  /\ \A g \in Goroutines : WF_serviceVars(ReportStep(g))
  /\ WF_serviceVars(Shutdown) /\ WF_serviceVars(ServiceTick)

ServiceSpec == ServiceInit /\ [][ServiceNext]_serviceVars /\ ServiceFairness

-----------------------------------------------------------------------------
(***************************************************************************)
(* Properties.                                                             *)
(***************************************************************************)

\* Nothing is kept quiet that was not told: while reports of a key are
\* suppressed, an alert of it that began within the cooldown was accepted.
SuppressedIsCovered ==
  \A k \in AlertKeys : lastSent[k] < Cooldown => newest[k] < Cooldown

\* A report that begins after an alert of its key was sent is suppressed for
\* the cooldown, less the time one report takes: an older report that ends
\* last sets lastSent back by no more than that.
AlertsSpaced ==
  \A k \in AlertKeys : lastSent[k] >= Cooldown => newest[k] >= Cooldown - SendTimeout

\* A request whose handler panics is answered with a 500, as
\* TestPanicRecoveryReportsAndReturns500 has it.  FALSE of the code: see
\* NoReporter.
PanicAnswered == \A c \in Callers : stage[c] # "dropped"

\* SIGTERM ends the process, whatever handlers, workers and alerts do.
SignalStops == signalled ~> ~Alive
=============================================================================
