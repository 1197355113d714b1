------------------------------ MODULE IssueJobs ------------------------------
(***************************************************************************)
(* The GitHub issue queue (internal/inbox/issues.go): table issue_jobs,    *)
(* the ingest requests that enqueue and process jobs inline, and the       *)
(* background workers that process them.                                   *)
(*                                                                         *)
(* The store has one SQLite connection, so every SQL statement is atomic   *)
(* and a handler is a sequence of statements and GitHub calls between      *)
(* which every other handler may run: one action per statement or call.    *)
(* One project is modelled; the groups are its error groups.  Its binding  *)
(* to a repository may change at any time, also while a handler works.     *)
(***************************************************************************)
EXTENDS Naturals, FiniteSets

CONSTANTS
  Groups,          \* error groups of the project
  Repos,           \* repositories the project may be bound to
  Unbound,         \* it is bound to none, has no installation or is archived
  Requests,        \* ingest requests (HTTP handlers) that may run at a time
  Workers,         \* RunIssueWorker loops (two while a deploy hands over)
  MaxJobs,         \* bound: rows issue_jobs can hold
  MaxIssues,       \* bound: issues a repository can hold
  MaxAttempts,     \* maxIssueJobAttempts (20)
  OpenQuota,       \* issues opened per project and hour (30)
  MaxDisruptions,  \* bound: abandoned handlers, manual retries and rebindings
  LeaseOverrun     \* may a handler outlive its two-minute lease?

JobId   == 1..MaxJobs
Number  == 1..MaxIssues
Actions == {"open", "reopen"}
Processors == Requests \union Workers

ASSUME IssueJobsAssumption ==
  /\ MaxJobs \in Nat /\ MaxIssues \in Nat
  /\ MaxAttempts \in Nat \ {0}
  /\ OpenQuota \in Nat \ {0}
  /\ MaxDisruptions \in Nat
  /\ LeaseOverrun \in BOOLEAN
  /\ Requests \intersect Workers = {}
  /\ IsFiniteSet(Requests) /\ IsFiniteSet(Workers)
  /\ Groups # {}
  /\ Unbound \notin Repos

VARIABLES
  known,        \* groups with a row in error_groups
  issue,        \* Groups -> error_groups.github_issue_number, 0 for none
  home,         \* Groups -> repository error_groups.github_issue_url names
  repo,         \* the repository the project is bound to, or Unbound
  job,          \* JobId -> row of issue_jobs
  heir,         \* history: the open job a reopen was handed over to, or 0
  github,       \* Repos -> Number -> job whose marker that issue carries,
                \* 0: no issue
  events,       \* delivery keys with a github_issue.* outbound event
  pc,           \* Processors -> next statement of the handler
  want,         \* Processors -> [group, action] argument of enqueueIssueJob
  cur,          \* Processors -> job in hand, 0 for none
  target,       \* Processors -> repository this attempt works in
  num,          \* Processors -> issue number the handler read or was given
  att,          \* Processors -> attempts the failing handler read
  disruptions   \* abandoned handlers, manual retries and rebindings so far

tables == <<known, issue, home, repo, heir, events>>   \* all but issue_jobs
store  == <<tables, job>>
local  == <<want, cur, target, num, att>>
vars   == <<known, issue, home, repo, job, heir, github, events, pc, want, cur,
            target, num, att, disruptions>>

SomeGroup == CHOOSE g \in Groups : TRUE
NoWant    == [group |-> SomeGroup, action |-> "open"]

States == {"absent", "pending", "working", "done", "dead"}
Row    == [state : States, group : Groups, action : Actions, attempts : Nat,
           due : BOOLEAN, leased : BOOLEAN, recent : BOOLEAN]
NoRow  == [state |-> "absent", group |-> SomeGroup, action |-> "open",
           attempts |-> 0, due |-> FALSE, leased |-> FALSE, recent |-> FALSE]

(***************************************************************************)
(* Program counters.  From "load" on the handler holds the lease of cur.   *)
(***************************************************************************)
Holding == {"load", "quota", "postpone", "find", "open", "record", "reopen",
            "rerouteCheck", "rerouteInsert", "emit", "finish", "failRead",
            "failWrite"}
PCs == {"idle", "enqueueCheck", "enqueueInsert", "recover", "select",
        "claim"} \union Holding

Holds(p, j) == pc[p] \in Holding /\ cur[p] = j

TypeOK ==
  /\ known \in SUBSET Groups
  /\ issue \in [Groups -> Number \union {0}]
  /\ home \in [Groups -> Repos \union {Unbound}]
  /\ repo \in Repos \union {Unbound}
  /\ job \in [JobId -> Row]
  /\ heir \in [JobId -> JobId \union {0}]
  /\ github \in [Repos -> [Number -> JobId \union {0}]]
  /\ events \in SUBSET JobId
  /\ pc \in [Processors -> PCs]
  /\ want \in [Processors -> [group : Groups, action : Actions]]
  /\ cur \in [Processors -> JobId \union {0}]
  /\ target \in [Processors -> Repos \union {Unbound}]
  /\ num \in [Processors -> Number \union {0}]
  /\ att \in [Processors -> Nat]
  /\ disruptions \in Nat

Init ==
  /\ known = {}
  /\ issue = [g \in Groups |-> 0]
  /\ home = [g \in Groups |-> Unbound]
  /\ repo \in Repos \union {Unbound}
  /\ job = [j \in JobId |-> NoRow]
  /\ heir = [j \in JobId |-> 0]
  /\ github = [r \in Repos |-> [n \in Number |-> 0]]
  /\ events = {}
  /\ pc = [p \in Processors |-> "idle"]
  /\ want = [p \in Processors |-> NoWant]
  /\ cur = [p \in Processors |-> 0]
  /\ target = [p \in Processors |-> Unbound]
  /\ num = [p \in Processors |-> 0]
  /\ att = [p \in Processors |-> 0]
  /\ disruptions = 0

Goto(p, label) == pc' = [pc EXCEPT ![p] = label]

\* The handler returns; its locals no longer matter.
Leave(p) ==
  /\ pc' = [pc EXCEPT ![p] = "idle"]
  /\ want' = [want EXCEPT ![p] = NoWant]
  /\ cur' = [cur EXCEPT ![p] = 0]
  /\ target' = [target EXCEPT ![p] = Unbound]
  /\ num' = [num EXCEPT ![p] = 0]
  /\ att' = [att EXCEPT ![p] = 0]

-----------------------------------------------------------------------------
(***************************************************************************)
(* Ingest and enqueueIssueJob.                                             *)
(***************************************************************************)

\* Ingest has committed a notice that created group g or that regressed it
\* (acknowledged before, new revision, not suppressed: see Inbox).  Without
\* a connected repository the group is stored and nothing is enqueued.
Report(p, g) ==
  /\ p \in Requests
  /\ pc[p] = "idle"
  /\ known' = known \union {g}
  /\ \/ /\ repo # Unbound
        /\ want' = [want EXCEPT ![p] =
                      [group |-> g,
                       action |-> IF g \in known THEN "reopen" ELSE "open"]]
        /\ Goto(p, "enqueueCheck")
     \/ /\ repo = Unbound
        /\ UNCHANGED <<want, pc>>
  /\ UNCHANGED <<issue, home, repo, job, heir, github, events, cur, target, num,
                 att, disruptions>>

\* Jobs the duplicate check of enqueueIssueJob counts.
Open(g, a) == {j \in JobId : /\ job[j].state \in {"pending", "working"}
                             /\ job[j].group = g
                             /\ job[j].action = a}

\* Where a handler goes after enqueueIssueJob returned without an error:
\* Ingest goes on to ProcessIssueJobsOnce, a rerouted reopen to its end.
AfterEnqueue(p) == IF pc[p] \in Holding THEN "finish" ELSE "recover"

\* enqueueIssueJob returns; its arguments no longer matter.
Return(p, label) ==
  /\ Goto(p, label)
  /\ want' = [want EXCEPT ![p] = NoWant]

\* History: the rerouted reopen in hand is left to job j.
HandOver(p, j) ==
  heir' = IF pc[p] \in Holding THEN [heir EXCEPT ![cur[p]] = j] ELSE heir

EnqueueCheck(p) ==
  /\ pc[p] \in {"enqueueCheck", "rerouteCheck"}
  /\ \/ /\ \E j \in Open(want[p].group, want[p].action) : HandOver(p, j)
        /\ Return(p, AfterEnqueue(p))
     \/ /\ Open(want[p].group, want[p].action) = {}
        /\ Goto(p, IF pc[p] = "enqueueCheck" THEN "enqueueInsert"
                                             ELSE "rerouteInsert")
        /\ UNCHANGED <<want, heir>>
  /\ UNCHANGED <<known, issue, home, repo, job, github, events, cur, target, num,
                 att, disruptions>>

\* Ids are handed out in order (INTEGER PRIMARY KEY AUTOINCREMENT).
NextFree(j) == job[j].state = "absent"
               /\ \A k \in 1..(j - 1) : job[k].state # "absent"

EnqueueInsert(p) ==
  /\ pc[p] \in {"enqueueInsert", "rerouteInsert"}
  /\ \E j \in JobId :
       /\ NextFree(j)
       /\ job' = [job EXCEPT ![j] =
                    [NoRow EXCEPT !.state = "pending", !.due = TRUE,
                                  !.group = want[p].group,
                                  !.action = want[p].action]]
       /\ HandOver(p, j)
  /\ Return(p, AfterEnqueue(p))
  /\ UNCHANGED <<known, issue, home, repo, github, events, cur, target, num, att,
                 disruptions>>

\* A statement of enqueueIssueJob fails.  Ingest ignores the error, the
\* handler that reroutes a reopen fails its job.
EnqueueFails(p) ==
  /\ \/ pc[p] \in {"enqueueCheck", "enqueueInsert"} /\ Return(p, "recover")
     \/ pc[p] \in {"rerouteCheck", "rerouteInsert"} /\ Return(p, "failRead")
  /\ UNCHANGED <<store, github, cur, target, num, att, disruptions>>

-----------------------------------------------------------------------------
(***************************************************************************)
(* ProcessIssueJobsOnce.                                                   *)
(***************************************************************************)

\* RunIssueWorker: the ticker fired or jobNotify was signalled.
Wake(p) ==
  /\ p \in Workers
  /\ pc[p] = "idle"
  /\ Goto(p, "recover")
  /\ UNCHANGED <<store, github, local, disruptions>>

Expired(row) == row.state = "working" /\ ~row.leased

\* Mutant of Recover: leases are never recovered.
RecoverNothing(p) ==
  /\ pc[p] = "recover"
  /\ Goto(p, "select")
  /\ UNCHANGED <<store, github, local, disruptions>>

Recover(p) ==
  /\ pc[p] = "recover"
  /\ job' = [j \in JobId |->
               IF Expired(job[j])
                 THEN [job[j] EXCEPT !.state = "pending", !.due = TRUE]
                 ELSE job[j]]
  /\ Goto(p, "select")
  /\ UNCHANGED <<tables, github, local, disruptions>>

Due == {j \in JobId : job[j].state = "pending" /\ job[j].due}

Select(p) ==
  /\ pc[p] = "select"
  /\ \E j \in Due :
       /\ \A k \in Due : j <= k
       /\ cur' = [cur EXCEPT ![p] = j]
  /\ Goto(p, "claim")
  /\ UNCHANGED <<store, github, want, target, num, att, disruptions>>

NothingDue(p) ==
  /\ pc[p] = "select"
  /\ Due = {}
  /\ Leave(p)
  /\ UNCHANGED <<store, github, disruptions>>

\* Mutant of Claim: AND state='pending' is missing.
ClaimBlindly(p) ==
  /\ pc[p] = "claim"
  /\ job' = [job EXCEPT ![cur[p]] =
                [@ EXCEPT !.state = "working", !.leased = TRUE]]
  /\ Goto(p, "load")
  /\ UNCHANGED <<tables, github, local, disruptions>>

Claim(p) ==
  /\ pc[p] = "claim"
  /\ job[cur[p]].state = "pending"
  /\ job' = [job EXCEPT ![cur[p]] =
                [@ EXCEPT !.state = "working", !.leased = TRUE]]
  /\ Goto(p, "load")
  /\ UNCHANGED <<tables, github, local, disruptions>>

LoseClaim(p) ==
  /\ pc[p] = "claim"
  /\ job[cur[p]].state # "pending"
  /\ Leave(p)
  /\ UNCHANGED <<store, github, disruptions>>

\* issueJobData reads the group and the project, whose repository this
\* attempt works in whatever it is bound to later; then the connection
\* check and the switch on the action.
Load(p) ==
  LET row == job[cur[p]] IN
  /\ pc[p] = "load"
  /\ num' = [num EXCEPT ![p] = issue[row.group]]
  /\ target' = [target EXCEPT ![p] = repo]
  /\ \/ repo = Unbound /\ Goto(p, "failRead") /\ UNCHANGED want
     \/ repo # Unbound /\ row.action = "open" /\ Goto(p, "quota") /\ UNCHANGED want
     \/ /\ repo # Unbound /\ row.action = "reopen" /\ issue[row.group] # 0
        /\ Goto(p, "reopen") /\ UNCHANGED want
     \/ /\ repo # Unbound /\ row.action = "reopen" /\ issue[row.group] = 0
        /\ Goto(p, "rerouteCheck")
        /\ want' = [want EXCEPT ![p] = [group |-> row.group, action |-> "open"]]
  /\ UNCHANGED <<store, github, cur, att, disruptions>>

RecentOpens == {j \in JobId : /\ job[j].action = "open"
                              /\ job[j].state = "done"
                              /\ job[j].recent}

\* Mutant of CheckQuota: jobs of every state but done are counted.
CountUndone(p) ==
  /\ pc[p] = "quota"
  /\ Goto(p, IF num[p] = 0 THEN "find" ELSE "emit")
  /\ UNCHANGED <<store, github, local, disruptions>>

CheckQuota(p) ==
  /\ pc[p] = "quota"
  /\ Goto(p, IF Cardinality(RecentOpens) >= OpenQuota THEN "postpone"
             ELSE IF num[p] = 0 THEN "find" ELSE "emit")
  /\ UNCHANGED <<store, github, local, disruptions>>

\* Over the quota: the job waits an hour and keeps its attempts.
Postpone(p) ==
  /\ pc[p] = "postpone"
  /\ job' = [job EXCEPT ![cur[p]] =
                [@ EXCEPT !.state = "pending",
                          !.due = FALSE, !.leased = FALSE]]
  /\ Leave(p)
  /\ UNCHANGED <<tables, github, disruptions>>

\* Mutants of FindByMarker: every try opens; any issue of Raises matches.
FindNothing(p) ==
  /\ pc[p] = "find"
  /\ Goto(p, "open")
  /\ UNCHANGED <<store, github, local, disruptions>>

FindAny(p) ==
  /\ pc[p] = "find"
  /\ \/ \E n \in Number : /\ github[target[p]][n] # 0
                          /\ num' = [num EXCEPT ![p] = n]
                          /\ Goto(p, "record")
     \/ /\ \A n \in Number : github[target[p]][n] = 0
        /\ Goto(p, "open") /\ UNCHANGED num
  /\ UNCHANGED <<store, github, want, cur, target, att, disruptions>>

\* FindByMarker: the issue of the repository carrying this job's delivery key,
\* if there is one.
FindByMarker(p) ==
  /\ pc[p] = "find"
  /\ \/ \E n \in Number : /\ github[target[p]][n] = cur[p]
                          /\ num' = [num EXCEPT ![p] = n]
                          /\ Goto(p, "record")
     \/ /\ \A n \in Number : github[target[p]][n] # cur[p]
        /\ Goto(p, "open") /\ UNCHANGED num
     \/ Goto(p, "failRead") /\ UNCHANGED num
  /\ UNCHANGED <<store, github, want, cur, target, att, disruptions>>

\* GitHub numbers the issues of a repository in order.
NextNumber(r, n) == github[r][n] = 0 /\ \A m \in 1..(n - 1) : github[r][m] # 0

\* Mutant of OpenIssue: the number GitHub answers is not recorded.
OpenUnrecorded(p) ==
  /\ pc[p] = "open"
  /\ \E n \in Number :
       /\ NextNumber(target[p], n)
       /\ github' = [github EXCEPT ![target[p]][n] = cur[p]]
       /\ num' = [num EXCEPT ![p] = n] /\ Goto(p, "emit")
  /\ UNCHANGED <<store, want, cur, target, att, disruptions>>

\* filer.Open creates the issue and answers, or the answer is lost.
OpenIssue(p) ==
  /\ pc[p] = "open"
  /\ \E n \in Number :
       /\ NextNumber(target[p], n)
       /\ github' = [github EXCEPT ![target[p]][n] = cur[p]]
       /\ \/ num' = [num EXCEPT ![p] = n] /\ Goto(p, "record")
          \/ UNCHANGED num /\ Goto(p, "failRead")
  /\ UNCHANGED <<store, want, cur, target, att, disruptions>>

\* A read or write of the work fails, or filer.Open is refused or never
\* reaches GitHub: err leads to the failure branch.
WorkFails(p) ==
  /\ pc[p] \in {"load", "open", "record", "emit"}
  /\ Goto(p, "failRead")
  /\ UNCHANGED <<store, github, local, disruptions>>

\* github_issue_number and github_issue_url, in one statement.
RecordIssue(p) ==
  /\ pc[p] = "record"
  /\ issue' = [issue EXCEPT ![job[cur[p]].group] = num[p]]
  /\ home' = [home EXCEPT ![job[cur[p]].group] = target[p]]
  /\ Goto(p, "emit")
  /\ UNCHANGED <<known, repo, job, heir, github, events, local, disruptions>>

\* Mutant of Reopen: the reopened issue is not announced.
ReopenQuietly(p) ==
  /\ pc[p] = "reopen"
  /\ Goto(p, "finish") \/ Goto(p, "failRead")
  /\ UNCHANGED <<store, github, local, disruptions>>

\* filer.Reopen sets the state of issue num[p] of the repository target[p],
\* or GitHub refuses; repeating it is harmless.  After a rebinding that need
\* not be the group's own issue: github_issue_url is not consulted.
Reopen(p) ==
  /\ pc[p] = "reopen"
  /\ Goto(p, "emit") \/ Goto(p, "failRead")
  /\ UNCHANGED <<store, github, local, disruptions>>

\* Mutant of EmitLifecycle: its error is ignored.
EmitOrForget(p) ==
  /\ pc[p] = "emit"
  /\ events' \in {events, events \union {cur[p]}}
  /\ Goto(p, "finish")
  /\ UNCHANGED <<known, issue, home, repo, job, heir, github, local, disruptions>>

\* EnqueueGitHubLifecycleEvent: one transaction, INSERT OR IGNORE on the
\* source key "github:" and the delivery key.
EmitLifecycle(p) ==
  /\ pc[p] = "emit"
  /\ events' = events \union {cur[p]}
  /\ Goto(p, "finish")
  /\ UNCHANGED <<known, issue, home, repo, job, heir, github, local, disruptions>>

\* The UPDATE names the id only: it does not check who holds the lease.
Finish(p) ==
  /\ pc[p] = "finish"
  /\ job' = [job EXCEPT ![cur[p]] =
                [@ EXCEPT !.state = "done", !.leased = FALSE, !.recent = TRUE]]
  /\ Leave(p)
  /\ UNCHANGED <<tables, github, disruptions>>

FailRead(p) ==
  /\ pc[p] = "failRead"
  /\ att' = [att EXCEPT ![p] = job[cur[p]].attempts + 1]
  /\ Goto(p, "failWrite")
  /\ UNCHANGED <<store, github, want, cur, target, num, disruptions>>

\* Mutant of FailWrite: a state no reader knows.
FailUnknown(p) ==
  /\ pc[p] = "failWrite"
  /\ job' = [job EXCEPT ![cur[p]] =
                [@ EXCEPT !.state = "failed", !.leased = FALSE]]
  /\ Leave(p)
  /\ UNCHANGED <<tables, github, disruptions>>

FailWrite(p) ==
  /\ pc[p] = "failWrite"
  /\ job' = [job EXCEPT ![cur[p]] =
                [@ EXCEPT !.state = IF att[p] >= MaxAttempts
                                     THEN "dead" ELSE "pending",
                          !.attempts = att[p],
                          !.due = FALSE,
                          !.leased = FALSE]]
  /\ Leave(p)
  /\ UNCHANGED <<tables, github, disruptions>>

-----------------------------------------------------------------------------
(***************************************************************************)
(* Operators, time and failures.                                           *)
(***************************************************************************)

\* RetryIssueJobForUser, by the project's owner.
Retry(j) ==
  /\ job[j].state = "dead"
  /\ disruptions < MaxDisruptions
  /\ disruptions' = disruptions + 1
  /\ job' = [job EXCEPT ![j] =
                [@ EXCEPT !.state = "pending",
                          !.attempts = 0,
                          !.due = TRUE, !.recent = FALSE]]
  /\ UNCHANGED <<tables, github, pc, local>>

\* The project is bound to a repository, bound to another one, unbound,
\* archived or restored, whatever its jobs are doing.
SetRepository ==
  /\ disruptions < MaxDisruptions
  /\ disruptions' = disruptions + 1
  /\ repo' \in (Repos \union {Unbound}) \ {repo}
  /\ UNCHANGED <<known, issue, home, job, heir, github, events, pc, local>>

\* next_attempt_at_unix is reached.
ComesDue(j) ==
  /\ job[j].state = "pending" /\ ~job[j].due
  /\ job' = [job EXCEPT ![j] = [@ EXCEPT !.due = TRUE]]
  /\ UNCHANGED <<tables, github, pc, local, disruptions>>

\* lease_expires_at_unix is reached.  Every GitHub request times out after
\* ten seconds, so a handler that lives finishes within its lease unless
\* LeaseOverrun says otherwise.
LeaseExpires(j) ==
  /\ job[j].state = "working" /\ job[j].leased
  /\ LeaseOverrun \/ \A p \in Processors : ~Holds(p, j)
  /\ job' = [job EXCEPT ![j] = [@ EXCEPT !.leased = FALSE]]
  /\ UNCHANGED <<tables, github, pc, local, disruptions>>

\* An hour has passed since the job was completed.
Ages(j) ==
  /\ job[j].recent
  /\ job' = [job EXCEPT ![j] = [@ EXCEPT !.recent = FALSE]]
  /\ UNCHANGED <<tables, github, pc, local, disruptions>>

\* The process dies, the request's context is cancelled, or a statement fails
\* whose error is returned at once: nothing after this statement runs.
Abandon(p) ==
  /\ pc[p] # "idle"
  /\ disruptions < MaxDisruptions
  /\ disruptions' = disruptions + 1
  /\ Leave(p)
  /\ UNCHANGED <<store, github>>

Step(p) ==
  \/ EnqueueCheck(p) \/ EnqueueInsert(p) \/ EnqueueFails(p)
  \/ Wake(p) \/ Recover(p) \/ Select(p) \/ NothingDue(p)
  \/ Claim(p) \/ LoseClaim(p) \/ Load(p)
  \/ CheckQuota(p) \/ Postpone(p)
  \/ FindByMarker(p) \/ OpenIssue(p) \/ WorkFails(p) \/ RecordIssue(p)
  \/ Reopen(p) \/ EmitLifecycle(p) \/ Finish(p)
  \/ FailRead(p) \/ FailWrite(p)

Clock(j) == ComesDue(j) \/ LeaseExpires(j) \/ Ages(j)

Next ==
  \/ \E p \in Processors : Step(p) \/ Abandon(p)
  \/ \E p \in Processors, g \in Groups : Report(p, g)
  \/ \E j \in JobId : Retry(j) \/ Clock(j)
  \/ SetRepository

\* Go schedules every handler and worker, and time passes.
Fairness ==
  /\ \A p \in Processors : WF_vars(Step(p))
  /\ \A j \in JobId : WF_vars(Clock(j))

Spec     == Init /\ [][Next]_vars
FairSpec == Spec /\ Fairness

-----------------------------------------------------------------------------
(***************************************************************************)
(* Properties.                                                             *)
(***************************************************************************)

\* The claim UPDATE and the leases give a job to one handler at a time.
NoSharedLease ==
  \A p, q \in Processors :
    (p # q /\ pc[p] \in Holding /\ pc[q] \in Holding) => cur[p] # cur[q]

\* However often a job is retried after lost answers, crashes and expired
\* leases, each repository holds at most one issue with its delivery marker:
\* the marker search before each Open reconciles what an earlier try created
\* there.  (A project bound to another repository between two tries may get
\* a second issue, in the new one.)
OneIssuePerDelivery ==
  \A r \in Repos : \A m, n \in Number :
    github[r][m] # 0 /\ github[r][m] = github[r][n] => m = n

\* Number and URL of a group always name one and the same existing issue,
\* opened for one of the group's own jobs, whatever handlers raced to record
\* theirs and whatever the project was bound to meanwhile.
IssueIsOurs ==
  \A g \in Groups : issue[g] # 0 =>
    /\ home[g] \in Repos
    /\ github[home[g]][issue[g]] # 0
    /\ job[github[home[g]][issue[g]]].group = g

\* Subscribers never hear of an issue (github_issue.opened or .reopened)
\* before the group has one.
EventsFollowIssues == \A j \in events : issue[job[j].group] # 0

\* Reopen job j was handed over: its handler found or enqueued an open job
\* of the same group.
HandedOver == {j \in JobId : heir[j] # 0}

\* A job that reports success did its work: its subscribers were told of an
\* issue the group has, or it is a reopen that left the group to a recorded
\* open job, and to one its own handler saw in the queue.
DoneIsBacked ==
  \A j \in JobId : job[j].state = "done" =>
    \/ j \in events /\ issue[job[j].group] # 0
    \/ /\ job[j].action = "reopen"
       /\ j \in HandedOver
       /\ job[heir[j]].state # "absent"
       /\ job[heir[j]].action = "open"
       /\ job[heir[j]].group = job[j].group

\* The hourly quota is checked before the job runs and counted after it, so
\* concurrent handlers can overshoot it, by no more than one job each.  What
\* is bounded is what the check counts: open jobs completed within the hour.
\* An issue opened by an attempt that fails or dies is never counted.
QuotaHolds ==
  Cardinality(RecentOpens) < OpenQuota + Cardinality(Processors)

\* Every job that was enqueued is eventually done, or dead and listed for
\* its owner: no lease, backoff, crash or rebinding holds it forever.  (The
\* opens of a behaviour are bounded by MaxJobs; a project that keeps opening
\* issues at the quota can postpone a job again and again.)
JobsSettle ==
  \A j \in JobId : job[j].state = "pending" ~> job[j].state \in {"done", "dead"}

\* The queue implements DeliveryQueue: the effect of a job is its lifecycle
\* event, and only a reopen handed over to an open job is excused from it.
StageOf(row) == IF row.state \in {"pending", "working"} THEN "queued"
                                                        ELSE row.state
JobStage   == [j \in JobId |-> StageOf(job[j])]
Queue == INSTANCE DeliveryQueue WITH
  Jobs <- JobId, stage <- JobStage, performed <- events, excused <- HandedOver
QueueRefinement == Queue!QueueSpec
=============================================================================
