# Raises in TLA+

Raises is a self-hosted error inbox: applications post notices, the server
groups them, opens GitHub issues for new groups, reopens them on regressions,
delivers webhooks and ntfy messages, and mails a daily and a weekly KPI brief.
Everything is one Go process over one SQLite file. This directory models the
parts of it that keep state and run concurrently, checks them with TLC on small
instances, and proves every invariant and action property the passing runs check,
and both refinements, with TLAPS for every value of the constants.

`PROJECT.json` lists the runs, the mutants, the lines each definition
translates, the hazards and the findings.

## 1. Inventory

One process runs an HTTP server (a goroutine per request), an issue worker, an
outbound worker and a report worker. `sql.DB` has one connection
(`SetMaxOpenConns(1)`, store.go:132), so single statements and transactions are
atomic with respect to each other, and a *sequence* of statements is not: between
any two statements another goroutine may run, the process may die, or the second
statement may fail. During a deploy two processes share the file, and
so do the server and a one-off command, which starts in the same way.

| Component | State | Operations | Hard part | Correct when |
|---|---|---|---|---|
| Error inbox (`inbox/store.go`, `scoped.go`) | `apps`, `error_groups`, `notices` | `Ingest`, `Ack`, `Suppress`, `Unsuppress` | authentication and transaction are apart; regressions depend on the order of revisions | the row is what the history says; each regression is announced once and answers to an acknowledgement |
| Issue jobs (`inbox/issues.go`, `github/client.go`) | `issue_jobs`, the group's issue number, GitHub's issues | `enqueueIssueJob`, `ProcessIssueJobsOnce`, `RetryIssueJobForUser` | requests and the worker run the same function; leases; lost answers of GitHub; retries of dead jobs; a project bound to another repository meanwhile | one issue per delivery and repository; done means done; jobs settle |
| Outbound (`inbox/outbound.go`, `events.go`, `outbound/`, `ntfy/`) | `outbound_events`, `outbound_deliveries`, `webhook_endpoints` | fan-out, `ProcessOutboundDeliveriesOnce`, `PruneOutboundHistory`, `RetryWebhookDeliveryForUser`, endpoint changes | leases, lost answers, endpoints changed under a delivery, pruning in two statements | repeated only after a loss; no orphan; done was received |
| Projects and tokens (`inbox/control.go`) | `apps`, `project_tokens` | create, archive, restore, token create and revoke, `AssignLegacyProjects` | limits are counted in one statement and used in another; assignments and exemptions bypass them | limits hold for what is counted, up to the number of concurrent requests |
| Credentials (`inbox/control.go`) | `agent_keys`, `bootstrap_tokens` | create, exchange, revoke | transactions on the only connection | a token makes one key; the connection comes back |
| Installations (`httpserver/auth_web.go`, `inbox/control.go`, `github/app.go`) | `github_installations`, `github_repositories`, bindings in `apps` | webhook, installation flow, bind, unbind | GitHub changes meanwhile; webhooks are lost and overtake each other; two accounts administer one installation | a binding is by right; the store follows GitHub |
| KPI briefs (`inbox/reporting.go`, `cmd/raises/main.go`) | `report_deliveries` | `EnqueueDueBriefs`, `ProcessBriefDeliveryOnce`, `daily-brief send` | calendar, downtime, leases, a command beside the worker | no brief early, none repeated without a loss, the weekly one is caught up |
| Informational events (`inbox/events.go`) | `events` | create with its outbound event and the pruning, list | pruning by age and number, ordered by second and random id | nothing is deleted that should be kept |
| Rate limiter (`httpserver/server.go`) | fixed windows in memory | `allowRequest` | window boundary; windows pruned because of other tokens | a burst is at most two windows; a refusal is earned |
| Operational alerter (`operational/alerter.go`) | last time per key | `Report` from handlers, workers and main | read and write of the time apart; a nil `*Alerter` in an interface | one alert per cooldown; nothing suppressed that was not sent |
| Process (`cmd/raises/main.go`, `httpserver/server.go`) | goroutines, `runCtx` | panics, SIGTERM, `Shutdown`, exit | hanging handlers, reports that hang | it ends when told to; a panicking request is answered |
| Start-up (`cmd/raises/main.go`, `inbox/store.go`, `inbox/control.go`) | `apps`, `users`, columns and index of an old schema | migration, `AssignLegacyProjects`, `UpsertApp`, `ClearLegacyTokens`, the sign-in that assigns projects | a crash between any two statements; two processes side by side; an environment, and an owner, that differ between two starts | the migration completes; owned projects stay; the owner's disabled tokens are gone |
| Installation token cache and issue search (`github/app.go`, `github/client.go`) | map in memory, GitHub's pages | `installationToken`, `FindByMarker` | concurrent fills; issues opened or removed between two pages | a call starts with a token that is good; "not found" is true |
| Sessions and web pages (`httpserver/auth_web.go`) | `sessions`, cookies | OAuth flow, logout | - | - |
| Fingerprinting, encryption, delivery clients, parsing of the configuration | none | pure or a single exchange | - | - |

How they interact: `Ingest` commits the notice with its outbound event
(`enqueueOutboundEventTx`, same transaction), then enqueues an issue job and
runs `ProcessIssueJobsOnce` itself. An issue job ends by enqueuing a
`github_issue.*` event, whose source key is the job's delivery key. The workers
are woken by tickers and by two channels of capacity one, which only shorten the
wait. A webhook of GitHub changes the bindings that `Ingest` and the issue jobs
read.

## 2. Modules

| Module | Models | Reads |
|---|---|---|
| `DeliveryQueue` | what a persistent work queue promises, with no leases, workers or crashes | abstract |
| `IssueJobs`, `MCIssueJobs` | issue jobs, GitHub's repositories, ingest requests and worker; symmetry for TLC | implements `DeliveryQueue` |
| `Outbound` | events, deliveries, endpoints, workers, retention | implements `DeliveryQueue` |
| `BriefReports` | calendar, workers, the send command | |
| `Inbox`, `MCInbox` | groups, notices, agent calls; instances for TLC | |
| `Projects`, `MCProjects` | projects, tokens and their limits; symmetry for TLC | |
| `Credentials` | bootstrap tokens, agent keys, the connection | |
| `Installations`, `MCInstallations` | GitHub, webhooks, installation, bindings; instances for TLC | |
| `RateLimiter` | windows of `allowRequest` | |
| `Service` | goroutines of the process, alerter, panics, shutdown | |
| `GitHubClient` | token cache and the search for an issue by its marker | |
| `Startup` | the statements of the starts of several processes, sign-ins and new projects | |
| `Events` | `CreateEvent` with its pruning | |
| `MCServer` | one of `Credentials`, `RateLimiter`, `Service`, `GitHubClient`, `Startup`, `Events` per behaviour | extends all six |
| `IssueJobsProofs`, `OutboundProofs`, `BriefReportsProofs`, `InboxProofs`, `ProjectsProofs`, `CredentialsProofs`, `InstallationsProofs` | theorems about the module of that name | extend it, `TLAPS` and the theorem modules of the library |
| `ServerProofs` | theorems about the other five parts of `MCServer`, and about their product | extends `MCServer`, `CredentialsProofs` |

Conventions shared by all modules:

* A process (worker, request, command) has a program counter `pc`; an action is
  one SQL statement, one transaction or one call to another system. Where a
  transaction matters statement by statement (`Credentials`) it works on a
  draft that commit installs.
* Locals are reset when a handler returns, so that finished handlers do not
  multiply states.
* Time is abstracted to what statements compare: `due` (next_attempt_at has been
  reached), `leased` (the lease has not expired), `recent` (completed within the
  hour), `late` (the send time has passed). Clock actions change them at any
  time that the code allows. Where a length of time is what matters
  (`RateLimiter`, `Service`, `GitHubClient`, `Events`) the variables hold ages or
  lives in ticks, capped where nothing tells longer ones apart, so that these
  modules run for ever in a finite state space.
* `Crash`, `Abandon` and `Fails` end a handler at any statement; what it wrote
  stays. A crash of the process is the crash of each of its handlers.
* History variables (`received`, `learnt`, `unread`, `sent`, `canary`, `log`,
  `proved`, `granted`, `calm`, `admitted`, `newest`, `there`, `lost`, `late`
  (of `Startup`), `made`, `heir`, `exempt`, `waived`) are written beside the
  code's state and never read by a guard (the length of `log` bounds `Inbox`,
  and `made` stands for ids already used in `Events`).
* Reads whose error the code drops are assumed to succeed, except the one that
  matters in `Outbound` (`ReadFails`, counted by `MaxDisruptions`).
* The components of `MCServer` share no state, so their product says nothing
  that the parts do not; the variable `part` lets each behaviour take the steps
  of one of them, and one run covers all six.

### IssueJobs

`job[j]` is the row with id `j`; `github[r][n]` is the job whose marker issue
`n` of repository `r` carries; `issue[g]` is `error_groups.github_issue_number`
and `home[g]` the repository that `github_issue_url` names; `events` holds the
jobs whose lifecycle event is in the database. `repo` is the repository the
project is bound to, and `SetRepository` binds it to another one or to none at
any time; `Load` reads it into the handler's `target`, as `issueJobData` does,
so that one attempt works in one repository and the next may work in another.
`heir[j]` remembers the open job to which the handler of reopen job `j` left its
group. `Processors` are the ingest requests and the worker. `Report` is the
commit of `Ingest`; `EnqueueCheck`/`EnqueueInsert` are `enqueueIssueJob` (also
called by a reopen job of a group without an issue); `Recover`, `Select`,
`Claim`, `Load`, `CheckQuota`, `FindByMarker`, `OpenIssue`, `RecordIssue`,
`Reopen`, `EmitLifecycle`, `Finish`, `FailRead` and `FailWrite` are the
statements of `ProcessIssueJobsOnce` in order (`Reopen` acts on number
`issue[g]` of `target`, whose state no property tells apart). `OpenIssue` may
create the issue and lose the answer. `LeaseOverrun` says whether a handler may
outlive its two-minute lease; the GitHub client's ten-second timeout makes that
unlikely and nothing makes it impossible, so there are runs for both.

### Outbound

A delivery is a pair of source key and destination. `Enqueue` is the fan-out,
`ReadEndpoint` the SELECT of the endpoint (active, or absent or inactive),
`ReadFails` its failure, `Accepted` and `Refused` the HTTP exchange,
`PruneDeliveries` and `PruneEvents` the two DELETEs. `excused` remembers the
deliveries whose endpoint was switched off, which may end as done unsent, and
`unread` those whose endpoint could not be read, which end so by mistake.

### BriefReports

Days are numbered; a date has one brief, the weekly one on Friday. `DueDates` is
the calendar of `EnqueueDueBriefs`. The command has no lease and no row until
it records its success; `canary` counts its emails apart from the workers'
(`sent`), because it may send a brief that a worker is sending.

### Inbox, Projects, Credentials, Installations

`Inbox` keeps the committed notices and agent calls in `log` and states its
properties over that history (`NoticesOf` is the set of a group's notices in
it). `Projects` and `Credentials` differ in the one respect that decides their
properties: the first counts and writes in separate statements, the second in a
transaction. Two things bypass the count of `Projects`: `AssignLegacyProjects`,
at a start or a sign-in, gives the account any projects that nobody owned, and a
process that found its initial owner exempts that account
(`ConfigureUnlimitedProjects`). As processes of different environments may serve
at once, each count may be exempt (`CountProjects`). `waived` holds the projects
that ever became active either way, and `exempt` the handlers on their way to
it. `Installations` has GitHub as an external process that changes its state and
posts webhooks; a handler reads GitHub, then writes what it read.

### Service

Every goroutine has a stage: a request is handled or panics, a worker works,
fails a pass or panics, main serves, drains and closes. From `panic`, `failure`
and `stop` it goes on through `Alerter.Report`: `Suppressed` and `BeginReport`
are the first critical section, `ReportSent` and `ReportFails` the end of the
sending with the second. `NoReporter` is what happens when main made no Alerter:
main's own reports check for nil, `recoverPanics` compares an interface that
holds a nil pointer. `AfterReport` is what the caller does next; a worker's panic
ends the process, which Docker starts again.

### Startup

`phase[p]` is the next step of `run` in process `p`; processes start, serve and
die side by side. A one-off command is a start that ends (`ProcessDies`) instead
of listening. `AddColumn` to `CreateIndex` are `Store.initialize` for a database
of the first schema; `LookUpOwner`, `OwnerMissing`, `AssignLegacyProjects`,
`AssignFails`, `UpsertApp` and `ClearLegacyTokens` follow until the server
listens; `SignIn`, `SignInAssigns` and `CreateProject` are the requests that
change the same rows. `ProcessDies` may come anywhere. Every start has an
environment of its own, with its own owner; it is read first thing, but the
model draws it in `LookUpOwner`, where it first matters. A row is kept as its
owner and three marks: slug filled, identity filled, token set. `late[p]`
remembers the projects whose tokens the clearing of `p` did not reach: written
afterwards by another process, or unowned then.

### RateLimiter, GitHubClient, Events

`AllowRequest` is one critical section; a refused call changes nothing. The
history `admitted` is the set of a bucket's requests of the last window, each
with its age, whatever became of the window that counted it.
`GitHubClient` has the two critical sections of `installationToken` around the
exchange and one action per fetched page, while others open and remove issues;
`Page` and `Rank` are GitHub's paging, the newest first. `CreateEvent` is the
transaction of the same name; `Latest` is its ORDER BY and OFFSET.

## 3. Runs

All properties are stated in the modules with the code behaviour they are about.

| Run | States | Shows |
|---|---|---|
| `IssueJobs_core` | 0.4 M | types, `NoSharedLease`, `OneIssuePerDelivery` in either of two repositories; the jobs implement `DeliveryQueue`; `JobsSettle` |
| `IssueJobs_quota` | 2.9 M | `QuotaHolds`: the open jobs done within the hour exceed the quota by less than one per processor |
| `IssueJobs_overrun` | 6.1 M | what survives two handlers on one job and a rebinding: `IssueIsOurs`, `EventsFollowIssues`, `DoneIsBacked` |
| `Inbox_history` | 2.1 M | the group's row follows the history: `EvidenceIsHistory`, `RegressionNeedsAck`, `AnnouncedOnce`, `AckedUntilRegression` |
| `Inbox_slugs` | - | violated: notices of one account are filed in a group of another |
| `Outbound_core` | 0.4 M | `RepeatsOnlyAfterLoss`, `NoOrphans`, `DoneUnlessUnread` with two workers and failing reads; the deliveries implement `DeliveryQueue`; `DeliveriesSettle`, `HistoryIsPruned` |
| `Outbound_faults` | - | violated: a failing SELECT completes a delivery unsent |
| `Projects_limits` | 3.9 M | `LimitsOvershoot`: the limits of counted projects and of tokens are overshot by less than one per concurrent request |
| `Server_parts` | 0.8 M | types of its six parts; `OneKeyPerBootstrap`, `ConnectionReturns`; `BurstIsTwoWindows`, `RefusalIsEarned`; `SuppressedIsCovered`, `AlertsSpaced`, `SignalStops`; `NotFoundIsTrue`, `TokenLasts`; `MigrationCompletes`, `OwnedStays`, `LegacyTokensGone`; `EventsRetained` |
| `Service_nil` | - | violated: with alerts off a panicking request is not answered |
| `BriefReports_core` | 0.1 M | no brief early, repeated without a loss or reopened once settled; the weekly one is caught up after downtime on its evening |
| `Installations_core` | 2 M | `BoundByRight`; `InSync` as long as nothing crossed or failed |

No run is spent on the `TypeOK` of the other modules: it is proved, on the way to
their properties.

The three violated runs are findings: each property states what a document or a
test of the repository says, and `PROJECT.json` quotes it. `DoneUnlessUnread` is
what holds beside the second: nothing but the unread endpoint loses a delivery.

More observations that no run is spent on. Most are not promised otherwise
anywhere; where a document does, it is quoted:

* An open job that dies after its issue was created leaves the group without a
  number; the next regression enqueues another open job with another marker and
  opens a second issue. What holds is `OneIssuePerDelivery`.
* A project that is bound to another repository after an answer was lost gets a
  second issue with the same marker: `FindByMarker` and `Open` work in the
  repository as read at each attempt (issues.go:84-86). So
  `OneIssuePerDelivery` speaks of each repository by itself.
* `Reopen` takes the group's number to the repository the project is bound to
  now (issues.go:94), where the number may be another issue or none. What holds
  is `IssueIsOurs`: number and URL of a group name one issue of its own.
* Only issues of jobs that ended as done count for the quota (issues.go:74):
  those of attempts that failed afterwards, or died, do not. `QuotaHolds` bounds
  what is counted.
* A job over the quota waits for an hour and is checked again (issues.go:76). A
  project that keeps opening thirty issues an hour can have one and the same job
  postponed for ever: ids decide among the jobs that are due, but a postponed job
  is not due while newer ones fill the quota. `JobsSettle` is checked with the
  two jobs that `MaxJobs` allows, where a full quota ends; it shows that leases,
  backoffs, crashes and rebindings hold no job, and does not speak of such load.
* A notice without a revision overwrites `last_revision`, so that the next
  notice of the revision that was acknowledged reopens the group. What holds is
  `AckedUntilRegression` and `RegressionNeedsAck`.
* Two requests at once exceed the limits of active projects and tokens, and a
  project archived between the check and the INSERT gets a token. What holds is
  `LimitsOvershoot`. Projects that an account was given by an assignment, and
  those made or restored through a process that exempts it, are not limited at
  all: an account keeps them when a later start names another owner.
* `daily-brief send` beside a worker sends the brief twice, and the worker's
  failure reopens the row the command has recorded. What holds is
  `SettledStaysSettled`.
* `AssignLegacyProjects` is one UPDATE under the unique index of owner and slug.
  Two unowned projects of one slug, or one whose slug the owner has already used,
  make it fail as a whole: every later start ends there (`AssignFails`), while
  the same failure at a sign-in is ignored (`SignInAssigns`).
* `DISABLE_LEGACY_TOKENS` is weaker than its name in three cases, none of which
  the code excludes. A project that the environment names for the first time is
  inserted after the assignment: it belongs to nobody and keeps its token until
  the next start. A process that starts beside a serving one writes the tokens
  anew, and they work until it has cleared them itself, or for good if it ends
  first or does not disable them. And a start clears the tokens of its own owner
  only (control.go:331), so that when `INITIAL_OWNER_GITHUB_ID` names another
  user, the tokens it has just written for the former owner's projects stay
  good. `LegacyTokensGone` says what is left: per process and for its owner,
  with the first two cases as its exception `late`.
* Events are pruned only by the next event of their account, so a quiet account
  lists events older than the 30 days of `docs/api.md:87`. What holds is the
  other direction, `EventsRetained`.
* An older report of the alerter that ends last sets `lastSent` back, so two
  alerts may be closer than the cooldown by the time a report takes
  (`AlertsSpaced`), and overlapping reports of one key are both sent.
* An issue removed between two pages moves another one across the boundary, and
  the search misses it: `NotFoundIsTrue` excepts searches during a removal.
* Requests at the boundary of two windows get twice the limit within a minute:
  `BurstIsTwoWindows` is the best bound that holds.

### Bounds, and why they suffice

* Processes: two that interfere are enough for the claim and lease protocols,
  whose statements mention one row; the overshoot bounds are checked with two
  and stated for any number.
* Attempts: two instead of twenty give a first failure, a last failure and the
  revival of a dead job. `MaxAttempts = 1` is used where the retries are not the
  question.
* Repositories: two, a first and another; one where the binding is not the
  question (`IssueJobs_quota`).
* Jobs and issues: two, and three where a third group must have a job and an
  issue (`IssueJobs_quota`).
* `MaxDisruptions`, `MaxCrashes`, `MaxFaults`, `MaxChanges`, `MaxLog` bound how
  often the environment interferes: one crash, retry or rebinding in the middle
  of anything, two where the state space allows. Two of them combined, such as a
  crash and a rebinding, or a switched endpoint and a manual retry of its
  delivery, are covered by the proofs, for every safety property.
* `Inbox`: four log entries are created, acknowledged, regressed and one more;
  `Keep = 2` makes the retention delete within them. There is one revision beside
  the empty one; regressions among several are covered by the proofs.
* `Server_parts`: two callers of each part, as its critical sections and
  transactions exclude pairs; a third bucket so that pruning is caused by other
  tokens; windows of two ticks, a cooldown of three with reports of at most one,
  so that a report can begin before and end after another; pages of two of three
  issues, so that a search has a boundary to lose an issue at; tokens that live
  three ticks with a margin of one, the longest exchange. Two processes and two
  users give a deploy beside a server, a command, and a start that names another
  owner; one slug clashes where two users, or nobody and the environment, have a
  project of it. Two accounts with room for two of four events prune by age and
  by number.
* Calendar: a Friday and the Saturday after it, so that the weekly brief can be
  sent on its day, at midnight or a day late. One worker is enough beside the
  command, which changes the rows as a second worker would; two workers are
  covered by the proofs only.
* Symmetry: repositories in `IssueJobs_overrun`, requests in `Inbox_history`,
  tokens and handlers in `Projects_limits` are interchangeable; none is mentioned
  by a CHOOSE, and no such run checks a temporal property.

### Fairness

`FairSpec` assumes weak fairness of each worker's and handler's steps (Go
schedules every goroutine, and every HTTP client and statement of the code has a
timeout or a context) and of the clock (backoffs, leases and postponements end).
Nothing is assumed of users, of GitHub, of new notices, or of the outcome of a
call: `OpenIssue`, `Accepted` and `Refused` are steps of a handler that must be
taken, with any outcome. Crashes are bounded in number, as a system that crashes
for ever settles nothing. In `Credentials` only the holder of the connection is
fair; who gets it next is not promised. In `Service` reports have a deadline of
five seconds and `Shutdown` one of ten, so the end of a report, the steps of the
shutdown and the passing of time are fair; that a handler returns or that a
worker notices its cancelled context is not assumed, and `SignalStops` needs
neither.

## 4. Proofs

Each theorem holds for every value of the constants that the module's named
assumption allows: any number of workers, requests, processes, projects,
repositories, rows, attempts, crashes, rebindings and so on. TLC evaluates each
assumption in the runs of its module.

| Theorem | Property | Condition |
|---|---|---|
| `IssueJobsProofs!TypeCorrect` | `TypeOK` | |
| `IssueJobsProofs!LeasesExclude` | `NoSharedLease` | `~LeaseOverrun` |
| `IssueJobsProofs!MarkersReconcile` | `OneIssuePerDelivery` | `~LeaseOverrun` |
| `IssueJobsProofs!QueueImplemented` | `QueueRefinement` | `~LeaseOverrun` |
| `IssueJobsProofs!IssuesAreOurs` | `IssueIsOurs` | |
| `IssueJobsProofs!EventsComeAfter` | `EventsFollowIssues` | |
| `IssueJobsProofs!DoneMeansDone` | `DoneIsBacked` | |
| `IssueJobsProofs!QuotaKept` | `QuotaHolds` | |
| `OutboundProofs!TypeCorrect` | `TypeOK` | |
| `OutboundProofs!NothingOrphaned` | `NoOrphans` | |
| `OutboundProofs!DoneIsHonest` | `DoneUnlessUnread` | |
| `OutboundProofs!NoRepeatWithoutLoss` | `RepeatsOnlyAfterLoss` | |
| `OutboundProofs!QueueImplemented` | `QueueRefinement` | |
| `BriefReportsProofs!TypeCorrect` | `TypeOK` | |
| `BriefReportsProofs!SettledStays` | `SettledStaysSettled` | |
| `BriefReportsProofs!NothingEarly` | `NotTooEarly` | |
| `BriefReportsProofs!NoRepeatWithoutLoss` | `RepeatsOnlyAfterLoss` | `Exclusive` |
| `InboxProofs!AcksHoldUntilRegression` | `AckedUntilRegression` | |
| `InboxProofs!RegressionsAnswerAcks` | `RegressionNeedsAck` | |
| `InboxProofs!AnnouncedExactlyOnce` | `AnnouncedOnce` | |
| `InboxProofs!EvidenceFollowsHistory` | `EvidenceIsHistory` | |
| `ProjectsProofs!LimitsAlmostKept` | `LimitsOvershoot` | |
| `CredentialsProofs!TokensMakeOneKey` | `OneKeyPerBootstrap` | |
| `InstallationsProofs!BindingsAreRightful` | `BoundByRight` | |
| `InstallationsProofs!StoreInSync` | `InSync` | |
| `ServerProofs!NothingKeptQuiet` | `SuppressedIsCovered` | |
| `ServerProofs!AlertsKeepTheirDistance` | `AlertsSpaced` | |
| `ServerProofs!TokensOutliveTheCache` | `TokenLasts` | |
| `ServerProofs!MarkersAreFound` | `NotFoundIsTrue` | |
| `ServerProofs!MigrationsFinish` | `MigrationCompletes` | |
| `ServerProofs!OwnersKeepProjects` | `OwnedStays` | |
| `ServerProofs!LegacyTokensStop` | `LegacyTokensGone` | |
| `ServerProofs!EventsAreKept` | `EventsRetained` | |
| `ServerProofs!BurstsAreBounded` | `BurstIsTwoWindows` | |
| `ServerProofs!RefusalsAreEarned` | `RefusalIsEarned` | |
| `ServerProofs!TypesAreKept` | `ServerTypeOK` | |

### Assumptions

Most say that a constant is a number or that two sets are disjoint. Three say
more:

* `OpenQuota > 0` and finite sets of requests and workers (`IssueJobs`), finite
  sets of handlers, slugs and tokens (`Projects`): the overshoot is counted in
  handlers. The code's quota is 30.
* `Life > Margin + 1` (`GitHubClient`). The proof of `TokenLasts` asked for it: a
  token that has just been fetched loses a tick while the answer travels and is
  used if more than the margin is left. GitHub's tokens live an hour and the
  margin is five minutes.
* `SendTimeout < Cooldown` (`Service`): five seconds and thirty minutes.

Two conditions are part of the theorems, because the property is false without
them:

* `~LeaseOverrun` in `IssueJobs`: two handlers on one job may both search before
  either opens, and one may fail a job that the other has finished. What survives
  is proved without the condition: `IssueIsOurs`, `EventsFollowIssues`,
  `DoneIsBacked`, `QuotaHolds`.
* `Exclusive == ~LeaseOverrun \/ one worker` in `BriefReports`: with two workers,
  one slower than its lease, both send. `BriefReports_core` takes the second
  half.

`Outbound` needs none: an exchange times out after eight seconds and a lease after
two minutes, so its `LeaseExpires` waits for the holder.

### The inductive invariants

Hardly any of the properties is inductive by itself; what a proof adds is where
the mechanism of the code shows.

* Types. A handler past its SELECT has a row in hand with attempts left
  (`JobInHand`, `InHand`, `AttemptsLeft`): without it `job[cur[p]]` need not be a
  row, nor `attempts + 1` a number of attempts.
* Leases (`LeaseInv` of `IssueJobs` and `Outbound`, `Marked` and `OneHolder` of
  `BriefReports`). The row of every holder is `working` and its lease good, and no
  row has two holders. The exclusion alone is not inductive: a claim would break
  it unless a held row is known not to be `pending`, and `Recover` unless it is
  known to be leased.
* Markers (`Searched`). A handler about to open an issue has searched, and no
  issue of its `target` carries its job's marker; only the holder of a job opens
  issues for it. That the search and the opening are of one repository is what
  the claim depends on, and why it is one per repository.
* Work done (`BackedInv`, `FiledInv` of `IssueJobs`; `Answered`, `OffIsExcused` of
  `Outbound`). A handler about to finish has done what finishing claims, at every
  statement it passes: found or opened an issue with the job's marker, recorded
  it, emitted the event, or seen the open job to which it leaves the group
  (`HeirOf`). `FiledInv` mentions no lease, so it survives two handlers; what it
  says of an issue it says of number and repository together.
* Losses (`LearntIsKept`, `Accounted`). After an acceptance the server learnt of,
  the row is done or its holder is about to write so; a row that may be sent again
  was sent no more often than answers were lost.
* Counting (`QuotaInv`, `ProjectInv`, `TokenInv`). What exists *and* what handlers
  past their count will add is below the limit plus the handlers: a check admits
  one handler, which was not counted before, so that the bound holds whoever
  counts at the same time. A handler that was exempt, and a project that was
  waived, is counted on neither side.
* Retention (`Unsent`). An event that is yet to come has no deliveries, so an
  event that is deleted leaves none.
* The calendar (`TimeInv`). Everything that a worker may send, in a row, in its
  list or in its hand, is of a period that has passed.
* One transaction (`DraftOf` in `Credentials`). The draft belongs to the holder of
  the connection and differs from the table by what its statements have written.
* Rights (`HandRight` in `Installations`). What a handler has read from GitHub or
  the table was granted or proved once, and those histories only grow.
* Agreement (`SyncInv`). While webhooks come in order to one handler at a time,
  either the store agrees with GitHub or a webhook is still to come
  (`StatusAwaited`, `ReposAwaited`), whose last one announces the present status;
  a handler between two statements carries the present state.
* History (`AckInv`, `AnnounceInv`, `Evidence`). Each row of the inbox is tied to
  the whole log: every entry is a notice that was filed or a call (`Moves` gives
  the two shapes of a step), so one lemma per shape and property suffices.
* Alerts (`TimesAgree`). The time of the last alert lags behind that of the newest
  by one report at most. It needs the reports' ages, which bound them.
* Tokens (`Lives`). The token of a call that fills the cache, or is about to use
  one, has more life than the ticks that may still pass before its first exchange.
* Pages (`Truthful`). An issue with the marker has its place on the page to
  fetch or behind it, unless one was removed: places only move back while issues
  are added, and every page before the last is full. `PlacesBiject` and
  `PlacesFull` relate the places on a page to the issues that take them.
* Starts (`Migrated`, `OwnerFound`, `ClearedFor`, `FromEnvironment`). What the
  statements before a phase have filled and no other process undoes, what is left
  to the clearing of a process, and that only the environment writes legacy
  tokens.
* Windows (`Fits`). While a window is open it counts the requests since it began,
  and the earlier ones of the last minute fit into one window; when it is over all
  of them fell into it. A window that is pruned has none left.

The product theorem `TypesAreKept` combines the invariants of the six parts, whose
steps are steps or stutters of each (`ProductMoves`).

The refinements map a row to `DeliveryQueue`'s stage: for `IssueJobs`,
`EnqueueInsert` is `Submit`, `EmitLifecycle` is `Perform`, `Finish` is `Settle`,
`FailWrite` is `GiveUp` or a stutter and `Retry` is `Revive`. The reopens in
`HandedOver` are excused from performing, and no others. `Outbound` performs
with `Accepted` and settles with `Complete`.

### Only model-checked

* Liveness: `JobsSettle`, `DeliveriesSettle`, `HistoryIsPruned`,
  `WeeklyIsCaughtUp`, `ConnectionReturns`, `SignalStops`. They rest on fairness,
  that is on `ENABLED`, which the proof system does not handle.
* The three properties that are violated: a run shows a counterexample.

`EvidenceIsHistory` and the two properties of `RateLimiter` are stated over sets
and their cardinality, where folds and `SelectSeq` would say the same: what a
recursive definition computes for every input is out of the provers' reach.

## 5. Not modelled

* Rendering, fingerprints, encryption, HTML and JSON: data that no property here
  tells apart.
* Sessions and the OAuth exchange (single statements, state in cookies), the list
  and view handlers: no state of their own.
* The content of the KPI briefs: aggregates read in one pass.
* Changing the URL or the headers of an endpoint and rotating its secret: they
  change what is sent, not whether.
* `Repositories` and `UserInstallations` read the first hundred entries; the
  models have fewer.
* Reads with a dropped error (`attempts`, the quota count): see `hazards`.
* The CREATE TABLE statements, the columns of `issue_jobs`, the parsing of the
  environment, and what the one-off commands but `daily-brief send` do after
  their start. Processes of one version: a deploy from a server that knows an
  older schema is the old database of `Startup`, without the old server writing
  to it.
* Edits on GitHub that remove the marker from an issue or change its number
  (a transfer): the search would open a second one.
* In `Credentials`, the two transactions of most ways out are modelled by
  statement; every other transaction of the store is one action, which relies on
  its deferred Rollback.
* A request to GitHub that is answered after its caller gave up *and* after the
  retry's search: `OpenIssue` creates the issue at once, answered or not.

## 6. Plan

Done, in this order: `DeliveryQueue` and `IssueJobs` with its proofs, `Outbound`,
`Inbox`, `Projects`, `Credentials`, `BriefReports`, `Installations`,
`RateLimiter`, `Service`, `GitHubClient`, `Startup`, `Events`.

Then the proofs, in the order of section 4. Every safety property of a passing
run is proved; what remains is to ask for more:

1. A module that composes `Inbox`, `IssueJobs` and `Outbound` over the retention
   of thirty days, so that a dead issue job that is retried after its event was
   pruned can be asked about, with the invariant that relates a group's issue, its
   jobs and its events.
2. `IssueJobs` without the condition on leases: how many issues a job may open
   when handlers overrun (one per overrun), and the refinement of a weaker queue.
3. `BriefReports` likewise: emails bounded by losses and overruns.
4. An abstract specification of `Installations`, GitHub's state with a delay, that
   `InSync` would follow from.
5. Reads with a dropped error in `IssueJobs` (see `hazards`), and the effect on
   `MaxAttempts`.
