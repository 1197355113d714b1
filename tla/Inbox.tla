------------------------------- MODULE Inbox -------------------------------
(***************************************************************************)
(* Grouping of notices (internal/inbox/store.go, scoped.go): Ingest with   *)
(* its authentication, its one transaction and the issue work it files     *)
(* afterwards, and the agent's Ack, Suppress and Unsuppress.               *)
(*                                                                         *)
(* The environment and the fingerprint of a notice are one value, a print; *)
(* what IssueJobs does with filed work and Outbound with events is not     *)
(* repeated here.                                                          *)
(***************************************************************************)
EXTENDS Integers, FiniteSets, SequencesExt

CONSTANTS
  Projects,
  Slug,       \* Projects -> slug, unique per owner only
  Owner,      \* Projects -> owning account, 0 for a legacy project
  Prints,     \* environments and fingerprints of notices
  Revisions,  \* revisions a client may send
  NoRevision, \* the empty revision
  Requests,   \* ingest handlers that may run at a time
  Keep,       \* defaultKeepNotices (50)
  MaxGroups,  \* MaxErrorGroupsPerAccount (10,000)
  MaxLog,     \* bound: notices and agent calls in a behaviour
  MaxCrashes  \* bound: handlers abandoned in a behaviour

ASSUME InboxAssumption ==
  /\ Slug \in [Projects -> STRING]
  /\ Owner \in [Projects -> Nat]
  /\ NoRevision \in Revisions
  /\ Keep \in Nat \ {0}
  /\ MaxGroups \in Nat /\ MaxLog \in Nat /\ MaxCrashes \in Nat

\* UNIQUE(app_name, env, fingerprint), where app_name holds the slug.
Keys == {Slug[p] : p \in Projects} \X Prints

VARIABLES
  live,      \* projects whose token authenticates (not revoked, not archived)
  linked,    \* projects with a repository and an installation
  group,     \* Keys -> row of error_groups; count = 0: no row
  events,    \* outbound_events of type error.*, as committed
  filed,     \* issue work enqueued after the commit
  pc,        \* Requests -> next step of the handler
  req,       \* Requests -> the notice and the App row AppByToken returned
  log,       \* history: committed notices and agent calls, in order
  crashes    \* handlers abandoned so far

vars == <<live, linked, group, events, filed, pc, req, log, crashes>>

SomeProject == CHOOSE p \in Projects : TRUE
NoReq == [project |-> SomeProject, print |-> CHOOSE f \in Prints : TRUE,
          revision |-> NoRevision, linked |-> FALSE, at |-> 0]
NoGroup == [project |-> SomeProject, count |-> 0, revision |-> NoRevision,
            acked |-> FALSE, suppressed |-> FALSE, notices |-> <<>>]

Exists(k) == group[k].count > 0

Init ==
  /\ live = Projects
  /\ linked \in SUBSET Projects
  /\ group = [k \in Keys |-> NoGroup]
  /\ events = <<>>
  /\ filed = <<>>
  /\ pc = [r \in Requests |-> "idle"]
  /\ req = [r \in Requests |-> NoReq]
  /\ log = <<>>
  /\ crashes = 0

KeyOf(r) == <<Slug[req[r].project], req[r].print>>

Record(op, k, p, rev, outcome) ==
  log' = Append(log, [op |-> op, key |-> k, project |-> p, revision |-> rev,
                      outcome |-> outcome])

Return(r) ==
  /\ pc' = [pc EXCEPT ![r] = "idle"]
  /\ req' = [req EXCEPT ![r] = NoReq]

-----------------------------------------------------------------------------
(***************************************************************************)
(* Ingest.                                                                 *)
(***************************************************************************)

\* AppByToken, a statement of its own: what it read may be stale later on.
Authenticate(r, p, f, rev) ==
  /\ pc[r] = "idle"
  /\ p \in live
  /\ Len(log) < MaxLog
  /\ pc' = [pc EXCEPT ![r] = "ingest"]
  /\ req' = [req EXCEPT ![r] = [project |-> p, print |-> f, revision |-> rev,
                                linked |-> p \in linked, at |-> 0]]
  /\ UNCHANGED <<live, linked, group, events, filed, log, crashes>>

AccountGroups(owner) ==
  {k \in Keys : Exists(k) /\ Owner[group[k].project] = owner}

OverLimit(r) ==
  /\ ~Exists(KeyOf(r))
  /\ Owner[req[r].project] > 0
  /\ Cardinality(AccountGroups(Owner[req[r].project])) >= MaxGroups

\* ErrLimit: the account may not have another group.
Refuse(r) ==
  /\ pc[r] = "ingest"
  /\ OverLimit(r)
  /\ Return(r)
  /\ UNCHANGED <<live, linked, group, events, filed, log, crashes>>

\* Mutant of Newest: ORDER BY id keeps the oldest.
Oldest(s) == IF Len(s) <= Keep THEN s ELSE SubSeq(s, 1, Keep)

\* DELETE FROM notices ... NOT IN (... ORDER BY id DESC LIMIT keepNotices).
Newest(s) == IF Len(s) <= Keep THEN s
             ELSE SubSeq(s, Len(s) - Keep + 1, Len(s))

\* Mutant of Updated: a regression leaves the acknowledgement.
UpdatedStillAcked(g, r, regressed) ==
  [g EXCEPT !.count = @ + 1,
            !.revision = req[r].revision,
            !.notices = Newest(Append(@, Len(log) + 1))]

\* The group a notice leaves behind; a regression clears the acknowledgement.
Updated(g, r, regressed) ==
  [g EXCEPT !.count = @ + 1,
            !.revision = req[r].revision,
            !.acked = @ /\ ~regressed,
            !.notices = Newest(Append(@, Len(log) + 1))]

\* Mutant of Announce: the event is written where the issue work is filed.
AnnounceIfLinked(r, type) ==
  IF req[r].linked
    THEN /\ events' = Append(events, [type |-> type, key |-> KeyOf(r),
                                      at |-> Len(log) + 1])
         /\ pc' = [pc EXCEPT ![r] = "file"]
         /\ req' = [req EXCEPT ![r].at = Len(log) + 1]
    ELSE Return(r) /\ UNCHANGED events

\* The event is part of the transaction, the issue work is not.
Announce(r, type) ==
  /\ events' = Append(events, [type |-> type, key |-> KeyOf(r),
                               at |-> Len(log) + 1])
  /\ IF req[r].linked
       THEN /\ pc' = [pc EXCEPT ![r] = "file"]
            /\ req' = [req EXCEPT ![r].at = Len(log) + 1]
       ELSE Return(r)

Create(r) ==
  LET k == KeyOf(r) IN
  /\ pc[r] = "ingest"
  /\ ~Exists(k) /\ ~OverLimit(r)
  /\ group' = [group EXCEPT ![k] =
                 Updated([NoGroup EXCEPT !.project = req[r].project], r, FALSE)]
  /\ Announce(r, "error.created")
  /\ Record("notice", k, req[r].project, req[r].revision, "created")
  /\ UNCHANGED <<live, linked, filed, crashes>>

Regressed(g, rev) ==
  /\ ~g.suppressed
  /\ g.acked
  /\ rev # NoRevision
  /\ rev # g.revision

Regress(r) ==
  LET k == KeyOf(r) IN
  /\ pc[r] = "ingest"
  /\ Exists(k) /\ Regressed(group[k], req[r].revision)
  /\ group' = [group EXCEPT ![k] = Updated(@, r, TRUE)]
  /\ Announce(r, "error.regressed")
  /\ Record("notice", k, req[r].project, req[r].revision, "regressed")
  /\ UNCHANGED <<live, linked, filed, crashes>>

Recur(r) ==
  LET k == KeyOf(r) IN
  /\ pc[r] = "ingest"
  /\ Exists(k) /\ ~Regressed(group[k], req[r].revision)
  /\ group' = [group EXCEPT ![k] = Updated(@, r, FALSE)]
  /\ Return(r)
  /\ Record("notice", k, req[r].project, req[r].revision, "stored")
  /\ UNCHANGED <<live, linked, events, filed, crashes>>

\* enqueueIssueJob after the commit, by what AppByToken read before it.
File(r) ==
  /\ pc[r] = "file"
  /\ filed' = Append(filed,
       [key |-> KeyOf(r), at |-> req[r].at,
        action |-> IF log[req[r].at].outcome = "created"
                     THEN "open" ELSE "reopen"])
  /\ Return(r)
  /\ UNCHANGED <<live, linked, group, events, log, crashes>>

\* The request is cancelled or the process dies: the transaction is rolled
\* back, or the issue work of a committed notice is never filed.
Abandon(r) ==
  /\ pc[r] # "idle"
  /\ crashes < MaxCrashes
  /\ crashes' = crashes + 1
  /\ Return(r)
  /\ UNCHANGED <<live, linked, group, events, filed, log>>

-----------------------------------------------------------------------------
(***************************************************************************)
(* Agent calls: single UPDATEs that read nothing first.                    *)
(***************************************************************************)

AgentCall(op, k, row) ==
  /\ Exists(k)
  /\ Len(log) < MaxLog
  /\ group' = [group EXCEPT ![k] = row]
  /\ Record(op, k, group[k].project, NoRevision, op)
  /\ UNCHANGED <<live, linked, events, filed, pc, req, crashes>>

Ack(k)        == AgentCall("ack", k, [group[k] EXCEPT !.acked = TRUE])
\* Mutant of Suppress: acked_at_unix is reset with it.
SuppressAndUnack(k) ==
  AgentCall("suppress", k, [group[k] EXCEPT !.suppressed = TRUE, !.acked = FALSE])

Suppress(k)   == AgentCall("suppress", k, [group[k] EXCEPT !.suppressed = TRUE])
Unsuppress(k) == AgentCall("unsuppress", k, [group[k] EXCEPT !.suppressed = FALSE])

\* The control plane archives, restores, revokes, links and unlinks.
SetLive(p) ==
  /\ live' = IF p \in live THEN live \ {p} ELSE live \union {p}
  /\ UNCHANGED <<linked, group, events, filed, pc, req, log, crashes>>

SetLinked(p) ==
  /\ linked' = IF p \in linked THEN linked \ {p} ELSE linked \union {p}
  /\ UNCHANGED <<live, group, events, filed, pc, req, log, crashes>>

Next ==
  \/ \E r \in Requests :
       \/ \E p \in Projects, f \in Prints, rev \in Revisions :
            Authenticate(r, p, f, rev)
       \/ Refuse(r) \/ Create(r) \/ Regress(r) \/ Recur(r) \/ File(r)
       \/ Abandon(r)
  \/ \E k \in Keys : Ack(k) \/ Suppress(k) \/ Unsuppress(k)
  \/ \E p \in Projects : SetLive(p) \/ SetLinked(p)

Spec == Init /\ [][Next]_vars

-----------------------------------------------------------------------------
(***************************************************************************)
(* Properties, most of them about the history.                             *)
(***************************************************************************)
Outcomes == {"created", "regressed", "stored"}
Entry == [op : {"notice", "ack", "suppress", "unsuppress"}, key : Keys,
          project : Projects, revision : Revisions,
          outcome : Outcomes \union {"ack", "suppress", "unsuppress"}]

TypeOK ==
  /\ live \subseteq Projects /\ linked \subseteq Projects
  /\ group \in [Keys -> [project : Projects, count : 0..(MaxLog + Cardinality(Requests)),
                         revision : Revisions, acked : BOOLEAN,
                         suppressed : BOOLEAN, notices : Seq(Nat)]]
  /\ pc \in [Requests -> {"idle", "ingest", "file"}]
  /\ log \in Seq(Entry)
  /\ crashes \in 0..MaxCrashes

NoticesOf(k) == {i \in DOMAIN log : log[i].op = "notice" /\ log[i].key = k}

\* The evidence an agent reads is the history: every accepted notice is
\* counted once, the newest Keep of them are retained in order, and the
\* last revision is that of the newest.
EvidenceIsHistory ==
  \A k \in Keys :
    LET all  == NoticesOf(k)
        kept == group[k].notices
    IN
    /\ group[k].count = Cardinality(all)
    /\ Len(kept) = IF group[k].count < Keep THEN group[k].count ELSE Keep
    /\ \A i, j \in DOMAIN kept : i < j => kept[i] < kept[j]
    /\ ToSet(kept) \subseteq all
    /\ \A n \in all \ ToSet(kept), m \in ToSet(kept) : n < m
    /\ \A n \in all : (\A m \in all : m <= n) => group[k].revision = log[n].revision

\* One acknowledgement answers for one regression: between two announcements
\* of a group (created or regressed) an agent acknowledged it.
RegressionNeedsAck ==
  \A i \in DOMAIN log : log[i].outcome = "regressed" =>
    \E a \in 1..(i - 1) :
      /\ log[a].op = "ack" /\ log[a].key = log[i].key
      /\ \A m \in (a + 1)..(i - 1) :
           ~(log[m].key = log[i].key /\ log[m].outcome = "regressed")

\* Every created or regressed group is announced exactly once, whatever
\* crashes: the event commits with the notice or not at all.
AnnouncedOnce ==
  \A i \in DOMAIN log :
    Cardinality({n \in DOMAIN events : events[n].at = i})
      = IF log[i].outcome \in {"created", "regressed"} THEN 1 ELSE 0

\* A group is acknowledged exactly when the last acknowledgement came after
\* the last regression.
AckedUntilRegression ==
  \A k \in Keys : group[k].acked <=>
    \E a \in DOMAIN log :
      /\ log[a].op = "ack" /\ log[a].key = k
      /\ \A m \in (a + 1)..Len(log) :
           ~(log[m].key = k /\ log[m].outcome = "regressed")

\* Notices are grouped within their project.  FALSE of the code: the group
\* is looked up by slug, and slugs are unique per account only.
GroupsWithinProject ==
  \A k \in Keys : \A n \in ToSet(group[k].notices) :
    log[n].project = group[k].project
=============================================================================
