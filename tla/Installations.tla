--------------------------- MODULE Installations ---------------------------
(***************************************************************************)
(* A GitHub App installation and the projects bound to its repositories:   *)
(* webhooks and sign-ins that bring GitHub's state into the store          *)
(* (internal/httpserver/auth_web.go) and the store's installation and      *)
(* binding operations (internal/inbox/control.go).                         *)
(*                                                                         *)
(* One action per SQL statement, transaction or GitHub call.  GitHub       *)
(* changes its state at any time and announces each change by a webhook.   *)
(***************************************************************************)
EXTENDS Naturals, Sequences, SequencesExt

CONSTANTS
  Users,       \* accounts
  Access,      \* the accounts GitHub lists the installation for
  Projects,    \* projects
  Owner,       \* Projects -> Users
  Repos,       \* repositories of the installation
  NoUser, NoRepo,
  Handlers,    \* HTTP handlers that may run at a time
  MaxChanges,  \* bound: changes on GitHub
  MaxFaults    \* bound: lost webhooks and failing calls or statements

ASSUME InstallationsAssumption ==
  /\ Access \subseteq Users /\ NoUser \notin Users /\ NoRepo \notin Repos
  /\ Owner \in [Projects -> Users]
  /\ MaxChanges \in Nat /\ MaxFaults \in Nat

VARIABLES
  ghStatus,   \* GitHub: "active", "suspended" or "deleted"
  ghRepos,    \* GitHub: the repositories the installation may use
  hooks,      \* webhooks under way
  status,     \* github_installations.status, "none" without a row
  user,       \* github_installations.user_id
  active,     \* github_repositories with active=1
  bound,      \* Projects -> apps.github_repository_id
  pc,         \* Handlers -> next statement or call
  arg,        \* Handlers -> what the request is about and has read
  changes, faults,
  proved,     \* history: accounts GitHub has listed the installation for
  granted,    \* history: repositories GitHub has ever granted
  calm        \* history: no two handlers and no two webhooks crossed

github == <<ghStatus, ghRepos, hooks, changes, granted>>
store  == <<status, user, active, bound>>
vars   == <<github, store, pc, arg, faults, proved, calm>>

Kinds    == {"suspend", "unsuspend", "deleted", "repositories"}
Statuses == {"active", "suspended", "deleted"}
NoArg    == [user |-> NoUser, status |-> "none", repos |-> {},
             project |-> CHOOSE p \in Projects : TRUE, repo |-> NoRepo]
PCs == {"idle", "setStatus", "clear", "findUser", "listInstallations",
        "installation", "repositories", "upsert",
        "readRepository", "bind"}

TypeOK ==
  /\ ghStatus \in Statuses /\ ghRepos \in SUBSET Repos
  /\ hooks \in Seq(Kinds)
  /\ status \in Statuses \union {"none"}
  /\ user \in Users \union {NoUser}
  /\ active \in SUBSET Repos
  /\ bound \in [Projects -> Repos \union {NoRepo}]
  /\ pc \in [Handlers -> PCs]
  /\ \A h \in Handlers :
       arg[h] \in [user : Users \union {NoUser}, status : Statuses \union {"none"},
                   repos : SUBSET Repos, project : Projects,
                   repo : Repos \union {NoRepo}]
  /\ changes \in 0..MaxChanges /\ faults \in 0..MaxFaults
  /\ proved \in SUBSET Users /\ granted \in SUBSET Repos /\ calm \in BOOLEAN

Init ==
  /\ ghStatus = "active" /\ ghRepos \in SUBSET Repos /\ hooks = <<>>
  /\ status = "none" /\ user = NoUser /\ active = {}
  /\ bound = [p \in Projects |-> NoRepo]
  /\ pc = [h \in Handlers |-> "idle"]
  /\ arg = [h \in Handlers |-> NoArg]
  /\ changes = 0 /\ faults = 0
  /\ proved = {} /\ granted = ghRepos /\ calm = TRUE

Goto(h, label) == pc' = [pc EXCEPT ![h] = label]

Leave(h) == Goto(h, "idle") /\ arg' = [arg EXCEPT ![h] = NoArg]

Alone == \A h \in Handlers : pc[h] = "idle"

Fault == faults < MaxFaults /\ faults' = faults + 1

-----------------------------------------------------------------------------
(***************************************************************************)
(* GitHub (external).                                                      *)
(***************************************************************************)
Announce(kind) ==
  /\ changes < MaxChanges /\ changes' = changes + 1
  /\ hooks' = Append(hooks, kind)
  /\ UNCHANGED <<store, pc, arg, faults, proved, calm>>

ChangeStatus ==
  /\ \/ ghStatus = "active" /\ ghStatus' = "suspended" /\ Announce("suspend")
     \/ ghStatus = "suspended" /\ ghStatus' = "active" /\ Announce("unsuspend")
     \/ ghStatus # "deleted" /\ ghStatus' = "deleted" /\ Announce("deleted")
  /\ UNCHANGED <<ghRepos, granted>>

ChangeRepositories ==
  /\ ghStatus # "deleted"
  /\ \E repos \in SUBSET Repos : /\ repos # ghRepos
                                 /\ ghRepos' = repos
                                 /\ granted' = granted \union repos
  /\ Announce("repositories")
  /\ UNCHANGED ghStatus

\* A webhook that is not answered is not repeated.
LoseHook ==
  /\ Fault
  /\ \E i \in 1..Len(hooks) : hooks' = RemoveAt(hooks, i)
  /\ UNCHANGED <<ghStatus, ghRepos, changes, granted, store, pc, arg, proved, calm>>

-----------------------------------------------------------------------------
(***************************************************************************)
(* githubWebhook and SetInstallationStatus.                                *)
(***************************************************************************)
Webhook(h) ==
  /\ pc[h] = "idle"
  /\ \E i \in 1..Len(hooks) :
       /\ hooks' = RemoveAt(hooks, i)
       /\ calm' = (calm /\ Alone /\ i = 1)
       /\ IF hooks[i] \in {"suspend", "deleted"}
            THEN /\ arg' = [arg EXCEPT ![h].status =
                              IF hooks[i] = "suspend" THEN "suspended" ELSE "deleted"]
                 /\ Goto(h, "setStatus")
            ELSE UNCHANGED arg /\ Goto(h, "findUser")
  /\ UNCHANGED <<ghStatus, ghRepos, changes, granted, store, faults, proved>>

\* Mutant of SetStatus: the projects stay bound.
SetStatusOnly(h) ==
  /\ pc[h] = "setStatus"
  /\ status' = IF status = "none" THEN "none" ELSE arg[h].status
  /\ Leave(h)
  /\ UNCHANGED <<github, user, active, bound, faults, proved, calm>>

SetStatus(h) ==
  /\ pc[h] = "setStatus"
  /\ \/ status = "none" /\ Leave(h) /\ UNCHANGED status
     \/ status # "none" /\ status' = arg[h].status
        /\ Goto(h, "clear") /\ UNCHANGED arg
  /\ UNCHANGED <<github, user, active, bound, faults, proved, calm>>

ClearBindings(h) ==
  /\ pc[h] = "clear"
  /\ bound' = [p \in Projects |-> NoRepo]
  /\ Leave(h)
  /\ UNCHANGED <<github, status, user, active, faults, proved, calm>>

\* InstallationUserID
FindUser(h) ==
  /\ pc[h] = "findUser"
  /\ \/ status = "none" /\ Leave(h)
     \/ status # "none" /\ arg' = [arg EXCEPT ![h].user = user]
        /\ Goto(h, "installation")
  /\ UNCHANGED <<github, store, faults, proved, calm>>

-----------------------------------------------------------------------------
(***************************************************************************)
(* finishInstallation and syncInstallation.                                *)
(***************************************************************************)
Connect(h) ==
  /\ pc[h] = "idle"
  /\ calm' = (calm /\ Alone)
  /\ \E u \in Users : arg' = [arg EXCEPT ![h].user = u]
  /\ Goto(h, "listInstallations")
  /\ UNCHANGED <<github, store, faults, proved>>

ListInstallations(h) ==
  /\ pc[h] = "listInstallations"
  /\ IF ghStatus # "deleted" /\ arg[h].user \in Access
       THEN /\ proved' = proved \union {arg[h].user}
            /\ Goto(h, "installation") /\ UNCHANGED arg
       ELSE UNCHANGED proved /\ Leave(h)
  /\ UNCHANGED <<github, store, faults, calm>>

GetInstallation(h) ==
  /\ pc[h] = "installation"
  /\ IF ghStatus = "deleted"
       THEN Leave(h)
       ELSE arg' = [arg EXCEPT ![h].status = ghStatus] /\ Goto(h, "repositories")
  /\ UNCHANGED <<github, store, faults, proved, calm>>

\* The installation token is refused unless the installation is active.
GetRepositories(h) ==
  /\ pc[h] = "repositories"
  /\ IF ghStatus # "active"
       THEN Leave(h)
       ELSE arg' = [arg EXCEPT ![h].repos = ghRepos] /\ Goto(h, "upsert")
  /\ UNCHANGED <<github, store, faults, proved, calm>>

\* UpsertInstallation, one transaction; the row moves to the user given.
Upsert(h) ==
  /\ pc[h] = "upsert"
  /\ status' = arg[h].status /\ user' = arg[h].user /\ active' = arg[h].repos
  /\ Leave(h)
  /\ UNCHANGED <<github, bound, faults, proved, calm>>

-----------------------------------------------------------------------------
(***************************************************************************)
(* BindProjectRepository and UnbindProjectRepository.                      *)
(***************************************************************************)

\* The project is found and not archived (see Projects).
StartBind(h) ==
  /\ pc[h] = "idle"
  /\ calm' = (calm /\ Alone)
  /\ \E p \in Projects, r \in Repos :
       arg' = [arg EXCEPT ![h].project = p, ![h].repo = r]
  /\ Goto(h, "readRepository")
  /\ UNCHANGED <<github, store, faults, proved>>

\* Mutant of ReadRepository: AND i.user_id=? is missing.
ReadAnyRepository(h) ==
  /\ pc[h] = "readRepository"
  /\ IF status = "active" /\ arg[h].repo \in active
       THEN Goto(h, "bind") /\ UNCHANGED arg ELSE Leave(h)
  /\ UNCHANGED <<github, store, faults, proved, calm>>

ReadRepository(h) ==
  /\ pc[h] = "readRepository"
  /\ IF status = "active" /\ arg[h].repo \in active
        /\ user = Owner[arg[h].project]
       THEN Goto(h, "bind") /\ UNCHANGED arg
       ELSE Leave(h)
  /\ UNCHANGED <<github, store, faults, proved, calm>>

Bind(h) ==
  /\ pc[h] = "bind"
  /\ bound' = [bound EXCEPT ![arg[h].project] = arg[h].repo]
  /\ Leave(h)
  /\ UNCHANGED <<github, status, user, active, faults, proved, calm>>

Unbind(p) ==
  /\ bound[p] # NoRepo
  /\ bound' = [bound EXCEPT ![p] = NoRepo]
  /\ UNCHANGED <<github, status, user, active, pc, arg, faults, proved, calm>>

\* A GitHub call or a statement fails, or the process dies.  The webhook is
\* answered all the same, or was already taken.
Fail(h) ==
  /\ pc[h] # "idle"
  /\ Fault
  /\ Leave(h)
  /\ UNCHANGED <<github, store, proved, calm>>

Step(h) ==
  \/ SetStatus(h) \/ ClearBindings(h) \/ FindUser(h)
  \/ ListInstallations(h) \/ GetInstallation(h) \/ GetRepositories(h) \/ Upsert(h)
  \/ ReadRepository(h) \/ Bind(h) \/ Fail(h)

Next ==
  \/ \E h \in Handlers : Webhook(h) \/ Connect(h) \/ StartBind(h) \/ Step(h)
  \/ \E p \in Projects : Unbind(p)
  \/ ChangeStatus \/ ChangeRepositories \/ LoseHook

Spec == Init /\ [][Next]_vars

-----------------------------------------------------------------------------
(***************************************************************************)
(* Properties.                                                             *)
(***************************************************************************)

\* Whatever webhooks, syncs and take-overs of the installation race, a
\* project is bound only to a repository that GitHub granted, and only if
\* its owner's access to the installation was confirmed by GitHub.
BoundByRight ==
  \A p \in Projects : bound[p] # NoRepo =>
    Owner[p] \in proved /\ bound[p] \in granted

Quiet == hooks = <<>> /\ faults = 0 /\ calm /\ Alone

\* As long as webhooks came in order, to one handler at a time, and nothing
\* failed, the store agrees with GitHub once the last webhook is done: the
\* status and the repositories are GitHub's, and nothing is bound to an
\* installation that may not be used.
InSync ==
  (Quiet /\ status # "none") =>
    /\ status = ghStatus
    /\ ghStatus = "active" => active = ghRepos
    /\ ghStatus # "active" => \A p \in Projects : bound[p] = NoRepo
=============================================================================
