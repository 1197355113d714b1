------------------------------ MODULE Startup ------------------------------
(***************************************************************************)
(* What a process does to the database before it listens, and what changes *)
(* the projects afterwards.  A start brings an old schema up to date       *)
(* (Store.initialize and ensureLegacyColumns, internal/inbox), assigns the *)
(* projects nobody owns (resolveLegacyOwner), writes the projects of the   *)
(* environment (UpsertApp) and clears their tokens (ClearLegacyTokens), in *)
(* the order of run (cmd/raises/main.go).                                  *)
(*                                                                         *)
(* Several processes may use one database: the one that serves, the one    *)
(* that a deploy starts beside it, and those of commands, which start the  *)
(* same way and end instead of listening (ProcessDies).  One action per    *)
(* statement; a process may die between any two, and the environment, the  *)
(* owner it names included, may differ at every start.                     *)
(***************************************************************************)
EXTENDS Naturals

CONSTANTS
  Processes,    \* processes that may use the database at a time
  Slugs,        \* slugs of projects, and names of APP_<name>_TOKEN
  Users,        \* users, those that INITIAL_OWNER_GITHUB_ID may name included
  Nobody,       \* owner_user_id 0
  Environment   \* maker of the projects that the environment configures

ASSUME StartupAssumption ==
  Nobody \notin Users /\ Environment \notin Users \union {Nobody}

Owners == Users \union {Nobody}
\* Apps.name: the slug of the environment, or "<user>:<slug>".
AppNames == (Owners \union {Environment}) \X Slugs
SlugOf(a) == a[2]
Columns  == {"apps.slug", "apps.project_id", "error_groups.project_id"}

Row == [owner : Owners, slug : BOOLEAN, project : BOOLEAN, token : BOOLEAN]

VARIABLES
  apps,      \* rows of apps by name; slug and project: filled in?
  schema,    \* columns added to an old schema, and the index of owner and slug
  groups,    \* apps with an error group in the old database
  linkedTo,  \* those whose groups have the project_id of their app
  users,     \* users that have signed in
  phase,     \* Processes -> next step of the process
  conf,      \* Processes -> the environment of its start, once it matters
  left,      \* Processes -> projects of the environment still to write
  legacyOwner, \* Processes -> result of resolveLegacyOwner
  signing,   \* Processes -> owner between UpsertGitHubUser and AssignLegacyProjects?
  late       \* history: Processes -> projects whose token its clearing missed

startupVars == <<apps, schema, groups, linkedTo, users, phase, conf, left,
                 legacyOwner, signing, late>>
database == <<apps, schema, groups, linkedTo, users>>
process  == <<conf, left, legacyOwner, signing, late>>

Confs == [owner : Owners, disable : BOOLEAN]
Unset == [owner |-> Nobody, disable |-> FALSE]
StartSteps == {"down", "columns", "projects", "slugs", "groups", "index",
               "owner", "assign", "upsert", "clear", "serving"}

StartupTypeOK ==
  /\ DOMAIN apps \subseteq AppNames
  /\ \A a \in DOMAIN apps : apps[a] \in Row
  /\ schema \subseteq Columns \union {"index"}
  /\ linkedTo \subseteq groups /\ groups \subseteq DOMAIN apps
  /\ users \subseteq Users
  /\ phase \in [Processes -> StartSteps]
  /\ conf \in [Processes -> Confs]
  /\ left \in [Processes -> SUBSET Slugs]
  /\ legacyOwner \in [Processes -> Owners]
  /\ signing \in [Processes -> BOOLEAN]
  /\ late \in [Processes -> SUBSET AppNames]

\* The old schema knew nothing but the projects of the environment.
OldRow == [owner |-> Nobody, slug |-> FALSE, project |-> FALSE, token |-> TRUE]

\* A new database or one of the old schema.
StartupInit ==
  /\ \E old \in SUBSET Slugs :
       /\ apps = [a \in {Environment} \X old |-> OldRow]
       /\ groups \in SUBSET DOMAIN apps
       /\ schema = IF old = {} THEN Columns ELSE {}
  /\ linkedTo = {} /\ users = {}
  /\ phase = [p \in Processes |-> "down"]
  /\ conf = [p \in Processes |-> Unset]
  /\ left = [p \in Processes |-> {}]
  /\ legacyOwner = [p \in Processes |-> Nobody]
  /\ signing = [p \in Processes |-> FALSE]
  /\ late = [p \in Processes |-> {}]

\* Mutants of After: the groups before their projects; the tokens are cleared
\* before they are written.
AfterGroupsFirst(step) ==
  CASE step = "columns" -> "groups" [] step = "groups" -> "projects"
    [] step = "projects" -> "slugs" [] step = "slugs" -> "index"
    [] step = "index" -> "owner"    [] step = "assign" -> "upsert"
    [] step = "upsert" -> "clear"   [] step = "clear" -> "serving"
AfterClearFirst(step) ==
  CASE step = "columns" -> "projects" [] step = "projects" -> "slugs"
    [] step = "slugs" -> "groups"     [] step = "groups" -> "index"
    [] step = "index" -> "owner"      [] step = "assign" -> "clear"
    [] step = "clear" -> "upsert"     [] step = "upsert" -> "serving"

\* The order of the steps.
After(step) ==
  CASE step = "columns" -> "projects" [] step = "projects" -> "slugs"
    [] step = "slugs" -> "groups"     [] step = "groups" -> "index"
    [] step = "index" -> "owner"      [] step = "assign" -> "upsert"
    [] step = "upsert" -> "clear"     [] step = "clear" -> "serving"

GoTo(p, step)  == phase' = [phase EXCEPT ![p] = step]
Begin(p, step) == phase[p] = step /\ GoTo(p, After(step)) /\ UNCHANGED process
SetAll(rows, field) == [a \in DOMAIN rows |-> [rows[a] EXCEPT ![field] = TRUE]]

-----------------------------------------------------------------------------
(***************************************************************************)
(* Store.initialize.                                                       *)
(***************************************************************************)
Start(p) ==
  /\ phase[p] = "down" /\ GoTo(p, "columns")
  /\ UNCHANGED <<database, process>>

\* The columns come in the order of a Go map.  The loser of two processes that
\* add the same one dies of it.
AddColumn(p, c) ==
  /\ phase[p] = "columns" /\ c \notin schema
  /\ schema' = schema \union {c}
  /\ UNCHANGED <<apps, groups, linkedTo, users, phase, process>>

ColumnsThere(p) ==
  /\ Columns \subseteq schema
  /\ Begin(p, "columns") /\ UNCHANGED database

FillProjects(p) ==
  /\ Begin(p, "projects")
  /\ apps' = SetAll(apps, "project")
  /\ UNCHANGED <<schema, groups, linkedTo, users>>

FillSlugs(p) ==
  /\ Begin(p, "slugs")
  /\ apps' = SetAll(apps, "slug")
  /\ UNCHANGED <<schema, groups, linkedTo, users>>

FillGroups(p) ==
  /\ Begin(p, "groups")
  /\ linkedTo' = linkedTo \union {a \in groups : apps[a].project}
  /\ UNCHANGED <<apps, schema, groups, users>>

CreateIndex(p) ==
  /\ Begin(p, "index")
  /\ schema' = schema \union {"index"}
  /\ UNCHANGED <<apps, groups, linkedTo, users>>

-----------------------------------------------------------------------------
(***************************************************************************)
(* The rest of the start.                                                  *)
(***************************************************************************)
Down(p) ==
  /\ GoTo(p, "down")
  /\ conf' = [conf EXCEPT ![p] = Unset]
  /\ left' = [left EXCEPT ![p] = {}]
  /\ legacyOwner' = [legacyOwner EXCEPT ![p] = Nobody]
  /\ signing' = [signing EXCEPT ![p] = FALSE]
  /\ late' = [late EXCEPT ![p] = {}]

\* The environment c of this start, with the projects `names`, is read before
\* the database is opened; here it first matters.
LookUpOwner(p) == \E c \in Confs, names \in SUBSET Slugs :
  /\ phase[p] = "owner"
  /\ conf' = [conf EXCEPT ![p] = c] /\ left' = [left EXCEPT ![p] = names]
  /\ IF c.owner \in users
       THEN GoTo(p, "assign") /\ legacyOwner' = [legacyOwner EXCEPT ![p] = c.owner]
       ELSE GoTo(p, "upsert") /\ UNCHANGED legacyOwner
  /\ UNCHANGED <<database, signing, late>>

\* ntfy needs an owner who has signed in, and the environment names another.
OwnerMissing(p) ==
  /\ phase[p] = "owner" /\ Users \ users # {}
  /\ Down(p) /\ UNCHANGED database

\* Mutant of Assigned: without its WHERE.
AssignedAll(rows, u) == [a \in DOMAIN rows |-> [rows[a] EXCEPT !.owner = u]]

\* The projects after AssignLegacyProjects.
Assigned(rows, u) ==
  [a \in DOMAIN rows |-> IF rows[a].owner = Nobody
     THEN [rows[a] EXCEPT !.owner = u] ELSE rows[a]]

\* The unique index accepts them; an unfilled slug is the empty one.
Unique(rows) == \A a, b \in DOMAIN rows :
  /\ a # b /\ rows[a].owner = rows[b].owner /\ rows[a].owner # Nobody
  /\ rows[a].slug = rows[b].slug
  => rows[a].slug /\ SlugOf(a) # SlugOf(b)

AssignLegacyProjects(p) ==
  LET owned == Assigned(apps, legacyOwner[p]) IN
  /\ Unique(owned)
  /\ Begin(p, "assign")
  /\ apps' = owned
  /\ UNCHANGED <<schema, groups, linkedTo, users>>

\* The single UPDATE fails, for all projects, and so does the start.
AssignFails(p) ==
  /\ phase[p] = "assign" /\ ~Unique(Assigned(apps, legacyOwner[p]))
  /\ Down(p) /\ UNCHANGED database

\* INSERT ... ON CONFLICT(name) DO UPDATE.
Written(rows, a) ==
  [n \in DOMAIN rows \union {a} |->
     IF n # a THEN rows[n]
     ELSE [owner |-> IF a \in DOMAIN rows THEN rows[a].owner ELSE Nobody,
           slug |-> TRUE, project |-> TRUE, token |-> TRUE]]

\* History: p has an owner and has assigned to it.
HasAssigned(p) ==
  phase[p] \in {"upsert", "clear", "serving"} /\ legacyOwner[p] # Nobody

UpsertApp(q, s) ==
  LET a == <<Environment, s>> IN
  /\ phase[q] = "upsert" /\ s \in left[q]
  /\ left' = [left EXCEPT ![q] = @ \ {s}]
  /\ apps' = Written(apps, a)
  /\ late' = [p \in Processes |->
       IF HasAssigned(p) /\ (p # q \/ a \notin DOMAIN apps)
         THEN late[p] \union {a} ELSE late[p]]
  /\ UNCHANGED <<schema, groups, linkedTo, users, phase, conf, legacyOwner,
                 signing>>

AppsWritten(p) == left[p] = {} /\ Begin(p, "upsert") /\ UNCHANGED database

\* Only the projects of this start's owner.
ClearLegacyTokens(p) ==
  /\ phase[p] = "clear" /\ GoTo(p, After("clear"))
  /\ apps' = [a \in DOMAIN apps |->
       IF conf[p].disable /\ legacyOwner[p] # Nobody /\ apps[a].owner = legacyOwner[p]
         THEN [apps[a] EXCEPT !.token = FALSE] ELSE apps[a]]
  /\ late' = [late EXCEPT ![p] = {a \in DOMAIN apps \intersect @ : apps[a].owner = Nobody}]
  /\ UNCHANGED <<schema, groups, linkedTo, users, conf, left, legacyOwner, signing>>

-----------------------------------------------------------------------------
(***************************************************************************)
(* Requests.                                                               *)
(***************************************************************************)

\* finishGitHubAuth: UpsertGitHubUser, then AssignLegacyProjects for the
\* initial owner of the process that answers, whose error is ignored.
SignIn(p, u) ==
  /\ phase[p] = "serving" /\ ~signing[p]
  /\ users' = users \union {u}
  /\ signing' = [signing EXCEPT ![p] = (u = conf[p].owner)]
  /\ UNCHANGED <<apps, schema, groups, linkedTo, phase, conf, left, legacyOwner,
                 late>>

SignInAssigns(p) ==
  LET owned == Assigned(apps, conf[p].owner) IN
  /\ phase[p] = "serving" /\ signing[p]
  /\ signing' = [signing EXCEPT ![p] = FALSE]
  /\ apps' = IF Unique(owned) THEN owned ELSE apps
  /\ UNCHANGED <<schema, groups, linkedTo, users, phase, conf, left, legacyOwner,
                 late>>

\* By a user who has signed in, or with AGENT_TOKEN for the legacy owner, who
\* is user 0 as long as the process has not found one.
CreateProject(p, u, s) ==
  LET a    == <<u, s>>
      more == [n \in DOMAIN apps \union {a} |-> IF n # a THEN apps[n]
                 ELSE [owner |-> u, slug |-> TRUE, project |-> TRUE, token |-> FALSE]]
  IN
  /\ phase[p] = "serving" /\ u \in users \union {legacyOwner[p]}
  /\ a \notin DOMAIN apps /\ Unique(more)
  /\ apps' = more
  /\ UNCHANGED <<schema, groups, linkedTo, users, phase, process>>

\* The process dies, fails at something that is not modelled, or was a command.
ProcessDies(p) ==
  /\ phase[p] # "down"
  /\ Down(p) /\ UNCHANGED database

Initialize(p) == \/ (\E c \in Columns : AddColumn(p, c)) \/ ColumnsThere(p)
                 \/ FillProjects(p) \/ FillSlugs(p) \/ FillGroups(p) \/ CreateIndex(p)

StartupNext == \E p \in Processes :
  \/ Start(p) \/ Initialize(p)
  \/ LookUpOwner(p) \/ OwnerMissing(p) \/ AssignLegacyProjects(p) \/ AssignFails(p)
  \/ (\E s \in Slugs : UpsertApp(p, s)) \/ AppsWritten(p) \/ ClearLegacyTokens(p)
  \/ (\E u \in Users : SignIn(p, u)) \/ SignInAssigns(p)
  \/ (\E u \in Owners, s \in Slugs : CreateProject(p, u, s))
  \/ ProcessDies(p)

StartupSpec == StartupInit /\ [][StartupNext]_startupVars

-----------------------------------------------------------------------------
(***************************************************************************)
(* Properties.                                                             *)
(***************************************************************************)

\* When a server listens, an old database is as complete as a new one,
\* wherever earlier starts died and whatever other processes do: every project
\* has its identity and slug, and every old group its project.
MigrationCompletes ==
  (\E p \in Processes : phase[p] = "serving") =>
    /\ \A a \in DOMAIN apps : apps[a].slug /\ apps[a].project
    /\ linkedTo = groups

\* Starts side by side, restarts, edited environments, other initial owners
\* and sign-ins never take a project from the account that owns it.
OwnedStays == [][\A a \in DOMAIN apps :
  apps[a].owner # Nobody => apps'[a].owner = apps[a].owner]_startupVars

\* What DISABLE_LEGACY_TOKENS does for the owner a serving process has found:
\* no token of the environment gives access to a project of that owner, except
\* one that was written after this process cleared them, by another process,
\* or whose project was inserted after this process assigned and belonged to
\* nobody when it cleared.  It says nothing of projects of other users, such
\* as the owner of an earlier start: ClearLegacyTokens leaves those alone.
LegacyTokensGone ==
  \A p \in Processes :
    phase[p] = "serving" /\ conf[p].disable /\ legacyOwner[p] # Nobody =>
      \A a \in DOMAIN apps :
        apps[a].owner = legacyOwner[p] /\ apps[a].token => a \in late[p]
=============================================================================
