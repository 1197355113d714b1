------------------------------ MODULE Projects ------------------------------
(***************************************************************************)
(* Projects and ingestion tokens of one account (internal/inbox/control.go *)
(* behind internal/httpserver/control_api.go): their limits are counted by *)
(* one statement and used up by a later one, outside any transaction.      *)
(*                                                                         *)
(* One action per SQL statement.  A project is identified by its slug,     *)
(* which is unique within the account.  Two things escape the count: every *)
(* start and every sign-in of the initial owner assigns the account all    *)
(* projects nobody owns, and a process that found the initial owner at its *)
(* start exempts that account.  Processes started with different           *)
(* environments may serve side by side, so each count is exempt or not.    *)
(***************************************************************************)
EXTENDS Naturals, FiniteSets

CONSTANTS
  Slugs,      \* slugs of the account's projects
  Tokens,     \* ingestion tokens that may be created
  Handlers,   \* HTTP handlers that may run at a time
  MaxActive,  \* MaxActiveProjects (5)
  MaxTokens   \* MaxActiveProjectTokens (3)

ASSUME ProjectsAssumption ==
  /\ IsFiniteSet(Slugs) /\ IsFiniteSet(Tokens) /\ IsFiniteSet(Handlers)
  /\ Handlers # {} /\ Slugs # {}
  /\ MaxActive \in Nat \ {0} /\ MaxTokens \in Nat \ {0}

VARIABLES
  project,  \* Slugs -> "none", "active" or "archived"
  token,    \* Tokens -> "none", "active" or "revoked"
  of,       \* Tokens -> the project the token was created for
  pc,       \* Handlers -> next statement
  arg,      \* Handlers -> the project of the request
  exempt,   \* history: Handlers -> was it let through at the limit?
  waived    \* history: projects that ever became active without a count

vars == <<project, token, of, pc, arg, exempt, waived>>

PCs == {"idle", "createCount", "createInsert", "restoreRead", "restoreCount",
        "restoreWrite", "archiveRead", "archiveWrite",
        "tokenRead", "tokenCount", "tokenInsert"}

SomeSlug == CHOOSE s \in Slugs : TRUE

TypeOK ==
  /\ project \in [Slugs -> {"none", "active", "archived"}]
  /\ token \in [Tokens -> {"none", "active", "revoked"}]
  /\ of \in [Tokens -> Slugs]
  /\ pc \in [Handlers -> PCs]
  /\ arg \in [Handlers -> Slugs]
  /\ exempt \in [Handlers -> BOOLEAN]
  /\ waived \subseteq Slugs

Init ==
  /\ project = [s \in Slugs |-> "none"]
  /\ token = [t \in Tokens |-> "none"]
  /\ of = [t \in Tokens |-> SomeSlug]
  /\ pc = [h \in Handlers |-> "idle"]
  /\ arg = [h \in Handlers |-> SomeSlug]
  /\ exempt = [h \in Handlers |-> FALSE]
  /\ waived = {}

Active         == {s \in Slugs : project[s] = "active"}
ActiveTokens(s) == {t \in Tokens : token[t] = "active" /\ of[t] = s}

LimitReached == Cardinality(Active) >= MaxActive

Goto(h, label) == pc' = [pc EXCEPT ![h] = label]

Proceed(h, label) == Goto(h, label) /\ UNCHANGED <<arg, exempt>>

Leave(h) ==
  /\ Goto(h, "idle")
  /\ arg' = [arg EXCEPT ![h] = SomeSlug]
  /\ exempt' = [exempt EXCEPT ![h] = FALSE]

\* projectLimitReached: at the limit only a process that exempts the account
\* (ConfigureUnlimitedProjects at its start) goes on.
CountProjects(h, label) ==
  \/ ~LimitReached /\ Proceed(h, label)
  \/ LimitReached /\ Leave(h)
  \/ /\ LimitReached /\ Goto(h, label)
     /\ exempt' = [exempt EXCEPT ![h] = TRUE] /\ UNCHANGED arg

\* Handler h makes its project active.
Activate(h) ==
  /\ project' = [project EXCEPT ![arg[h]] = "active"]
  /\ waived' = IF exempt[h] THEN waived \union ({arg[h]} \ Active) ELSE waived

-----------------------------------------------------------------------------
\* A request for project s begins.
Request(h, s) ==
  /\ pc[h] = "idle"
  /\ \E label \in {"createCount", "restoreRead", "archiveRead", "tokenRead"} :
       Goto(h, label)
  /\ arg' = [arg EXCEPT ![h] = s]
  /\ UNCHANGED <<project, token, of, exempt, waived>>

CreateCount(h) ==
  /\ pc[h] = "createCount"
  /\ CountProjects(h, "createInsert")
  /\ UNCHANGED <<project, token, of, waived>>

\* The index on owner and slug is unique: a second INSERT fails.
CreateInsert(h) ==
  /\ pc[h] = "createInsert"
  /\ IF project[arg[h]] = "none" THEN Activate(h) ELSE UNCHANGED <<project, waived>>
  /\ Leave(h)
  /\ UNCHANGED <<token, of>>

\* SetProjectArchived(false): only a project it finds archived is counted.
RestoreRead(h) ==
  /\ pc[h] = "restoreRead"
  /\ \/ project[arg[h]] = "none" /\ Leave(h)
     \/ project[arg[h]] = "archived" /\ Proceed(h, "restoreCount")
     \/ project[arg[h]] = "active" /\ Proceed(h, "restoreWrite")
  /\ UNCHANGED <<project, token, of, waived>>

\* Mutant of RestoreCount: restoring is not limited at all.
RestoreFreely(h) ==
  /\ pc[h] = "restoreCount"
  /\ Proceed(h, "restoreWrite")
  /\ UNCHANGED <<project, token, of, waived>>

RestoreCount(h) ==
  /\ pc[h] = "restoreCount"
  /\ CountProjects(h, "restoreWrite")
  /\ UNCHANGED <<project, token, of, waived>>

RestoreWrite(h) ==
  /\ pc[h] = "restoreWrite"
  /\ Activate(h)
  /\ Leave(h)
  /\ UNCHANGED <<token, of>>

\* SetProjectArchived(true).
ArchiveRead(h) ==
  /\ pc[h] = "archiveRead"
  /\ IF project[arg[h]] = "none" THEN Leave(h)
                                 ELSE Proceed(h, "archiveWrite")
  /\ UNCHANGED <<project, token, of, waived>>

ArchiveWrite(h) ==
  /\ pc[h] = "archiveWrite"
  /\ project' = [project EXCEPT ![arg[h]] = "archived"]
  /\ Leave(h)
  /\ UNCHANGED <<token, of, waived>>

\* CreateProjectToken.
TokenRead(h) ==
  /\ pc[h] = "tokenRead"
  /\ IF project[arg[h]] = "active" THEN Proceed(h, "tokenCount")
                                   ELSE Leave(h)
  /\ UNCHANGED <<project, token, of, waived>>

TokenCount(h) ==
  /\ pc[h] = "tokenCount"
  /\ IF Cardinality(ActiveTokens(arg[h])) >= MaxTokens
       THEN Leave(h) ELSE Proceed(h, "tokenInsert")
  /\ UNCHANGED <<project, token, of, waived>>

TokenInsert(h) ==
  /\ pc[h] = "tokenInsert"
  /\ \E t \in Tokens :
       /\ token[t] = "none"
       /\ token' = [token EXCEPT ![t] = "active"]
       /\ of' = [of EXCEPT ![t] = arg[h]]
  /\ Leave(h)
  /\ UNCHANGED <<project, waived>>

\* RevokeProjectToken: projects are never deleted, so its UPDATE decides.
RevokeToken(t) ==
  /\ token[t] = "active"
  /\ token' = [token EXCEPT ![t] = "revoked"]
  /\ UNCHANGED <<project, of, pc, arg, exempt, waived>>

\* AssignLegacyProjects, at a start or a sign-in of the initial owner: all
\* projects nobody owns become the account's, active or archived as they are.
\* (The index lets none in whose slug the account uses: see Startup.)
AssignLegacyProjects ==
  \E S \in SUBSET {s \in Slugs : project[s] = "none"} : \E A \in SUBSET S :
    /\ project' = [s \in Slugs |-> IF s \in A THEN "active"
                                  ELSE IF s \in S THEN "archived" ELSE project[s]]
    /\ waived' = waived \union S
    /\ UNCHANGED <<token, of, pc, arg, exempt>>

\* A statement fails, the client goes away or the process dies.
Abandon(h) ==
  /\ pc[h] # "idle"
  /\ Leave(h)
  /\ UNCHANGED <<project, token, of, waived>>

Step(h) ==
  \/ CreateCount(h) \/ CreateInsert(h)
  \/ RestoreRead(h) \/ RestoreCount(h) \/ RestoreWrite(h)
  \/ ArchiveRead(h) \/ ArchiveWrite(h)
  \/ TokenRead(h) \/ TokenCount(h) \/ TokenInsert(h)
  \/ Abandon(h)

Next == \/ \E h \in Handlers : Step(h) \/ \E s \in Slugs : Request(h, s)
        \/ \E t \in Tokens : RevokeToken(t)
        \/ AssignLegacyProjects

Spec == Init /\ [][Next]_vars

-----------------------------------------------------------------------------
(***************************************************************************)
(* Properties.                                                             *)
(***************************************************************************)

\* Handlers that counted before another one inserted can overshoot a limit,
\* of active projects or of the active tokens of a project, but by less than
\* one per handler.  With one handler at a time these are the limits.  The
\* projects an account was ever given without a count, by an assignment or
\* by a process that exempts it, come on top, however many they are.
LimitsOvershoot ==
  /\ Cardinality(Active \ waived) < MaxActive + Cardinality(Handlers)
  /\ \A s \in Slugs :
       Cardinality(ActiveTokens(s)) < MaxTokens + Cardinality(Handlers)
=============================================================================
