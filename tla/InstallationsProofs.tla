------------------------ MODULE InstallationsProofs ------------------------
(***************************************************************************)
(* Proofs about Installations for all accounts, projects, repositories,    *)
(* handlers, changes and faults.                                           *)
(***************************************************************************)
EXTENDS Installations, SequenceTheorems, TLAPS

-----------------------------------------------------------------------------
(***************************************************************************)
(* Types.                                                                  *)
(***************************************************************************)
Arg == [user : Users \union {NoUser}, status : Statuses \union {"none"},
        repos : SUBSET Repos, project : Projects \union {NoArg.project},
        repo : Repos \union {NoRepo}]

LocalType == pc \in [Handlers -> PCs] /\ arg \in [Handlers -> Arg]

StoreType ==
  /\ status \in Statuses \union {"none"} /\ user \in Users \union {NoUser}
  /\ active \in SUBSET Repos
  /\ bound \in [Projects -> Repos \union {NoRepo}]

GitHubType ==
  /\ ghStatus \in Statuses /\ ghRepos \in SUBSET Repos
  /\ hooks \in Seq(Kinds)

TypeInv == LocalType /\ StoreType /\ GitHubType /\ faults \in Nat

LEMMA NoArgType == NoArg \in Arg
BY DEF NoArg, Arg

\* One field of what a handler knows is set.
LEMMA SetArg ==
  ASSUME NEW a \in Arg
  PROVE  /\ \A u \in Users \union {NoUser} :
              /\ [a EXCEPT !.user = u] \in Arg
              /\ [a EXCEPT !.user = u].user = u
         /\ \A s \in Statuses \union {"none"} :
              /\ [a EXCEPT !.status = s] \in Arg
              /\ [a EXCEPT !.status = s].status = s
              /\ [a EXCEPT !.status = s].user = a.user
         /\ \A r \in SUBSET Repos :
              /\ [a EXCEPT !.repos = r] \in Arg
              /\ [a EXCEPT !.repos = r].repos = r
              /\ [a EXCEPT !.repos = r].status = a.status
              /\ [a EXCEPT !.repos = r].user = a.user
<1>1. ASSUME NEW u \in Users \union {NoUser}
      PROVE  /\ [a EXCEPT !.user = u] \in Arg
             /\ [a EXCEPT !.user = u].user = u
  BY DEF Arg
<1>2. ASSUME NEW s \in Statuses \union {"none"}
      PROVE  /\ [a EXCEPT !.status = s] \in Arg
             /\ [a EXCEPT !.status = s].status = s
             /\ [a EXCEPT !.status = s].user = a.user
  BY DEF Arg
<1>3. ASSUME NEW r \in SUBSET Repos
      PROVE  /\ [a EXCEPT !.repos = r] \in Arg
             /\ [a EXCEPT !.repos = r].repos = r
             /\ [a EXCEPT !.repos = r].status = a.status
             /\ [a EXCEPT !.repos = r].user = a.user
  BY DEF Arg
<1> QED
  BY <1>1, <1>2, <1>3

LEMMA SetBinding ==
  ASSUME NEW a \in Arg, NEW p \in Projects, NEW r \in Repos
  PROVE  /\ [a EXCEPT !.project = p, !.repo = r] \in Arg
         /\ [a EXCEPT !.project = p, !.repo = r].project = p
         /\ [a EXCEPT !.project = p, !.repo = r].repo = r
<1> DEFINE b == [a EXCEPT !.project = p]
<1>1. b \in Arg /\ b.project = p
  BY DEF Arg
<1> HIDE DEF b
<1>2. [b EXCEPT !.repo = r] \in Arg /\ [b EXCEPT !.repo = r].project = p
      /\ [b EXCEPT !.repo = r].repo = r
  BY <1>1 DEF Arg
<1> QED
  BY <1>2 DEF b

\* A webhook is taken out of the queue.
LEMMA HookRemoved ==
  ASSUME hooks \in Seq(Kinds), NEW i \in 1..Len(hooks)
  PROVE  /\ RemoveAt(hooks, i) \in Seq(Kinds)
         /\ Len(RemoveAt(hooks, i)) = Len(hooks) - 1
         /\ i = 1 => \A j \in 1..(Len(hooks) - 1) : RemoveAt(hooks, i)[j] = hooks[j + 1]
<1> DEFINE s == SubSeq(hooks, 1, i - 1)
           t == SubSeq(hooks, i + 1, Len(hooks))
<1>1. Len(hooks) \in Nat /\ \A j \in 1..Len(hooks) : hooks[j] \in Kinds
  BY LenProperties, ElementOfSeq
<1>2. /\ s \in Seq(Kinds) /\ Len(s) = i - 1
      /\ t \in Seq(Kinds) /\ Len(t) = Len(hooks) - i
      /\ \A j \in 1..(Len(hooks) - i) : t[j] = hooks[i + j]
  <2>1. s \in Seq(Kinds) /\ Len(s) = i - 1
    BY <1>1, SubSeqProperties
  <2>2. t \in Seq(Kinds) /\ Len(t) = Len(hooks) - i
    BY <1>1, SubSeqProperties
  <2>3. \A j \in 1..(Len(hooks) - i) : t[j] = hooks[i + j]
    BY <1>1, SubSeqProperties
  <2> QED
    BY <2>1, <2>2, <2>3
<1> HIDE DEF s, t
<1>3. /\ s \o t \in Seq(Kinds) /\ Len(s \o t) = Len(hooks) - 1
      /\ i = 1 => \A j \in 1..(Len(hooks) - 1) : (s \o t)[j] = hooks[j + 1]
  <2>1. /\ s \o t \in Seq(Kinds) /\ Len(s \o t) = Len(s) + Len(t)
        /\ \A j \in 1..(Len(s) + Len(t)) :
             (s \o t)[j] = IF j <= Len(s) THEN s[j] ELSE t[j - Len(s)]
    BY ONLY <1>2, ConcatProperties
  <2>2. Len(s) + Len(t) = Len(hooks) - 1
    BY <1>1, <1>2
  <2>3. ASSUME i = 1, NEW j \in 1..(Len(hooks) - 1) PROVE (s \o t)[j] = hooks[j + 1]
    <3>1. Len(s) = 0 /\ j \in 1..(Len(s) + Len(t)) /\ ~(j <= Len(s)) /\ j - Len(s) = j
      BY <1>1, <1>2, <2>2, <2>3
    <3>2. (s \o t)[j] = t[j]
      BY <2>1, <3>1
    <3>3. t[j] = hooks[1 + j] /\ 1 + j = j + 1
      BY <1>1, <1>2, <2>3
    <3> QED
      BY <3>2, <3>3
  <2> QED
    BY <2>1, <2>2, <2>3
<1> QED
  BY <1>3 DEF RemoveAt, s, t

LEMMA TypeInit == Init => TypeInv
<1> SUFFICES ASSUME Init PROVE TypeInv
  OBVIOUS
<1>1. LocalType
  BY NoArgType DEF Init, LocalType, PCs
<1>2. hooks \in Seq(Kinds)
  BY EmptySeq DEF Init
<1> QED
  BY <1>1, <1>2 DEF Init, TypeInv, StoreType, GitHubType, Statuses
-----------------------------------------------------------------------------
(***************************************************************************)
(* The invariants.                                                         *)
(***************************************************************************)

\* What a project is bound to, and what may still be bound or stored, was
\* granted by GitHub, and GitHub has listed the installation for its owner.
HandRight(h) ==
  /\ pc[h] \in {"installation", "repositories", "upsert"} => arg[h].user \in proved
  /\ pc[h] = "upsert" => arg[h].repos \subseteq granted
  /\ pc[h] = "bind" => Owner[arg[h].project] \in proved /\ arg[h].repo \in granted

RightInv ==
  /\ ghRepos \subseteq granted /\ active \subseteq granted
  /\ status # "none" => user \in proved
  /\ \A h \in Handlers : HandRight(h)
  /\ BoundByRight

StatusKinds == {"suspend", "unsuspend", "deleted"}

\* The webhook that announced GitHub's present status.
KindOf(s) == CASE s = "suspended" -> "suspend"
               [] s = "deleted"   -> "deleted"
               [] OTHER           -> "unsuspend"

\* A status, or repositories, are still to be announced.
StatusAwaited == \E i \in DOMAIN hooks : hooks[i] \in StatusKinds
ReposAwaited  == \E i \in DOMAIN hooks : hooks[i] \in {"unsuspend", "repositories"}

\* Some handler is at one of these statements.
At(labels) == \E h \in Handlers : pc[h] \in labels

Syncing == {"findUser", "installation", "repositories"}

\* One handler at a time.
OneAtATime ==
  \A h, k \in Handlers : pc[h] # "idle" /\ pc[k] # "idle" => h = k

\* The last announcement of a status is of the present one.
LastIsPresent ==
  \A i \in DOMAIN hooks :
    (hooks[i] \in StatusKinds /\ \A j \in DOMAIN hooks : i < j => hooks[j] \notin StatusKinds)
      => hooks[i] = KindOf(ghStatus)

\* When no status is awaited, the store has it, or a handler brings it.
StatusAgrees ==
  /\ status # "none" /\ ~At({"setStatus", "upsert"} \union Syncing) => status = ghStatus
  /\ status # "none" /\ At(Syncing) => status = ghStatus \/ ghStatus = "active"
  /\ \A h \in Handlers :
       /\ pc[h] \in {"setStatus", "clear", "repositories", "upsert"} =>
            arg[h].status = ghStatus
       /\ pc[h] \in {"upsert", "bind"} => ghStatus = "active"

\* Likewise for the repositories of an active installation.
ReposAgree ==
  /\ status # "none" /\ ~At({"upsert"} \union Syncing) => active = ghRepos
  /\ \A h \in Handlers : pc[h] = "upsert" => arg[h].repos = ghRepos

\* Likewise for the bindings of one that may not be used.
NothingBound ==
  status # "none" /\ ~At({"setStatus", "clear"}) => \A p \in Projects : bound[p] = NoRepo

Agreement ==
  /\ ~StatusAwaited => StatusAgrees
  /\ ~ReposAwaited /\ ghStatus = "active" => ReposAgree
  /\ ~StatusAwaited /\ ghStatus # "active" => NothingBound

SyncInv ==
  calm /\ faults = 0 => OneAtATime /\ LastIsPresent /\ Agreement

-----------------------------------------------------------------------------
(***************************************************************************)
(* The types are inductive.                                                *)
(***************************************************************************)
LEMMA LeaveType ==
  ASSUME LocalType, NEW h \in Handlers, Leave(h) PROVE LocalType'
BY NoArgType DEF LocalType, Leave, Goto, PCs

LEMMA HandlerType ==
  ASSUME TypeInv, NEW h \in Handlers, Connect(h) \/ StartBind(h) \/ Step(h)
  PROVE  LocalType'
<1>0. LocalType /\ arg[h] \in Arg /\ ghStatus \in Statuses /\ ghRepos \in SUBSET Repos
      /\ user \in Users \union {NoUser}
  BY DEF TypeInv, LocalType, GitHubType, StoreType
<1>1. CASE Connect(h)
  <2> PICK u \in Users : arg' = [arg EXCEPT ![h].user = u]
    BY <1>1 DEF Connect
  <2> QED
    BY <1>0, <1>1, SetArg DEF Connect, Goto, LocalType, PCs
<1>2. CASE StartBind(h)
  <2> PICK p \in Projects, r \in Repos :
        arg' = [arg EXCEPT ![h].project = p, ![h].repo = r]
    BY <1>2 DEF StartBind
  <2>1. arg' = [arg EXCEPT ![h] = [@ EXCEPT !.project = p, !.repo = r]]
    BY <1>0 DEF LocalType
  <2>2. [arg[h] EXCEPT !.project = p, !.repo = r] \in Arg
    BY <1>0, SetBinding
  <2>3. arg' \in [Handlers -> Arg]
    BY <1>0, <2>1, <2>2 DEF LocalType
  <2>4. pc' \in [Handlers -> PCs]
    BY <1>0, <1>2 DEF StartBind, Goto, LocalType, PCs
  <2> QED
    BY <2>3, <2>4 DEF LocalType
<1>3. CASE SetStatus(h) \/ ClearBindings(h) \/ Upsert(h) \/ Bind(h) \/ Fail(h)
  BY <1>0, <1>3, LeaveType DEF SetStatus, ClearBindings, Upsert, Bind, Fail, Goto, LocalType, PCs
<1>4. CASE FindUser(h)
  BY <1>0, <1>4, LeaveType, SetArg DEF FindUser, Goto, LocalType, PCs
<1>5. CASE ListInstallations(h) \/ ReadRepository(h)
  BY <1>0, <1>5, LeaveType DEF ListInstallations, ReadRepository, Goto, LocalType, PCs
<1>6. CASE GetInstallation(h)
  BY <1>0, <1>6, LeaveType, SetArg DEF GetInstallation, Goto, LocalType, PCs
<1>7. CASE GetRepositories(h)
  <2>1. CASE Leave(h)
    BY <1>0, <2>1, LeaveType
  <2>2. CASE arg' = [arg EXCEPT ![h].repos = ghRepos] /\ Goto(h, "upsert")
    <3>1. [arg[h] EXCEPT !.repos = ghRepos] \in Arg
      BY <1>0, SetArg
    <3>2. arg' \in [Handlers -> Arg]
      BY <1>0, <2>2, <3>1 DEF LocalType
    <3> QED
      BY <1>0, <2>2, <3>2 DEF Goto, LocalType, PCs
  <2> QED
    BY <1>7, <2>1, <2>2 DEF GetRepositories
<1> QED
  BY <1>1, <1>2, <1>3, <1>4, <1>5, <1>6, <1>7 DEF Step

LEMMA WebhookType ==
  ASSUME TypeInv, NEW h \in Handlers, Webhook(h)
  PROVE  LocalType' /\ hooks' \in Seq(Kinds)
<1>0. LocalType /\ arg[h] \in Arg /\ hooks \in Seq(Kinds)
  BY DEF TypeInv, LocalType, GitHubType
<1>1. hooks' \in Seq(Kinds)
  BY <1>0, HookRemoved DEF Webhook
<1>2. /\ pc' \in [Handlers -> PCs]
      /\ \/ UNCHANGED arg
         \/ \E s \in {"suspended", "deleted"} : arg' = [arg EXCEPT ![h].status = s]
  BY <1>0 DEF Webhook, Goto, LocalType, PCs
<1>3. arg' \in [Handlers -> Arg]
  <2>1. ASSUME NEW s \in {"suspended", "deleted"}, arg' = [arg EXCEPT ![h].status = s]
        PROVE  arg' \in [Handlers -> Arg]
    <3>1. [arg[h] EXCEPT !.status = s] \in Arg
      BY <1>0, SetArg DEF Statuses
    <3> QED
      BY <1>0, <2>1, <3>1 DEF LocalType
  <2> QED
    BY <1>0, <1>2, <2>1 DEF LocalType
<1> QED
  BY <1>1, <1>2, <1>3 DEF LocalType

LEMMA StoreStepType == TypeInv /\ [Next]_vars => StoreType'
<1> SUFFICES ASSUME TypeInv, [Next]_vars PROVE StoreType'
  OBVIOUS
<1> USE DEF StoreType
<1>0. StoreType /\ LocalType
  BY DEF TypeInv
<1>1. CASE UNCHANGED store
  BY <1>0, <1>1 DEF store
<1>2. ASSUME NEW h \in Handlers, SetStatus(h) \/ ClearBindings(h) \/ Upsert(h) \/ Bind(h)
      PROVE  StoreType'
  <2>1. arg[h] \in Arg
    BY <1>0 DEF LocalType
  <2> QED
    BY <1>0, <1>2, <2>1 DEF SetStatus, ClearBindings, Upsert, Bind, Arg
<1>3. ASSUME NEW p \in Projects, Unbind(p) PROVE StoreType'
  BY <1>0, <1>3 DEF Unbind
<1> QED
  BY <1>1, <1>2, <1>3
     DEF Next, Step, Webhook, Connect, StartBind, FindUser, ListInstallations, GetInstallation,
         GetRepositories, ReadRepository, Fail, ChangeStatus, ChangeRepositories, Announce,
         LoseHook, vars, store

LEMMA TypeStep == TypeInv /\ [Next]_vars => TypeInv'
<1> SUFFICES ASSUME TypeInv, [Next]_vars PROVE TypeInv'
  OBVIOUS
<1>0. LocalType /\ GitHubType /\ faults \in Nat
  BY DEF TypeInv
<1>1. LocalType'
  <2>1. CASE UNCHANGED <<pc, arg>>
    BY <1>0, <2>1 DEF LocalType
  <2> QED
    BY <2>1, HandlerType, WebhookType
       DEF Next, Unbind, ChangeStatus, ChangeRepositories, Announce, LoseHook, vars
<1>2. GitHubType'
  <2>1. CASE UNCHANGED github
    BY <1>0, <2>1 DEF GitHubType, github
  <2>2. ASSUME NEW h \in Handlers, Webhook(h) PROVE GitHubType'
    BY <1>0, <2>2, WebhookType DEF Webhook, GitHubType
  <2>3. ASSUME NEW kind \in Kinds, Announce(kind) PROVE hooks' \in Seq(Kinds)
    BY <1>0, <2>3, AppendProperties DEF Announce, GitHubType
  <2>4. CASE ChangeStatus
    BY <1>0, <2>3, <2>4 DEF ChangeStatus, GitHubType, Statuses, Kinds
  <2>5. CASE ChangeRepositories
    BY <1>0, <2>3, <2>5 DEF ChangeRepositories, GitHubType, Kinds
  <2>6. CASE LoseHook
    BY <1>0, <2>6, HookRemoved DEF LoseHook, GitHubType
  <2> QED
    BY <2>1, <2>2, <2>4, <2>5, <2>6
       DEF Next, Step, Connect, StartBind, SetStatus, ClearBindings, FindUser,
           ListInstallations, GetInstallation, GetRepositories, Upsert, ReadRepository, Bind,
           Fail, Unbind, vars, github
<1>3. faults' \in Nat
  BY <1>0
     DEF Next, Step, Webhook, Connect, StartBind, SetStatus, ClearBindings, FindUser,
         ListInstallations, GetInstallation, GetRepositories, Upsert, ReadRepository, Bind,
         Fail, Fault, Unbind, ChangeStatus, ChangeRepositories, Announce, LoseHook, vars
<1> QED
  BY <1>1, <1>2, <1>3, StoreStepType DEF TypeInv

-----------------------------------------------------------------------------
(***************************************************************************)
(* Projects are bound by right.                                            *)
(***************************************************************************)
LEMMA RightInit == Init => RightInv
BY DEF Init, RightInv, HandRight, BoundByRight

\* What GitHub has granted or confirmed once stays on record.
LEMMA RecordsGrow ==
  ASSUME [Next]_vars PROVE proved \subseteq proved' /\ granted \subseteq granted'
BY DEF Next, Step, Webhook, Connect, StartBind, SetStatus, ClearBindings, FindUser,
       ListInstallations, GetInstallation, GetRepositories, Upsert, ReadRepository, Bind,
       Fail, Unbind, ChangeStatus, ChangeRepositories, Announce, LoseHook, vars, github

\* The handler that takes the step.
LEMMA MoverRight ==
  ASSUME TypeInv, RightInv, NEW h \in Handlers,
         Webhook(h) \/ Connect(h) \/ StartBind(h) \/ Step(h)
  PROVE  HandRight(h)'
<1>0. /\ pc \in [Handlers -> PCs] /\ arg \in [Handlers -> Arg] /\ arg[h] \in Arg
      /\ ghStatus \in Statuses /\ ghRepos \in SUBSET Repos
      /\ user \in Users \union {NoUser}
  BY DEF TypeInv, LocalType, GitHubType, StoreType
<1>1. CASE \/ Webhook(h) \/ Connect(h) \/ StartBind(h) \/ SetStatus(h) \/ ClearBindings(h)
           \/ Upsert(h) \/ Bind(h) \/ Fail(h)
  <2>1. pc'[h] \notin {"installation", "repositories", "upsert", "bind"}
    BY <1>0, <1>1 DEF Webhook, Connect, StartBind, SetStatus, ClearBindings, Upsert, Bind, Fail,
                      Leave, Goto
  <2> QED
    BY <2>1 DEF HandRight
<1>2. CASE FindUser(h)
  <2>1. pc'[h] # "idle" => /\ pc'[h] = "installation" /\ arg'[h].user = user
                           /\ status # "none" /\ proved' = proved
    <3>1. [arg[h] EXCEPT !.user = user].user = user
      BY <1>0, SetArg
    <3> QED
      BY <1>0, <1>2, <3>1 DEF FindUser, Leave, Goto
  <2>2. pc'[h] \in {"idle", "installation"}
    BY <1>0, <1>2 DEF FindUser, Leave, Goto
  <2> QED
    BY <2>1, <2>2 DEF HandRight, RightInv
<1>3. CASE ListInstallations(h)
  <2>1. \/ pc'[h] = "idle"
        \/ pc'[h] = "installation" /\ arg'[h].user \in proved'
    BY <1>0, <1>3 DEF ListInstallations, Leave, Goto
  <2> QED
    BY <2>1 DEF HandRight
<1>4. CASE GetInstallation(h)
  <2>1. \/ pc'[h] = "idle"
        \/ /\ pc[h] = "installation" /\ pc'[h] = "repositories"
           /\ arg'[h].user = arg[h].user /\ proved' = proved
    <3>1. [arg[h] EXCEPT !.status = ghStatus].user = arg[h].user
      BY <1>0, SetArg
    <3> QED
      BY <1>0, <1>4, <3>1 DEF GetInstallation, Leave, Goto
  <2> QED
    BY <2>1 DEF HandRight, RightInv
<1>5. CASE GetRepositories(h)
  <2>1. \/ pc'[h] = "idle"
        \/ /\ pc[h] = "repositories" /\ pc'[h] = "upsert"
           /\ arg'[h].user = arg[h].user /\ proved' = proved
           /\ arg'[h].repos = ghRepos /\ granted' = granted
    <3>1. /\ [arg[h] EXCEPT !.repos = ghRepos].user = arg[h].user
          /\ [arg[h] EXCEPT !.repos = ghRepos].repos = ghRepos
      BY <1>0, SetArg
    <3> QED
      BY <1>0, <1>5, <3>1 DEF GetRepositories, Leave, Goto, github
  <2> QED
    BY <2>1 DEF HandRight, RightInv
<1>6. CASE ReadRepository(h)
  <2>1. \/ pc'[h] = "idle"
        \/ /\ pc'[h] = "bind" /\ arg'[h] = arg[h] /\ proved' = proved /\ granted' = granted
           /\ status = "active" /\ arg[h].repo \in active /\ user = Owner[arg[h].project]
    BY <1>0, <1>6 DEF ReadRepository, Leave, Goto, github
  <2> QED
    BY <2>1 DEF HandRight, RightInv
<1> QED
  BY <1>1, <1>2, <1>3, <1>4, <1>5, <1>6 DEF Step

\* The other handlers stay where they are.
LEMMA OthersStay ==
  ASSUME LocalType, NEW h \in Handlers,
         Webhook(h) \/ Connect(h) \/ StartBind(h) \/ Step(h)
  PROVE  \A k \in Handlers : k # h => pc'[k] = pc[k] /\ arg'[k] = arg[k]
BY DEF LocalType, Step, Webhook, Connect, StartBind, SetStatus, ClearBindings, FindUser,
       ListInstallations, GetInstallation, GetRepositories, Upsert, ReadRepository, Bind,
       Fail, Leave, Goto

LEMMA RightStep == TypeInv /\ RightInv /\ [Next]_vars => RightInv'
<1> SUFFICES ASSUME TypeInv, RightInv, [Next]_vars PROVE RightInv'
  OBVIOUS
<1>0. proved \subseteq proved' /\ granted \subseteq granted'
  BY RecordsGrow
<1>1. \A k \in Handlers : HandRight(k)'
  <2>1. ASSUME NEW k \in Handlers, pc'[k] = pc[k], arg'[k] = arg[k] PROVE HandRight(k)'
    BY <1>0, <2>1 DEF HandRight, RightInv
  <2>2. ASSUME NEW h \in Handlers, Webhook(h) \/ Connect(h) \/ StartBind(h) \/ Step(h),
               NEW k \in Handlers
        PROVE  HandRight(k)'
    BY <2>1, <2>2, MoverRight, OthersStay DEF TypeInv
  <2>3. CASE UNCHANGED <<pc, arg>>
    BY <2>1, <2>3
  <2> QED
    BY <2>2, <2>3 DEF Next, Unbind, ChangeStatus, ChangeRepositories, Announce, LoseHook, vars
<1>2. ghRepos' \subseteq granted'
  BY <1>0 DEF RightInv, Next, Step, Webhook, Connect, StartBind, SetStatus, ClearBindings,
         FindUser, ListInstallations, GetInstallation, GetRepositories, Upsert,
         ReadRepository, Bind, Fail, Unbind, ChangeStatus, ChangeRepositories, Announce,
         LoseHook, vars, github
<1>3. active' \subseteq granted' /\ (status' # "none" => user' \in proved')
  <2>1. CASE UNCHANGED <<status, user, active>>
    BY <1>0, <2>1 DEF RightInv
  <2>2. ASSUME NEW h \in Handlers, SetStatus(h)
        PROVE  UNCHANGED <<user, active>> /\ (status' # "none" => status # "none")
    BY <2>2 DEF SetStatus
  <2>3. ASSUME NEW h \in Handlers, Upsert(h)
        PROVE  user' \in proved /\ active' \subseteq granted
    BY <2>3 DEF Upsert, RightInv, HandRight
  <2>4. CASE \E h \in Handlers : SetStatus(h)
    BY <1>0, <2>2, <2>4 DEF RightInv
  <2>5. CASE \E h \in Handlers : Upsert(h)
    BY <1>0, <2>3, <2>5
  <2> QED
    BY <2>1, <2>4, <2>5
       DEF Next, Step, Webhook, Connect, StartBind, ClearBindings, FindUser,
           ListInstallations, GetInstallation, GetRepositories, ReadRepository, Bind,
           Fail, Unbind, ChangeStatus, ChangeRepositories, Announce, LoseHook, vars, store
<1>4. BoundByRight'
  <2>1. ASSUME NEW p \in Projects, bound'[p] # NoRepo
        PROVE  Owner[p] \in proved /\ bound'[p] \in granted
    <3>1. CASE UNCHANGED bound
      BY <2>1, <3>1 DEF RightInv, BoundByRight
    <3>2. ASSUME NEW h \in Handlers, Bind(h)
          PROVE  Owner[p] \in proved /\ bound'[p] \in granted
      <4>1. Owner[arg[h].project] \in proved /\ arg[h].repo \in granted
        BY <3>2 DEF Bind, RightInv, HandRight
      <4> QED
        BY <2>1, <3>2, <4>1 DEF Bind, RightInv, BoundByRight, TypeInv, StoreType
    <3>3. ASSUME NEW h \in Handlers, ClearBindings(h) PROVE FALSE
      BY <2>1, <3>3 DEF ClearBindings
    <3>4. ASSUME NEW q \in Projects, Unbind(q)
          PROVE  Owner[p] \in proved /\ bound'[p] \in granted
      BY <2>1, <3>4 DEF Unbind, RightInv, BoundByRight, TypeInv, StoreType
    <3> QED
      BY <3>1, <3>2, <3>3, <3>4
         DEF Next, Step, Webhook, Connect, StartBind, SetStatus, FindUser,
             ListInstallations, GetInstallation, GetRepositories, Upsert, ReadRepository,
             Fail, ChangeStatus, ChangeRepositories, Announce, LoseHook, vars, store
  <2> QED
    BY <1>0, <2>1 DEF BoundByRight
<1> QED
  BY <1>1, <1>2, <1>3, <1>4 DEF RightInv

\* Whatever webhooks, syncs and take-overs of the installation race, a
\* project is bound only to a repository GitHub has granted, and GitHub has
\* listed the installation for the project's owner: what a handler read
\* before it stores or binds was true once, and the record of that only
\* grows.
THEOREM BindingsAreRightful == Spec => []BoundByRight
<1>1. RightInv => BoundByRight
  BY DEF RightInv
<1> QED
  BY <1>1, TypeInit, TypeStep, RightInit, RightStep, PTL DEF Spec

-----------------------------------------------------------------------------
(***************************************************************************)
(* The store agrees with GitHub.                                           *)
(***************************************************************************)
LEMMA SyncInit == Init => SyncInv
<1> SUFFICES ASSUME Init PROVE OneAtATime /\ LastIsPresent /\ Agreement
  BY DEF SyncInv
<1>1. hooks = <<>> /\ status = "none" /\ \A h \in Handlers : pc[h] = "idle"
  BY DEF Init
<1>2. DOMAIN hooks = {}
  BY <1>1
<1> QED
  BY <1>1, <1>2 DEF OneAtATime, LastIsPresent, Agreement, StatusAgrees, ReposAgree, NothingBound

\* What is asked of a lone handler, by the statement it is at.
StatusAgreesFor(h) ==
  /\ status # "none" /\ pc[h] \notin {"setStatus", "upsert"} \union Syncing => status = ghStatus
  /\ status # "none" /\ pc[h] \in Syncing => status = ghStatus \/ ghStatus = "active"
  /\ pc[h] \in {"setStatus", "clear", "repositories", "upsert"} => arg[h].status = ghStatus
  /\ pc[h] \in {"upsert", "bind"} => ghStatus = "active"

ReposAgreeFor(h) ==
  /\ status # "none" /\ pc[h] \notin {"upsert"} \union Syncing => active = ghRepos
  /\ pc[h] = "upsert" => arg[h].repos = ghRepos

NothingBoundFor(h) ==
  status # "none" /\ pc[h] \notin {"setStatus", "clear"} => \A p \in Projects : bound[p] = NoRepo

AgreementFor(h) ==
  /\ ~StatusAwaited => StatusAgreesFor(h)
  /\ ~ReposAwaited /\ ghStatus = "active" => ReposAgreeFor(h)
  /\ ~StatusAwaited /\ ghStatus # "active" => NothingBoundFor(h)

LEMMA LoneAgreement ==
  ASSUME NEW h \in Handlers, \A k \in Handlers : k # h => pc[k] = "idle"
  PROVE  Agreement <=> AgreementFor(h)
<1>1. /\ At({"setStatus", "upsert"} \union Syncing)
           <=> pc[h] \in {"setStatus", "upsert"} \union Syncing
      /\ At(Syncing) <=> pc[h] \in Syncing
      /\ At({"upsert"} \union Syncing) <=> pc[h] \in {"upsert"} \union Syncing
      /\ At({"setStatus", "clear"}) <=> pc[h] \in {"setStatus", "clear"}
  BY DEF At, Syncing
<1>2. StatusAgrees <=> StatusAgreesFor(h)
  BY <1>1 DEF StatusAgrees, StatusAgreesFor
<1>3. ReposAgree <=> ReposAgreeFor(h)
  BY <1>1 DEF ReposAgree, ReposAgreeFor
<1>4. NothingBound <=> NothingBoundFor(h)
  BY <1>1 DEF NothingBound, NothingBoundFor
<1> QED
  BY <1>2, <1>3, <1>4 DEF Agreement, AgreementFor

LEMMA LoneAgreementNext ==
  ASSUME NEW h \in Handlers, \A k \in Handlers : k # h => pc'[k] = "idle"
  PROVE  Agreement' <=> AgreementFor(h)'
<1>1. /\ At({"setStatus", "upsert"} \union Syncing)'
           <=> pc'[h] \in {"setStatus", "upsert"} \union Syncing
      /\ At(Syncing)' <=> pc'[h] \in Syncing
      /\ At({"upsert"} \union Syncing)' <=> pc'[h] \in {"upsert"} \union Syncing
      /\ At({"setStatus", "clear"})' <=> pc'[h] \in {"setStatus", "clear"}
  BY DEF At, Syncing
<1>2. StatusAgrees' <=> StatusAgreesFor(h)'
  BY <1>1 DEF StatusAgrees, StatusAgreesFor
<1>3. ReposAgree' <=> ReposAgreeFor(h)'
  BY <1>1 DEF ReposAgree, ReposAgreeFor
<1>4. NothingBound' <=> NothingBoundFor(h)'
  BY <1>1 DEF NothingBound, NothingBoundFor
<1> QED
  BY <1>2, <1>3, <1>4 DEF Agreement, AgreementFor

\* The handler works while GitHub's state and its webhooks stay.
LEMMA HandlerAgrees ==
  ASSUME TypeInv, NEW h \in Handlers, AgreementFor(h),
         Connect(h) \/ StartBind(h) \/ Step(h), ~Fail(h)
  PROVE  AgreementFor(h)'
<1>0. /\ pc \in [Handlers -> PCs] /\ arg \in [Handlers -> Arg] /\ arg[h] \in Arg
      /\ ghStatus \in Statuses /\ ghRepos \in SUBSET Repos
      /\ bound \in [Projects -> Repos \union {NoRepo}]
  BY DEF TypeInv, LocalType, GitHubType, StoreType
<1>1. UNCHANGED <<ghStatus, ghRepos, hooks>>
  BY DEF Step, Connect, StartBind, SetStatus, ClearBindings, FindUser,
         ListInstallations, GetInstallation, GetRepositories, Upsert, ReadRepository, Bind, github
<1>2. UNCHANGED <<StatusAwaited, ReposAwaited>>
  BY <1>1 DEF StatusAwaited, ReposAwaited
<1> USE DEF StatusAgreesFor, ReposAgreeFor, NothingBoundFor, Syncing
<1>3. ASSUME StatusAgreesFor(h) PROVE StatusAgreesFor(h)'
  <2>1. CASE Connect(h) \/ StartBind(h)
    BY <1>0, <1>1, <1>3, <2>1 DEF Connect, StartBind, Goto, store
  <2>2. CASE SetStatus(h) \/ ClearBindings(h) \/ FindUser(h) \/ ListInstallations(h)
    BY <1>0, <1>1, <1>3, <2>2
       DEF SetStatus, ClearBindings, FindUser, ListInstallations, Leave, Goto, store
  <2>3. CASE GetInstallation(h)
    <3>1. [arg[h] EXCEPT !.status = ghStatus].status = ghStatus
      BY <1>0, SetArg
    <3> QED
      BY <1>0, <1>1, <1>3, <2>3, <3>1 DEF GetInstallation, Leave, Goto, store
  <2>4. CASE GetRepositories(h)
    <3>1. [arg[h] EXCEPT !.repos = ghRepos].status = arg[h].status
      BY <1>0, SetArg
    <3> QED
      BY <1>0, <1>1, <1>3, <2>4, <3>1 DEF GetRepositories, Leave, Goto, store
  <2>5. CASE Upsert(h) \/ ReadRepository(h) \/ Bind(h)
    BY <1>0, <1>1, <1>3, <2>5 DEF Upsert, ReadRepository, Bind, Leave, Goto, store
  <2> QED
    BY <2>1, <2>2, <2>3, <2>4, <2>5 DEF Step
<1>4. ASSUME ReposAgreeFor(h), ghStatus = "active" PROVE ReposAgreeFor(h)'
  <2>1. CASE Connect(h) \/ StartBind(h)
    BY <1>0, <1>1, <1>4, <2>1 DEF Connect, StartBind, Goto, store
  <2>2. CASE SetStatus(h) \/ ClearBindings(h) \/ FindUser(h) \/ ListInstallations(h)
    BY <1>0, <1>1, <1>4, <2>2
       DEF SetStatus, ClearBindings, FindUser, ListInstallations, Leave, Goto, store
  <2>3. CASE GetInstallation(h)
    BY <1>0, <1>1, <1>4, <2>3 DEF GetInstallation, Leave, Goto, store
  <2>4. CASE GetRepositories(h)
    <3>1. [arg[h] EXCEPT !.repos = ghRepos].repos = ghRepos
      BY <1>0, SetArg
    <3> QED
      BY <1>0, <1>1, <1>4, <2>4, <3>1 DEF GetRepositories, Leave, Goto, store
  <2>5. CASE Upsert(h) \/ ReadRepository(h) \/ Bind(h)
    BY <1>0, <1>1, <1>4, <2>5 DEF Upsert, ReadRepository, Bind, Leave, Goto, store
  <2> QED
    BY <2>1, <2>2, <2>3, <2>4, <2>5 DEF Step
<1>5. ASSUME NothingBoundFor(h), StatusAgreesFor(h), ghStatus # "active"
      PROVE  NothingBoundFor(h)'
  <2>1. CASE Connect(h) \/ StartBind(h)
    BY <1>0, <1>1, <1>5, <2>1 DEF Connect, StartBind, Goto, store
  <2>2. CASE SetStatus(h) \/ ClearBindings(h) \/ FindUser(h) \/ ListInstallations(h)
    BY <1>0, <1>1, <1>5, <2>2
       DEF SetStatus, ClearBindings, FindUser, ListInstallations, Leave, Goto, store
  <2>3. CASE GetInstallation(h) \/ GetRepositories(h) \/ Upsert(h) \/ ReadRepository(h) \/ Bind(h)
    BY <1>0, <1>1, <1>5, <2>3
       DEF GetInstallation, GetRepositories, Upsert, ReadRepository, Bind, Leave, Goto, store
  <2> QED
    BY <2>1, <2>2, <2>3 DEF Step
<1> QED
  BY <1>1, <1>2, <1>3, <1>4, <1>5 DEF AgreementFor

\* Changes on GitHub: the store waits for their announcement.
LEMMA ChangeAgrees ==
  ASSUME TypeInv, LastIsPresent, Agreement, ChangeStatus \/ ChangeRepositories
  PROVE  LastIsPresent' /\ Agreement'
<1>0. hooks \in Seq(Kinds) /\ ghStatus \in Statuses
  BY DEF TypeInv, GitHubType
<1> PICK kind \in Kinds :
      /\ Announce(kind)
      /\ \/ kind = KindOf(ghStatus') /\ kind \in StatusKinds /\ UNCHANGED ghRepos
         \/ kind = "repositories" /\ UNCHANGED ghStatus
      /\ ghStatus' \in Statuses
  BY <1>0 DEF ChangeStatus, ChangeRepositories, KindOf, StatusKinds, Kinds, Statuses
<1>1. /\ hooks' = Append(hooks, kind)
      /\ UNCHANGED <<status, active, bound, pc, arg>>
  BY DEF Announce, store
<1>2. /\ Len(hooks) \in Nat /\ DOMAIN hooks = 1..Len(hooks)
      /\ DOMAIN hooks' = 1..(Len(hooks) + 1)
      /\ \A i \in 1..Len(hooks) : hooks'[i] = hooks[i]
      /\ hooks'[Len(hooks) + 1] = kind
  <2>1. hooks' \in Seq(Kinds) /\ Len(hooks') = Len(hooks) + 1
    BY <1>0, <1>1, AppendProperties
  <2> QED
    BY <1>0, <1>1, <2>1, AppendProperties, LenProperties
<1> DEFINE last == Len(hooks) + 1
<1>3. last \in DOMAIN hooks' /\ \A i \in DOMAIN hooks' : i # last => i \in DOMAIN hooks /\ i < last
  BY <1>2
<1>4. LastIsPresent'
  <2> SUFFICES ASSUME NEW i \in DOMAIN hooks', hooks'[i] \in StatusKinds,
                      \A j \in DOMAIN hooks' : i < j => hooks'[j] \notin StatusKinds
               PROVE  hooks'[i] = KindOf(ghStatus')
    BY DEF LastIsPresent
  <2>1. CASE i = last
    BY <1>2, <2>1 DEF StatusKinds
  <2>2. CASE i # last
    <3>1. i \in DOMAIN hooks /\ i < last /\ hooks'[i] = hooks[i]
      BY <1>2, <1>3, <2>2
    <3>2. kind \notin StatusKinds
      BY <1>2, <1>3, <3>1
    <3>3. \A j \in DOMAIN hooks : j \in DOMAIN hooks' /\ hooks'[j] = hooks[j]
      BY <1>2
    <3>4. hooks[i] = KindOf(ghStatus)
      BY <3>1, <3>3 DEF LastIsPresent
    <3> QED
      BY <3>1, <3>2, <3>4
  <2> QED
    BY <2>1, <2>2
<1>5. CASE kind = KindOf(ghStatus') /\ kind \in StatusKinds /\ UNCHANGED ghRepos
  <2>1. StatusAwaited'
    BY <1>2, <1>3, <1>5 DEF StatusAwaited
  <2>2. ghStatus' = "active" => ReposAwaited'
    BY <1>2, <1>3, <1>5 DEF ReposAwaited, KindOf
  <2> QED
    BY <1>4, <2>1, <2>2 DEF Agreement
<1>6. CASE kind = "repositories" /\ UNCHANGED ghStatus
  <2>1. ReposAwaited'
    BY <1>2, <1>3, <1>6 DEF ReposAwaited
  <2>2. StatusAwaited => StatusAwaited'
    <3>1. \A j \in DOMAIN hooks : j \in DOMAIN hooks' /\ hooks'[j] = hooks[j]
      BY <1>2
    <3> QED
      BY <3>1 DEF StatusAwaited
  <2>3. StatusAgrees => StatusAgrees'
    BY <1>1, <1>6 DEF StatusAgrees, At
  <2>4. NothingBound => NothingBound'
    BY <1>1 DEF NothingBound, At
  <2> QED
    BY <1>4, <1>6, <2>1, <2>2, <2>3, <2>4 DEF Agreement
<1> QED
  BY <1>5, <1>6

\* A handler that is alone takes the oldest webhook.
LEMMA WebhookAgrees ==
  ASSUME TypeInv, LastIsPresent, NEW h \in Handlers, AgreementFor(h), pc[h] = "idle",
         Webhook(h), calm'
  PROVE  LastIsPresent' /\ AgreementFor(h)'
<1>0. /\ hooks \in Seq(Kinds) /\ ghStatus \in Statuses
      /\ pc \in [Handlers -> PCs] /\ arg \in [Handlers -> Arg] /\ arg[h] \in Arg
  BY DEF TypeInv, GitHubType, LocalType
<1> DEFINE kind == hooks[1]
<1>1. /\ 1 \in 1..Len(hooks) /\ hooks' = RemoveAt(hooks, 1)
      /\ IF kind \in {"suspend", "deleted"}
           THEN /\ arg' = [arg EXCEPT ![h].status =
                             IF kind = "suspend" THEN "suspended" ELSE "deleted"]
                /\ pc' = [pc EXCEPT ![h] = "setStatus"]
           ELSE UNCHANGED arg /\ pc' = [pc EXCEPT ![h] = "findUser"]
      /\ UNCHANGED <<ghStatus, ghRepos, status, active, bound>>
  BY DEF Webhook, Goto, store
<1>2. /\ Len(hooks) \in Nat /\ DOMAIN hooks = 1..Len(hooks)
      /\ DOMAIN hooks' = 1..(Len(hooks) - 1)
      /\ \A j \in 1..(Len(hooks) - 1) : hooks'[j] = hooks[j + 1]
  <2>1. hooks' \in Seq(Kinds) /\ Len(hooks') = Len(hooks) - 1
    BY <1>0, <1>1, HookRemoved
  <2> QED
    BY <1>0, <1>1, <2>1, HookRemoved, LenProperties
<1>3. /\ 1 \in DOMAIN hooks
      /\ \A j \in DOMAIN hooks' : j + 1 \in DOMAIN hooks /\ hooks'[j] = hooks[j + 1]
      /\ \A i \in DOMAIN hooks : i # 1 => i - 1 \in DOMAIN hooks' /\ hooks'[i - 1] = hooks[i]
  BY <1>1, <1>2
<1>4. kind \in Kinds
  BY <1>0, <1>1, ElementOfSeq
<1>5. LastIsPresent'
  <2> SUFFICES ASSUME NEW i \in DOMAIN hooks', hooks'[i] \in StatusKinds,
                      \A j \in DOMAIN hooks' : i < j => hooks'[j] \notin StatusKinds
               PROVE  hooks'[i] = KindOf(ghStatus)
    BY <1>1 DEF LastIsPresent
  <2>1. i + 1 \in DOMAIN hooks /\ hooks'[i] = hooks[i + 1]
    BY <1>3
  <2>2. ASSUME NEW j \in DOMAIN hooks, i + 1 < j PROVE hooks[j] \notin StatusKinds
    <3>1. j - 1 \in DOMAIN hooks' /\ hooks'[j - 1] = hooks[j] /\ i < j - 1
      BY <1>2, <1>3, <2>2
    <3> QED
      BY <3>1
  <2> QED
    BY <2>1, <2>2 DEF LastIsPresent
<1>6. ~StatusAwaited' /\ kind \in StatusKinds => kind = KindOf(ghStatus)
  <2> SUFFICES ASSUME ~StatusAwaited', kind \in StatusKinds PROVE kind = KindOf(ghStatus)
    OBVIOUS
  <2>1. ASSUME NEW j \in DOMAIN hooks, 1 < j PROVE hooks[j] \notin StatusKinds
    BY <1>3, <2>1 DEF StatusAwaited
  <2> QED
    BY <1>3, <2>1 DEF LastIsPresent
<1>7. ~StatusAwaited' /\ kind \notin StatusKinds => ~StatusAwaited
  BY <1>3 DEF StatusAwaited
<1>8. ~ReposAwaited' /\ kind \notin {"unsuspend", "repositories"} => ~ReposAwaited
  BY <1>3 DEF ReposAwaited
<1> HIDE DEF kind
<1>9. CASE kind \in {"suspend", "deleted"}
  <2> DEFINE s == IF kind = "suspend" THEN "suspended" ELSE "deleted"
  <2>1. pc'[h] = "setStatus" /\ arg'[h] = [arg[h] EXCEPT !.status = s]
    BY <1>0, <1>1, <1>9
  <2>2. s \in Statuses
    BY DEF Statuses
  <2>3. arg'[h].status = s
    <3>1. [arg[h] EXCEPT !.status = s].status = s
      BY <1>0, <2>2, SetArg
    <3> QED
      BY <2>1, <3>1
  <2>4. ~StatusAwaited' => s = ghStatus
    BY <1>0, <1>6, <1>9 DEF StatusKinds, KindOf, Statuses
  <2>5. ~ReposAwaited' /\ ghStatus = "active" => ReposAgreeFor(h)'
    BY <1>1, <1>8, <1>9, <2>1 DEF AgreementFor, ReposAgreeFor, Syncing
  <2> HIDE DEF s
  <2> QED
    BY <1>1, <1>5, <2>1, <2>3, <2>4, <2>5
       DEF AgreementFor, StatusAgreesFor, NothingBoundFor, Syncing
<1>10. CASE kind = "unsuspend"
  <2>1. pc'[h] = "findUser"
    BY <1>0, <1>1, <1>10
  <2>2. ~StatusAwaited' => ghStatus = "active"
    BY <1>0, <1>6, <1>10 DEF StatusKinds, KindOf, Statuses
  <2> QED
    BY <1>1, <1>5, <2>1, <2>2
       DEF AgreementFor, StatusAgreesFor, ReposAgreeFor, NothingBoundFor, Syncing
<1>11. CASE kind = "repositories"
  <2>1. pc'[h] = "findUser"
    BY <1>0, <1>1, <1>11
  <2>2. ~StatusAwaited' => ~StatusAwaited
    BY <1>7, <1>11 DEF StatusKinds
  <2> QED
    BY <1>1, <1>5, <2>1, <2>2
       DEF AgreementFor, StatusAgreesFor, ReposAgreeFor, NothingBoundFor, Syncing
<1> QED
  BY <1>4, <1>9, <1>10, <1>11 DEF Kinds

LEMMA SyncStep == TypeInv /\ SyncInv /\ [Next]_vars => SyncInv'
<1> SUFFICES ASSUME TypeInv, SyncInv, [Next]_vars, calm', faults' = 0
             PROVE  OneAtATime' /\ LastIsPresent' /\ Agreement'
  BY DEF SyncInv
<1>0. faults \in Nat /\ LocalType
  BY DEF TypeInv
<1>1. calm /\ faults = 0 /\ ~LoseHook /\ \A h \in Handlers : ~Fail(h)
  <2>1. ~LoseHook /\ \A h \in Handlers : ~Fail(h)
    <3>1. ~Fault
      BY <1>0 DEF Fault
    <3> QED
      BY <3>1 DEF LoseHook, Fail
  <2>2. calm
    BY DEF Next, Step, Webhook, Connect, StartBind, SetStatus, ClearBindings, FindUser,
           ListInstallations, GetInstallation, GetRepositories, Upsert, ReadRepository, Bind,
           Fail, Unbind, ChangeStatus, ChangeRepositories, Announce, LoseHook, vars
  <2>3. faults = 0
    BY <2>1 DEF Next, Step, Webhook, Connect, StartBind, SetStatus, ClearBindings, FindUser,
           ListInstallations, GetInstallation, GetRepositories, Upsert, ReadRepository, Bind,
           Unbind, ChangeStatus, ChangeRepositories, Announce, vars
  <2> QED
    BY <2>1, <2>2, <2>3
<1>2. OneAtATime /\ LastIsPresent /\ Agreement
  BY <1>1 DEF SyncInv
<1>3. ASSUME NEW h \in Handlers, Webhook(h) \/ Connect(h) \/ StartBind(h) \/ Step(h)
      PROVE  OneAtATime' /\ LastIsPresent' /\ Agreement'
  <2>1. \A k \in Handlers : k # h => pc[k] = "idle"
    <3>1. CASE Step(h)
      <4>1. pc[h] # "idle"
        BY <3>1 DEF Step, SetStatus, ClearBindings, FindUser, ListInstallations,
                    GetInstallation, GetRepositories, Upsert, ReadRepository, Bind, Fail
      <4> QED
        BY <1>2, <4>1 DEF OneAtATime
    <3>2. CASE Webhook(h) \/ Connect(h) \/ StartBind(h)
      BY <3>2 DEF Webhook, Connect, StartBind, Alone
    <3> QED
      BY <1>3, <3>1, <3>2
  <2>2. \A k \in Handlers : k # h => pc'[k] = "idle"
    BY <1>0, <1>3, <2>1, OthersStay
  <2>3. OneAtATime'
    BY <2>2 DEF OneAtATime
  <2>4. AgreementFor(h)
    BY <1>2, <2>1, LoneAgreement
  <2>5. CASE Webhook(h)
    <3>1. LastIsPresent' /\ AgreementFor(h)'
      BY <1>2, <2>4, <2>5, WebhookAgrees DEF Webhook
    <3> QED
      BY <2>2, <2>3, <3>1, LoneAgreementNext
  <2>6. CASE Connect(h) \/ StartBind(h) \/ Step(h)
    <3>1. AgreementFor(h)'
      BY <1>1, <2>4, <2>6, HandlerAgrees
    <3>2. UNCHANGED <<hooks, ghStatus>>
      BY <2>6 DEF Step, Connect, StartBind, SetStatus, ClearBindings, FindUser,
                  ListInstallations, GetInstallation, GetRepositories, Upsert,
                  ReadRepository, Bind, Fail, github
    <3>3. LastIsPresent'
      BY <1>2, <3>2 DEF LastIsPresent
    <3> QED
      BY <2>2, <2>3, <3>1, <3>3, LoneAgreementNext
  <2> QED
    BY <1>3, <2>5, <2>6
<1>4. CASE ChangeStatus \/ ChangeRepositories
  <2>1. UNCHANGED pc
    BY <1>4 DEF ChangeStatus, ChangeRepositories, Announce
  <2> QED
    BY <1>2, <1>4, <2>1, ChangeAgrees DEF OneAtATime
<1>5. ASSUME NEW p \in Projects, Unbind(p)
      PROVE  OneAtATime' /\ LastIsPresent' /\ Agreement'
  <2>1. /\ UNCHANGED <<github, status, active, pc, arg>>
        /\ bound' = [bound EXCEPT ![p] = NoRepo]
    BY <1>5 DEF Unbind
  <2>2. OneAtATime' /\ LastIsPresent'
    BY <1>2, <2>1 DEF OneAtATime, LastIsPresent, github
  <2>3. /\ UNCHANGED <<StatusAwaited, ReposAwaited>>
        /\ StatusAgrees => StatusAgrees'
        /\ ReposAgree => ReposAgree'
    BY <2>1 DEF StatusAwaited, ReposAwaited, StatusAgrees, ReposAgree, At, github
  <2>4. NothingBound => NothingBound'
    BY <2>1 DEF NothingBound, At, TypeInv, StoreType
  <2> QED
    BY <1>2, <2>1, <2>2, <2>3, <2>4 DEF Agreement, github
<1>6. CASE UNCHANGED vars
  BY <1>2, <1>6
     DEF vars, github, store, OneAtATime, LastIsPresent, Agreement, StatusAwaited,
         ReposAwaited, StatusAgrees, ReposAgree, NothingBound, At
<1> QED
  BY <1>1, <1>3, <1>4, <1>5, <1>6 DEF Next

\* As long as webhooks come in order to one handler at a time and nothing
\* fails, the store has GitHub's status and repositories once the last
\* webhook is done, and nothing is bound to an installation that may not be
\* used: a handler that stored an older state leaves a webhook to come.
THEOREM StoreInSync == Spec => []InSync
<1>1. SyncInv => InSync
  <2> SUFFICES ASSUME SyncInv, Quiet, status # "none"
               PROVE  /\ status = ghStatus
                      /\ ghStatus = "active" => active = ghRepos
                      /\ ghStatus # "active" => \A p \in Projects : bound[p] = NoRepo
    BY DEF InSync
  <2>1. Agreement /\ \A h \in Handlers : pc[h] = "idle"
    BY DEF SyncInv, Quiet, Alone
  <2>2. DOMAIN hooks = {}
    BY DEF Quiet
  <2>3. ~StatusAwaited /\ ~ReposAwaited
    BY <2>2 DEF StatusAwaited, ReposAwaited
  <2>4. \A labels : "idle" \notin labels => ~At(labels)
    BY <2>1 DEF At
  <2> QED
    BY <2>1, <2>3, <2>4
       DEF Agreement, StatusAgrees, ReposAgree, NothingBound, Syncing
<1> QED
  BY <1>1, TypeInit, TypeStep, SyncInit, SyncStep, PTL DEF Spec
============================================================================
