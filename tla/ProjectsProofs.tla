--------------------------- MODULE ProjectsProofs ---------------------------
(***************************************************************************)
(* Proofs about Projects for all sets of slugs, tokens and handlers and    *)
(* all limits.                                                             *)
(***************************************************************************)
EXTENDS Projects, FiniteSetTheorems, TLAPS

-----------------------------------------------------------------------------
(***************************************************************************)
(* Types.                                                                  *)
(***************************************************************************)
LEMMA SomeSlugType == SomeSlug \in Slugs
BY ProjectsAssumption DEF SomeSlug

LEMMA TypeInit == Init => TypeOK
BY SomeSlugType DEF Init, TypeOK, PCs

LEMMA TypeStep == TypeOK /\ [Next]_vars => TypeOK'
<1> SUFFICES ASSUME TypeOK, [Next]_vars PROVE TypeOK'
  OBVIOUS
<1> USE SomeSlugType DEF TypeOK
<1>1. ASSUME NEW h \in Handlers, Step(h) PROVE TypeOK'
  <2>1. /\ pc' \in [Handlers -> PCs] /\ arg' \in [Handlers -> Slugs]
        /\ exempt' \in [Handlers -> BOOLEAN]
    BY <1>1, ZenonT(40) DEF Step, CreateCount, CreateInsert, RestoreRead, RestoreCount, RestoreWrite,
                ArchiveRead, ArchiveWrite, TokenRead, TokenCount, TokenInsert, Abandon,
                CountProjects, Proceed, Goto, Leave, PCs
  <2>2. /\ project' \in [Slugs -> {"none", "active", "archived"}]
        /\ waived' \subseteq Slugs
    BY <1>1 DEF Step, CreateCount, CreateInsert, RestoreRead, RestoreCount, RestoreWrite,
                ArchiveRead, ArchiveWrite, TokenRead, TokenCount, TokenInsert, Abandon,
                Activate
  <2>3. token' \in [Tokens -> {"none", "active", "revoked"}] /\ of' \in [Tokens -> Slugs]
    BY <1>1 DEF Step, CreateCount, CreateInsert, RestoreRead, RestoreCount, RestoreWrite,
                ArchiveRead, ArchiveWrite, TokenRead, TokenCount, TokenInsert, Abandon
  <2> QED
    BY <2>1, <2>2, <2>3
<1>2. ASSUME NEW h \in Handlers, NEW s \in Slugs, Request(h, s) PROVE TypeOK'
  BY <1>2 DEF Request, Goto, PCs
<1>3. ASSUME NEW t \in Tokens, RevokeToken(t) PROVE TypeOK'
  BY <1>3 DEF RevokeToken
<1>4. CASE UNCHANGED vars
  BY <1>4 DEF vars
<1>5. CASE AssignLegacyProjects
  <2>1. PICK S \in SUBSET {s \in Slugs : project[s] = "none"} : \E A \in SUBSET S :
          /\ project' = [s \in Slugs |-> IF s \in A THEN "active"
                                        ELSE IF s \in S THEN "archived" ELSE project[s]]
          /\ waived' = waived \union S
    BY <1>5 DEF AssignLegacyProjects
  <2>2. /\ project' \in [Slugs -> {"none", "active", "archived"}]
        /\ waived' \subseteq Slugs
    BY <2>1
  <2> QED
    BY <1>5, <2>2 DEF AssignLegacyProjects
<1> QED
  BY <1>1, <1>2, <1>3, <1>4, <1>5 DEF Next

-----------------------------------------------------------------------------
(***************************************************************************)
(* Counting.                                                               *)
(***************************************************************************)
LEMMA HandlersCounted ==
  IsFiniteSet(Handlers) /\ Cardinality(Handlers) \in Nat \ {0}
<1>1. IsFiniteSet(Handlers) /\ Cardinality(Handlers) \in Nat
  BY ProjectsAssumption, FS_CardinalityType
<1>2. Cardinality(Handlers) # 0
  BY <1>1, ProjectsAssumption, FS_EmptySet
<1> QED
  BY <1>1, <1>2

\* Some handlers ask for no more projects than there are handlers.
LEMMA WantedAtMost ==
  ASSUME NEW f \in [Handlers -> Slugs], NEW W \in SUBSET Handlers
  PROVE  /\ IsFiniteSet({f[h] : h \in W})
         /\ Cardinality({f[h] : h \in W}) <= Cardinality(Handlers)
<1> DEFINE T == {f[h] : h \in W}
           g == [h \in W |-> f[h]]
<1>1. IsFiniteSet(W) /\ Cardinality(W) <= Cardinality(Handlers)
  BY HandlersCounted, FS_Subset
<1>2. g \in Surjection(W, T)
  BY DEF Surjection
<1>3. IsFiniteSet(T) /\ Cardinality(T) <= Cardinality(W)
  BY ONLY <1>1, <1>2, FS_Surjection
<1>4. Cardinality(T) \in Nat /\ Cardinality(W) \in Nat /\ Cardinality(Handlers) \in Nat
  BY <1>1, <1>3, HandlersCounted, FS_CardinalityType
<1> QED
  BY <1>1, <1>3, <1>4

\* A union is no larger than its parts together.
LEMMA UnionAtMost ==
  ASSUME NEW S, IsFiniteSet(S), NEW T, IsFiniteSet(T)
  PROVE  Cardinality(S \union T) <= Cardinality(S) + Cardinality(T)
<1>1. /\ IsFiniteSet(S \union T) /\ IsFiniteSet(S \intersect T)
      /\ Cardinality(S \union T)
           = Cardinality(S) + Cardinality(T) - Cardinality(S \intersect T)
  BY FS_Union, FS_Intersection
<1>2. /\ Cardinality(S) \in Nat /\ Cardinality(T) \in Nat
      /\ Cardinality(S \intersect T) \in Nat
  BY <1>1, FS_CardinalityType
<1> QED
  BY <1>1, <1>2

-----------------------------------------------------------------------------
(***************************************************************************)
(* Active projects.                                                        *)
(***************************************************************************)

\* Handlers past a count that found room, or past a read that needs no count.
Writers == {h \in Handlers : pc[h] \in {"createInsert", "restoreWrite"} /\ ~exempt[h]}
Wanted  == {arg[h] : h \in Writers}

\* What is active and what is about to be, together, but for what escapes the
\* count.
Held == (Active \union Wanted) \ waived

ProjectInv == Cardinality(Held) < MaxActive + Cardinality(Handlers)

LEMMA ProjectInit == Init => ProjectInv
<1> SUFFICES ASSUME Init PROVE ProjectInv
  OBVIOUS
<1>1. Held = {}
  BY DEF Init, Held, Active, Wanted, Writers
<1>2. Cardinality(Held) = 0
  BY <1>1, FS_EmptySet
<1>3. 0 < MaxActive + Cardinality(Handlers)
  BY HandlersCounted, ProjectsAssumption
<1> QED
  BY <1>2, <1>3 DEF ProjectInv

\* A step that makes nothing new active or wanted but what escapes the count,
\* or one by a handler that has just found room.
LEMMA ProjectMoves ==
  ASSUME TypeOK, [Next]_vars
  PROVE  Held' \subseteq Held \/ (UNCHANGED <<Active, waived>> /\ ~LimitReached)
<1> USE DEF TypeOK
<1>1. ASSUME NEW h \in Handlers, CreateCount(h) \/ RestoreCount(h)
      PROVE  Held' \subseteq Held \/ (UNCHANGED <<Active, waived>> /\ ~LimitReached)
  <2>1. Active' = Active /\ waived' = waived
    BY <1>1 DEF CreateCount, RestoreCount, Active
  <2>2. CASE LimitReached
    <3>1. Wanted' \subseteq Wanted
      BY <1>1, <2>2 DEF CreateCount, RestoreCount, CountProjects, Wanted, Writers, Leave,
                        Goto
    <3> QED
      BY <2>1, <3>1 DEF Held
  <2> QED
    BY <2>1, <2>2
<1>2. ASSUME NEW h \in Handlers, RestoreRead(h)
      PROVE  Held' \subseteq Held
  <2>1. Active' = Active /\ waived' = waived
    BY <1>2 DEF RestoreRead, Active
  <2>2. Wanted' \subseteq Wanted \union Active
    BY <1>2 DEF RestoreRead, Active, Wanted, Writers, Proceed, Leave, Goto
  <2> QED
    BY <2>1, <2>2 DEF Held
<1>3. ASSUME NEW h \in Handlers, CreateInsert(h) \/ RestoreWrite(h)
      PROVE  Held' \subseteq Held
  <2>1. Wanted' \subseteq Wanted
    BY <1>3 DEF CreateInsert, RestoreWrite, Wanted, Writers, Leave, Goto
  <2>2. CASE UNCHANGED <<project, waived>>
    BY <2>1, <2>2 DEF Held, Active
  <2>3. CASE Activate(h)
    <3>1. Active' \subseteq Active \union {arg[h]} /\ waived \subseteq waived'
      BY <2>3 DEF Activate, Active
    <3>2. exempt[h] => {arg[h]} \ Active \subseteq waived'
      BY <2>3 DEF Activate
    <3>3. ~exempt[h] => arg[h] \in Wanted
      BY <1>3 DEF CreateInsert, RestoreWrite, Wanted, Writers
    <3> QED
      BY <2>1, <3>1, <3>2, <3>3 DEF Held
  <2> QED
    BY <1>3, <2>2, <2>3 DEF CreateInsert, RestoreWrite
<1>4. ASSUME NEW h \in Handlers,
             \/ ArchiveRead(h) \/ ArchiveWrite(h) \/ TokenRead(h)
             \/ TokenCount(h) \/ TokenInsert(h) \/ Abandon(h)
             \/ \E s \in Slugs : Request(h, s)
      PROVE  Held' \subseteq Held
  <2>1. Active' \subseteq Active /\ waived' = waived
    BY <1>4 DEF ArchiveRead, ArchiveWrite, TokenRead, TokenCount, TokenInsert, Abandon,
                Request, Active
  <2>2. Wanted' \subseteq Wanted
    BY <1>4 DEF ArchiveRead, ArchiveWrite, TokenRead, TokenCount, TokenInsert, Abandon,
                Request, Wanted, Writers, Proceed, Leave, Goto
  <2> QED
    BY <2>1, <2>2 DEF Held
<1>5. CASE (\E t \in Tokens : RevokeToken(t)) \/ UNCHANGED vars
  BY <1>5 DEF RevokeToken, vars, Held, Active, Wanted, Writers
<1>6. CASE AssignLegacyProjects
  <2>1. PICK S \in SUBSET {s \in Slugs : project[s] = "none"} : \E A \in SUBSET S :
          /\ project' = [s \in Slugs |-> IF s \in A THEN "active"
                                        ELSE IF s \in S THEN "archived" ELSE project[s]]
          /\ waived' = waived \union S
    BY <1>6 DEF AssignLegacyProjects
  <2>2. Active' \subseteq Active \union S
    BY <2>1 DEF Active
  <2>3. Wanted' = Wanted
    BY <1>6 DEF AssignLegacyProjects, Wanted, Writers
  <2> QED
    BY <2>1, <2>2, <2>3 DEF Held
<1> QED
  BY <1>1, <1>2, <1>3, <1>4, <1>5, <1>6 DEF Next, Step

LEMMA ProjectStep == TypeOK /\ ProjectInv /\ [Next]_vars => ProjectInv'
<1> SUFFICES ASSUME TypeOK, ProjectInv, [Next]_vars
             PROVE  Cardinality(Held') < MaxActive + Cardinality(Handlers)
  BY DEF ProjectInv
<1>1. IsFiniteSet(Active) /\ IsFiniteSet(Held)
  <2>1. IsFiniteSet(Active) /\ IsFiniteSet(Wanted)
    BY ProjectsAssumption, FS_Subset, WantedAtMost DEF Active, Wanted, Writers, TypeOK
  <2>2. IsFiniteSet(Active \union Wanted)
    BY <2>1, FS_Union
  <2> QED
    BY <2>1, <2>2, FS_Subset DEF Held
<1>2. IsFiniteSet(Wanted') /\ Cardinality(Wanted') <= Cardinality(Handlers)
  <2>1. TypeOK'
    BY TypeStep
  <2> QED
    BY <2>1, WantedAtMost DEF Wanted, Writers, TypeOK
<1>3. CASE Held' \subseteq Held
  <2>1. IsFiniteSet(Held') /\ Cardinality(Held') <= Cardinality(Held)
    BY <1>1, <1>3, FS_Subset
  <2>2. Cardinality(Held') \in Nat /\ Cardinality(Held) \in Nat
    BY <1>1, <2>1, FS_CardinalityType
  <2> QED
    BY <2>1, <2>2, HandlersCounted, ProjectsAssumption DEF ProjectInv
<1>4. CASE UNCHANGED <<Active, waived>> /\ ~LimitReached
  <2>1. Cardinality(Active) \in Nat /\ Cardinality(Active) < MaxActive
    BY <1>1, <1>4, FS_CardinalityType, ProjectsAssumption DEF LimitReached
  <2>2. /\ IsFiniteSet(Active \union Wanted')
        /\ Cardinality(Active \union Wanted') <= Cardinality(Active) + Cardinality(Wanted')
    BY <1>1, <1>2, FS_Union, UnionAtMost
  <2>3. Held' \subseteq Active \union Wanted'
    BY <1>4 DEF Held
  <2>4. IsFiniteSet(Held') /\ Cardinality(Held') <= Cardinality(Active \union Wanted')
    BY <2>2, <2>3, FS_Subset
  <2>5. /\ Cardinality(Wanted') \in Nat /\ Cardinality(Held') \in Nat
        /\ Cardinality(Active \union Wanted') \in Nat
    BY <1>2, <2>2, <2>4, FS_CardinalityType
  <2> QED
    BY <1>2, <2>1, <2>2, <2>4, <2>5, HandlersCounted, ProjectsAssumption
<1> QED
  BY <1>3, <1>4, ProjectMoves

-----------------------------------------------------------------------------
(***************************************************************************)
(* Active tokens of a project.                                             *)
(***************************************************************************)
Inserters(s) == {h \in Handlers : pc[h] = "tokenInsert" /\ arg[h] = s}

TokenInv ==
  \A s \in Slugs : Cardinality(ActiveTokens(s)) + Cardinality(Inserters(s))
                     < MaxTokens + Cardinality(Handlers)

LEMMA TokenSets ==
  ASSUME NEW s \in Slugs
  PROVE  /\ IsFiniteSet(ActiveTokens(s)) /\ Cardinality(ActiveTokens(s)) \in Nat
         /\ IsFiniteSet(Inserters(s)) /\ Cardinality(Inserters(s)) \in Nat
         /\ Cardinality(Inserters(s)) <= Cardinality(Handlers)
<1>1. ActiveTokens(s) \in SUBSET Tokens /\ Inserters(s) \in SUBSET Handlers
  BY DEF ActiveTokens, Inserters
<1> QED
  BY <1>1, ProjectsAssumption, FS_Subset, FS_CardinalityType

LEMMA TokenSetsNext ==
  ASSUME NEW s \in Slugs
  PROVE  /\ Cardinality(ActiveTokens(s)') \in Nat /\ Cardinality(Inserters(s)') \in Nat
         /\ Cardinality(Inserters(s)') <= Cardinality(Handlers)
<1>1. ActiveTokens(s)' \in SUBSET Tokens /\ Inserters(s)' \in SUBSET Handlers
  BY DEF ActiveTokens, Inserters
<1> QED
  BY <1>1, ProjectsAssumption, FS_Subset, FS_CardinalityType

LEMMA TokenInit == Init => TokenInv
<1> SUFFICES ASSUME Init, NEW s \in Slugs
             PROVE  Cardinality(ActiveTokens(s)) + Cardinality(Inserters(s))
                      < MaxTokens + Cardinality(Handlers)
  BY DEF TokenInv
<1>1. ActiveTokens(s) = {} /\ Inserters(s) = {}
  BY DEF Init, ActiveTokens, Inserters
<1>2. Cardinality(ActiveTokens(s)) = 0 /\ Cardinality(Inserters(s)) = 0
  BY <1>1, FS_EmptySet
<1> QED
  BY <1>2, HandlersCounted, ProjectsAssumption

\* A step that adds no token to the project and no inserter, one of a handler
\* that has found room, or an insertion.
LEMMA TokenMoves ==
  ASSUME TypeOK, [Next]_vars, NEW s \in Slugs
  PROVE  \/ /\ ActiveTokens(s)' \subseteq ActiveTokens(s)
            /\ Inserters(s)' \subseteq Inserters(s)
         \/ /\ ActiveTokens(s)' = ActiveTokens(s)
            /\ ~(Cardinality(ActiveTokens(s)) >= MaxTokens)
         \/ \E h \in Inserters(s), t \in Tokens \ ActiveTokens(s) :
              /\ ActiveTokens(s)' = ActiveTokens(s) \union {t}
              /\ Inserters(s)' = Inserters(s) \ {h}
<1> USE DEF TypeOK
<1> DEFINE Fewer == /\ ActiveTokens(s)' \subseteq ActiveTokens(s)
                    /\ Inserters(s)' \subseteq Inserters(s)
           Room == /\ ActiveTokens(s)' = ActiveTokens(s)
                   /\ ~(Cardinality(ActiveTokens(s)) >= MaxTokens)
           Inserted == \E h \in Inserters(s), t \in Tokens \ ActiveTokens(s) :
                         /\ ActiveTokens(s)' = ActiveTokens(s) \union {t}
                         /\ Inserters(s)' = Inserters(s) \ {h}
<1>1. ASSUME NEW h \in Handlers, TokenCount(h) PROVE Fewer \/ Room
  <2>1. ActiveTokens(s)' = ActiveTokens(s)
    BY <1>1 DEF TokenCount, ActiveTokens
  <2>2. CASE arg[h] = s /\ ~(Cardinality(ActiveTokens(arg[h])) >= MaxTokens)
    BY <2>1, <2>2
  <2>3. CASE arg[h] # s \/ Cardinality(ActiveTokens(arg[h])) >= MaxTokens
    <3>1. Inserters(s)' \subseteq Inserters(s)
      BY <1>1, <2>3 DEF TokenCount, Inserters, Proceed, Leave, Goto
    <3> QED
      BY <2>1, <3>1
  <2> QED
    BY <2>2, <2>3
<1>2. ASSUME NEW h \in Handlers, TokenInsert(h) PROVE Fewer \/ Inserted
  <2> PICK t \in Tokens : /\ token[t] = "none"
                          /\ token' = [token EXCEPT ![t] = "active"]
                          /\ of' = [of EXCEPT ![t] = arg[h]]
    BY <1>2 DEF TokenInsert
  <2>1. Inserters(s)' = Inserters(s) \ {h}
    BY <1>2 DEF TokenInsert, Inserters, Leave, Goto
  <2>2. t \notin ActiveTokens(s)
    BY DEF ActiveTokens
  <2>3. CASE arg[h] = s
    <3>1. ActiveTokens(s)' = ActiveTokens(s) \union {t}
      BY <2>3 DEF ActiveTokens
    <3>2. h \in Inserters(s)
      BY <1>2, <2>3 DEF TokenInsert, Inserters
    <3> QED
      BY <2>1, <2>2, <3>1, <3>2
  <2>4. CASE arg[h] # s
    <3>1. ActiveTokens(s)' \subseteq ActiveTokens(s)
      BY <2>4 DEF ActiveTokens
    <3> QED
      BY <2>1, <3>1
  <2> QED
    BY <2>3, <2>4
<1>3. ASSUME NEW h \in Handlers,
             \/ CreateCount(h) \/ CreateInsert(h) \/ RestoreRead(h) \/ RestoreCount(h)
             \/ RestoreWrite(h) \/ ArchiveRead(h) \/ ArchiveWrite(h) \/ TokenRead(h)
             \/ Abandon(h) \/ \E r \in Slugs : Request(h, r)
      PROVE  Fewer
  <2>1. ActiveTokens(s)' = ActiveTokens(s)
    BY <1>3 DEF CreateCount, CreateInsert, RestoreRead, RestoreCount, RestoreWrite,
                ArchiveRead, ArchiveWrite, TokenRead, Abandon, Request, ActiveTokens
  <2>2. Inserters(s)' \subseteq Inserters(s)
    BY <1>3 DEF CreateCount, CreateInsert, RestoreRead, RestoreCount, RestoreWrite,
                ArchiveRead, ArchiveWrite, TokenRead, Abandon, Request, Inserters,
                CountProjects, Proceed, Leave, Goto
  <2> QED
    BY <2>1, <2>2
<1>4. ASSUME NEW t \in Tokens, RevokeToken(t) PROVE Fewer
  BY <1>4 DEF RevokeToken, ActiveTokens, Inserters
<1>5. CASE AssignLegacyProjects \/ UNCHANGED vars
  BY <1>5 DEF AssignLegacyProjects, vars, ActiveTokens, Inserters
<1> QED
  BY <1>1, <1>2, <1>3, <1>4, <1>5 DEF Next, Step

LEMMA TokenStep == TypeOK /\ TokenInv /\ [Next]_vars => TokenInv'
<1> SUFFICES ASSUME TypeOK, TokenInv, [Next]_vars, NEW s \in Slugs
             PROVE  Cardinality(ActiveTokens(s)') + Cardinality(Inserters(s)')
                      < MaxTokens + Cardinality(Handlers)
  BY DEF TokenInv
<1>0. /\ Cardinality(Handlers) \in Nat /\ MaxTokens \in Nat
      /\ Cardinality(ActiveTokens(s)) + Cardinality(Inserters(s))
           < MaxTokens + Cardinality(Handlers)
  BY HandlersCounted, ProjectsAssumption DEF TokenInv
<1>1. CASE /\ ActiveTokens(s)' \subseteq ActiveTokens(s)
           /\ Inserters(s)' \subseteq Inserters(s)
  <2>1. /\ Cardinality(ActiveTokens(s)') <= Cardinality(ActiveTokens(s))
        /\ Cardinality(Inserters(s)') <= Cardinality(Inserters(s))
    BY <1>1, TokenSets, FS_Subset
  <2> QED
    BY <1>0, <2>1, TokenSets, TokenSetsNext
<1>2. CASE /\ ActiveTokens(s)' = ActiveTokens(s)
           /\ ~(Cardinality(ActiveTokens(s)) >= MaxTokens)
  BY <1>0, <1>2, TokenSets, TokenSetsNext
<1>3. ASSUME NEW h \in Inserters(s), NEW t \in Tokens \ ActiveTokens(s),
             ActiveTokens(s)' = ActiveTokens(s) \union {t},
             Inserters(s)' = Inserters(s) \ {h}
      PROVE  Cardinality(ActiveTokens(s)') + Cardinality(Inserters(s)')
               < MaxTokens + Cardinality(Handlers)
  <2>1. Cardinality(ActiveTokens(s)') = Cardinality(ActiveTokens(s)) + 1
    BY <1>3, TokenSets, FS_AddElement
  <2>2. Cardinality(Inserters(s)') = Cardinality(Inserters(s)) - 1
    BY <1>3, TokenSets, FS_RemoveElement
  <2> QED
    BY <1>0, <2>1, <2>2, TokenSets
<1> QED
  BY <1>1, <1>2, <1>3, TokenMoves

\* Handlers that count before another one inserts overshoot the limits of
\* active projects and of active tokens by less than one per handler, apart
\* from the projects the account was given without a count, however many
\* assignments, exempting processes and archivals come between.
THEOREM LimitsAlmostKept == Spec => []LimitsOvershoot
<1>1. TypeOK /\ ProjectInv /\ TokenInv => LimitsOvershoot
  <2> SUFFICES ASSUME TypeOK, ProjectInv, TokenInv PROVE LimitsOvershoot
    OBVIOUS
  <2>1. Cardinality(Active \ waived) < MaxActive + Cardinality(Handlers)
    <3>1. IsFiniteSet(Active) /\ IsFiniteSet(Wanted)
      BY ProjectsAssumption, FS_Subset, WantedAtMost DEF Active, Wanted, Writers, TypeOK
    <3>2. IsFiniteSet(Held)
      BY <3>1, FS_Union, FS_Subset DEF Held
    <3>3. /\ IsFiniteSet(Active \ waived)
          /\ Cardinality(Active \ waived) <= Cardinality(Held)
      BY <3>2, FS_Subset DEF Held
    <3>4. Cardinality(Active \ waived) \in Nat /\ Cardinality(Held) \in Nat
      BY <3>2, <3>3, FS_CardinalityType
    <3> QED
      BY <3>3, <3>4, HandlersCounted, ProjectsAssumption DEF ProjectInv
  <2>2. ASSUME NEW s \in Slugs
        PROVE  Cardinality(ActiveTokens(s)) < MaxTokens + Cardinality(Handlers)
    BY TokenSets, HandlersCounted, ProjectsAssumption DEF TokenInv
  <2> QED
    BY <2>1, <2>2 DEF LimitsOvershoot
<1> QED
  BY <1>1, TypeInit, TypeStep, ProjectInit, ProjectStep, TokenInit, TokenStep, PTL DEF Spec
=============================================================================
