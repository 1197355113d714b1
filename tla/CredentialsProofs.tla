------------------------- MODULE CredentialsProofs -------------------------
(***************************************************************************)
(* Proofs about Credentials for every number of tokens, keys and handlers. *)
(***************************************************************************)
EXTENDS Credentials, FiniteSetTheorems, TLAPS

LEMMA RowsType ==
  rows \in Rows <=> /\ boot \in [Boots -> {"none", "unused", "used"}]
                    /\ key \in [Keys -> {"none", "active", "revoked"}]
                    /\ origin \in [Keys -> Boots \union {Direct}]
BY DEF rows, Rows

\* From BeginTx to Commit or Rollback a handler holds the connection.
InTx == {"lookup", "count", "insert", "markUsed", "commit", "rollback"}

Held == \A h \in Handlers : pc[h] \in InTx => conn = h

\* The keys made from a bootstrap token, in the database or in a draft.
Made(r, b) == {k \in Keys : r.key[k] # "none" /\ r.origin[k] = b}

\* A token is used up exactly when it has made one key.
ExactFor(r, b) ==
  IF r.boot[b] = "used" THEN \E k \in Keys : Made(r, b) = {k} ELSE Made(r, b) = {}

Exact(r) == \A b \in Boots : ExactFor(r, b)

\* What the draft of the handler that holds the connection may contain.
DraftOf(h) ==
  /\ pc[h] \in {"lookup", "count", "insert"} => draft = rows
  /\ pc[h] = "lookup" => src[h] \in Boots
  /\ pc[h] \in {"count", "insert"} /\ src[h] \in Boots => boot[src[h]] = "unused"
  /\ pc[h] = "markUsed" =>
       /\ src[h] \in Boots
       /\ \E k \in Keys : Made(draft, src[h]) = {k}
       /\ \A b \in Boots \ {src[h]} : ExactFor(draft, b)
  /\ pc[h] = "commit" => Exact(draft)

CredentialsInv ==
  TypeOK /\ Held /\ Exact(rows) /\ \A h \in Handlers : DraftOf(h)

LEMMA InvInit == Init => CredentialsInv
<1> SUFFICES ASSUME Init PROVE CredentialsInv
    OBVIOUS
<1>1. TypeOK
  BY RowsType DEF Init, TypeOK, PCs
<1>2. Exact(rows)
  BY DEF Init, Exact, ExactFor, Made, rows
<1> QED
  BY <1>1, <1>2 DEF Init, CredentialsInv, Held, DraftOf, InTx

\* What the transaction's statements make of well-typed rows.
LEMMA InsertEdit ==
  ASSUME NEW r \in Rows, NEW k \in Keys, NEW s \in Boots \union {Direct}
  PROVE  LET d == [r EXCEPT !.key[k] = "active", !.origin[k] = s] IN
         /\ d \in Rows /\ d.boot = r.boot
         /\ d.key = [r.key EXCEPT ![k] = "active"]
         /\ d.origin = [r.origin EXCEPT ![k] = s]
BY DEF Rows

LEMMA UseEdit ==
  ASSUME NEW r \in Rows, NEW b \in Boots
  PROVE  LET d == [r EXCEPT !.boot[b] = "used"] IN
         /\ d \in Rows /\ d.boot = [r.boot EXCEPT ![b] = "used"]
         /\ d.key = r.key /\ d.origin = r.origin
BY DEF Rows

LEMMA TypeStep ==
  ASSUME CredentialsInv, [Next]_vars
  PROVE  TypeOK'
<1>a. /\ boot \in [Boots -> {"none", "unused", "used"}]
      /\ key \in [Keys -> {"none", "active", "revoked"}]
      /\ origin \in [Keys -> Boots \union {Direct}]
  BY RowsType DEF CredentialsInv, TypeOK
<1>b. /\ draft \in Rows /\ rows \in Rows /\ expired \in SUBSET Boots
      /\ conn \in Handlers \union {Free} /\ pc \in [Handlers -> PCs]
      /\ src \in [Handlers -> Boots \union {Direct}]
  BY DEF CredentialsInv, TypeOK
<1> DEFINE StoreOK == /\ boot \in [Boots -> {"none", "unused", "used"}]
                      /\ key \in [Keys -> {"none", "active", "revoked"}]
                      /\ origin \in [Keys -> Boots \union {Direct}]
           RestOK == /\ expired \in SUBSET Boots
                     /\ conn \in Handlers \union {Free} /\ pc \in [Handlers -> PCs]
                     /\ src \in [Handlers -> Boots \union {Direct}]
<1> SUFFICES StoreOK' /\ draft' \in Rows /\ RestOK'
    BY DEF TypeOK, rows, Rows
<1>1. ASSUME NEW h \in Handlers, Request(h)
      PROVE  StoreOK' /\ draft' \in Rows /\ RestOK'
  BY <1>1, <1>a, <1>b DEF Request, Goto, PCs, store
<1>2. ASSUME NEW h \in Handlers, BeginTx(h)
      PROVE  StoreOK' /\ draft' \in Rows /\ RestOK'
  BY <1>2, <1>a, <1>b DEF BeginTx, Goto, PCs, store
<1>3. ASSUME NEW h \in Handlers, Lookup(h) \/ Count(h) \/ Fails(h)
      PROVE  StoreOK' /\ draft' \in Rows /\ RestOK'
  BY <1>3, <1>a, <1>b DEF Lookup, Count, Fails, Goto, PCs, store
<1>4. ASSUME NEW h \in Handlers, InsertKey(h)
      PROVE  StoreOK' /\ draft' \in Rows /\ RestOK'
  <2>1. PICK k \in Keys :
          draft' = [draft EXCEPT !.key[k] = "active", !.origin[k] = src[h]]
    BY <1>4 DEF InsertKey
  <2>2. src[h] \in Boots \union {Direct}
    BY <1>b
  <2>3. draft' \in Rows
    BY <2>1, <2>2, <1>b, InsertEdit
  <2> QED
    BY <1>4, <2>3, <1>a, <1>b DEF InsertKey, Goto, PCs, store
<1>5. ASSUME NEW h \in Handlers, MarkUsed(h)
      PROVE  StoreOK' /\ draft' \in Rows /\ RestOK'
  <2>1. src[h] \in Boots
    BY <1>5 DEF MarkUsed, CredentialsInv, DraftOf
  <2>2. draft' \in Rows
    BY <1>5, <2>1, <1>b, UseEdit DEF MarkUsed
  <2> QED
    BY <1>5, <2>2, <1>a, <1>b DEF MarkUsed, Goto, PCs, store
<1>6. ASSUME NEW h \in Handlers, Commit(h) \/ Rollback(h)
      PROVE  StoreOK' /\ draft' \in Rows /\ RestOK'
  <2>1. StoreOK'
    BY <1>6, <1>a, <1>b DEF Commit, Rollback, Rows, store
  <2>2. draft' = [boot |-> boot', key |-> key', origin |-> origin']
    BY <1>6 DEF Commit, Rollback, EndTx
  <2>3. draft' \in Rows
    BY <2>1, <2>2 DEF Rows
  <2> QED
    BY <1>6, <2>1, <2>3, <1>b DEF Commit, Rollback, EndTx, Goto, PCs
<1>7. ASSUME NEW b \in Boots, CreateBootstrapToken(b) \/ Expire(b)
      PROVE  StoreOK' /\ draft' \in Rows /\ RestOK'
  BY <1>7, <1>a, <1>b DEF CreateBootstrapToken, Expire, store
<1>8. ASSUME NEW k \in Keys, RevokeAgentKey(k)
      PROVE  StoreOK' /\ draft' \in Rows /\ RestOK'
  BY <1>8, <1>a, <1>b DEF RevokeAgentKey
<1>9. CASE Crash
  BY <1>9, <1>a, <1>b DEF Crash, PCs, store
<1>10. CASE UNCHANGED vars
  BY <1>10, <1>a, <1>b DEF vars, store
<1> QED
  BY <1>1, <1>2, <1>3, <1>4, <1>5, <1>6, <1>7, <1>8, <1>9, <1>10 DEF Next, TxStep

\* What a token has made depends on its rows only.
LEMMA SameKeys ==
  ASSUME NEW r, NEW s, NEW b \in Boots, ExactFor(r, b),
         \A k \in Keys : /\ s.key[k] # "none" <=> r.key[k] # "none"
                         /\ r.key[k] # "none" => s.origin[k] = r.origin[k],
         s.boot[b] = "used" <=> r.boot[b] = "used"
  PROVE  ExactFor(s, b)
<1>1. Made(s, b) = Made(r, b)
  BY DEF Made
<1> QED
  BY <1>1 DEF ExactFor

\* A new key is made by the token it was inserted for, and by no other.
LEMMA InsertMakes ==
  ASSUME NEW r \in Rows, Exact(r), NEW k \in Keys, r.key[k] = "none",
         NEW s \in Boots \union {Direct}, s \in Boots => r.boot[s] = "unused"
  PROVE  LET d == [r EXCEPT !.key[k] = "active", !.origin[k] = s] IN
         /\ s \in Boots => Made(d, s) = {k}
         /\ \A b \in Boots \ {s} : ExactFor(d, b)
<1> DEFINE d == [r EXCEPT !.key[k] = "active", !.origin[k] = s]
<1>1. /\ d \in Rows /\ d.boot = r.boot
      /\ \A j \in Keys : /\ d.key[j] = IF j = k THEN "active" ELSE r.key[j]
                         /\ d.origin[j] = IF j = k THEN s ELSE r.origin[j]
  <2>1. d \in Rows
    BY InsertEdit
  <2>2. /\ d.boot = r.boot
        /\ d.key = [r.key EXCEPT ![k] = "active"]
        /\ d.origin = [r.origin EXCEPT ![k] = s]
    BY InsertEdit, ZenonT(60)
  <2>3. r.key \in [Keys -> {"none", "active", "revoked"}] /\ r.origin \in [Keys -> Boots \union {Direct}]
    BY DEF Rows
  <2> HIDE DEF d
  <2> QED
    BY <2>1, <2>2, <2>3
<1> HIDE DEF d
<1>2. s \in Boots => Made(d, s) = {k}
  <2>1. s \in Boots => Made(r, s) = {}
    BY DEF Exact, ExactFor
  <2> QED
    BY <1>1, <2>1 DEF Made
<1>3. ASSUME NEW b \in Boots, b # s
      PROVE  ExactFor(d, b)
  <2>1. Made(d, b) = Made(r, b)
    BY <1>1, <1>3 DEF Made
  <2> QED
    BY <1>1, <2>1 DEF Exact, ExactFor
<1> QED
  BY <1>2, <1>3 DEF d

\* The connection serves one transaction at a time.
LEMMA OneTransaction ==
  ASSUME CredentialsInv, NEW h \in Handlers, pc[h] \in InTx
  PROVE  conn # Free /\ \A g \in Handlers : pc[g] \in InTx => g = h
BY CredentialsAssumption DEF CredentialsInv, Held

LEMMA HeldStep ==
  ASSUME CredentialsInv, [Next]_vars
  PROVE  Held'
<1>a. pc \in [Handlers -> PCs] /\ \A h \in Handlers : pc[h] \in InTx => conn = h
  BY DEF CredentialsInv, TypeOK, Held
<1> USE DEF Held, InTx, Goto
<1>1. ASSUME NEW h \in Handlers, Request(h)
      PROVE  Held'
  BY <1>1, <1>a DEF Request
<1>2. ASSUME NEW h \in Handlers, BeginTx(h)
      PROVE  Held'
  BY <1>2, <1>a, CredentialsAssumption DEF BeginTx
<1>3. ASSUME NEW h \in Handlers,
             Lookup(h) \/ Count(h) \/ InsertKey(h) \/ MarkUsed(h) \/ Fails(h)
      PROVE  Held'
  BY <1>3, <1>a DEF Lookup, Count, InsertKey, MarkUsed, Fails
<1>4. ASSUME NEW h \in Handlers, Commit(h) \/ Rollback(h)
      PROVE  Held'
  <2>1. \A g \in Handlers : pc[g] \in InTx => g = h
    BY <1>4, <1>a DEF Commit, Rollback
  <2> QED
    BY <1>4, <1>a, <2>1 DEF Commit, Rollback, EndTx
<1>5. CASE Crash
  BY <1>5 DEF Crash
<1>6. ASSUME \/ \E b \in Boots : CreateBootstrapToken(b) \/ Expire(b)
             \/ \E k \in Keys : RevokeAgentKey(k)
             \/ UNCHANGED vars
      PROVE  Held'
  BY <1>6, <1>a DEF CreateBootstrapToken, Expire, RevokeAgentKey, vars
<1> QED
  BY <1>1, <1>2, <1>3, <1>4, <1>5, <1>6 DEF Next, TxStep

LEMMA ExactStep ==
  ASSUME CredentialsInv, [Next]_vars
  PROVE  Exact(rows)'
<1>a. /\ boot \in [Boots -> {"none", "unused", "used"}]
      /\ key \in [Keys -> {"none", "active", "revoked"}]
      /\ Exact(rows)
  BY RowsType DEF CredentialsInv, TypeOK
<1>1. CASE UNCHANGED store
  BY <1>1, <1>a DEF store, rows
<1>2. ASSUME NEW b \in Boots, CreateBootstrapToken(b)
      PROVE  Exact(rows)'
  <2>1. \A c \in Boots : boot'[c] = "used" <=> boot[c] = "used"
    BY <1>2, <1>a DEF CreateBootstrapToken
  <2>2. UNCHANGED <<key, origin>>
    BY <1>2 DEF CreateBootstrapToken
  <2> QED
    BY <1>a, <2>1, <2>2, SameKeys DEF Exact, rows
<1>3. ASSUME NEW k \in Keys, RevokeAgentKey(k)
      PROVE  Exact(rows)'
  <2>1. \A j \in Keys : key'[j] # "none" <=> key[j] # "none"
    BY <1>3, <1>a DEF RevokeAgentKey
  <2>2. UNCHANGED <<boot, origin>>
    BY <1>3 DEF RevokeAgentKey
  <2> QED
    BY <1>a, <2>1, <2>2, SameKeys DEF Exact, rows
<1>4. ASSUME NEW h \in Handlers, Commit(h)
      PROVE  Exact(rows)'
  <2>1. Exact(draft) /\ boot' = draft.boot /\ key' = draft.key /\ origin' = draft.origin
    BY <1>4 DEF Commit, CredentialsInv, DraftOf
  <2> QED
    BY <2>1 DEF Exact, ExactFor, Made, rows
<1>5. ASSUME \/ \E h \in Handlers : \/ Request(h) \/ BeginTx(h) \/ Lookup(h) \/ Count(h)
                                    \/ InsertKey(h) \/ MarkUsed(h) \/ Rollback(h)
                                    \/ Fails(h)
             \/ \E b \in Boots : Expire(b)
             \/ Crash \/ UNCHANGED vars
      PROVE  UNCHANGED store
  BY <1>5 DEF Request, BeginTx, Lookup, Count, InsertKey, MarkUsed, Rollback, Fails,
              Expire, Crash, vars, store
<1> QED
  BY <1>1, <1>2, <1>3, <1>4, <1>5 DEF Next, TxStep

\* A step that leaves a transaction's handler, rows and draft alone.
LEMMA DraftKept ==
  ASSUME NEW h \in Handlers, DraftOf(h), UNCHANGED <<store, draft>>,
         pc'[h] = pc[h], src'[h] = src[h]
  PROVE  DraftOf(h)'
BY DEF DraftOf, store, rows, Made, ExactFor, Exact

LEMMA DraftStep ==
  ASSUME CredentialsInv, [Next]_vars, NEW h \in Handlers
  PROVE  DraftOf(h)'
<1>a. /\ pc \in [Handlers -> PCs] /\ src \in [Handlers -> Boots \union {Direct}]
      /\ draft \in Rows
  BY DEF CredentialsInv, TypeOK
<1>b. DraftOf(h) /\ Exact(rows) /\ Held
  BY DEF CredentialsInv
<1>0. CASE pc'[h] \notin InTx
  BY <1>0 DEF DraftOf, InTx
<1>1. CASE BeginTx(h)
  <2>1. /\ pc'[h] = IF src[h] = Direct THEN "count" ELSE "lookup"
        /\ draft' = rows /\ UNCHANGED <<store, src>>
    BY <1>1, <1>a DEF BeginTx, Goto
  <2> QED
    BY <2>1, <1>a, CredentialsAssumption DEF DraftOf, store, rows
<1>2. CASE Lookup(h)
  <2>1. /\ pc'[h] = "count" \/ pc'[h] = "rollback"
        /\ pc'[h] = "count" => draft.boot[src[h]] = "unused"
        /\ pc[h] = "lookup" /\ UNCHANGED <<store, draft, src>>
    BY <1>2, <1>a DEF Lookup, Goto
  <2>2. draft = rows
    BY <2>1, <1>b DEF DraftOf
  <2> QED
    BY <2>1, <2>2 DEF DraftOf, store, rows
<1>3. CASE Count(h)
  <2>1. /\ pc'[h] = "insert" \/ pc'[h] = "rollback"
        /\ pc[h] = "count" /\ UNCHANGED <<store, draft, src>>
    BY <1>3, <1>a DEF Count, Goto
  <2> QED
    BY <2>1, <1>b DEF DraftOf, store, rows
<1>4. CASE InsertKey(h)
  <2>1. PICK k \in Keys :
          /\ draft.key[k] = "none"
          /\ draft' = [draft EXCEPT !.key[k] = "active", !.origin[k] = src[h]]
    BY <1>4 DEF InsertKey
  <2>2. /\ pc[h] = "insert" /\ UNCHANGED <<store, src>>
        /\ pc'[h] = IF src[h] = Direct THEN "commit" ELSE "markUsed"
    BY <1>4, <1>a DEF InsertKey, Goto
  <2>3. draft = rows /\ Exact(draft) /\ (src[h] \in Boots => draft.boot[src[h]] = "unused")
    BY <2>2, <1>b DEF DraftOf, rows
  <2>4. src[h] \in Boots \union {Direct}
    BY <1>a
  <2>5. /\ src[h] \in Boots => Made(draft', src[h]) = {k}
        /\ \A b \in Boots \ {src[h]} : ExactFor(draft', b)
    BY <2>1, <2>3, <2>4, <1>a, InsertMakes
  <2>6. CASE src[h] = Direct
    <3>1. \A b \in Boots : ExactFor(draft', b)
      BY <2>5, <2>6, CredentialsAssumption
    <3> QED
      BY <2>2, <2>6, <3>1 DEF DraftOf, Exact
  <2>7. CASE src[h] \in Boots
    BY <2>2, <2>5, <2>7, CredentialsAssumption DEF DraftOf
  <2> QED
    BY <2>4, <2>6, <2>7
<1>5. CASE MarkUsed(h)
  <2>1. /\ pc[h] = "markUsed" /\ pc'[h] = "commit" /\ UNCHANGED src
        /\ draft' = [draft EXCEPT !.boot[src[h]] = "used"]
    BY <1>5, <1>a DEF MarkUsed, Goto
  <2>2. /\ src[h] \in Boots
        /\ \E k \in Keys : Made(draft, src[h]) = {k}
        /\ \A b \in Boots \ {src[h]} : ExactFor(draft, b)
    BY <2>1, <1>b DEF DraftOf
  <2>3. /\ draft'.boot = [draft.boot EXCEPT ![src[h]] = "used"]
        /\ draft'.key = draft.key /\ draft'.origin = draft.origin
    BY <2>1, <2>2, <1>a, UseEdit
  <2>4. \A b \in Boots : Made(draft', b) = Made(draft, b)
    BY <2>3 DEF Made
  <2>5. \A b \in Boots : draft'.boot[b] = IF b = src[h] THEN "used" ELSE draft.boot[b]
    BY <2>3, <1>a DEF Rows
  <2>6. \A b \in Boots : ExactFor(draft', b)
    BY <2>2, <2>4, <2>5 DEF ExactFor
  <2> QED
    BY <2>1, <2>6 DEF DraftOf, Exact
<1>6. CASE Request(h) \/ Commit(h) \/ Rollback(h) \/ Fails(h) \/ Crash
  <2>1. pc'[h] \in {"begin", "idle", "rollback"}
    BY <1>6, <1>a DEF Request, Commit, Rollback, Fails, Crash, EndTx, Goto
  <2> QED
    BY <2>1 DEF DraftOf
<1>7. ASSUME NEW g \in Handlers, g # h, pc'[h] \in InTx,
             Request(g) \/ BeginTx(g) \/ TxStep(g)
      PROVE  DraftOf(h)'
  <2>1. pc'[h] = pc[h] /\ src'[h] = src[h]
    BY <1>7, <1>a DEF Request, BeginTx, TxStep, Lookup, Count, InsertKey, MarkUsed,
                      Commit, Rollback, Fails, EndTx, Goto
  <2>2. conn # Free /\ pc[g] \notin InTx
    BY <1>7, <2>1, OneTransaction
  <2>3. Request(g)
    BY <1>7, <2>2 DEF BeginTx, TxStep, Lookup, Count, InsertKey, MarkUsed, Commit,
                      Rollback, Fails, InTx
  <2> QED
    BY <2>1, <2>3, <1>b, DraftKept DEF Request
<1>8. ASSUME pc'[h] \in InTx,
             \/ \E b \in Boots : CreateBootstrapToken(b) \/ Expire(b)
             \/ \E k \in Keys : RevokeAgentKey(k)
             \/ UNCHANGED vars
      PROVE  DraftOf(h)'
  <2>1. pc'[h] = pc[h] /\ src'[h] = src[h] /\ UNCHANGED draft
    BY <1>8 DEF CreateBootstrapToken, Expire, RevokeAgentKey, vars
  <2>2. conn # Free
    BY <1>8, <2>1, OneTransaction
  <2>3. UNCHANGED store
    BY <1>8, <2>2 DEF CreateBootstrapToken, Expire, RevokeAgentKey, vars, store
  <2> QED
    BY <2>1, <2>3, <1>b, DraftKept
<1> QED
  BY <1>0, <1>1, <1>2, <1>3, <1>4, <1>5, <1>6, <1>7, <1>8 DEF Next, TxStep

LEMMA CredentialsStep == CredentialsInv /\ [Next]_vars => CredentialsInv'
BY TypeStep, HeldStep, ExactStep, DraftStep DEF CredentialsInv

LEMMA CredentialsInvariant == Spec => []CredentialsInv
BY InvInit, CredentialsStep, PTL DEF Spec

\* However many exchanges race for the connection, and whichever statement
\* fails or the process dies at, a bootstrap token is used up exactly when it
\* has made its one key.
THEOREM TokensMakeOneKey == Spec => []OneKeyPerBootstrap
<1>1. CredentialsInv => OneKeyPerBootstrap
  <2> SUFFICES ASSUME CredentialsInv, NEW b \in Boots
               PROVE  Cardinality({k \in Keys : key[k] # "none" /\ origin[k] = b})
                        = IF boot[b] = "used" THEN 1 ELSE 0
      BY DEF OneKeyPerBootstrap
  <2>1. IF boot[b] = "used"
          THEN \E k \in Keys : {j \in Keys : key[j] # "none" /\ origin[j] = b} = {k}
          ELSE {j \in Keys : key[j] # "none" /\ origin[j] = b} = {}
    BY DEF CredentialsInv, Exact, ExactFor, Made, rows
  <2> QED
    BY <2>1, FS_Singleton, FS_EmptySet
<1> QED
  BY <1>1, CredentialsInvariant, PTL
=============================================================================
