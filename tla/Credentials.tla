---------------------------- MODULE Credentials ----------------------------
(***************************************************************************)
(* Agent keys and bootstrap tokens of one account, and the transactions    *)
(* that create keys (internal/inbox/control.go).  The store has a single   *)
(* SQLite connection: a transaction holds it from BeginTx to Commit or     *)
(* Rollback, and every other statement waits for it.                       *)
(*                                                                         *)
(* One action per statement.  What a transaction has written is a draft    *)
(* that becomes the database at Commit and is dropped at Rollback.         *)
(***************************************************************************)
EXTENDS Naturals, FiniteSets

CONSTANTS
  Boots,     \* bootstrap tokens that may be created
  Keys,      \* agent keys that may be created
  Handlers,  \* HTTP handlers that may run at a time
  Direct,    \* origin of a key made by CreateAgentKey
  Free,      \* the connection is idle
  MaxKeys    \* MaxActiveAgentKeys (100)

ASSUME CredentialsAssumption ==
  /\ Direct \notin Boots /\ Free \notin Handlers
  /\ MaxKeys \in Nat \ {0}

VARIABLES
  boot,     \* Boots -> row of bootstrap_tokens: "none", "unused" or "used"
  key,      \* Keys -> row of agent_keys: "none", "active" or "revoked"
  origin,   \* Keys -> what the key was created from
  expired,  \* bootstrap tokens past expires_at_unix
  conn,     \* the handler whose transaction holds the connection, or Free
  draft,    \* the rows as that transaction sees them
  pc,       \* Handlers -> next statement
  src       \* Handlers -> the bootstrap token presented, or Direct

rows  == [boot |-> boot, key |-> key, origin |-> origin]
store == <<boot, key, origin>>
vars  == <<boot, key, origin, expired, conn, draft, pc, src>>

PCs == {"idle", "begin", "lookup", "count", "insert", "markUsed", "commit",
        "rollback"}

Rows == [boot   : [Boots -> {"none", "unused", "used"}],
         key    : [Keys -> {"none", "active", "revoked"}],
         origin : [Keys -> Boots \union {Direct}]]

TypeOK ==
  /\ rows \in Rows /\ draft \in Rows
  /\ expired \in SUBSET Boots
  /\ conn \in Handlers \union {Free}
  /\ pc \in [Handlers -> PCs]
  /\ src \in [Handlers -> Boots \union {Direct}]

Init ==
  /\ boot = [b \in Boots |-> "none"]
  /\ key = [k \in Keys |-> "none"]
  /\ origin = [k \in Keys |-> Direct]
  /\ expired = {}
  /\ conn = Free
  /\ draft = rows
  /\ pc = [h \in Handlers |-> "idle"]
  /\ src = [h \in Handlers |-> Direct]

Goto(h, label) == pc' = [pc EXCEPT ![h] = label]

-----------------------------------------------------------------------------
(***************************************************************************)
(* Single statements: they need the connection for their own duration.     *)
(***************************************************************************)
CreateBootstrapToken(b) ==
  /\ conn = Free
  /\ boot[b] = "none"
  /\ boot' = [boot EXCEPT ![b] = "unused"]
  /\ UNCHANGED <<key, origin, expired, conn, draft, pc, src>>

RevokeAgentKey(k) ==
  /\ conn = Free
  /\ key[k] = "active"
  /\ key' = [key EXCEPT ![k] = "revoked"]
  /\ UNCHANGED <<boot, origin, expired, conn, draft, pc, src>>

\* Ten minutes have passed.
Expire(b) ==
  /\ boot[b] # "none" /\ b \notin expired
  /\ expired' = expired \union {b}
  /\ UNCHANGED <<store, conn, draft, pc, src>>

-----------------------------------------------------------------------------
(***************************************************************************)
(* ExchangeBootstrapToken and CreateAgentKey.                              *)
(***************************************************************************)
Request(h) ==
  /\ pc[h] = "idle"
  /\ \E s \in Boots \union {Direct} : src' = [src EXCEPT ![h] = s]
  /\ Goto(h, "begin")
  /\ UNCHANGED <<store, expired, conn, draft>>

BeginTx(h) ==
  /\ pc[h] = "begin"
  /\ conn = Free
  /\ conn' = h
  /\ draft' = rows
  /\ Goto(h, IF src[h] = Direct THEN "count" ELSE "lookup")
  /\ UNCHANGED <<store, expired, src>>

\* Mutant of Lookup: a refused exchange returns without its deferred Rollback.
LookupLeaks(h) ==
  /\ pc[h] = "lookup"
  /\ \/ /\ draft.boot[src[h]] = "unused" /\ src[h] \notin expired
        /\ Goto(h, "count") /\ UNCHANGED src
     \/ /\ draft.boot[src[h]] # "unused" \/ src[h] \in expired
        /\ Goto(h, "idle") /\ src' = [src EXCEPT ![h] = Direct]
  /\ UNCHANGED <<store, expired, conn, draft>>

\* used_at_unix IS NULL AND expires_at_unix > now
Lookup(h) ==
  /\ pc[h] = "lookup"
  /\ Goto(h, IF draft.boot[src[h]] = "unused" /\ src[h] \notin expired
               THEN "count" ELSE "rollback")
  /\ UNCHANGED <<store, expired, conn, draft, src>>

ActiveKeys(kind) == {k \in Keys : kind[k] = "active"}

Count(h) ==
  /\ pc[h] = "count"
  /\ Goto(h, IF Cardinality(ActiveKeys(draft.key)) >= MaxKeys
               THEN "rollback" ELSE "insert")
  /\ UNCHANGED <<store, expired, conn, draft, src>>

\* Mutant of InsertKey: the key is inserted outside the transaction.
InsertOutside(h) ==
  /\ pc[h] = "insert"
  /\ \E k \in Keys :
       /\ key[k] = "none" /\ draft.key[k] = "none"
       /\ key' = [key EXCEPT ![k] = "active"]
       /\ origin' = [origin EXCEPT ![k] = src[h]]
       /\ draft' = [draft EXCEPT !.key[k] = "active", !.origin[k] = src[h]]
  /\ Goto(h, IF src[h] = Direct THEN "commit" ELSE "markUsed")
  /\ UNCHANGED <<boot, expired, conn, src>>

\* createAgentKeyTx
InsertKey(h) ==
  /\ pc[h] = "insert"
  /\ \E k \in Keys :
       /\ draft.key[k] = "none"
       /\ draft' = [draft EXCEPT !.key[k] = "active", !.origin[k] = src[h]]
  /\ Goto(h, IF src[h] = Direct THEN "commit" ELSE "markUsed")
  /\ UNCHANGED <<store, expired, conn, src>>

MarkUsed(h) ==
  /\ pc[h] = "markUsed"
  /\ draft' = [draft EXCEPT !.boot[src[h]] = "used"]
  /\ Goto(h, "commit")
  /\ UNCHANGED <<store, expired, conn, src>>

\* The connection goes back to the pool, the handler returns.
EndTx(h) ==
  /\ conn' = Free
  /\ draft' = [boot |-> boot', key |-> key', origin |-> origin']
  /\ Goto(h, "idle")
  /\ src' = [src EXCEPT ![h] = Direct]

Commit(h) ==
  /\ pc[h] = "commit"
  /\ boot' = draft.boot /\ key' = draft.key /\ origin' = draft.origin
  /\ EndTx(h)
  /\ UNCHANGED expired

\* The deferred Rollback.
Rollback(h) ==
  /\ pc[h] = "rollback"
  /\ UNCHANGED <<store, expired>>
  /\ EndTx(h)

\* A statement of the transaction fails, Commit included.
Fails(h) ==
  /\ pc[h] \in {"lookup", "count", "insert", "markUsed", "commit"}
  /\ Goto(h, "rollback")
  /\ UNCHANGED <<store, expired, conn, draft, src>>

\* The process dies: SQLite recovers the database without the draft.
Crash ==
  /\ conn # Free
  /\ UNCHANGED <<store, expired>>
  /\ conn' = Free
  /\ draft' = rows
  /\ pc' = [h \in Handlers |-> "idle"]
  /\ src' = [h \in Handlers |-> Direct]

TxStep(h) ==
  \/ Lookup(h) \/ Count(h) \/ InsertKey(h) \/ MarkUsed(h) \/ Commit(h)
  \/ Rollback(h) \/ Fails(h)

Next ==
  \/ \E h \in Handlers : Request(h) \/ BeginTx(h) \/ TxStep(h)
  \/ \E b \in Boots : CreateBootstrapToken(b) \/ Expire(b)
  \/ \E k \in Keys : RevokeAgentKey(k)
  \/ Crash

Spec == Init /\ [][Next]_vars

\* A handler that holds the connection goes on.
FairSpec == Spec /\ \A h \in Handlers : WF_vars(TxStep(h))

-----------------------------------------------------------------------------
(***************************************************************************)
(* Properties.                                                             *)
(***************************************************************************)

\* A bootstrap token is used up exactly when it has made its one key: no
\* failure between the two statements burns it without a key, leaves a key
\* behind or leaves it good for another.
OneKeyPerBootstrap ==
  \A b \in Boots :
    Cardinality({k \in Keys : key[k] # "none" /\ origin[k] = b})
      = IF boot[b] = "used" THEN 1 ELSE 0

\* Whoever takes the only connection gives it back, refused or not: no
\* handler makes all others wait for ever.
ConnectionReturns == \A h \in Handlers : conn = h ~> conn # h
=============================================================================
