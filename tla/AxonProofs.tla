----------------------------- MODULE AxonProofs -----------------------------
(* Theorems about one tenant database, for every number of sessions, keys    *)
(* and operations: its types, its audit log, the atomicity of commits, the   *)
(* ledger it implements, and the isolation of its transactions.              *)
EXTENDS Axon, TLAPS

\* A leaf that names no prover goes to SMT, then to Zenon, then to SMT for longer.
USE SMT, Zenon, SMTT(60)

----------------------------------------------------------------------------
(* The actions reduced to a few shapes of step: steps that leave the storage *)
(* alone, one write with its audit entry, commit, abort.                     *)

(* One row written together with the entry that accounts for it; an update   *)
(* is one version above the row it replaces, and a counter that guards the   *)
(* membership of a collection moves when the write does.                     *)
WriteStep(e) ==
    /\ e \in Entry
    /\ store' = [store EXCEPT ![e.key] = Outcome(e)]
    /\ log' = Append(log, e)
    /\ churn' \in [Collection -> Nat]
    /\ \A c \in Collection : churn[c] <= churn'[c]
    /\ CounterGuard /\ (Present(e.key) <=> e.after = Nil) =>
           churn[CollectionOf[e.key]] < churn'[CollectionOf[e.key]]
    /\ e.kind = "update" => /\ Present(e.key)
                            /\ e.after # Nil
                            /\ e.version = Version(e.key) + 1

(* Staged creations and updates carry a document, staged deletions do not.   *)
OpsCarryData ==
    \A s \in Session : \A i \in DOMAIN ops[s] :
        ops[s][i].data = Nil <=> ops[s][i].kind = "delete"

(* The empty slot and the row an audit entry describes are rows.             *)
LEMMA RowTypes ==
    /\ Absent \in Row
    /\ \A e \in Entry : Outcome(e) \in Row
BY DEF Absent, Row, Entry, Outcome

(* Elements of a sequence are in the set the sequence is over.               *)
LEMMA SeqElement == \A T : \A q \in Seq(T) : \A i \in DOMAIN q : q[i] \in T
OBVIOUS

\* One session's sequence with an element more.
OneMore(T, g, f, s, x) == f \in [Session -> Seq(T)] /\ g = [f EXCEPT ![s] = Append(@, x)]

OldOrNew(g, f, s, x, t, i) == \/ t = s /\ g[t][i] = x
                              \/ i \in DOMAIN f[t] /\ g[t][i] = f[t][i]

(* What appending to the sequence of one session does to all of them.        *)
LEMMA AppendAt ==
    ASSUME NEW T, NEW f, NEW g, NEW s \in Session, NEW x, OneMore(T, g, f, s, x)
    PROVE  \A t \in Session : \A i \in DOMAIN g[t] : OldOrNew(g, f, s, x, t, i)
BY DEF OneMore, OldOrNew

(* Appending an element of T leaves the sequences over T.                    *)
LEMMA AppendTyped ==
    ASSUME NEW T, NEW f, NEW g, NEW s \in Session, NEW x \in T, OneMore(T, g, f, s, x)
    PROVE  /\ g \in [Session -> Seq(T)]
           /\ \A t \in Session : t # s => g[t] = f[t]
BY DEF OneMore

(* A version that moved is above what an observation recorded, if the old    *)
(* one was not below it.                                                     *)
LEMMA Above ==
    \A v, w \in Nat : (v > w \/ v = w => v + 1 > w) /\ ~(v > v)
OBVIOUS

(* Counters between two bounds that are equal.                               *)
LEMMA Squeeze ==
    \A a, b, c \in Nat : a <= b /\ b <= c => a <= c /\ (c = a => b = a /\ ~(b < c))
OBVIOUS

(* The membership counter of a collection never goes back.                   *)
LEMMA BumpCounts ==
    ASSUME churn \in [Collection -> Nat], NEW k \in Key, BumpStructuralVersion(k)
    PROVE  /\ churn' \in [Collection -> Nat] /\ \A c \in Collection : churn[c] <= churn'[c]
           /\ CounterGuard => churn[CollectionOf[k]] < churn'[CollectionOf[k]]
<1>1. CollectionOf[k] \in Collection
  BY StoreAssumption
<1>2. CASE CounterGuard
  <2>1. churn' = [churn EXCEPT ![CollectionOf[k]] = @ + 1]
    BY <1>2 DEF BumpStructuralVersion
  <2> QED
    BY <1>1, <2>1
<1>3. CASE ~CounterGuard
  <2>1. churn' = churn
    BY <1>3 DEF BumpStructuralVersion
  <2> QED
    BY <1>3, <2>1
<1> QED
  BY <1>2, <1>3

(* put (upsert) with its entry is one write.                                 *)
LEMMA PutIsWrite ==
    ASSUME StoreTypeOK, NEW k \in Key, NEW d \in Doc,
           Put(k, 1, d), Append1(AuditEntry(k, "create", 1, Nil, d))
    PROVE  \E e \in Entry : WriteStep(e) /\ e.key = k /\ e.kind = "create" /\ e.after = d
<1> DEFINE e == AuditEntry(k, "create", 1, Nil, d)
<1>1. e \in Entry
  BY DEF AuditEntry, Entry, Kind
<1>2. Outcome(e) = [version |-> 1, data |-> d] /\ e.after # Nil
  BY StoreAssumption DEF AuditEntry, Outcome
<1>3. /\ churn' \in [Collection -> Nat] /\ \A c \in Collection : churn[c] <= churn'[c]
      /\ CounterGuard /\ ~Present(k) => churn[CollectionOf[k]] < churn'[CollectionOf[k]]
  <2>1. churn \in [Collection -> Nat] /\ \A c \in Collection : churn[c] <= churn[c]
    BY DEF StoreTypeOK
  <2>2. CASE ~Present(k)
    BY Zenon, <2>1, <2>2, BumpCounts DEF Put
  <2>3. CASE Present(k)
    BY Zenon, <2>1, <2>3 DEF Put
  <2> QED
    BY <2>2, <2>3
<1>4. WriteStep(e)
  BY Zenon, <1>1, <1>2, <1>3 DEF WriteStep, Put, Append1, AuditEntry
<1> QED
  BY <1>1, <1>4 DEF AuditEntry

(* compare_and_swap with its entry is one write, one version up.             *)
LEMMA SwapIsWrite ==
    ASSUME StoreTypeOK, NEW k \in Key, NEW v \in Nat, NEW d \in Doc,
           NEW b \in Doc \cup {Nil},
           CompareAndSwap(k, v, d), Append1(AuditEntry(k, "update", v + 1, b, d))
    PROVE  \E e \in Entry : WriteStep(e) /\ e.key = k /\ e.kind = "update" /\ e.after = d
<1> DEFINE e == AuditEntry(k, "update", v + 1, b, d)
<1>1. e \in Entry
  BY DEF AuditEntry, Entry, Kind
<1>2. Outcome(e) = [version |-> v + 1, data |-> d] /\ e.after # Nil
  BY StoreAssumption DEF AuditEntry, Outcome
<1>3. churn' \in [Collection -> Nat] /\ \A c \in Collection : churn[c] <= churn'[c]
  BY DEF CompareAndSwap, StoreTypeOK
<1>4. WriteStep(e)
  BY Zenon, <1>1, <1>2, <1>3 DEF WriteStep, CompareAndSwap, CanSwap, Append1, AuditEntry
<1> QED
  BY <1>1, <1>4 DEF AuditEntry

(* delete with its entry is one write.                                       *)
LEMMA DeleteIsWrite ==
    ASSUME StoreTypeOK, NEW k \in Key, NEW v \in Nat, NEW b \in Doc \cup {Nil},
           Delete(k), Append1(AuditEntry(k, "delete", v, b, Nil))
    PROVE  \E e \in Entry : WriteStep(e) /\ e.key = k /\ e.kind = "delete" /\ e.after = Nil
<1> DEFINE e == AuditEntry(k, "delete", v, b, Nil)
<1>1. e \in Entry
  BY DEF AuditEntry, Entry, Kind
<1>2. Outcome(e) = Absent
  BY DEF AuditEntry, Outcome
<1>3. /\ churn' \in [Collection -> Nat] /\ \A c \in Collection : churn[c] <= churn'[c]
      /\ CounterGuard /\ Present(k) => churn[CollectionOf[k]] < churn'[CollectionOf[k]]
  <2>1. churn \in [Collection -> Nat] /\ \A c \in Collection : churn[c] <= churn[c]
    BY DEF StoreTypeOK
  <2>2. CASE Present(k)
    BY Zenon, <2>1, <2>2, BumpCounts DEF Delete
  <2>3. CASE ~Present(k)
    BY Zenon, <2>1, <2>3 DEF Delete
  <2> QED
    BY <2>2, <2>3
<1>4. WriteStep(e)
  BY Zenon, <1>1, <1>2, <1>3 DEF WriteStep, Delete, Append1, AuditEntry
<1> QED
  BY <1>1, <1>4 DEF AuditEntry

(* Each operation that phase 2 of execute applies is one write, whose entry  *)
(* is the record of that operation.                                          *)
LEMMA ApplyIsWrite ==
    ASSUME TypeOK, OpsCarryData, NEW s \in Session,
           ApplyCreate(s) \/ ApplyUpdate(s) \/ ApplyDelete(s)
    PROVE  /\ phase[s] = "apply" /\ next[s] \in DOMAIN ops[s] /\ Applied(s)
           /\ \E e \in Entry : WriteStep(e) /\ Records(e, ops[s][next[s]])
<1> DEFINE op == ops[s][next[s]]
<1>1. StoreTypeOK
  BY DEF TypeOK
<1>2. next[s] \in DOMAIN ops[s] => op \in Op
  BY DEF TypeOK, TxTypeOK
<1>3. next[s] \in DOMAIN ops[s] => (op.data = Nil <=> op.kind = "delete")
  BY DEF OpsCarryData
<1>4. CASE ApplyCreate(s)
  <2>1. next[s] \in DOMAIN ops[s] /\ phase[s] = "apply" /\ Applied(s) /\ op.kind = "create"
    BY <1>4 DEF ApplyCreate, Applying
  <2>2. op.key \in Key /\ op.data \in Doc
    BY Zenon, <1>2, <1>3, <2>1 DEF Op
  <2>3. Put(op.key, 1, op.data) /\ Append1(AuditEntry(op.key, "create", 1, Nil, op.data))
    BY <1>4 DEF ApplyCreate
  <2>4. PICK e \in Entry : WriteStep(e) /\ e.key = op.key /\ e.kind = "create" /\ e.after = op.data
    BY <1>1, <2>2, <2>3, PutIsWrite
  <2> QED
    BY <2>1, <2>4 DEF Records
<1>5. CASE ApplyUpdate(s)
  <2>1. next[s] \in DOMAIN ops[s] /\ phase[s] = "apply" /\ Applied(s) /\ op.kind = "update"
    BY <1>5 DEF ApplyUpdate, Applying
  <2>2. op.key \in Key /\ op.data \in Doc /\ op.expected \in Nat /\ op.before \in Doc \cup {Nil}
    BY Zenon, <1>2, <1>3, <2>1 DEF Op
  <2>3. /\ CompareAndSwap(op.key, op.expected, op.data)
        /\ Append1(AuditEntry(op.key, "update", op.expected + 1, op.before, op.data))
    BY Zenon, <1>5 DEF ApplyUpdate
  <2>4. PICK e \in Entry : WriteStep(e) /\ e.key = op.key /\ e.kind = "update" /\ e.after = op.data
    BY <1>1, <2>2, <2>3, SwapIsWrite
  <2> QED
    BY Zenon, <2>1, <2>4 DEF Records
<1>6. CASE ApplyDelete(s)
  <2>1. next[s] \in DOMAIN ops[s] /\ phase[s] = "apply" /\ Applied(s) /\ op.kind = "delete"
    BY Zenon, <1>6 DEF ApplyDelete, Applying
  <2>2. op.key \in Key /\ op.data = Nil /\ op.expected \in Nat /\ op.before \in Doc \cup {Nil}
    BY Zenon, <1>2, <1>3, <2>1 DEF Op
  <2>3. Version(op.key) \in Nat /\ store[op.key].data \in Doc \cup {Nil}
    BY Zenon, <1>1, <2>2 DEF StoreTypeOK, Row, Version
  <2>4. PICK v \in Nat, b \in Doc \cup {Nil} :
          Append1(AuditEntry(op.key, "delete", v, b, Nil))
    <3>1. CASE op.key \in Link
      BY Zenon, <1>6, <2>3, <3>1 DEF ApplyDelete
    <3>2. CASE op.key \notin Link
      BY <1>6, <2>2, <3>2 DEF ApplyDelete
    <3> QED
      BY <3>1, <3>2
  <2>5. Delete(op.key)
    BY Zenon, <1>6 DEF ApplyDelete
  <2> QED
    <3>1. PICK e \in Entry : WriteStep(e) /\ e.key = op.key /\ e.kind = "delete" /\ e.after = Nil
      BY <1>1, <2>2, <2>4, <2>5, DeleteIsWrite
    <3> QED
      BY Zenon, <2>1, <2>2, <3>1 DEF Records
<1> QED
  BY <1>4, <1>5, <1>6

(* Each single-operation handler is one write followed by the end of its     *)
(* storage transaction.                                                      *)
LEMMA DirectIsWrite ==
    ASSUME TypeOK, DirectWrite
    PROVE  /\ LockFree /\ ~inTx /\ UNCHANGED txVars /\ Conclude
           /\ \E e \in Entry : WriteStep(e)
<1>1. StoreTypeOK
  BY DEF TypeOK
<1>2. ASSUME NEW k \in Key
      PROVE  Version(k) \in Nat /\ store[k].data \in Doc \cup {Nil}
  BY <1>1, <1>2 DEF StoreTypeOK, Row, Version
<1>3. ASSUME NEW k \in Id, NEW d \in Data, CreateEntity(k, d)
      PROVE  Direct /\ Conclude /\ \E e \in Entry : WriteStep(e)
  <2>1. k \in Key /\ d \in Doc
    BY DEF Key, Doc
  <2> QED
    BY <1>1, <1>3, <2>1, PutIsWrite DEF CreateEntity
<1>4. ASSUME NEW k \in Id, NEW v \in Expected, NEW d \in Doc, UpdateEntity(k, v, d)
      PROVE  Direct /\ Conclude /\ \E e \in Entry : WriteStep(e)
  <2>1. k \in Key /\ v \in Nat /\ store[k].data \in Doc \cup {Nil}
    BY <1>2, TransactionAssumption DEF Key
  <2> QED
    BY <1>1, <1>4, <2>1, SwapIsWrite DEF UpdateEntity
<1>5. ASSUME NEW k \in Id, NEW v \in Expected, NEW p \in Patch, PatchEntity(k, v, p)
      PROVE  Direct /\ Conclude /\ \E e \in Entry : WriteStep(e)
  <2>1. store[k].data \in Doc
    BY <1>2, <1>5 DEF PatchEntity, Present, Key
  <2>2. Merge(store[k].data, p) \in Doc
    BY <2>1, TransactionAssumption
  <2> QED
    BY <1>4, <1>5, <2>2 DEF PatchEntity
<1>6. ASSUME NEW k \in Id, NEW f \in ForceFlag, DeleteEntity(k, f)
      PROVE  Direct /\ Conclude /\ \E e \in Entry : WriteStep(e)
  <2>1. k \in Key
    BY DEF Key
  <2> QED
    BY <1>1, <1>2, <1>6, <2>1, DeleteIsWrite DEF DeleteEntity
<1>7. ASSUME NEW l \in Link, CreateLink(l)
      PROVE  Direct /\ Conclude /\ \E e \in Entry : WriteStep(e)
  <2>1. l \in Key /\ LinkDoc \in Doc
    BY DEF Key, Doc
  <2> QED
    BY <1>1, <1>7, <2>1, PutIsWrite DEF CreateLink
<1>8. ASSUME NEW l \in Link, DeleteLink(l)
      PROVE  Direct /\ Conclude /\ \E e \in Entry : WriteStep(e)
  <2>1. l \in Key
    BY DEF Key
  <2> QED
    BY <1>1, <1>2, <1>8, <2>1, DeleteIsWrite DEF DeleteLink
<1>9. Data \subseteq Doc
  BY DEF Doc
<1>10. Direct /\ Conclude /\ \E e \in Entry : WriteStep(e)
  <2>1. CASE \E k \in Id, d \in Data : CreateEntity(k, d)
    BY <1>3, <2>1
  <2>2. CASE \E k \in Id, v \in Expected, d \in Data : UpdateEntity(k, v, d)
    BY <1>4, <1>9, <2>2
  <2>3. CASE \E k \in Id, v \in Expected, p \in Patch : PatchEntity(k, v, p)
    BY <1>5, <2>3
  <2>4. CASE \E k \in Id, f \in ForceFlag : DeleteEntity(k, f)
    BY <1>6, <2>4
  <2>5. CASE \E l \in Link : CreateLink(l) \/ DeleteLink(l)
    BY <1>7, <1>8, <2>5
  <2> QED
    BY <2>1, <2>2, <2>3, <2>4, <2>5 DEF DirectWrite
<1> QED
  BY <1>10 DEF Direct

----------------------------------------------------------------------------
(* Types *)

(* What a staged operation on an entity remembers of it.                     *)
Sighted(op) ==
    op.kind # "create" /\ op.key \in Id =>
        /\ op.seen = Version(op.key)
        /\ op.before = store[op.key].data
        /\ op.at = Len(log)

(* Every staging call appends one well-formed operation, and an update,      *)
(* patch or delete of an entity carries the image seen under that lock.      *)
LEMMA StagingIsStage ==
    ASSUME TypeOK, NEW s \in Session, Staging(s)
    PROVE  \E op \in Op : Stage(s, op) /\ Sighted(op)
                          /\ (op.data = Nil <=> op.kind = "delete")
<1>1. ASSUME NEW k \in Key
      PROVE  Version(k) \in Nat /\ store[k].data \in Doc \cup {Nil} /\ Len(log) \in Nat
  BY <1>1 DEF TypeOK, StoreTypeOK, Row, Version
<1>2. ASSUME NEW kind \in Kind, NEW k \in Key, NEW d \in Doc \cup {Nil}
      PROVE  BlindOp(kind, k, d) \in Op
  BY DEF BlindOp, Op
<1>3. ASSUME NEW kind \in Kind, NEW k \in Key, NEW v \in Nat, NEW d \in Doc \cup {Nil}
      PROVE  SightedOp(kind, k, v, d) \in Op /\ Sighted(SightedOp(kind, k, v, d))
  BY <1>1 DEF SightedOp, Sighted, Op
<1>4. ASSUME NEW k \in Id, NEW d \in Data, StageCreate(s, k, d)
      PROVE  \E op \in Op : Stage(s, op) /\ Sighted(op) /\ (op.data = Nil <=> op.kind = "delete")
  <2>1. BlindOp("create", k, d) \in Op /\ d # Nil
    BY <1>2, StoreAssumption DEF Key, Doc, Kind
  <2> QED
    BY <1>4, <2>1 DEF StageCreate, BlindOp, Sighted
<1>5. ASSUME NEW k \in Id, NEW v \in Expected, NEW d \in Doc,
             Stage(s, SightedOp("update", k, v, d))
      PROVE  \E op \in Op : Stage(s, op) /\ Sighted(op) /\ (op.data = Nil <=> op.kind = "delete")
  <2>1. SightedOp("update", k, v, d) \in Op /\ Sighted(SightedOp("update", k, v, d)) /\ d # Nil
    BY <1>3, StoreAssumption, TransactionAssumption DEF Key, Kind
  <2>2. SightedOp("update", k, v, d).data = d /\ SightedOp("update", k, v, d).kind = "update"
    BY DEF SightedOp
  <2> QED
    BY <1>5, <2>1, <2>2
<1>6. ASSUME NEW k \in Id, NEW v \in Expected, StageDelete(s, k, v)
      PROVE  \E op \in Op : Stage(s, op) /\ Sighted(op) /\ (op.data = Nil <=> op.kind = "delete")
  <2>1. SightedOp("delete", k, v, Nil) \in Op /\ Sighted(SightedOp("delete", k, v, Nil))
    BY <1>3, TransactionAssumption DEF Key, Kind
  <2>2. /\ SightedOp("delete", k, v, Nil).data = Nil
        /\ SightedOp("delete", k, v, Nil).kind = "delete"
    BY DEF SightedOp
  <2> QED
    BY <1>6, <2>1, <2>2 DEF StageDelete
<1>7. ASSUME NEW l \in Link, StageCreateLink(s, l)
      PROVE  \E op \in Op : Stage(s, op) /\ Sighted(op) /\ (op.data = Nil <=> op.kind = "delete")
  <2>1. BlindOp("create", l, LinkDoc) \in Op /\ LinkDoc # Nil
    BY <1>2, StoreAssumption DEF Key, Doc, Kind
  <2> QED
    BY <1>7, <2>1 DEF StageCreateLink, BlindOp, Sighted
<1>8. ASSUME NEW l \in Link, StageDeleteLink(s, l)
      PROVE  \E op \in Op : Stage(s, op) /\ Sighted(op) /\ (op.data = Nil <=> op.kind = "delete")
  <2>1. BlindOp("delete", l, Nil) \in Op /\ l \notin Id
    BY <1>2, StoreAssumption DEF Key, Kind
  <2> QED
    BY <1>8, <2>1 DEF StageDeleteLink, BlindOp, Sighted
<1>9. CASE \E k \in Id, d \in Data : StageCreate(s, k, d)
  BY <1>4, <1>9
<1>10. CASE \E k \in Id, v \in Expected, d \in Data : StageUpdate(s, k, v, d)
  BY <1>5, <1>10 DEF StageUpdate, Doc
<1>11. CASE \E k \in Id, v \in Expected, p \in Patch : StagePatch(s, k, v, p)
  <2>1. PICK k \in Id, v \in Expected, p \in Patch : StagePatch(s, k, v, p)
    BY <1>11
  <2>2. store[k].data \in Doc
    BY <1>1, <2>1 DEF StagePatch, Present, Key
  <2>3. Merge(store[k].data, p) \in Doc
    BY <2>2, TransactionAssumption
  <2> QED
    BY <1>5, <2>1, <2>3 DEF StagePatch
<1>12. CASE \E k \in Id, v \in Expected : StageDelete(s, k, v)
  BY <1>6, <1>12
<1>13. CASE \E l \in Link : StageCreateLink(s, l) \/ StageDeleteLink(s, l)
  BY <1>7, <1>8, <1>13
<1> QED
  BY <1>9, <1>10, <1>11, <1>12, <1>13 DEF Staging

(* Consuming transactions keeps the sessions well formed.                    *)
LEMMA EndsType ==
    ASSUME TxTypeOK, OpsCarryData, NEW S, Ends(S)
    PROVE  TxTypeOK' /\ OpsCarryData'
<1>1. phase' \in [Session -> {"idle", "open", "apply"}]
  BY DEF Ends, TxTypeOK
<1>2. iso' \in [Session -> IsolationLevel]
  BY DEF Ends, TxTypeOK, IsolationLevel
<1>3. ops' \in [Session -> Seq(Op)]
  BY DEF Ends, TxTypeOK
<1>4. reads' \in [Session -> Seq(ReadRef)]
  BY DEF Ends, TxTypeOK
<1>5. next' \in [Session -> Nat \ {0}]
  BY DEF Ends, TxTypeOK
<1>6. OpsCarryData'
  BY DEF Ends, OpsCarryData
<1> QED
  BY <1>1, <1>2, <1>3, <1>4, <1>5, <1>6 DEF TxTypeOK

(* Staging an operation keeps the sessions well formed.                      *)
LEMMA StageType ==
    ASSUME TxTypeOK, OpsCarryData, NEW s \in Session, NEW op \in Op, Stage(s, op),
           op.data = Nil <=> op.kind = "delete"
    PROVE  TxTypeOK' /\ OpsCarryData'
<1>1. ops' \in [Session -> Seq(Op)]
  BY DEF Stage, TxTypeOK
<1>2. TxTypeOK'
  BY <1>1 DEF Stage, TxTypeOK
<1>3. ASSUME NEW t \in Session, NEW i \in DOMAIN ops'[t]
      PROVE  ops'[t][i].data = Nil <=> ops'[t][i].kind = "delete"
  <2>1. CASE t = s /\ i = Len(ops[s]) + 1
    BY <2>1 DEF Stage, TxTypeOK
  <2>2. CASE t # s \/ i # Len(ops[s]) + 1
    <3>1. i \in DOMAIN ops[t] /\ ops'[t][i] = ops[t][i]
      BY <1>3, <2>2 DEF Stage, TxTypeOK
    <3> QED
      BY <3>1 DEF OpsCarryData
  <2> QED
    BY <2>1, <2>2
<1> QED
  BY <1>2, <1>3 DEF OpsCarryData

(* A write keeps the view well formed.                                       *)
LEMMA WriteType ==
    ASSUME StoreTypeOK, NEW e \in Entry, WriteStep(e)
    PROVE  store' \in [Key -> Row] /\ log' \in Seq(Entry) /\ churn' \in [Collection -> Nat]
<1>1. e.key \in Key
  BY DEF Entry
<1> QED
  BY <1>1, RowTypes DEF WriteStep, StoreTypeOK

(* Every step keeps the state well formed and staged operations complete.    *)
LEMMA TypeStep ==
    ASSUME TypeOK, OpsCarryData, [Next]_vars
    PROVE  TypeOK' /\ OpsCarryData'
<1> USE DEF TypeOK
<1>1. ASSUME NEW s \in Session, NEW level \in Level, Open(s, level)
      PROVE  TypeOK' /\ OpsCarryData'
  <2>1. level \in IsolationLevel
    BY TransactionAssumption
  <2>2. TxTypeOK' /\ StoreTypeOK'
    BY <1>1, <2>1 DEF Open, TxTypeOK, StoreTypeOK, storeVars
  <2> QED
    BY <1>1, <2>2 DEF Open, OpsCarryData
<1>2. ASSUME NEW s \in Session, Drop(s) \/ CommitRefused(s)
      PROVE  TypeOK' /\ OpsCarryData'
  <2>1. Ends({s}) /\ UNCHANGED storeVars
    BY <1>2 DEF Drop, CommitRefused
  <2> QED
    BY <2>1, EndsType DEF storeVars, StoreTypeOK
<1>3. ASSUME NEW s \in Session, Reading(s)
      PROVE  TypeOK' /\ OpsCarryData'
  <2>1. ASSUME NEW k \in Id, RecordRead(s, k)
        PROVE  TxTypeOK'
    <3>1. Version(k) \in Nat /\ Len(log) \in Nat /\ k \in Key
      BY DEF StoreTypeOK, Row, Version, Key
    <3>2. [key |-> k, version |-> Version(k), at |-> Len(log)] \in ReadRef
      BY <3>1 DEF ReadRef
    <3> QED
      BY <2>1, <3>2 DEF RecordRead, TxTypeOK
  <2>2. ASSUME NEW c \in Collection, RecordScanRead(s, c)
        PROVE  TxTypeOK'
    BY <2>2 DEF RecordScanRead, TxTypeOK
  <2>3. UNCHANGED storeVars /\ UNCHANGED ops
    BY Zenon, <1>3 DEF Reading, RecordRead, RecordScanRead
  <2>4. TxTypeOK'
    BY <1>3, <2>1, <2>2 DEF Reading
  <2> QED
    BY <2>3, <2>4 DEF storeVars, StoreTypeOK, OpsCarryData
<1>4. ASSUME NEW s \in Session, Staging(s)
      PROVE  TypeOK' /\ OpsCarryData'
  <2>1. PICK op \in Op : Stage(s, op) /\ (op.data = Nil <=> op.kind = "delete")
    BY <1>4, StagingIsStage
  <2>2. TxTypeOK' /\ OpsCarryData'
    BY <2>1, StageType
  <2> QED
    BY <2>1, <2>2 DEF Stage, storeVars, StoreTypeOK
<1>5. ASSUME NEW s \in Session, CommitBegin(s)
      PROVE  TypeOK' /\ OpsCarryData'
  BY <1>5 DEF CommitBegin, BeginTx, TxTypeOK, StoreTypeOK, OpsCarryData
<1>6. ASSUME NEW s \in Session, ApplyCreate(s) \/ ApplyUpdate(s) \/ ApplyDelete(s)
      PROVE  TypeOK' /\ OpsCarryData'
  <2>1. PICK e \in Entry : WriteStep(e)
    BY <1>6, ApplyIsWrite
  <2>2. Applied(s)
    BY Zenon, <1>6, ApplyIsWrite
  <2>3. StoreTypeOK'
    BY <2>1, <2>2, WriteType DEF Applied, StoreTypeOK
  <2>4. TxTypeOK'
    BY <2>2 DEF Applied, TxTypeOK
  <2> QED
    BY <2>2, <2>3, <2>4 DEF Applied, OpsCarryData
<1>7. ASSUME NEW s \in Session, CommitEnd(s)
      PROVE  TypeOK' /\ OpsCarryData'
  <2>1. Ends({s}) /\ StoreTypeOK'
    BY Zenon, <1>7 DEF CommitEnd, CommitTx, StoreTypeOK
  <2> QED
    BY <2>1, EndsType
<1>8. ASSUME NEW s \in Session, CommitAborts(s)
      PROVE  TypeOK' /\ OpsCarryData'
  <2>1. Ends({s}) /\ StoreTypeOK'
    BY Zenon, <1>8 DEF CommitAborts, AbortTx, StoreTypeOK
  <2> QED
    BY <2>1, EndsType
<1>9. CASE DirectWrite
  <2>1. PICK e \in Entry : WriteStep(e)
    BY <1>9, DirectIsWrite
  <2>2. UNCHANGED txVars /\ Conclude
    BY <1>9, DirectIsWrite
  <2>3. StoreTypeOK'
    <3>1. store' \in [Key -> Row] /\ log' \in Seq(Entry) /\ churn' \in [Collection -> Nat]
      BY <2>1, WriteType
    <3>2. CASE CommitTx
      BY Zenon, <3>1, <3>2 DEF CommitTx, StoreTypeOK
    <3>3. CASE inTx' = TRUE /\ UNCHANGED durable
      BY <3>1, <3>3 DEF StoreTypeOK
    <3> QED
      BY Zenon, <2>2, <3>2, <3>3 DEF Conclude
  <2> QED
    BY <2>2, <2>3 DEF txVars, TxTypeOK, OpsCarryData
<1>10. CASE Crash
  <2>1. Ends(Session) /\ StoreTypeOK'
    BY Zenon, <1>10 DEF Crash, Restart, AbortTx, StoreTypeOK
  <2> QED
    BY <2>1, EndsType
<1>11. CASE UNCHANGED vars
  BY <1>11 DEF vars, storeVars, txVars, StoreTypeOK, TxTypeOK, OpsCarryData
<1> QED
  BY <1>1, <1>2, <1>3, <1>4, <1>5, <1>6, <1>7, <1>8, <1>9, <1>10, <1>11 DEF Next, Committing

(* The empty store is well formed.                                           *)
LEMMA TypeInit == Init => TypeOK /\ OpsCarryData
<1> SUFFICES ASSUME Init PROVE TypeOK /\ OpsCarryData
  OBVIOUS
<1>1. store \in [Key -> Row] /\ log \in Seq(Entry)
  BY RowTypes DEF Init, StoreInit
<1>2. StoreTypeOK
  BY Zenon, <1>1 DEF Init, StoreInit, StoreTypeOK
<1>3. TxTypeOK
  BY DEF Init, TxInit, TxTypeOK, IsolationLevel
<1>4. OpsCarryData
  BY DEF Init, TxInit, OpsCarryData
<1> QED
  BY <1>2, <1>3, <1>4 DEF TypeOK

(* Staged operations stay complete in every well-formed state.               *)
LEMMA TypeInvariant == Spec => [](TypeOK /\ OpsCarryData)
<1>1. TypeOK /\ OpsCarryData /\ [Next]_vars => (TypeOK /\ OpsCarryData)'
  BY TypeStep
<1> QED
  BY <1>1, TypeInit, PTL DEF Spec

(* Every state is well formed, whatever the sessions stage and however the   *)
(* storage fails: TypeOK is an invariant.                                    *)
THEOREM TypeCorrect == Spec => []TypeOK
  BY TypeInvariant, PTL

----------------------------------------------------------------------------
(* The audit log accounts for the rows, and commits are atomic.              *)

(* What appending an entry does to the length and the positions of the log.  *)
LEMMA AppendFacts ==
    ASSUME StoreTypeOK, NEW e \in Entry, WriteStep(e)
    PROVE  /\ Len(log) \in Nat /\ Len(log') = Len(log) + 1
           /\ DOMAIN log = 1..Len(log) /\ DOMAIN log' = 1..(Len(log) + 1)
           /\ \A i \in DOMAIN log : log'[i] = log[i]
           /\ log'[Len(log) + 1] = e
           /\ e.key \in Key
           /\ store'[e.key] = Outcome(e)
           /\ \A k \in Key : k # e.key => store'[k] = store[k]
<1>1. e.key \in Key
  BY DEF Entry
<1>2. /\ store'[e.key] = Outcome(e)
      /\ \A k \in Key : k # e.key => store'[k] = store[k]
  BY <1>1 DEF StoreTypeOK, WriteStep
<1> QED
  BY <1>1, <1>2 DEF StoreTypeOK, WriteStep

(* A write keeps the log an account of the rows.                             *)
LEMMA ReplaysWrite ==
    ASSUME StoreTypeOK, NEW e \in Entry, WriteStep(e), Replays(store, log)
    PROVE  Replays(store', log')
<1> DEFINE n == Len(log) + 1
<1>1. ASSUME NEW i \in DOMAIN log', IsLast(log', i)
      PROVE  store'[log'[i].key] = Outcome(log'[i])
  <2>1. CASE i = n
    BY <2>1, AppendFacts
  <2>2. CASE i # n
    <3>1. i \in DOMAIN log /\ log'[i] = log[i] /\ n \in DOMAIN log' /\ n > i
      BY <2>2, AppendFacts
    <3>2. log[i].key # e.key
      BY <1>1, <3>1, AppendFacts DEF IsLast
    <3>3. IsLast(log, i)
      BY <1>1, <3>1, AppendFacts DEF IsLast
    <3>4. log[i].key \in Key
      <4>1. log[i] \in Entry
        BY <3>1, AppendFacts DEF StoreTypeOK
      <4> QED
        BY Zenon, <4>1 DEF Entry
    <3> QED
      BY <3>1, <3>2, <3>3, <3>4, AppendFacts DEF Replays
  <2> QED
    BY <2>1, <2>2
<1>2. ASSUME NEW k \in Key, store'[k] # Absent
      PROVE  \E i \in DOMAIN log' : log'[i].key = k /\ IsLast(log', i)
  <2>1. CASE k = e.key
    <3>1. n \in DOMAIN log' /\ log'[n].key = k /\ DOMAIN log' = 1..n /\ n \in Nat
      BY <2>1, AppendFacts
    <3>2. \A j \in DOMAIN log' : ~(j > n)
      BY <3>1
    <3>3. IsLast(log', n)
      BY <3>2 DEF IsLast
    <3> QED
      BY <3>1, <3>3
  <2>2. CASE k # e.key
    <3>1. PICK i \in DOMAIN log : log[i].key = k /\ IsLast(log, i)
      BY <1>2, <2>2, AppendFacts DEF Replays
    <3>2. i \in DOMAIN log' /\ log'[i].key = k
      BY <3>1, AppendFacts
    <3>3. IsLast(log', i)
      BY <2>2, <3>1, AppendFacts DEF IsLast
    <3> QED
      BY <3>2, <3>3
  <2> QED
    BY <2>1, <2>2
<1> QED
  BY <1>1, <1>2 DEF Replays

(* A write keeps the versions of successive updates consecutive.             *)
LEMMA ChainsWrite ==
    ASSUME StoreTypeOK, NEW e \in Entry, WriteStep(e), Replays(store, log), Chains(log)
    PROVE  Chains(log')
<1> DEFINE n == Len(log) + 1
<1> SUFFICES ASSUME NEW j \in DOMAIN log', log'[j].kind = "update"
             PROVE  \E i \in 1..(j - 1) : /\ Precedes(log', i, j)
                                          /\ log'[i].after # Nil
                                          /\ log'[j].version = log'[i].version + 1
  BY Zenon DEF Chains
<1>1. CASE j = n
  <2>1. log'[j] = e /\ Present(e.key) /\ e.version = Version(e.key) + 1 /\ e.key \in Key
    BY Zenon, <1>1, AppendFacts DEF WriteStep
  <2>2. store[e.key] # Absent
    BY <2>1 DEF Present, Absent
  <2>3. PICK i \in DOMAIN log : log[i].key = e.key /\ IsLast(log, i)
    BY <2>1, <2>2 DEF Replays
  <2>4. store[e.key] = Outcome(log[i])
    BY <2>3 DEF Replays
  <2>5. log[i].after # Nil /\ log[i].version = Version(e.key)
    BY <2>2, <2>4 DEF Outcome, Version
  <2>6. i \in 1..(j - 1) /\ log'[i] = log[i]
    BY <1>1, AppendFacts
  <2>7. Precedes(log', i, j)
    BY <1>1, <2>1, <2>3, <2>6, AppendFacts DEF Precedes, IsLast
  <2> QED
    BY <2>1, <2>5, <2>6, <2>7
<1>2. CASE j # n
  <2>1. j \in DOMAIN log /\ log'[j] = log[j]
    BY <1>2, AppendFacts
  <2>2. PICK i \in 1..(j - 1) : /\ Precedes(log, i, j)
                                /\ log[i].after # Nil
                                /\ log[j].version = log[i].version + 1
    BY <2>1 DEF Chains
  <2>3. i \in DOMAIN log /\ log'[i] = log[i]
    BY <2>1, AppendFacts
  <2>4. Precedes(log', i, j)
    BY <2>1, <2>2, <2>3, AppendFacts DEF Precedes
  <2> QED
    BY <2>1, <2>2, <2>3, <2>4
<1> QED
  BY <1>1, <1>2

(* The handler mutex: one session at a time is inside its commit call, and   *)
(* it has the storage transaction.                                           *)
LockInv ==
    /\ \A s \in Session : phase[s] = "apply" => inTx
    /\ \A s, t \in Session : phase[s] = "apply" /\ phase[t] = "apply" => s = t

(* Every step respects the handler mutex.                                    *)
LEMMA LockStep ==
    ASSUME TypeOK, OpsCarryData, LockInv, [Next]_vars
    PROVE  LockInv'
<1> USE DEF LockInv, TypeOK, TxTypeOK
<1>1. ASSUME NEW s \in Session, NEW level \in Level, Open(s, level)
      PROVE  LockInv'
  BY <1>1 DEF Open, storeVars
<1>2. ASSUME NEW s \in Session, Drop(s) \/ CommitRefused(s)
      PROVE  LockInv'
  BY <1>2 DEF Drop, CommitRefused, Ends, storeVars
<1>3. ASSUME NEW s \in Session, Reading(s) \/ Staging(s)
      PROVE  LockInv'
  <2>1. UNCHANGED <<phase, inTx>>
    BY Zenon, <1>3 DEF Reading, RecordRead, RecordScanRead, Staging, StageCreate, StageUpdate,
                StagePatch, StageDelete, StageCreateLink, StageDeleteLink, Stage, storeVars
  <2> QED
    BY <2>1
<1>4. ASSUME NEW s \in Session, CommitBegin(s)
      PROVE  LockInv'
  BY Zenon, <1>4 DEF CommitBegin, BeginTx, LockFree
<1>5. ASSUME NEW s \in Session, ApplyCreate(s) \/ ApplyUpdate(s) \/ ApplyDelete(s)
      PROVE  LockInv'
  <2>1. UNCHANGED <<phase, inTx>>
    BY Zenon, <1>5 DEF ApplyCreate, ApplyUpdate, ApplyDelete, Applied
  <2> QED
    BY Zenon, <2>1
<1>6. ASSUME NEW s \in Session, CommitEnd(s) \/ CommitAborts(s)
      PROVE  LockInv'
  <2>1. phase[s] = "apply" /\ Ends({s})
    BY <1>6 DEF CommitEnd, CommitAborts
  <2>2. \A t \in Session : phase'[t] # "apply"
    BY <2>1 DEF Ends
  <2> QED
    BY <2>2
<1>7. CASE DirectWrite
  <2>1. LockFree /\ UNCHANGED txVars
    BY <1>7, DirectIsWrite
  <2> QED
    BY <2>1 DEF LockFree, txVars
<1>8. CASE Crash
  BY <1>8 DEF Crash, Ends
<1>9. CASE UNCHANGED vars
  BY Zenon, <1>9 DEF vars, storeVars, txVars
<1> QED
  BY <1>1, <1>2, <1>3, <1>4, <1>5, <1>6, <1>7, <1>8, <1>9 DEF Next, Committing

(* What the connection sees and what is committed both satisfy the audit     *)
(* properties; outside a storage transaction they are the same.              *)
AuditInv ==
    /\ ViewIsDurable
    /\ Replays(store, log) /\ Chains(log)
    /\ Replays(durable.store, durable.log) /\ Chains(durable.log)

(* Every step keeps the view and the committed state audited.                *)
LEMMA AuditStep ==
    ASSUME TypeOK, OpsCarryData, LockInv, AuditInv, [Next]_vars
    PROVE  AuditInv'
<1>1. ASSUME UNCHANGED <<store, log, durable>>, inTx => inTx'
      PROVE  AuditInv'
  BY Zenon, <1>1 DEF AuditInv, ViewIsDurable
<1>2. ASSUME NEW s \in Session, Reading(s) \/ Staging(s) \/ Drop(s) \/ CommitRefused(s)
      PROVE  UNCHANGED storeVars
  BY Zenon, <1>2 DEF Reading, RecordRead, RecordScanRead, Staging, StageCreate, StageUpdate, StagePatch,
              StageDelete, StageCreateLink, StageDeleteLink, Stage, Drop, CommitRefused
<1>3. ASSUME NEW s \in Session, ApplyCreate(s) \/ ApplyUpdate(s) \/ ApplyDelete(s)
      PROVE  AuditInv'
  <2>1. PICK e \in Entry : WriteStep(e)
    BY <1>3, ApplyIsWrite
  <2>2. UNCHANGED <<durable, inTx>> /\ phase[s] = "apply"
    BY <1>3, ApplyIsWrite DEF Applied
  <2>3. Replays(store', log') /\ Chains(log')
    BY <2>1, ReplaysWrite, ChainsWrite DEF AuditInv, TypeOK
  <2>4. ViewIsDurable'
    BY <2>2 DEF ViewIsDurable, LockInv
  <2> QED
    BY Zenon, <2>2, <2>3, <2>4 DEF AuditInv
<1>4. ASSUME durable' = [store |-> store', log |-> log'], Replays(store', log'), Chains(log')
      PROVE  AuditInv'
  BY <1>4 DEF AuditInv, ViewIsDurable
<1>5. ASSUME AbortTx
      PROVE  AuditInv'
  <2>1. Replays(store', log') /\ Chains(log')
    BY <1>5 DEF AbortTx, AuditInv
  <2>2. durable' = [store |-> store', log |-> log']
    BY <1>5 DEF AbortTx, TypeOK, StoreTypeOK
  <2> QED
    BY <1>4, <2>1, <2>2
<1>6. ASSUME NEW s \in Session, CommitEnd(s)
      PROVE  AuditInv'
  <2>1. UNCHANGED <<store, log>> /\ durable' = [store |-> store', log |-> log']
    BY <1>6 DEF CommitEnd, CommitTx
  <2>2. Replays(store', log') /\ Chains(log')
    BY <2>1 DEF AuditInv
  <2> QED
    BY <1>4, <2>1, <2>2
<1>7. CASE DirectWrite
  <2>1. PICK e \in Entry : WriteStep(e)
    BY <1>7, DirectIsWrite
  <2>2. Replays(store', log') /\ Chains(log')
    BY <2>1, ReplaysWrite, ChainsWrite DEF AuditInv, TypeOK
  <2>3. CASE CommitTx
    BY <1>4, <2>2, <2>3 DEF CommitTx
  <2>4. CASE inTx' = TRUE /\ UNCHANGED durable
    BY <2>2, <2>4 DEF AuditInv, ViewIsDurable
  <2> QED
    BY Zenon, <1>7, <2>3, <2>4, DirectIsWrite DEF Conclude
<1>8. ASSUME NEW s \in Session, CommitBegin(s)
      PROVE  AuditInv'
  BY <1>1, <1>8 DEF CommitBegin, BeginTx
<1>9. ASSUME NEW s \in Session, CommitAborts(s)
      PROVE  AuditInv'
  BY <1>1, <1>5, <1>9 DEF CommitAborts
<1>10. ASSUME NEW s \in Session, NEW level \in Level, Open(s, level)
       PROVE  AuditInv'
  BY <1>1, <1>10 DEF Open, storeVars
<1>11. ASSUME UNCHANGED storeVars
       PROVE  AuditInv'
  BY <1>1, <1>11 DEF storeVars
<1>12. CASE Crash
  BY <1>5, <1>12 DEF Crash, Restart
<1>13. CASE UNCHANGED vars
  BY <1>11, <1>13 DEF vars
<1> QED
  BY Zenon, <1>2, <1>3, <1>6, <1>7, <1>8, <1>9, <1>10, <1>11, <1>12, <1>13 DEF Next, Committing

----------------------------------------------------------------------------
(* Atomicity: inside its commit call a session has extended the committed    *)
(* log by the entries of the operations it has applied so far, in order.     *)
Extends(s) ==
    /\ next[s] <= Len(ops[s]) + 1
    /\ Len(log) = Len(durable.log) + (next[s] - 1)
    /\ IsPrefixOf(durable.log, log)
    /\ \A i \in 1..(next[s] - 1) : Records(log[Len(durable.log) + i], ops[s][i])

AtomicInv ==
    \A s \in Session :
        /\ phase[s] # "apply" => next[s] = 1
        /\ phase[s] = "apply" => Extends(s)

(* Lengths and domains of the logs and of the staged operations.             *)
LEMMA LogTypes ==
    ASSUME TypeOK
    PROVE  /\ Len(log) \in Nat /\ DOMAIN log = 1..Len(log)
           /\ Len(durable.log) \in Nat /\ DOMAIN durable.log = 1..Len(durable.log)
           /\ \A s \in Session : Len(ops[s]) \in Nat /\ DOMAIN ops[s] = 1..Len(ops[s])
           /\ \A s \in Session : next[s] \in Nat \ {0}
BY DEF TypeOK, StoreTypeOK, TxTypeOK

(* Every step keeps the commit in progress an extension of the committed     *)
(* log.                                                                      *)
LEMMA AtomicStep ==
    ASSUME TypeOK, OpsCarryData, LockInv, AuditInv, AtomicInv, [Next]_vars
    PROVE  AtomicInv'
<1>1. ASSUME NEW S, Ends(S), \A s \in Session : phase[s] = "apply" => s \in S
      PROVE  AtomicInv'
  BY ZenonT(60), <1>1 DEF Ends, AtomicInv
<1>2. ASSUME UNCHANGED <<log, durable, phase, ops, next>>
      PROVE  AtomicInv'
  BY <1>2 DEF AtomicInv, Extends
<1>3. ASSUME NEW s \in Session, NEW level \in Level, Open(s, level)
      PROVE  AtomicInv'
  BY Zenon, <1>3 DEF Open, storeVars, AtomicInv, Extends, TypeOK, TxTypeOK
<1>4. ASSUME NEW s \in Session, Drop(s) \/ CommitRefused(s)
      PROVE  AtomicInv'
  <2>1. Ends({s}) /\ UNCHANGED <<log, durable>>
    BY <1>4 DEF Drop, CommitRefused, storeVars
  <2> QED
    BY <2>1 DEF Ends, AtomicInv, Extends
<1>5. ASSUME NEW s \in Session, Reading(s) \/ Staging(s)
      PROVE  AtomicInv'
  <2>1. LockFree /\ UNCHANGED <<phase, next>>
    BY Zenon, <1>5 DEF Reading, RecordRead, RecordScanRead, Staging, StageCreate, StageUpdate,
                StagePatch, StageDelete, StageCreateLink, StageDeleteLink, Stage
  <2> QED
    BY <2>1 DEF LockFree, AtomicInv
<1>6. ASSUME NEW s \in Session, CommitBegin(s)
      PROVE  AtomicInv'
  <2>1. /\ phase' = [phase EXCEPT ![s] = "apply"] /\ LockFree /\ ~inTx
        /\ UNCHANGED <<log, durable, ops, next>>
    BY <1>6 DEF CommitBegin, BeginTx
  <2>2. durable.log = log
    BY <2>1 DEF AuditInv, ViewIsDurable
  <2>3. next[s] = 1
    BY <2>1 DEF LockFree, AtomicInv
  <2>4. Extends(s)
    BY <2>2, <2>3, LogTypes DEF Extends, IsPrefixOf
  <2> QED
    BY <2>1, <2>4 DEF AtomicInv, Extends, LockFree, TypeOK, TxTypeOK
<1>7. ASSUME NEW s \in Session, ApplyCreate(s) \/ ApplyUpdate(s) \/ ApplyDelete(s)
      PROVE  AtomicInv'
  <2>1. PICK e \in Entry : WriteStep(e) /\ Records(e, ops[s][next[s]])
    BY <1>7, ApplyIsWrite
  <2>2. phase[s] = "apply" /\ next[s] \in DOMAIN ops[s] /\ Applied(s)
    BY <1>7, ApplyIsWrite
  <2>3. /\ next' = [next EXCEPT ![s] = @ + 1] /\ UNCHANGED <<durable, phase, ops>>
        /\ next'[s] = next[s] + 1
    BY <2>2 DEF Applied, TypeOK, TxTypeOK
  <2>4. Extends(s)
    BY Zenon, <2>2 DEF AtomicInv
  <2>5. /\ Len(log') = Len(log) + 1
        /\ \A i \in 1..Len(log) : log'[i] = log[i]
        /\ log'[Len(log) + 1] = e
    BY <2>1, AppendFacts DEF TypeOK
  <2>6. next'[s] <= Len(ops[s]) + 1 /\ Len(log') = Len(durable.log) + (next'[s] - 1)
    <3>1. next[s] \in 1..Len(ops[s]) /\ Len(ops[s]) \in Nat /\ Len(log) \in Nat
      BY <2>2, LogTypes
    <3>2. Len(durable.log) \in Nat /\ Len(log) = Len(durable.log) + (next[s] - 1)
      BY <2>4, LogTypes DEF Extends
    <3> QED
      BY <2>3, <2>5, <3>1, <3>2
  <2>7. IsPrefixOf(durable.log, log')
    <3>1. /\ Len(durable.log) <= Len(log) /\ DOMAIN durable.log = 1..Len(durable.log)
          /\ \A i \in DOMAIN durable.log : log[i] = durable.log[i]
      BY <2>4, LogTypes DEF Extends, IsPrefixOf
    <3>2. Len(durable.log) \in Nat /\ Len(log) \in Nat
      BY LogTypes
    <3>3. \A i \in DOMAIN durable.log : i \in 1..Len(log)
      BY <3>1, <3>2
    <3>4. \A i \in DOMAIN durable.log : log'[i] = durable.log[i]
      BY <2>5, <3>1, <3>3
    <3>5. Len(durable.log) <= Len(log')
      BY <2>5, <3>1, <3>2
    <3> QED
      BY <3>4, <3>5 DEF IsPrefixOf
  <2>8. ASSUME NEW i \in 1..(next'[s] - 1)
        PROVE  Records(log'[Len(durable.log) + i], ops[s][i])
    <3>1. CASE i = next[s]
      <4>1. Len(durable.log) + i = Len(log) + 1
        BY <2>4, <3>1, LogTypes DEF Extends
      <4> QED
        BY Zenon, <2>1, <2>5, <3>1, <4>1
    <3>2. CASE i # next[s]
      <4>1. i \in 1..(next[s] - 1) /\ Len(durable.log) + i \in 1..Len(log)
        BY <2>3, <2>4, <2>8, <3>2, LogTypes DEF Extends
      <4> QED
        BY Zenon, <2>4, <2>5, <4>1 DEF Extends
    <3> QED
      BY <3>1, <3>2
  <2>9. Extends(s)'
    BY Zenon, <2>3, <2>6, <2>7, <2>8 DEF Extends
  <2>10. \A t \in Session : t # s => phase[t] # "apply" /\ next'[t] = next[t]
    BY <2>2, <2>3 DEF LockInv, TypeOK, TxTypeOK
  <2> QED
    BY ZenonT(60), <2>2, <2>3, <2>9, <2>10 DEF AtomicInv
<1>8. ASSUME NEW s \in Session, CommitEnd(s) \/ CommitAborts(s)
      PROVE  AtomicInv'
  <2>1. phase[s] = "apply" /\ Ends({s})
    BY <1>8 DEF CommitEnd, CommitAborts
  <2>2. \A t \in Session : phase[t] = "apply" => t \in {s}
    BY Zenon, <2>1 DEF LockInv
  <2> QED
    BY <1>1, <2>1, <2>2
<1>9. CASE DirectWrite
  <2>1. LockFree /\ UNCHANGED txVars
    BY <1>9, DirectIsWrite
  <2> QED
    BY <2>1 DEF LockFree, txVars, AtomicInv
<1>10. CASE Crash
  BY <1>1, <1>10 DEF Crash
<1>11. CASE UNCHANGED vars
  BY <1>2, <1>11 DEF vars, storeVars, txVars
<1> QED
  BY Zenon, <1>3, <1>4, <1>5, <1>6, <1>7, <1>8, <1>9, <1>10, <1>11 DEF Next, Committing

(* The inductive invariant of the audit and atomicity theorems.              *)
AuditIInv == TypeOK /\ OpsCarryData /\ LockInv /\ AuditInv /\ AtomicInv

(* The empty store satisfies it.                                             *)
LEMMA AuditInit == Init => AuditIInv
<1> SUFFICES ASSUME Init PROVE AuditIInv
  OBVIOUS
<1>1. LockInv /\ AtomicInv
  BY Zenon DEF Init, TxInit, LockInv, AtomicInv
<1>2. Replays(store, log) /\ Chains(log) /\ durable = [store |-> store, log |-> log]
  BY DEF Init, StoreInit, Replays, Chains
<1> QED
  BY <1>1, <1>2, TypeInit DEF AuditIInv, AuditInv, ViewIsDurable

(* Every behaviour satisfies it throughout.                                  *)
LEMMA AuditInvariant == Spec => []AuditIInv
<1>1. AuditIInv /\ [Next]_vars => AuditIInv'
  BY TypeStep, LockStep, AuditStep, AtomicStep DEF AuditIInv
<1> QED
  BY <1>1, AuditInit, PTL DEF Spec

(* Writes and their audit entries are committed together or not at all, on   *)
(* every path through commit_with_storage_hook and                           *)
(* commit_write_with_durable_audit, abort failures and restarts included.    *)
THEOREM AuditComplete == Spec => []AuditReplays
<1>1. AuditIInv => AuditReplays
  BY DEF AuditIInv, AuditInv, AuditReplays
<1> QED
  BY <1>1, AuditInvariant, PTL

(* Outside a storage transaction the handlers read committed state only, and *)
(* the versions of successive updates never skip or repeat.                  *)
THEOREM VersionsChain == Spec => [](ViewIsDurable /\ UpdateChain)
<1>1. AuditIInv => ViewIsDurable /\ UpdateChain
  BY DEF AuditIInv, AuditInv, UpdateChain
<1> QED
  BY <1>1, AuditInvariant, PTL

\* How a step may extend the committed log.
Growth ==
    /\ IsPrefixOf(durable.log, durable'.log)
    /\ \/ \E s \in Session :
            /\ phase[s] = "apply" /\ phase'[s] = "idle"
            /\ Len(durable'.log) = Len(durable.log) + Len(ops[s])
            /\ \A i \in DOMAIN ops[s] :
                 Records(durable'.log[Len(durable.log) + i], ops[s][i])
       \/ Len(durable'.log) = Len(durable.log) + 1 /\ UNCHANGED txVars

(* Only the end of a commit and a direct write change what is committed.     *)
LEMMA GrowthStep ==
    ASSUME AuditIInv, Next, durable' # durable
    PROVE  Growth
<1>1. TypeOK /\ OpsCarryData /\ LockInv /\ AuditInv /\ AtomicInv
  BY DEF AuditIInv
<1>2. ASSUME NEW s \in Session, CommitEnd(s)
      PROVE  Growth
  <2>1. /\ phase[s] = "apply" /\ next[s] = Len(ops[s]) + 1 /\ Ends({s})
        /\ UNCHANGED log /\ durable'.log = log
    BY <1>2 DEF CommitEnd, CommitTx
  <2>2. Extends(s)
    BY <1>1, <2>1 DEF AtomicInv
  <2>3. phase'[s] = "idle"
    BY <2>1 DEF Ends
  <2>4. Len(log) = Len(durable.log) + Len(ops[s])
    BY <1>1, <2>1, <2>2, LogTypes DEF Extends
  <2>5. \A i \in DOMAIN ops[s] : Records(log[Len(durable.log) + i], ops[s][i])
    <3>1. DOMAIN ops[s] = 1..(next[s] - 1)
      BY <1>1, <2>1, LogTypes
    <3> QED
      BY Zenon, <2>2, <3>1 DEF Extends
  <2>6. IsPrefixOf(durable.log, log)
    BY <2>2 DEF Extends
  <2> QED
    BY Zenon, <2>1, <2>3, <2>4, <2>5, <2>6 DEF Growth
<1>3. CASE DirectWrite
  <2>1. PICK e \in Entry : WriteStep(e)
    BY <1>1, <1>3, DirectIsWrite
  <2>2. ~inTx /\ UNCHANGED txVars /\ Conclude
    BY Zenon, <1>1, <1>3, DirectIsWrite
  <2>3. durable.log = log /\ durable'.log = log'
    BY <1>1, <2>2 DEF AuditInv, ViewIsDurable, Conclude, CommitTx
  <2>4. Len(log') = Len(log) + 1 /\ IsPrefixOf(log, log')
    BY <1>1, <2>1, AppendFacts DEF TypeOK, IsPrefixOf
  <2> QED
    BY <2>2, <2>3, <2>4 DEF Growth
<1>4. ASSUME NEW s \in Session
      PROVE  /\ ~Drop(s) /\ ~Reading(s) /\ ~Staging(s) /\ ~CommitBegin(s) /\ ~CommitRefused(s)
             /\ ~ApplyCreate(s) /\ ~ApplyUpdate(s) /\ ~ApplyDelete(s) /\ ~CommitAborts(s)
             /\ \A level \in Level : ~Open(s, level)
  BY Zenon DEF Drop, Reading, RecordRead, RecordScanRead, Staging, StageCreate, StageUpdate,
         StagePatch, StageDelete, StageCreateLink, StageDeleteLink, Stage, CommitBegin,
         CommitRefused, ApplyCreate, ApplyUpdate, ApplyDelete, Applied, CommitAborts, AbortTx,
         Open, storeVars
<1>5. ~Crash
  BY DEF Crash, Restart, AbortTx
<1> QED
  BY Zenon, <1>2, <1>3, <1>4, <1>5 DEF Next, Committing

(* The committed log grows by whole requests only: all the operations of one *)
(* committing transaction, in the order they were staged, or one direct      *)
(* write; no other step touches it (execute and commit_with_storage_hook).   *)
THEOREM Atomicity == Spec => CommitIsAtomic
<1>1. AuditIInv /\ [Next]_vars => [durable' # durable => Growth]_vars
  BY Zenon, GrowthStep
<1>2. Spec => [][durable' # durable => Growth]_vars
  BY <1>1, AuditInvariant, PTL DEF Spec
<1> QED
  BY <1>2 DEF CommitIsAtomic, Growth

(* A row no new entry is about is what the same old entry says in two states *)
(* their logs account for, when one log extends the other.                   *)
LEMMA RowsKept ==
    ASSUME NEW l \in Seq(Entry), NEW m \in Seq(Entry), NEW st, NEW tt,
           Replays(st, l), Replays(tt, m), IsPrefixOf(l, m),
           NEW k \in Key, \A i \in (Len(l) + 1)..Len(m) : m[i].key # k
    PROVE  tt[k] = st[k]
<1>1. /\ Len(l) \in Nat /\ DOMAIN l = 1..Len(l)
      /\ Len(m) \in Nat /\ DOMAIN m = 1..Len(m)
  OBVIOUS
<1>2. /\ Len(l) <= Len(m)
      /\ \A i \in DOMAIN l : m[i] = l[i]
  BY DEF IsPrefixOf
<1>3. \A i \in DOMAIN m : m[i].key = k => i \in DOMAIN l
  BY <1>1
<1>4. \A i \in DOMAIN l : l[i].key = k => (IsLast(l, i) <=> IsLast(m, i))
  <2> SUFFICES ASSUME NEW i \in DOMAIN l, l[i].key = k
               PROVE  IsLast(l, i) <=> IsLast(m, i)
    OBVIOUS
  <2>1. m[i] = l[i]
    BY <1>2
  <2>2. DOMAIN l \subseteq DOMAIN m
    BY <1>1, <1>2
  <2> QED
    BY <1>1, <1>2, <1>3, <2>1, <2>2 DEF IsLast
<1>5. CASE st[k] # Absent
  <2>1. PICK i \in DOMAIN l : l[i].key = k /\ IsLast(l, i)
    BY Zenon, <1>5 DEF Replays
  <2>2. st[k] = Outcome(l[i])
    BY Zenon, <2>1 DEF Replays
  <2>3. i \in DOMAIN m /\ m[i] = l[i] /\ IsLast(m, i)
    BY <1>1, <1>2, <1>4, <2>1
  <2> QED
    BY Zenon, <2>1, <2>2, <2>3 DEF Replays
<1>6. CASE st[k] = Absent /\ tt[k] # Absent
  <2>1. PICK i \in DOMAIN m : m[i].key = k /\ IsLast(m, i)
    BY Zenon, <1>6 DEF Replays
  <2>2. tt[k] = Outcome(m[i])
    BY <2>1 DEF Replays
  <2>3. i \in DOMAIN l /\ m[i] = l[i] /\ IsLast(l, i)
    BY ZenonT(60), <1>2, <1>3, <1>4, <2>1
  <2> QED
    BY ZenonT(60), <2>1, <2>2, <2>3 DEF Replays
<1> QED
  BY <1>5, <1>6

(* A committed log that grows from an accounted-for state to another one is  *)
(* a batch of the ledger.                                                    *)
LEMMA BatchOfLedger ==
    ASSUME TypeOK, TypeOK', AuditInv, AuditInv',
           IsPrefixOf(durable.log, durable'.log), Len(durable.log) < Len(durable'.log)
    PROVE  Ledger!Commit
<1> DEFINE l == durable.log
           m == durable'.log
           st == durable.store
           tt == durable'.store
<1>1. /\ l \in Seq(Entry) /\ m \in Seq(Entry)
      /\ Replays(st, l) /\ Replays(tt, m) /\ Chains(m)
  BY DEF TypeOK, StoreTypeOK, AuditInv
<1>2. /\ Len(l) \in Nat /\ DOMAIN l = 1..Len(l)
      /\ Len(m) \in Nat /\ DOMAIN m = 1..Len(m)
      /\ \A i \in DOMAIN m : m[i] \in Entry
  BY <1>1
<1>3. \A i \in DOMAIN l : m[i] = l[i]
  BY DEF IsPrefixOf
<1>4. Ledger!Added = (Len(l) + 1)..Len(m)
  BY DEF Ledger!Added
<1>5. \A i \in Ledger!Added : i \in DOMAIN m
  BY <1>2, <1>4
<1> HIDE DEF l, m, st, tt
<1>6. ASSUME NEW k \in Key, \A i \in Ledger!Added : m[i].key # k
      PROVE  tt[k] = st[k]
  BY <1>1, <1>4, <1>6, RowsKept DEF l, m
<1>7. ASSUME NEW i \in Ledger!Added, Ledger!Final(m, i)
      PROVE  tt[m[i].key] = Ledger!Result(m[i])
  <2>1. IsLast(m, i)
    BY Zenon, <1>7 DEF Ledger!Final, IsLast
  <2>2. tt[m[i].key] = Outcome(m[i])
    BY Zenon, <1>1, <1>5, <2>1 DEF Replays
  <2> QED
    BY <2>2 DEF Ledger!Result, Ledger!NoRow, Outcome, Absent
<1>8. ASSUME NEW i \in Ledger!Added, m[i].kind = "update"
      PROVE  Ledger!Follows(m, i)
  BY <1>1, <1>5, <1>8 DEF Chains, Precedes, Ledger!Follows
<1> QED
  BY <1>3, <1>6, <1>7, <1>8 DEF Ledger!Commit, l, m, st, tt

(* A tenant database implements the ledger: to whoever reads what is         *)
(* committed, transactions, direct writes, aborts and crashes amount to      *)
(* whole batches (commit_with_storage_hook, write_with_durable_audit).       *)
THEOREM Refinement == Spec => ImplementsLedger
<1>1. Init => Ledger!Init
  BY DEF Init, StoreInit, Ledger!Init, Ledger!NoRow, Absent
<1>2. AuditIInv /\ AuditIInv' /\ [Next]_vars => [Ledger!Commit]_<<durable.store, durable.log>>
  <2> SUFFICES ASSUME AuditIInv, AuditIInv', [Next]_vars,
                      ~ UNCHANGED <<durable.store, durable.log>>
               PROVE  Ledger!Commit
    BY Zenon
  <2>1. durable' # durable
    BY Zenon
  <2>2. IsPrefixOf(durable.log, durable'.log)
    BY Zenon, <2>1, GrowthStep DEF Growth, vars, storeVars
  <2>3. /\ TypeOK /\ TypeOK' /\ AuditInv /\ AuditInv'
    BY DEF AuditIInv
  <2>4. Len(durable.log) < Len(durable'.log)
    <3>1. /\ durable.log \in Seq(Entry) /\ durable'.log \in Seq(Entry)
          /\ durable.store \in [Key -> Row] /\ durable'.store \in [Key -> Row]
          /\ Replays(durable.store, durable.log) /\ Replays(durable'.store, durable'.log)
      BY <2>3 DEF TypeOK, StoreTypeOK, AuditInv
    <3>2. SUFFICES ASSUME Len(durable.log) = Len(durable'.log) PROVE FALSE
      BY <2>2, <3>1 DEF IsPrefixOf
    <3>3. durable'.log = durable.log
      BY <2>2, <3>1, <3>2 DEF IsPrefixOf
    <3>4. \A k \in Key : durable'.store[k] = durable.store[k]
      BY <2>2, <3>1, <3>2, RowsKept
    <3>5. durable'.store = durable.store
      BY <3>1, <3>4
    <3> QED
      BY <3>3, <3>5
  <2> QED
    BY <2>2, <2>3, <2>4, BatchOfLedger
<1> QED
  BY <1>1, <1>2, AuditInvariant, PTL DEF Spec, ImplementsLedger, Ledger!Spec

----------------------------------------------------------------------------
(* Isolation: what a session has read or staged from stays accounted for by  *)
(* the log, so what validation compares at commit is what was read.          *)

(* A recorded read against a state: a new incarnation came after it, or the  *)
(* version has grown, or nothing was written to the entity since.            *)
ReadHolds(st, l, r) ==
    /\ r.at <= Len(l)
    /\ \/ RecreatedIn(l, r.key, r.at)
       \/ st[r.key].version > r.version
       \/ st[r.key].version = r.version /\ ~TouchedIn(l, r.key, r.at)

(* The same for the image a staged operation carries.                        *)
ImageHolds(st, l, op) ==
    op.kind # "create" /\ op.key \in Id =>
        /\ op.at <= Len(l)
        /\ \/ RecreatedIn(l, op.key, op.at)
           \/ st[op.key].version > op.seen
           \/ st[op.key].version = op.seen /\ st[op.key].data = op.before

(* A failed commit or abort left the storage transaction open: reads see     *)
(* uncommitted rows, and nothing commits until a restart.                    *)
Wedged == inTx /\ LockFree

ObservationInv ==
    /\ \A s \in Session : \A i \in DOMAIN reads[s] :
         /\ ReadHolds(store, log, reads[s][i])
         /\ Wedged \/ ReadHolds(durable.store, durable.log, reads[s][i])
    /\ \A s \in Session : \A i \in DOMAIN ops[s] :
         /\ ImageHolds(store, log, ops[s][i])
         /\ Wedged \/ ImageHolds(durable.store, durable.log, ops[s][i])

(* A write leaves the other rows alone, and moves its own row one version up *)
(* or starts a new incarnation.                                              *)
LEMMA WriteMoves ==
    ASSUME StoreTypeOK, NEW e \in Entry, WriteStep(e), NEW k \in Key, NEW n \in Nat, n <= Len(log)
    PROVE  /\ RecreatedIn(log, k, n) => RecreatedIn(log', k, n)
           /\ k # e.key => /\ store'[k] = store[k]
                           /\ TouchedIn(log', k, n) => TouchedIn(log, k, n)
           /\ k = e.key => \/ RecreatedIn(log', k, n)
                           \/ store'[k].version = store[k].version + 1
<1>1. RecreatedIn(log, k, n) => RecreatedIn(log', k, n)
  BY AppendFacts DEF RecreatedIn
<1>2. ASSUME k # e.key
      PROVE  store'[k] = store[k] /\ (TouchedIn(log', k, n) => TouchedIn(log, k, n))
  BY <1>2, AppendFacts DEF TouchedIn
<1>3. ASSUME k = e.key
      PROVE  RecreatedIn(log', k, n) \/ store'[k].version = store[k].version + 1
  <2>1. CASE e.kind = "update"
    <3>1. store'[k] = Outcome(e) /\ e.after # Nil /\ e.version = store[k].version + 1
      BY Zenon, <1>3, <2>1, AppendFacts DEF WriteStep, Version
    <3> QED
      BY <3>1 DEF Outcome
  <2>2. CASE e.kind # "update"
    BY <1>3, <2>2, AppendFacts DEF RecreatedIn
  <2> QED
    BY <2>1, <2>2
<1> QED
  BY Zenon, <1>1, <1>2, <1>3

(* Rows have versions that are numbers.                                      *)
LEMMA VersionTyped ==
    ASSUME StoreTypeOK, NEW k \in Key
    PROVE  store[k].version \in Nat
<1>1. store[k] \in Row
  BY Zenon DEF StoreTypeOK
<1> QED
  BY <1>1 DEF Row

(* A position in the log stays one when a write appends to it.               *)
LEMMA LaterLength ==
    ASSUME StoreTypeOK, NEW e \in Entry, WriteStep(e), NEW n \in Nat, n <= Len(log)
    PROVE  n <= Len(log')
BY AppendFacts

(* Nothing is at a later position than the last.                             *)
LEMMA NothingAfter ==
    ASSUME StoreTypeOK
    PROVE  Len(log) <= Len(log) /\ \A k : ~TouchedIn(log, k, Len(log))
BY DEF StoreTypeOK, TouchedIn

(* What is read now holds now.                                               *)
LEMMA ReadNow ==
    ASSUME StoreTypeOK, NEW k \in Key, NEW r, r.key = k, r.version = Version(k), r.at = Len(log)
    PROVE  ReadHolds(store, log, r)
BY Zenon, NothingAfter DEF ReadHolds, Version

(* A write keeps a recorded read accounted for.                              *)
LEMMA ReadHoldsWrite ==
    ASSUME StoreTypeOK, NEW e \in Entry, WriteStep(e), NEW r \in ReadRef, ReadHolds(store, log, r)
    PROVE  ReadHolds(store', log', r)
<1>1. r.key \in Key /\ r.at \in Nat /\ r.version \in Nat /\ r.at <= Len(log)
  BY Zenon DEF ReadRef, ReadHolds
<1>2. store[r.key].version \in Nat /\ r.at <= Len(log')
  BY Zenon, <1>1, VersionTyped, LaterLength
<1>3. /\ RecreatedIn(log, r.key, r.at) => RecreatedIn(log', r.key, r.at)
      /\ r.key # e.key => /\ store'[r.key] = store[r.key]
                          /\ TouchedIn(log', r.key, r.at) => TouchedIn(log, r.key, r.at)
      /\ r.key = e.key => \/ RecreatedIn(log', r.key, r.at)
                          \/ store'[r.key].version = store[r.key].version + 1
  BY Zenon, <1>1, WriteMoves
<1>4. CASE r.key # e.key
  BY Zenon, <1>2, <1>3, <1>4 DEF ReadHolds
<1>5. CASE r.key = e.key
  <2>1. \/ store[r.key].version > r.version \/ store[r.key].version = r.version
        => store[r.key].version + 1 > r.version
    BY Zenon, <1>1, <1>2, Above
  <2> QED
    BY Zenon, <1>2, <1>3, <1>5, <2>1 DEF ReadHolds
<1> QED
  BY Zenon, <1>4, <1>5

(* A write keeps a staged image accounted for.                               *)
LEMMA ImageHoldsWrite ==
    ASSUME StoreTypeOK, NEW e \in Entry, WriteStep(e), NEW op \in Op, ImageHolds(store, log, op)
    PROVE  ImageHolds(store', log', op)
<1> SUFFICES ASSUME op.kind # "create", op.key \in Id
             PROVE  ImageHolds(store', log', op)
  BY Zenon DEF ImageHolds
<1>1. op.key \in Key /\ op.at \in Nat /\ op.seen \in Nat /\ op.at <= Len(log)
  BY Zenon DEF Op, ImageHolds
<1>2. store[op.key].version \in Nat /\ op.at <= Len(log')
  BY Zenon, <1>1, VersionTyped, LaterLength
<1>3. /\ RecreatedIn(log, op.key, op.at) => RecreatedIn(log', op.key, op.at)
      /\ op.key # e.key => store'[op.key] = store[op.key]
      /\ op.key = e.key => \/ RecreatedIn(log', op.key, op.at)
                           \/ store'[op.key].version = store[op.key].version + 1
  BY Zenon, <1>1, WriteMoves
<1>4. CASE op.key # e.key
  BY Zenon, <1>2, <1>3, <1>4 DEF ImageHolds
<1>5. CASE op.key = e.key
  <2>1. \/ store[op.key].version > op.seen \/ store[op.key].version = op.seen
        => store[op.key].version + 1 > op.seen
    BY Zenon, <1>1, <1>2, Above
  <2> QED
    BY Zenon, <1>2, <1>3, <1>5, <2>1 DEF ImageHolds
<1> QED
  BY Zenon, <1>4, <1>5

(* A write to the view keeps every observation true of the view.             *)
LEMMA ObservedWrite ==
    ASSUME TypeOK, ObservationInv, NEW e \in Entry, WriteStep(e), UNCHANGED <<ops, reads>>
    PROVE  /\ \A s \in Session : \A i \in DOMAIN reads'[s] : ReadHolds(store', log', reads'[s][i])
           /\ \A s \in Session : \A i \in DOMAIN ops'[s] : ImageHolds(store', log', ops'[s][i])
<1>1. ASSUME NEW s \in Session, NEW i \in DOMAIN reads[s]
      PROVE  ReadHolds(store', log', reads[s][i])
  <2>1. reads[s][i] \in ReadRef /\ ReadHolds(store, log, reads[s][i])
    BY <1>1 DEF TypeOK, TxTypeOK, ObservationInv
  <2> QED
    BY <2>1, ReadHoldsWrite DEF TypeOK
<1>2. ASSUME NEW s \in Session, NEW i \in DOMAIN ops[s]
      PROVE  ImageHolds(store', log', ops[s][i])
  <2>1. ops[s][i] \in Op /\ ImageHolds(store, log, ops[s][i])
    BY <1>2 DEF TypeOK, TxTypeOK, ObservationInv
  <2> QED
    BY <2>1, ImageHoldsWrite DEF TypeOK
<1> QED
  BY <1>1, <1>2

(* Sessions that end take their observations with them.                      *)
LEMMA ObservedEnds ==
    ASSUME TypeOK, ObservationInv, NEW S, Ends(S),
           UNCHANGED <<store, log, durable>>, Wedged => Wedged'
    PROVE  ObservationInv'
<1>1. ASSUME NEW s \in Session, NEW i \in DOMAIN reads'[s]
      PROVE  i \in DOMAIN reads[s] /\ reads'[s][i] = reads[s][i]
  BY <1>1 DEF Ends, TypeOK, TxTypeOK
<1>2. ASSUME NEW s \in Session, NEW i \in DOMAIN ops'[s]
      PROVE  i \in DOMAIN ops[s] /\ ops'[s][i] = ops[s][i]
  BY <1>2 DEF Ends, TypeOK, TxTypeOK
<1>3. ASSUME NEW s \in Session, NEW i \in DOMAIN reads'[s]
      PROVE  /\ ReadHolds(store', log', reads'[s][i])
             /\ Wedged' \/ ReadHolds(durable'.store, durable'.log, reads'[s][i])
  BY Zenon, <1>1, <1>3 DEF ObservationInv
<1>4. ASSUME NEW s \in Session, NEW i \in DOMAIN ops'[s]
      PROVE  /\ ImageHolds(store', log', ops'[s][i])
             /\ Wedged' \/ ImageHolds(durable'.store, durable'.log, ops'[s][i])
  BY Zenon, <1>2, <1>4 DEF ObservationInv
<1> QED
  BY Zenon, <1>3, <1>4 DEF ObservationInv

(* tx_get_entity records an observation that holds.                          *)
LEMMA ObservedRead ==
    ASSUME TypeOK, AuditInv, ObservationInv, NEW s \in Session, NEW k \in Id, RecordRead(s, k)
    PROVE  ObservationInv'
<1> DEFINE r == [key |-> k, version |-> Version(k), at |-> Len(log)]
<1>1. /\ reads' = [reads EXCEPT ![s] = Append(@, r)]
      /\ UNCHANGED <<store, log, durable, inTx, phase, ops>> /\ LockFree
  BY Zenon DEF RecordRead, storeVars
<1>2. ReadHolds(store, log, r)
  <2>1. r.key = k /\ r.version = Version(k) /\ r.at = Len(log) /\ k \in Key
    BY ZenonT(60) DEF Key
  <2> HIDE DEF r
  <2> QED
    BY Zenon, <2>1, ReadNow DEF TypeOK
<1>3. Wedged \/ ReadHolds(durable.store, durable.log, r)
  <2>1. CASE inTx
    BY Zenon, <1>1, <2>1 DEF Wedged
  <2>2. CASE ~inTx
    <3>1. durable.store = store /\ durable.log = log
      BY <2>2 DEF AuditInv, ViewIsDurable
    <3> QED
      BY <1>2, <3>1
  <2> QED
    BY <2>1, <2>2
<1>4. Wedged' = Wedged
  BY Zenon, <1>1 DEF Wedged, LockFree
<1>5. ASSUME NEW t \in Session, NEW i \in DOMAIN reads'[t]
      PROVE  /\ ReadHolds(store, log, reads'[t][i])
             /\ Wedged \/ ReadHolds(durable.store, durable.log, reads'[t][i])
  <2> HIDE DEF r
  <2>1. reads'[t][i] = r \/ (i \in DOMAIN reads[t] /\ reads'[t][i] = reads[t][i])
    <3>1. OneMore(ReadRef, reads', reads, s, r)
      BY Zenon, <1>1 DEF OneMore, TypeOK, TxTypeOK
    <3>2. \A u \in Session : \A j \in DOMAIN reads'[u] : OldOrNew(reads', reads, s, r, u, j)
      BY Zenon, <3>1, AppendAt
    <3> QED
      BY Zenon, <1>5, <3>2 DEF OldOrNew
  <2>2. CASE reads'[t][i] = r
    BY Zenon, <1>2, <1>3, <2>2
  <2>3. CASE i \in DOMAIN reads[t] /\ reads'[t][i] = reads[t][i]
    BY Zenon, <2>3 DEF ObservationInv
  <2> QED
    BY Zenon, <2>1, <2>2, <2>3
<1>6. ASSUME NEW t \in Session, NEW i \in DOMAIN reads'[t]
      PROVE  /\ ReadHolds(store', log', reads'[t][i])
             /\ Wedged' \/ ReadHolds(durable'.store, durable'.log, reads'[t][i])
  BY Zenon, <1>1, <1>4, <1>5, <1>6
<1>7. ASSUME NEW t \in Session, NEW i \in DOMAIN ops'[t]
      PROVE  /\ ImageHolds(store', log', ops'[t][i])
             /\ Wedged' \/ ImageHolds(durable'.store, durable'.log, ops'[t][i])
  BY ZenonT(60), <1>1, <1>4, <1>7 DEF ObservationInv
<1> QED
  BY Zenon, <1>6, <1>7 DEF ObservationInv

(* A staging call records an image that holds.                               *)
LEMMA ObservedStage ==
    ASSUME TypeOK, AuditInv, ObservationInv, NEW s \in Session, NEW op \in Op,
           Stage(s, op), Sighted(op)
    PROVE  ObservationInv'
<1>1. /\ ops' = [ops EXCEPT ![s] = Append(@, op)]
      /\ UNCHANGED <<store, log, durable, inTx, phase, reads>> /\ LockFree
  BY Zenon DEF Stage, storeVars
<1>2. ImageHolds(store, log, op)
  <2>1. Len(log) \in Nat
    BY DEF TypeOK, StoreTypeOK
  <2> QED
    BY <2>1 DEF ImageHolds, Sighted, Version
<1>3. Wedged \/ ImageHolds(durable.store, durable.log, op)
  <2>1. CASE inTx
    BY <1>1, <2>1 DEF Wedged
  <2>2. CASE ~inTx
    <3>1. durable.store = store /\ durable.log = log
      BY <2>2 DEF AuditInv, ViewIsDurable
    <3> QED
      BY <1>2, <3>1
  <2> QED
    BY <2>1, <2>2
<1>4. Wedged' = Wedged
  BY Zenon, <1>1 DEF Wedged, LockFree
<1>5. ASSUME NEW t \in Session, NEW i \in DOMAIN ops'[t]
      PROVE  /\ ImageHolds(store, log, ops'[t][i])
             /\ Wedged \/ ImageHolds(durable.store, durable.log, ops'[t][i])
  <2>1. ops'[t][i] = op \/ (i \in DOMAIN ops[t] /\ ops'[t][i] = ops[t][i])
    <3>1. OneMore(Op, ops', ops, s, op)
      BY Zenon, <1>1 DEF OneMore, TypeOK, TxTypeOK
    <3>2. \A u \in Session : \A j \in DOMAIN ops'[u] : OldOrNew(ops', ops, s, op, u, j)
      BY Zenon, <3>1, AppendAt
    <3> QED
      BY Zenon, <1>5, <3>2 DEF OldOrNew
  <2>2. CASE ops'[t][i] = op
    BY Zenon, <1>2, <1>3, <2>2
  <2>3. CASE i \in DOMAIN ops[t] /\ ops'[t][i] = ops[t][i]
    BY Zenon, <2>3 DEF ObservationInv
  <2> QED
    BY Zenon, <2>1, <2>2, <2>3
<1>6. ASSUME NEW t \in Session, NEW i \in DOMAIN ops'[t]
      PROVE  /\ ImageHolds(store', log', ops'[t][i])
             /\ Wedged' \/ ImageHolds(durable'.store, durable'.log, ops'[t][i])
  BY Zenon, <1>1, <1>4, <1>5, <1>6
<1>7. ASSUME NEW t \in Session, NEW i \in DOMAIN reads'[t]
      PROVE  /\ ReadHolds(store', log', reads'[t][i])
             /\ Wedged' \/ ReadHolds(durable'.store, durable'.log, reads'[t][i])
  BY Zenon, <1>1, <1>4, <1>7 DEF ObservationInv
<1> QED
  BY <1>6, <1>7 DEF ObservationInv

(* Every step keeps all observations accounted for.                          *)
LEMMA ObservationStep ==
    ASSUME TypeOK, OpsCarryData, LockInv, AuditInv, ObservationInv, [Next]_vars
    PROVE  ObservationInv'
<1>1. ASSUME UNCHANGED <<store, log, durable, ops, reads>>, Wedged => Wedged'
      PROVE  ObservationInv'
  BY Zenon, <1>1 DEF ObservationInv
<1>2. ASSUME NEW s \in Session, NEW level \in Level, Open(s, level)
      PROVE  ObservationInv'
  <2>1. Wedged => Wedged'
    BY <1>2 DEF Open, storeVars, Wedged, LockFree, TypeOK, TxTypeOK
  <2> QED
    BY <1>1, <1>2, <2>1 DEF Open, storeVars
<1>3. ASSUME NEW s \in Session, Drop(s) \/ CommitRefused(s)
      PROVE  ObservationInv'
  <2>1. Ends({s}) /\ UNCHANGED storeVars
    BY Zenon, <1>3 DEF Drop, CommitRefused
  <2>2. Wedged => Wedged'
    BY <2>1 DEF Ends, storeVars, Wedged, LockFree
  <2> QED
    BY <2>1, <2>2, ObservedEnds DEF storeVars
<1>4. ASSUME NEW s \in Session, Reading(s)
      PROVE  ObservationInv'
  <2>1. ASSUME NEW c \in Collection, RecordScanRead(s, c)
        PROVE  ObservationInv'
    BY <1>1, <2>1 DEF RecordScanRead, storeVars, Wedged, LockFree
  <2> QED
    BY Zenon, <1>4, <2>1, ObservedRead DEF Reading
<1>5. ASSUME NEW s \in Session, Staging(s)
      PROVE  ObservationInv'
  BY <1>5, StagingIsStage, ObservedStage
<1>6. ASSUME NEW s \in Session, CommitBegin(s)
      PROVE  ObservationInv'
  BY ZenonT(60), <1>1, <1>6 DEF CommitBegin, BeginTx, Wedged
<1>7. ASSUME NEW s \in Session, ApplyCreate(s) \/ ApplyUpdate(s) \/ ApplyDelete(s)
      PROVE  ObservationInv'
  <2>1. PICK e \in Entry : WriteStep(e)
    BY Zenon, <1>7, ApplyIsWrite
  <2>2. UNCHANGED <<durable, inTx, phase, ops, reads>>
    BY Zenon, <1>7, ApplyIsWrite DEF Applied
  <2>3. Wedged' = Wedged
    BY Zenon, <2>2 DEF Wedged, LockFree
  <2>4. /\ \A t \in Session : \A i \in DOMAIN reads'[t] : ReadHolds(store', log', reads'[t][i])
        /\ \A t \in Session : \A i \in DOMAIN ops'[t] : ImageHolds(store', log', ops'[t][i])
    BY Zenon, <2>1, <2>2, ObservedWrite
  <2> QED
    BY Zenon, <2>2, <2>3, <2>4 DEF ObservationInv
<1>8. ASSUME \A t \in Session : \A i \in DOMAIN reads'[t] : ReadHolds(store', log', reads'[t][i]),
             \A t \in Session : \A i \in DOMAIN ops'[t] : ImageHolds(store', log', ops'[t][i]),
             \/ durable' = [store |-> store', log |-> log']
             \/ Wedged'
      PROVE  ObservationInv'
  <2>1. CASE durable' = [store |-> store', log |-> log']
    <3>1. durable'.store = store' /\ durable'.log = log'
      BY Zenon, <2>1
    <3> QED
      BY Zenon, <1>8, <3>1 DEF ObservationInv
  <2>2. CASE Wedged'
    BY Zenon, <1>8, <2>2 DEF ObservationInv
  <2> QED
    BY Zenon, <1>8, <2>1, <2>2
<1>9. ASSUME NEW s \in Session, CommitEnd(s)
      PROVE  ObservationInv'
  <2>1. Ends({s}) /\ UNCHANGED <<store, log>> /\ durable' = [store |-> store', log |-> log']
    BY ZenonT(60), <1>9 DEF CommitEnd, CommitTx
  <2>2. \A t \in Session : \A i \in DOMAIN reads'[t] :
          i \in DOMAIN reads[t] /\ reads'[t][i] = reads[t][i]
    BY <2>1 DEF Ends, TypeOK, TxTypeOK
  <2>3. \A t \in Session : \A i \in DOMAIN ops'[t] :
          i \in DOMAIN ops[t] /\ ops'[t][i] = ops[t][i]
    BY <2>1 DEF Ends, TypeOK, TxTypeOK
  <2>4. \A t \in Session : \A i \in DOMAIN reads'[t] : ReadHolds(store', log', reads'[t][i])
    BY Zenon, <2>1, <2>2 DEF ObservationInv
  <2>5. \A t \in Session : \A i \in DOMAIN ops'[t] : ImageHolds(store', log', ops'[t][i])
    BY Zenon, <2>1, <2>3 DEF ObservationInv
  <2> QED
    BY Zenon, <1>8, <2>1, <2>4, <2>5
<1>10. ASSUME NEW s \in Session, CommitAborts(s)
       PROVE  ObservationInv'
  <2>1. Ends({s}) /\ ~LockFree
    BY Zenon, <1>10 DEF CommitAborts, LockFree
  <2>2. CASE AbortTx
    <3>1. store' = durable.store /\ log' = durable.log /\ UNCHANGED durable
      BY <2>2 DEF AbortTx
    <3>2. \A t \in Session : \A i \in DOMAIN reads'[t] :
            i \in DOMAIN reads[t] /\ reads'[t][i] = reads[t][i]
      BY <2>1 DEF Ends, TypeOK, TxTypeOK
    <3>3. \A t \in Session : \A i \in DOMAIN ops'[t] :
            i \in DOMAIN ops[t] /\ ops'[t][i] = ops[t][i]
      BY <2>1 DEF Ends, TypeOK, TxTypeOK
    <3>4. \A t \in Session : \A i \in DOMAIN reads'[t] : ReadHolds(store', log', reads'[t][i])
      BY Zenon, <2>1, <3>1, <3>2 DEF ObservationInv, Wedged
    <3>5. \A t \in Session : \A i \in DOMAIN ops'[t] : ImageHolds(store', log', ops'[t][i])
      BY Zenon, <2>1, <3>1, <3>3 DEF ObservationInv, Wedged
    <3>6. durable' = [store |-> store', log |-> log']
      BY <3>1 DEF TypeOK, StoreTypeOK
    <3> QED
      BY Zenon, <1>8, <3>4, <3>5, <3>6
  <2>3. CASE UNCHANGED <<store, log, durable, inTx>>
    BY <2>1, <2>3, ObservedEnds DEF Wedged
  <2> QED
    BY <1>10, <2>2, <2>3 DEF CommitAborts
<1>11. CASE DirectWrite
  <2>1. PICK e \in Entry : WriteStep(e)
    BY <1>11, DirectIsWrite
  <2>2. LockFree /\ UNCHANGED txVars
    BY Zenon, <1>11, DirectIsWrite
  <2>3. /\ \A t \in Session : \A i \in DOMAIN reads'[t] : ReadHolds(store', log', reads'[t][i])
        /\ \A t \in Session : \A i \in DOMAIN ops'[t] : ImageHolds(store', log', ops'[t][i])
    BY Zenon, <2>1, <2>2, ObservedWrite DEF txVars
  <2>4. CASE CommitTx
    BY Zenon, <1>8, <2>3, <2>4 DEF CommitTx
  <2>5. CASE inTx' = TRUE /\ UNCHANGED durable
    <3>1. Wedged'
      BY Zenon, <2>2, <2>5 DEF Wedged, LockFree, txVars
    <3> QED
      BY Zenon, <1>8, <2>3, <3>1
  <2> QED
    BY Zenon, <1>11, <2>4, <2>5, DirectIsWrite DEF Conclude
<1>12. CASE Crash
  <2>1. \A t \in Session : reads'[t] = <<>> /\ ops'[t] = <<>>
    BY <1>12 DEF Crash, Ends
  <2>2. DOMAIN <<>> = {}
    OBVIOUS
  <2> QED
    BY ZenonT(60), <2>1, <2>2 DEF ObservationInv
<1>13. CASE UNCHANGED vars
  BY Zenon, <1>1, <1>13 DEF vars, storeVars, txVars, Wedged, LockFree
<1> QED
  BY Zenon, <1>2, <1>3, <1>4, <1>5, <1>6, <1>7, <1>9, <1>10, <1>11, <1>12, <1>13 DEF Next, Committing

IsolationInv == SerializableReadsHold /\ StagedImagesHonest

(* Validation is made of the committed state, and nothing commits while the  *)
(* validated session holds the mutex.                                        *)
LEMMA IsolationStep ==
    ASSUME TypeOK, OpsCarryData, LockInv, AuditInv, ObservationInv, IsolationInv, [Next]_vars
    PROVE  IsolationInv'
<1>1. ASSUME \A s \in Session : phase'[s] # "apply"
      PROVE  IsolationInv'
  BY Zenon, <1>1 DEF IsolationInv, SerializableReadsHold, StagedImagesHonest
<1>2. ASSUME UNCHANGED <<durable, phase, iso, reads, ops>>
      PROVE  IsolationInv'
  <2>1. SerializableReadsHold'
    BY Zenon, <1>2 DEF IsolationInv, SerializableReadsHold, Serializable, Touched, Recreated
  <2>2. StagedImagesHonest'
    BY Zenon, <1>2 DEF IsolationInv, StagedImagesHonest, Recreated
  <2> QED
    BY Zenon, <2>1, <2>2 DEF IsolationInv
<1>3. ASSUME NEW s \in Session, NEW level \in Level, Open(s, level)
      PROVE  IsolationInv'
  BY Zenon, <1>3 DEF Open, storeVars, IsolationInv, SerializableReadsHold, StagedImagesHonest,
              Serializable, Touched, Recreated, TypeOK, TxTypeOK
<1>4. ASSUME NEW s \in Session, Drop(s) \/ CommitRefused(s)
      PROVE  IsolationInv'
  <2>1. Ends({s}) /\ UNCHANGED durable
    BY <1>4 DEF Drop, CommitRefused, storeVars
  <2> QED
    BY ZenonT(60), <2>1 DEF Ends, IsolationInv, SerializableReadsHold, StagedImagesHonest, Serializable,
                Touched, Recreated
<1>5. ASSUME NEW s \in Session, Reading(s) \/ Staging(s)
      PROVE  IsolationInv'
  <2>1. LockFree /\ UNCHANGED phase
    BY ZenonT(30), <1>5 DEF Reading, RecordRead, RecordScanRead, Staging, StageCreate, StageUpdate,
                StagePatch, StageDelete, StageCreateLink, StageDeleteLink, Stage
  <2> QED
    BY <1>1, <2>1 DEF LockFree
<1>6. ASSUME NEW s \in Session, CommitBegin(s)
      PROVE  IsolationInv'
  <2>1. /\ phase' = [phase EXCEPT ![s] = "apply"] /\ LockFree /\ ~inTx /\ Validates(s)
        /\ UNCHANGED <<durable, iso, ops, reads>>
    BY <1>6 DEF CommitBegin, BeginTx
  <2>2. durable.store = store /\ durable.log = log /\ ~Wedged
    BY <2>1 DEF AuditInv, ViewIsDurable, Wedged
  <2>3. \A t \in Session : phase'[t] = "apply" => t = s
    BY Zenon, <2>1 DEF LockFree, TypeOK, TxTypeOK
  <2>4. ASSUME Serializable(s), NEW i \in DOMAIN reads[s], Touched(reads[s][i].key, reads[s][i].at)
        PROVE  Recreated(reads[s][i].key, reads[s][i].at)
    <3>1. store[reads[s][i].key].version = reads[s][i].version
      BY ZenonT(60), <2>1, <2>4 DEF Validates, ReadSetOK, Version
    <3>2. ReadHolds(durable.store, durable.log, reads[s][i])
      BY <2>2, <2>4 DEF ObservationInv
    <3>3. reads[s][i].version \in Nat
      <4>1. reads[s][i] \in ReadRef
        BY Zenon, <2>4, SeqElement DEF TypeOK, TxTypeOK
      <4> QED
        BY <4>1 DEF ReadRef
    <3> QED
      BY Zenon, <2>2, <2>4, <3>1, <3>2, <3>3, Above DEF ReadHolds, Touched, Recreated
  <2>5. ASSUME NEW i \in DOMAIN ops[s], ops[s][i].key \in Id, ops[s][i].kind # "create",
               ops[s][i].seen = ops[s][i].expected, ~Recreated(ops[s][i].key, ops[s][i].at)
        PROVE  ops[s][i].before = durable.store[ops[s][i].key].data
    <3>1. ops[s][i].key \notin Link
      BY Zenon, <2>5, StoreAssumption
    <3>2. store[ops[s][i].key].version = ops[s][i].expected
      <4>1. VersionOK(ops[s][i])
        BY Zenon, <2>1, <2>5 DEF Validates
      <4> QED
        BY Zenon, <2>5, <3>1, <4>1 DEF VersionOK, Version
    <3>3. ImageHolds(durable.store, durable.log, ops[s][i])
      BY ZenonT(30), <2>2, <2>5 DEF ObservationInv
    <3>4. ops[s][i].seen \in Nat
      <4>1. ops[s][i] \in Op
        BY Zenon, <2>5, SeqElement DEF TypeOK, TxTypeOK
      <4> QED
        BY Zenon, <4>1 DEF Op
    <3> QED
      BY Zenon, <2>2, <2>5, <3>2, <3>3, <3>4, Above DEF ImageHolds, Recreated
  <2>6. SerializableReadsHold'
    BY Zenon, <2>1, <2>3, <2>4 DEF SerializableReadsHold, Serializable, Touched, Recreated
  <2>7. StagedImagesHonest'
    <3>1. ASSUME NEW t \in Session, phase'[t] = "apply", NEW i \in DOMAIN ops'[t],
                 ops'[t][i].key \in Id, ops'[t][i].kind # "create",
                 ops'[t][i].seen = ops'[t][i].expected, ~Recreated(ops'[t][i].key, ops'[t][i].at)
          PROVE  ops'[t][i].before = durable.store[ops'[t][i].key].data
      <4>1. t = s /\ ops' = ops
        BY ZenonT(60), <2>1, <2>3, <3>1
      <4> QED
        BY Zenon, <2>5, <3>1, <4>1
    <3> QED
      BY Zenon, <2>1, <3>1 DEF StagedImagesHonest, Recreated
  <2> QED
    BY <2>6, <2>7 DEF IsolationInv
<1>7. ASSUME NEW s \in Session, ApplyCreate(s) \/ ApplyUpdate(s) \/ ApplyDelete(s)
      PROVE  IsolationInv'
  BY <1>2, <1>7, ApplyIsWrite DEF Applied
<1>8. ASSUME NEW s \in Session, CommitEnd(s) \/ CommitAborts(s)
      PROVE  IsolationInv'
  <2>1. phase[s] = "apply" /\ Ends({s})
    BY Zenon, <1>8 DEF CommitEnd, CommitAborts
  <2>2. \A t \in Session : phase'[t] # "apply"
    BY <2>1 DEF Ends, LockInv
  <2> QED
    BY Zenon, <1>1, <2>2
<1>9. CASE DirectWrite
  <2>1. LockFree /\ UNCHANGED txVars
    BY Zenon, <1>9, DirectIsWrite
  <2> QED
    BY <1>1, <2>1 DEF LockFree, txVars
<1>10. CASE Crash
  BY <1>1, <1>10 DEF Crash, Ends
<1>11. CASE UNCHANGED vars
  BY <1>2, <1>11 DEF vars, storeVars, txVars
<1> QED
  BY Zenon, <1>3, <1>4, <1>5, <1>6, <1>7, <1>8, <1>9, <1>10, <1>11 DEF Next, Committing

(* Every behaviour keeps observations accounted for and isolation intact.    *)
LEMMA IsolationInvariant == Spec => [](AuditIInv /\ ObservationInv /\ IsolationInv)
<1>1. Init => ObservationInv /\ IsolationInv
  <2> SUFFICES ASSUME Init PROVE ObservationInv /\ IsolationInv
    OBVIOUS
  <2>1. \A s \in Session : phase[s] = "idle" /\ reads[s] = <<>> /\ ops[s] = <<>>
    BY Zenon DEF Init, TxInit
  <2>2. ObservationInv
    BY <2>1 DEF ObservationInv
  <2>3. IsolationInv
    BY <2>1 DEF IsolationInv, SerializableReadsHold, StagedImagesHonest
  <2> QED
    BY <2>2, <2>3
<1>2. AuditIInv /\ ObservationInv /\ IsolationInv /\ [Next]_vars
      => (AuditIInv /\ ObservationInv /\ IsolationInv)'
  <2> SUFFICES ASSUME AuditIInv, ObservationInv, IsolationInv, [Next]_vars
               PROVE  (AuditIInv /\ ObservationInv /\ IsolationInv)'
    OBVIOUS
  <2>1. TypeOK /\ OpsCarryData /\ LockInv /\ AuditInv /\ AtomicInv
    BY DEF AuditIInv
  <2>2. AuditIInv'
    BY <2>1, TypeStep, LockStep, AuditStep, AtomicStep DEF AuditIInv
  <2>3. ObservationInv'
    BY <2>1, ObservationStep
  <2>4. IsolationInv'
    BY <2>1, IsolationStep
  <2> QED
    BY <2>2, <2>3, <2>4
<1> QED
  BY <1>1, <1>2, AuditInit, PTL DEF Spec

(* First-committer-wins over the key-addressed read set: at any serializable *)
(* level, a transaction that validation lets through has read no entity that *)
(* was updated since, unless a create or a delete restarted its versions.    *)
THEOREM SerializableReads == Spec => []SerializableReadsHold
<1>1. IsolationInv => SerializableReadsHold
  BY DEF IsolationInv
<1> QED
  BY <1>1, IsolationInvariant, PTL

(* A before-image, and the document a patch was merged into, is what the     *)
(* commit replaces whenever the client named the version the staging call    *)
(* saw and no new incarnation of the entity intervened.                      *)
THEOREM StagedImages == Spec => []StagedImagesHonest
<1>1. IsolationInv => StagedImagesHonest
  BY DEF IsolationInv
<1> QED
  BY <1>1, IsolationInvariant, PTL

----------------------------------------------------------------------------
(* Scans: the signature of a scanned collection stays accounted for, by the  *)
(* versions of its members, their set, or the membership counter.            *)

MembersIn(st, c) == {k \in Key : CollectionOf[k] = c /\ st[k].data # Nil}

ScanRef == [coll : Collection, sig : Nat \cup (SUBSET Key) \cup (SUBSET (Key \X Nat)),
            members : SUBSET Key, at : Nat]

(* What the signature is made of at each level.                              *)
Signed(level, sc) ==
    IF level = "strict"
    THEN sc.sig \in SUBSET (Key \X Nat) /\ sc.members = {p[1] : p \in sc.sig}
    ELSE IF CounterGuard THEN sc.sig \in Nat ELSE sc.sig = sc.members

(* A scan against a state: each member it signed was not written since, but  *)
(* to a later version or a new incarnation; the counter did not go back, and *)
(* while it stands the members are the same.                                 *)
ScanHolds(st, l, ch, level, sc) ==
    IF level = "strict"
    THEN \A p \in sc.sig : ReadHolds(st, l, [key |-> p[1], version |-> p[2], at |-> sc.at])
    ELSE CounterGuard => /\ sc.sig <= ch[sc.coll]
                         /\ ch[sc.coll] = sc.sig => sc.members = MembersIn(st, sc.coll)

ScanInv ==
    /\ scans \in [Session -> Seq(ScanRef)]
    /\ \A s \in Session : phase[s] = "idle" => scans[s] = <<>>
    /\ \A s \in Session : \A i \in DOMAIN scans[s] :
         /\ Signed(iso[s], scans[s][i])
         /\ ScanHolds(store, log, churn, iso[s], scans[s][i])
         /\ Wedged \/ ScanHolds(durable.store, durable.log, churn, iso[s], scans[s][i])

(* A step that keeps any scan accounted for.                                 *)
Carries ==
    \A level : \A sc \in ScanRef :
        /\ Signed(level, sc) /\ ScanHolds(store, log, churn, level, sc)
        /\ Wedged \/ ScanHolds(durable.store, durable.log, churn, level, sc)
        => /\ ScanHolds(store', log', churn', level, sc)
           /\ Wedged' \/ ScanHolds(durable'.store, durable'.log, churn', level, sc)

(* A step in which a session keeps its scans and its level, or has no scans. *)
KeepsScans ==
    /\ scans' \in [Session -> Seq(ScanRef)]
    /\ \A s \in Session :
         \/ scans'[s] = <<>>
         \/ scans'[s] = scans[s] /\ iso'[s] = iso[s] /\ (phase'[s] = "idle" => phase[s] = "idle")

(* A step that makes no new scan and carries the old ones.                   *)
LEMMA ScansCarried ==
    ASSUME ScanInv, Carries, KeepsScans
    PROVE  ScanInv'
<1>1. ASSUME NEW s \in Session, NEW i \in DOMAIN scans'[s]
      PROVE  /\ Signed(iso'[s], scans'[s][i])
             /\ ScanHolds(store', log', churn', iso'[s], scans'[s][i])
             /\ Wedged' \/ ScanHolds(durable'.store, durable'.log, churn', iso'[s], scans'[s][i])
  <2>1. scans'[s] # <<>>
    BY <1>1
  <2>2. scans'[s] = scans[s] /\ iso'[s] = iso[s]
    BY Zenon, <2>1 DEF KeepsScans
  <2>3. i \in DOMAIN scans[s] /\ scans[s][i] \in ScanRef
    <3>1. i \in DOMAIN scans[s] /\ scans[s] \in Seq(ScanRef)
      BY Zenon, <1>1, <2>2 DEF ScanInv
    <3> QED
      BY <3>1
  <2>4. /\ Signed(iso[s], scans[s][i]) /\ ScanHolds(store, log, churn, iso[s], scans[s][i])
        /\ Wedged \/ ScanHolds(durable.store, durable.log, churn, iso[s], scans[s][i])
    BY Zenon, <2>3 DEF ScanInv
  <2> QED
    BY Zenon, <2>2, <2>3, <2>4 DEF Carries
<1>2. \A s \in Session : phase'[s] = "idle" => scans'[s] = <<>>
  BY Zenon DEF KeepsScans, ScanInv
<1> QED
  BY Zenon, <1>1, <1>2 DEF ScanInv, KeepsScans

(* A counter that moves on leaves a scan accounted for.                      *)
LEMMA ScanHoldsCounter ==
    ASSUME NEW ch \in [Collection -> Nat], NEW dh \in [Collection -> Nat],
           \A c \in Collection : ch[c] <= dh[c],
           NEW level, NEW sc \in ScanRef, Signed(level, sc),
           NEW st, NEW l, ScanHolds(st, l, ch, level, sc)
    PROVE  ScanHolds(st, l, dh, level, sc)
<1>1. CASE level = "strict" \/ ~CounterGuard
  BY Zenon, <1>1 DEF ScanHolds
<1>2. CASE level # "strict" /\ CounterGuard
  <2>1. sc.coll \in Collection /\ sc.sig \in Nat
    BY Zenon, <1>2 DEF ScanRef, Signed
  <2>2. /\ sc.sig <= ch[sc.coll]
        /\ ch[sc.coll] = sc.sig => sc.members = MembersIn(st, sc.coll)
    BY Zenon, <1>2 DEF ScanHolds
  <2>3. /\ sc.sig <= dh[sc.coll]
        /\ dh[sc.coll] = sc.sig => ch[sc.coll] = sc.sig
    BY <2>1, <2>2
  <2> QED
    BY Zenon, <1>2, <2>2, <2>3 DEF ScanHolds
<1> QED
  BY <1>1, <1>2

(* A write leaves a scan accounted for: a new member, or a lost one, moves   *)
(* the counter.                                                              *)
LEMMA ScanHoldsWrite ==
    ASSUME StoreTypeOK, NEW e \in Entry, WriteStep(e), NEW level, NEW sc \in ScanRef,
           Signed(level, sc), ScanHolds(store, log, churn, level, sc)
    PROVE  ScanHolds(store', log', churn', level, sc)
<1>1. CASE level = "strict"
  <2>1. ASSUME NEW p \in sc.sig
        PROVE  ReadHolds(store', log', [key |-> p[1], version |-> p[2], at |-> sc.at])
    <3> DEFINE r == [key |-> p[1], version |-> p[2], at |-> sc.at]
    <3>1. p \in Key \X Nat /\ sc.at \in Nat
      BY Zenon, <1>1, <2>1 DEF Signed, ScanRef
    <3>2. r \in ReadRef
      BY <3>1 DEF ReadRef
    <3>3. ReadHolds(store, log, r)
      BY Zenon, <1>1, <2>1 DEF ScanHolds
    <3> HIDE DEF r
    <3>4. ReadHolds(store', log', r)
      BY Zenon, <3>2, <3>3, ReadHoldsWrite
    <3> QED
      BY <3>4 DEF r
  <2> QED
    BY ZenonT(60), <1>1, <2>1 DEF ScanHolds
<1>2. CASE level # "strict" /\ ~CounterGuard
  BY Zenon, <1>2 DEF ScanHolds
<1>3. CASE level # "strict" /\ CounterGuard
  <2> DEFINE c == sc.coll
  <2>1. c \in Collection /\ sc.sig \in Nat
    BY Zenon, <1>3 DEF ScanRef, Signed
  <2>2. sc.sig <= churn[c] /\ (churn[c] = sc.sig => sc.members = MembersIn(store, c))
    BY Zenon, <1>3 DEF ScanHolds
  <2>3. /\ churn[c] \in Nat /\ churn'[c] \in Nat /\ churn[c] <= churn'[c]
        /\ e.key \in Key /\ store' = [store EXCEPT ![e.key] = Outcome(e)] /\ DOMAIN store = Key
        /\ CounterGuard /\ (Present(e.key) <=> e.after = Nil) =>
               churn[CollectionOf[e.key]] < churn'[CollectionOf[e.key]]
    BY Zenon, <2>1 DEF WriteStep, StoreTypeOK, Entry
  <2>4. sc.sig <= churn'[c] /\ (churn'[c] = sc.sig => churn[c] = sc.sig /\ ~(churn[c] < churn'[c]))
    <3>1. sc.sig \in Nat /\ churn[c] \in Nat /\ churn'[c] \in Nat
      BY Zenon, <2>1, <2>3
    <3>2. sc.sig <= churn[c] /\ churn[c] <= churn'[c]
      BY Zenon, <2>2, <2>3
    <3> QED
      BY Zenon, <3>1, <3>2, Squeeze
  <2>5. ASSUME churn'[c] = sc.sig PROVE MembersIn(store', c) = MembersIn(store, c)
    <3>1. ~(churn[c] < churn'[c])
      BY Zenon, <2>4, <2>5
    <3>2. CollectionOf[e.key] = c => (Present(e.key) <=> e.after # Nil)
      BY Zenon, <1>3, <2>3, <3>1
    <3>3. store'[e.key].data = e.after
      BY Zenon, <2>3 DEF Outcome, Absent
    <3>4. \A k \in Key : k # e.key => store'[k] = store[k]
      BY Zenon, <2>3
    <3>5. \A k \in Key : CollectionOf[k] = c => (store'[k].data # Nil <=> store[k].data # Nil)
      BY Zenon, <3>2, <3>3, <3>4 DEF Present
    <3> QED
      BY Zenon, <3>5 DEF MembersIn
  <2>6. ASSUME churn'[c] = sc.sig PROVE sc.members = MembersIn(store', c)
    <3>1. churn[c] = sc.sig
      BY Zenon, <2>4, <2>6
    <3> QED
      BY Zenon, <2>2, <2>5, <2>6, <3>1
  <2> QED
    BY Zenon, <1>3, <2>4, <2>6 DEF ScanHolds
<1> QED
  BY <1>1, <1>2, <1>3

(* query_entities inside a transaction records a scan that holds.            *)
LEMMA ScanRecorded ==
    ASSUME TypeOK, AuditInv, ScanInv, NEW s \in Session, NEW c \in Collection, RecordScanRead(s, c)
    PROVE  ScanInv'
<1> DEFINE sc == [coll |-> c, sig |-> ScanSignature(s, c), members |-> Members(c), at |-> Len(log)]
<1>1. /\ scans' = [scans EXCEPT ![s] = Append(@, sc)] /\ phase[s] = "open" /\ LockFree
      /\ UNCHANGED <<store, log, durable, inTx, churn, phase, iso>>
  BY Zenon DEF RecordScanRead, storeVars
<1>2. /\ Len(log) \in Nat /\ DOMAIN log = 1..Len(log) /\ churn[c] \in Nat
      /\ \A k \in Key : Version(k) \in Nat
  BY DEF TypeOK, StoreTypeOK, Row, Version
<1>3. Members(c) \in SUBSET Key /\ Members(c) = MembersIn(store, c)
  BY Zenon DEF Members, MembersIn, Present
<1>4. ContentVersion(c) \in SUBSET (Key \X Nat) /\ Members(c) = {p[1] : p \in ContentVersion(c)}
  <2> DEFINE pair(k) == <<k, Version(k)>>
  <2>1. \A k \in Members(c) : pair(k) \in Key \X Nat /\ pair(k)[1] = k
    BY <1>2, <1>3
  <2>2. ContentVersion(c) = {pair(k) : k \in Members(c)}
    BY Zenon DEF ContentVersion
  <2> HIDE DEF pair
  <2>3. ASSUME NEW k \in Members(c) PROVE k \in {p[1] : p \in ContentVersion(c)}
    BY Zenon, <2>1, <2>2, <2>3
  <2>4. ASSUME NEW p \in ContentVersion(c) PROVE p \in Key \X Nat /\ p[1] \in Members(c)
    BY ZenonT(60), <2>1, <2>2, <2>4
  <2> QED
    BY Zenon, <2>3, <2>4
<1>5. sc \in ScanRef /\ Signed(iso[s], sc)
  <2>1. Signed(iso[s], sc)
    <3>1. sc.sig = ScanSignature(s, c) /\ sc.members = Members(c)
      BY Zenon
    <3> HIDE DEF sc
    <3> QED
      BY Zenon, <1>2, <1>4, <3>1 DEF ScanSignature, StructuralVersion, Signed
  <2>2. ScanSignature(s, c) \in Nat \cup (SUBSET Key) \cup (SUBSET (Key \X Nat))
    <3>1. ScanSignature(s, c) \in {ContentVersion(c), churn[c], Members(c)}
      BY Zenon DEF ScanSignature, StructuralVersion
    <3> QED
      BY Zenon, <1>2, <1>3, <1>4, <3>1
  <2>3. sc \in ScanRef
    BY Zenon, <1>2, <1>3, <2>2 DEF ScanRef
  <2> QED
    BY <2>1, <2>3
<1>6. ScanHolds(store, log, churn, iso[s], sc)
  <2>1. CASE iso[s] = "strict"
    <3>1. ASSUME NEW k \in Members(c)
          PROVE  ReadHolds(store, log, [key |-> k, version |-> Version(k), at |-> Len(log)])
      <4> DEFINE r == [key |-> k, version |-> Version(k), at |-> Len(log)]
      <4>1. r.key = k /\ r.version = Version(k) /\ r.at = Len(log) /\ k \in Key
        BY Zenon, <1>3, <3>1
      <4> HIDE DEF r
      <4>2. ReadHolds(store, log, r)
        BY Zenon, <4>1, ReadNow DEF TypeOK
      <4> QED
        BY Zenon, <4>2 DEF r
    <3>2. sc.sig = {<<k, Version(k)>> : k \in Members(c)} /\ sc.at = Len(log)
      BY Zenon, <2>1 DEF ScanSignature, ContentVersion
    <3>3. ASSUME NEW p \in sc.sig
          PROVE  ReadHolds(store, log, [key |-> p[1], version |-> p[2], at |-> sc.at])
      <4>1. PICK k \in Members(c) : p = <<k, Version(k)>>
        BY Zenon, <3>2, <3>3
      <4>2. p[1] = k /\ p[2] = Version(k)
        BY <4>1
      <4> QED
        BY Zenon, <3>1, <3>2, <4>2
    <3> QED
      BY Zenon, <2>1, <3>3 DEF ScanHolds
  <2>2. CASE iso[s] # "strict"
    <3>1. churn[c] <= churn[c]
      BY <1>2
    <3> QED
      BY Zenon, <1>3, <2>2, <3>1 DEF ScanHolds, ScanSignature, StructuralVersion
  <2> QED
    BY Zenon, <2>1, <2>2
<1> HIDE DEF sc
<1>7. Wedged \/ ScanHolds(durable.store, durable.log, churn, iso[s], sc)
  <2>1. ~inTx => durable.store = store /\ durable.log = log
    BY DEF AuditInv, ViewIsDurable
  <2> QED
    BY Zenon, <1>1, <1>6, <2>1 DEF Wedged
<1>8. Wedged' = Wedged
  BY Zenon, <1>1 DEF Wedged, LockFree
<1>9. ASSUME NEW t \in Session, NEW i \in DOMAIN scans'[t]
      PROVE  /\ Signed(iso[t], scans'[t][i])
             /\ ScanHolds(store, log, churn, iso[t], scans'[t][i])
             /\ Wedged \/ ScanHolds(durable.store, durable.log, churn, iso[t], scans'[t][i])
  <2>1. scans \in [Session -> Seq(ScanRef)]
    BY Zenon DEF ScanInv
  <2>2. (t = s /\ scans'[t][i] = sc) \/ (i \in DOMAIN scans[t] /\ scans'[t][i] = scans[t][i])
    <3>1. OneMore(ScanRef, scans', scans, s, sc)
      BY Zenon, <1>1, <2>1 DEF OneMore
    <3>2. \A u \in Session : \A j \in DOMAIN scans'[u] : OldOrNew(scans', scans, s, sc, u, j)
      BY Zenon, <3>1, AppendAt
    <3> QED
      BY Zenon, <1>9, <3>2 DEF OldOrNew
  <2>3. CASE t = s /\ scans'[t][i] = sc
    BY Zenon, <1>5, <1>6, <1>7, <2>3
  <2>4. CASE i \in DOMAIN scans[t] /\ scans'[t][i] = scans[t][i]
    BY Zenon, <2>4 DEF ScanInv
  <2> QED
    BY Zenon, <2>2, <2>3, <2>4
<1>10. scans' \in [Session -> Seq(ScanRef)] /\ \A t \in Session : t # s => scans'[t] = scans[t]
  <2>1. sc \in ScanRef
    BY Zenon, <1>5
  <2>2. OneMore(ScanRef, scans', scans, s, sc)
    BY Zenon, <1>1 DEF OneMore, ScanInv
  <2> HIDE DEF sc
  <2> QED
    BY <2>1, <2>2, AppendTyped
<1>11. \A t \in Session : phase[t] = "idle" => scans'[t] = <<>>
  BY Zenon, <1>1, <1>10 DEF ScanInv
<1>12. ASSUME NEW t \in Session, NEW i \in DOMAIN scans'[t]
       PROVE  /\ Signed(iso'[t], scans'[t][i])
              /\ ScanHolds(store', log', churn', iso'[t], scans'[t][i])
              /\ Wedged' \/ ScanHolds(durable'.store, durable'.log, churn', iso'[t], scans'[t][i])
  BY Zenon, <1>1, <1>8, <1>9, <1>12
<1> QED
  BY Zenon, <1>1, <1>10, <1>11, <1>12 DEF ScanInv

(* Every step keeps all scans accounted for.                                 *)
LEMMA ScanStep ==
    ASSUME TypeOK, OpsCarryData, LockInv, AuditInv, ScanInv, [Next]_vars
    PROVE  ScanInv'
<1>0. StoreTypeOK /\ scans \in [Session -> Seq(ScanRef)] /\ churn \in [Collection -> Nat]
  BY Zenon DEF TypeOK, StoreTypeOK, ScanInv
<1>1. ASSUME UNCHANGED <<store, log, durable, churn>>, Wedged => Wedged'
      PROVE  Carries
  BY Zenon, <1>1 DEF Carries
<1>2. ASSUME NEW S, Ends(S)
      PROVE  KeepsScans
  <2>1. <<>> \in Seq(ScanRef)
    OBVIOUS
  <2>2. scans' \in [Session -> Seq(ScanRef)]
    BY Zenon, <1>0, <1>2, <2>1 DEF Ends
  <2>3. ASSUME NEW s \in Session
        PROVE  \/ scans'[s] = <<>>
               \/ scans'[s] = scans[s] /\ iso'[s] = iso[s] /\ phase'[s] = phase[s]
    <3>1. CASE s \in S
      BY ZenonT(60), <1>2, <3>1 DEF Ends
    <3>2. CASE s \notin S
      BY <1>2, <3>2 DEF Ends
    <3> QED
      BY Zenon, <3>1, <3>2
  <2> QED
    BY Zenon, <2>2, <2>3 DEF KeepsScans
<1>3. ASSUME UNCHANGED <<scans, iso, phase>>
      PROVE  KeepsScans
  BY Zenon, <1>0, <1>3 DEF KeepsScans
<1>4. ASSUME NEW s \in Session, NEW level \in Level, Open(s, level)
      PROVE  ScanInv'
  <2>1. Wedged => Wedged'
    BY <1>4 DEF Open, storeVars, Wedged, LockFree, TypeOK, TxTypeOK
  <2>2. Carries
    BY Zenon, <1>1, <1>4, <2>1 DEF Open, storeVars
  <2>3. scans' = scans /\ scans[s] = <<>>
    BY Zenon, <1>4 DEF Open, ScanInv
  <2>4. \A t \in Session : t # s => iso'[t] = iso[t] /\ phase'[t] = phase[t]
    BY <1>4 DEF Open, TypeOK, TxTypeOK
  <2>5. KeepsScans
    BY Zenon, <1>0, <2>3, <2>4 DEF KeepsScans
  <2> QED
    BY Zenon, <2>2, <2>5, ScansCarried
<1>5. ASSUME NEW s \in Session, Drop(s) \/ CommitRefused(s)
      PROVE  ScanInv'
  <2>1. Ends({s}) /\ UNCHANGED storeVars
    BY ZenonT(60), <1>5 DEF Drop, CommitRefused
  <2>2. Wedged => Wedged'
    BY <2>1 DEF Ends, storeVars, Wedged, LockFree
  <2>3. Carries
    BY Zenon, <1>1, <2>1, <2>2 DEF storeVars
  <2> QED
    BY Zenon, <1>2, <2>1, <2>3, ScansCarried
<1>6. ASSUME UNCHANGED <<store, log, durable, churn, inTx, scans, iso, phase>>
      PROVE  ScanInv'
  <2>1. Wedged' = Wedged
    BY <1>6 DEF Wedged, LockFree
  <2> QED
    BY Zenon, <1>1, <1>3, <1>6, <2>1, ScansCarried
<1>7. ASSUME NEW s \in Session, Reading(s) \/ Staging(s)
      PROVE  ScanInv'
  <2>1. ASSUME NEW k \in Id, RecordRead(s, k) PROVE ScanInv'
    BY Zenon, <1>6, <2>1 DEF RecordRead, storeVars
  <2>2. ASSUME NEW op, Stage(s, op) PROVE ScanInv'
    BY Zenon, <1>6, <2>2 DEF Stage, storeVars
  <2>3. CASE Staging(s)
    BY Zenon, <2>2, <2>3, StagingIsStage
  <2>4. CASE Reading(s)
    BY Zenon, <2>1, <2>4, ScanRecorded DEF Reading
  <2> QED
    BY <1>7, <2>3, <2>4
<1>8. ASSUME NEW s \in Session, CommitBegin(s)
      PROVE  ScanInv'
  <2>1. /\ ~inTx /\ phase[s] = "open" /\ phase' = [phase EXCEPT ![s] = "apply"]
        /\ UNCHANGED <<store, log, durable, churn, scans, iso>>
    BY Zenon, <1>8 DEF CommitBegin, BeginTx
  <2>2. Carries
    BY Zenon, <1>1, <2>1 DEF Wedged
  <2>3. \A t \in Session : phase'[t] = "idle" => phase[t] = "idle"
    BY <2>1 DEF TypeOK, TxTypeOK
  <2>4. KeepsScans
    BY Zenon, <1>0, <2>1, <2>3 DEF KeepsScans
  <2> QED
    BY Zenon, <2>2, <2>4, ScansCarried
<1>9. ASSUME NEW e \in Entry, WriteStep(e), NEW level, NEW sc \in ScanRef,
             Signed(level, sc), ScanHolds(store, log, churn, level, sc)
      PROVE  ScanHolds(store', log', churn', level, sc)
  BY Zenon, <1>0, <1>9, ScanHoldsWrite
<1>10. ASSUME NEW s \in Session, ApplyCreate(s) \/ ApplyUpdate(s) \/ ApplyDelete(s)
       PROVE  ScanInv'
  <2>1. PICK e \in Entry : WriteStep(e)
    BY Zenon, <1>10, ApplyIsWrite
  <2>2. UNCHANGED <<durable, inTx, phase, iso, scans>>
    BY Zenon, <1>10, ApplyIsWrite DEF Applied
  <2>3. Wedged' = Wedged
    BY <2>2 DEF Wedged, LockFree
  <2>4. churn' \in [Collection -> Nat] /\ \A c \in Collection : churn[c] <= churn'[c]
    BY Zenon, <2>1 DEF WriteStep
  <2>5. ASSUME NEW level, NEW sc \in ScanRef, Signed(level, sc),
               ScanHolds(durable.store, durable.log, churn, level, sc)
        PROVE  ScanHolds(durable'.store, durable'.log, churn', level, sc)
    BY Zenon, <1>0, <2>2, <2>4, <2>5, ScanHoldsCounter
  <2>6. Carries
    BY Zenon, <1>9, <2>1, <2>3, <2>5 DEF Carries
  <2> QED
    BY Zenon, <1>3, <2>2, <2>6, ScansCarried
<1>11. ASSUME NEW s \in Session, CommitEnd(s)
       PROVE  ScanInv'
  <2>1. Ends({s}) /\ UNCHANGED <<store, log, churn>> /\ durable' = [store |-> store', log |-> log']
    BY Zenon, <1>11 DEF CommitEnd, CommitTx
  <2>2. durable'.store = store /\ durable'.log = log
    BY <2>1
  <2>3. Carries
    BY Zenon, <2>1, <2>2 DEF Carries
  <2> QED
    BY Zenon, <1>2, <2>1, <2>3, ScansCarried
<1>12. ASSUME NEW s \in Session, CommitAborts(s)
       PROVE  ScanInv'
  <2>1. Ends({s}) /\ ~Wedged /\ UNCHANGED churn
    BY <1>12 DEF CommitAborts, LockFree, Wedged
  <2>2. \/ store' = durable.store /\ log' = durable.log /\ UNCHANGED durable
        \/ UNCHANGED <<store, log, durable>>
    BY Zenon, <1>12 DEF CommitAborts, AbortTx
  <2>3. Carries
    BY Zenon, <2>1, <2>2 DEF Carries
  <2> QED
    BY Zenon, <1>2, <2>1, <2>3, ScansCarried
<1>13. CASE DirectWrite
  <2>1. PICK e \in Entry : WriteStep(e)
    BY Zenon, <1>13, DirectIsWrite
  <2>2. LockFree /\ UNCHANGED txVars /\ Conclude
    BY Zenon, <1>13, DirectIsWrite
  <2>3. Wedged' \/ (durable'.store = store' /\ durable'.log = log')
    <3>1. CASE CommitTx
      BY <3>1 DEF CommitTx
    <3>2. CASE inTx' = TRUE
      BY <2>2, <3>2 DEF Wedged, LockFree, txVars
    <3> QED
      BY Zenon, <2>2, <3>1, <3>2 DEF Conclude
  <2>4. Carries
    BY Zenon, <1>9, <2>1, <2>3 DEF Carries
  <2> QED
    BY Zenon, <1>3, <2>2, <2>4, ScansCarried DEF txVars
<1>14. CASE Crash
  <2>1. scans' \in [Session -> Seq(ScanRef)] /\ \A t \in Session : scans'[t] = <<>>
    BY <1>14 DEF Crash, Ends
  <2>2. \A t \in Session : DOMAIN scans'[t] = {}
    BY <2>1
  <2> QED
    BY Zenon, <2>1, <2>2 DEF ScanInv
<1>15. CASE UNCHANGED vars
  BY Zenon, <1>6, <1>15 DEF vars, storeVars, txVars
<1> QED
  BY Zenon, <1>4, <1>5, <1>7, <1>8, <1>10, <1>11, <1>12, <1>13, <1>14, <1>15 DEF Next, Committing

ScanIsolationInv == ScannedMembershipHolds /\ StrictContentsHold

(* A validated session's scans are current: the members, and at the strict   *)
(* level the contents, of a scanned collection are those it saw.             *)
LEMMA ValidatedScans ==
    ASSUME TypeOK, AuditInv, ScanInv, NEW s \in Session, CommitBegin(s), Serializable(s),
           NEW i \in DOMAIN scans[s]
    PROVE  /\ scans[s][i].members = MembersIn(durable.store, scans[s][i].coll)
           /\ iso[s] = "strict" =>
                \A k \in scans[s][i].members :
                   Touched(k, scans[s][i].at) => Recreated(k, scans[s][i].at)
<1>0. PICK sc : sc = scans[s][i]
  BY Zenon
<1>1. /\ ~inTx /\ Validates(s) /\ durable.store = store /\ durable.log = log /\ ~Wedged
  BY DEF CommitBegin, BeginTx, AuditInv, ViewIsDurable, Wedged
<1>2. ScanSignature(s, sc.coll) = sc.sig
  BY Zenon, <1>0, <1>1 DEF Validates, ReadSetOK
<1>3. /\ Signed(iso[s], sc) /\ ScanHolds(store, log, churn, iso[s], sc)
  BY Zenon, <1>0, <1>1 DEF ScanInv
<1>4. Members(sc.coll) = MembersIn(store, sc.coll)
  BY Zenon DEF Members, MembersIn, Present
<1>5. CASE iso[s] = "strict"
  <2> DEFINE pair(k) == <<k, Version(k)>>
  <2>1. sc.sig = {pair(k) : k \in Members(sc.coll)} /\ sc.members = {p[1] : p \in sc.sig}
    BY Zenon, <1>2, <1>3, <1>5 DEF ScanSignature, ContentVersion, Signed
  <2>2. \A k : pair(k)[1] = k /\ pair(k)[2] = Version(k)
    OBVIOUS
  <2> HIDE DEF pair
  <2>3. sc.members = Members(sc.coll)
    <3>1. ASSUME NEW k \in Members(sc.coll) PROVE k \in sc.members
      <4>1. pair(k) \in sc.sig
        BY Zenon, <2>1, <3>1
      <4>2. pair(k)[1] \in {p[1] : p \in sc.sig}
        BY Zenon, <4>1
      <4> QED
        BY Zenon, <2>1, <2>2, <4>2
    <3>2. ASSUME NEW k \in sc.members PROVE k \in Members(sc.coll)
      <4>1. PICK p \in sc.sig : k = p[1]
        BY Zenon, <2>1, <3>2
      <4>2. PICK j \in Members(sc.coll) : p = pair(j)
        BY Zenon, <2>1, <4>1
      <4> QED
        BY Zenon, <2>2, <4>1, <4>2
    <3> QED
      BY Zenon, <3>1, <3>2
  <2>4. ASSUME NEW k \in sc.members, TouchedIn(log, k, sc.at) PROVE RecreatedIn(log, k, sc.at)
    <3>1. pair(k) \in sc.sig
      BY Zenon, <2>1, <2>3, <2>4
    <3>2. ReadHolds(store, log, [key |-> pair(k)[1], version |-> pair(k)[2], at |-> sc.at])
      BY Zenon, <1>3, <1>5, <3>1 DEF ScanHolds
    <3>3. ReadHolds(store, log, [key |-> k, version |-> Version(k), at |-> sc.at])
      BY Zenon, <2>2, <3>2
    <3>4. store[k].version \in Nat
      <4>1. k \in Key
        BY Zenon, <2>3, <2>4 DEF Members
      <4> QED
        BY <4>1 DEF TypeOK, StoreTypeOK, Row
    <3>5. ~(store[k].version > store[k].version)
      BY <3>4
    <3> QED
      BY Zenon, <2>4, <3>3, <3>5 DEF ReadHolds, Version
  <2> QED
    BY Zenon, <1>0, <1>1, <1>4, <2>3, <2>4 DEF Touched, Recreated
<1>6. CASE iso[s] # "strict"
  BY Zenon, <1>0, <1>1, <1>2, <1>3, <1>4, <1>6 DEF ScanSignature, StructuralVersion, Signed, ScanHolds
<1> QED
  BY Zenon, <1>5, <1>6

(* Nothing commits, and no session scans, while a validated one holds the    *)
(* mutex.                                                                    *)
LEMMA ScanIsolationStep ==
    ASSUME TypeOK, OpsCarryData, LockInv, AuditInv, ScanInv, ScanIsolationInv, [Next]_vars
    PROVE  ScanIsolationInv'
<1> USE DEF ScanIsolationInv
<1>0. /\ ScannedMembershipHolds <=>
            \A s \in Session : phase[s] = "apply" /\ Serializable(s) =>
                \A i \in DOMAIN scans[s] :
                    scans[s][i].members = MembersIn(durable.store, scans[s][i].coll)
      /\ ScannedMembershipHolds' <=>
            \A s \in Session : phase'[s] = "apply" /\ Serializable(s)' =>
                \A i \in DOMAIN scans'[s] :
                    scans'[s][i].members = MembersIn(durable'.store, scans'[s][i].coll)
  BY Zenon DEF ScannedMembershipHolds, MembersIn
<1> USE DEF StrictContentsHold
<1>1. ASSUME \A s \in Session : phase'[s] # "apply"
      PROVE  ScanIsolationInv'
  BY Zenon, <1>0, <1>1
<1>2. ASSUME durable' = durable,
             \A s \in Session : phase'[s] = "apply" =>
                 phase[s] = "apply" /\ iso'[s] = iso[s] /\ scans'[s] = scans[s]
      PROVE  ScanIsolationInv'
  <2>1. \A k, n : Touched(k, n)' = Touched(k, n) /\ Recreated(k, n)' = Recreated(k, n)
    BY Zenon, <1>2 DEF Touched, Recreated
  <2>2. \A s \in Session : iso'[s] = iso[s] => Serializable(s)' = Serializable(s)
    BY Zenon DEF Serializable
  <2>3. ScannedMembershipHolds'
    <3>1. ASSUME NEW s \in Session, phase'[s] = "apply", Serializable(s)', NEW i \in DOMAIN scans'[s]
          PROVE  scans'[s][i].members = MembersIn(durable'.store, scans'[s][i].coll)
      <4>1. phase[s] = "apply" /\ Serializable(s) /\ scans'[s] = scans[s]
        BY Zenon, <1>2, <2>2, <3>1
      <4> QED
        BY ZenonT(60), <1>0, <1>2, <3>1, <4>1
    <3> QED
      BY Zenon, <1>0, <3>1
  <2>4. StrictContentsHold'
    BY Zenon, <1>2, <2>1
  <2> QED
    BY Zenon, <2>3, <2>4
<1>3. ASSUME NEW s \in Session, NEW level \in Level, Open(s, level)
      PROVE  ScanIsolationInv'
  <2>1. durable' = durable /\ scans' = scans
    BY Zenon, <1>3 DEF Open, storeVars
  <2>2. \A t \in Session : phase'[t] = "apply" => phase[t] = "apply" /\ iso'[t] = iso[t]
    BY Zenon, <1>3 DEF Open, TypeOK, TxTypeOK
  <2> QED
    BY Zenon, <1>2, <2>1, <2>2
<1>4. ASSUME NEW s \in Session, Drop(s) \/ CommitRefused(s)
      PROVE  ScanIsolationInv'
  <2>1. Ends({s}) /\ durable' = durable
    BY Zenon, <1>4 DEF Drop, CommitRefused, storeVars
  <2>2. \A t \in Session : phase'[t] = "apply" =>
                 phase[t] = "apply" /\ iso'[t] = iso[t] /\ scans'[t] = scans[t]
    BY Zenon, <2>1 DEF Ends
  <2> QED
    BY Zenon, <1>2, <2>1, <2>2
<1>5. ASSUME NEW s \in Session, Reading(s) \/ Staging(s)
      PROVE  ScanIsolationInv'
  <2>1. LockFree /\ UNCHANGED phase
    BY ZenonT(30), <1>5 DEF Reading, RecordRead, RecordScanRead, Staging, StageCreate, StageUpdate,
                StagePatch, StageDelete, StageCreateLink, StageDeleteLink, Stage
  <2> QED
    BY Zenon, <1>1, <2>1 DEF LockFree
<1>6. ASSUME NEW s \in Session, CommitBegin(s)
      PROVE  ScanIsolationInv'
  <2>1. /\ phase' = [phase EXCEPT ![s] = "apply"] /\ LockFree
        /\ UNCHANGED <<durable, iso, scans>>
    BY Zenon, <1>6 DEF CommitBegin
  <2>2. \A t \in Session : phase'[t] = "apply" => t = s
    BY Zenon, <2>1 DEF LockFree, TypeOK, TxTypeOK
  <2>3. \A k, n : Touched(k, n)' = Touched(k, n) /\ Recreated(k, n)' = Recreated(k, n)
    BY Zenon, <2>1 DEF Touched, Recreated
  <2>4. Serializable(s)' = Serializable(s) /\ (iso[s] = "strict" => Serializable(s))
    BY Zenon, <2>1 DEF Serializable
  <2>5. ScannedMembershipHolds'
    BY Zenon, <1>0, <1>6, <2>1, <2>2, <2>4, ValidatedScans
  <2>6. StrictContentsHold'
    BY Zenon, <1>6, <2>1, <2>2, <2>3, <2>4, ValidatedScans
  <2> QED
    BY Zenon, <2>5, <2>6
<1>7. ASSUME NEW s \in Session, ApplyCreate(s) \/ ApplyUpdate(s) \/ ApplyDelete(s)
      PROVE  ScanIsolationInv'
  BY Zenon, <1>2, <1>7, ApplyIsWrite DEF Applied
<1>8. ASSUME NEW s \in Session, CommitEnd(s) \/ CommitAborts(s)
      PROVE  ScanIsolationInv'
  <2>1. phase[s] = "apply" /\ Ends({s})
    BY Zenon, <1>8 DEF CommitEnd, CommitAborts
  <2>2. \A t \in Session : phase'[t] # "apply"
    BY Zenon, <2>1 DEF Ends, LockInv
  <2> QED
    BY Zenon, <1>1, <2>2
<1>9. CASE DirectWrite
  <2>1. LockFree /\ UNCHANGED txVars
    BY Zenon, <1>9, DirectIsWrite
  <2> QED
    BY Zenon, <1>1, <2>1 DEF LockFree, txVars
<1>10. CASE Crash
  <2>1. \A t \in Session : phase'[t] # "apply"
    BY Zenon, <1>10 DEF Crash, Ends
  <2> QED
    BY Zenon, <1>1, <2>1
<1>11. CASE UNCHANGED vars
  BY Zenon, <1>2, <1>11 DEF vars, storeVars, txVars
<1> QED
  BY Zenon, <1>3, <1>4, <1>5, <1>6, <1>7, <1>8, <1>9, <1>10, <1>11 DEF Next, Committing

(* Every behaviour keeps scans accounted for and validated ones current.     *)
LEMMA ScanInvariant == Spec => [](AuditIInv /\ ScanInv /\ ScanIsolationInv)
<1>1. Init => ScanInv /\ ScanIsolationInv
  <2> SUFFICES ASSUME Init PROVE ScanInv /\ ScanIsolationInv
    OBVIOUS
  <2>1. \A s \in Session : phase[s] = "idle" /\ scans[s] = <<>> /\ DOMAIN scans[s] = {}
    BY DEF Init, TxInit
  <2>2. scans \in [Session -> Seq(ScanRef)]
    BY DEF Init, TxInit
  <2>3. ScanInv
    BY Zenon, <2>1, <2>2 DEF ScanInv
  <2>4. "idle" # "apply"
    OBVIOUS
  <2>5. ScanIsolationInv
    BY Zenon, <2>1, <2>4 DEF ScanIsolationInv, ScannedMembershipHolds, StrictContentsHold
  <2> QED
    BY <2>3, <2>5
<1>2. AuditIInv /\ ScanInv /\ ScanIsolationInv /\ [Next]_vars => (AuditIInv /\ ScanInv /\ ScanIsolationInv)'
  <2> SUFFICES ASSUME AuditIInv, ScanInv, ScanIsolationInv, [Next]_vars
               PROVE  (AuditIInv /\ ScanInv /\ ScanIsolationInv)'
    OBVIOUS
  <2>1. TypeOK /\ OpsCarryData /\ LockInv /\ AuditInv /\ AtomicInv
    BY DEF AuditIInv
  <2>2. AuditIInv'
    BY <2>1, TypeStep, LockStep, AuditStep, AtomicStep DEF AuditIInv
  <2>3. ScanInv'
    BY Zenon, <2>1, ScanStep
  <2>4. ScanIsolationInv'
    BY Zenon, <2>1, ScanIsolationStep
  <2> QED
    BY <2>2, <2>3, <2>4
<1> QED
  BY <1>1, <1>2, AuditInit, PTL DEF Spec

(* No phantoms: a serializable transaction that validation lets through sees *)
(* every collection it scanned with the members it saw, whichever guard the  *)
(* adapter has (structural_version, content_version) and though aborted      *)
(* commits move the counter too.                                             *)
THEOREM NoPhantoms == Spec => []ScannedMembershipHolds
<1>1. ScanIsolationInv => ScannedMembershipHolds
  BY DEF ScanIsolationInv
<1> QED
  BY <1>1, ScanInvariant, PTL

(* Under the strict level it sees their contents unchanged, too, but for     *)
(* members that were created or deleted anew.                                *)
THEOREM StrictScans == Spec => []StrictContentsHold
<1>1. ScanIsolationInv => StrictContentsHold
  BY DEF ScanIsolationInv
<1> QED
  BY <1>1, ScanInvariant, PTL

----------------------------------------------------------------------------
(* Links and their targets                                                   *)

(* Links are created and deleted, never updated, and the targets of links    *)
(* that a validated session creates are there.                               *)
LinkOps ==
    \A s \in Session : \A i \in DOMAIN ops[s] : ops[s][i].key \in Link => ops[s][i].kind # "update"
LinkTargets ==
    \A s \in Session : phase[s] = "apply" =>
        \A i \in DOMAIN ops[s] :
            ops[s][i].key \in Link /\ ops[s][i].kind = "create" =>
                durable.store[Target[ops[s][i].key]].data # Nil

(* No staging call stages an update of a link.                               *)
LEMMA StagedLinks ==
    ASSUME NEW s \in Session, Staging(s)
    PROVE  \E op : Stage(s, op) /\ (op.key \in Link => op.kind # "update")
<1>1. \A k \in Id : k \notin Link
  BY Zenon, StoreAssumption
<1>2. \A kind, k, d : BlindOp(kind, k, d).key = k /\ BlindOp(kind, k, d).kind = kind
  BY Zenon DEF BlindOp
<1>3. \A kind, k, v, d : SightedOp(kind, k, v, d).key = k /\ SightedOp(kind, k, v, d).kind = kind
  BY Zenon DEF SightedOp
<1>4. "create" # "update" /\ "delete" # "update"
  OBVIOUS
<1>5. CASE \E k \in Id, d \in Data : StageCreate(s, k, d)
  BY Zenon, <1>2, <1>4, <1>5 DEF StageCreate
<1>6. CASE \E k \in Id, v \in Expected, d \in Data : StageUpdate(s, k, v, d)
  <2>1. PICK k \in Id, v \in Expected, d \in Data : Stage(s, SightedOp("update", k, v, d))
    BY Zenon, <1>6 DEF StageUpdate
  <2>2. PICK op : op = SightedOp("update", k, v, d)
    BY Zenon
  <2>3. op.key = k
    BY <2>2 DEF SightedOp
  <2>4. k \notin Link /\ Stage(s, op)
    BY Zenon, <1>1, <2>1, <2>2
  <2> QED
    BY Zenon, <2>3, <2>4
<1>7. CASE \E k \in Id, v \in Expected, p \in Patch : StagePatch(s, k, v, p)
  <2>1. PICK k \in Id, v \in Expected, p \in Patch :
          Stage(s, SightedOp("update", k, v, Merge(store[k].data, p)))
    BY Zenon, <1>7 DEF StagePatch
  <2>2. PICK op : op = SightedOp("update", k, v, Merge(store[k].data, p))
    BY Zenon
  <2>3. op.key = k
    BY <2>2 DEF SightedOp
  <2>4. k \notin Link /\ Stage(s, op)
    BY Zenon, <1>1, <2>1, <2>2
  <2> QED
    BY Zenon, <2>3, <2>4
<1>8. CASE \E k \in Id, v \in Expected : StageDelete(s, k, v)
  BY Zenon, <1>3, <1>4, <1>8 DEF StageDelete
<1>9. CASE \E l \in Link : StageCreateLink(s, l) \/ StageDeleteLink(s, l)
  BY ZenonT(60), <1>2, <1>4, <1>9 DEF StageCreateLink, StageDeleteLink
<1> QED
  BY Zenon, <1>5, <1>6, <1>7, <1>8, <1>9 DEF Staging

(* Validation looks for the target of a link to create.                      *)
LEMMA LinkValidated ==
    ASSUME NEW op, op.key \in Link, op.kind = "create", VersionOK(op)
    PROVE  Present(Target[op.key])
BY DEF VersionOK

(* Every step keeps what sessions stage about links.                         *)
LEMMA LinkStep ==
    ASSUME TypeOK, OpsCarryData, LockInv, AuditInv, LinkOps, LinkTargets, [Next]_vars
    PROVE  LinkOps' /\ LinkTargets'
<1>1. ASSUME \A s \in Session : ops'[s] = <<>> \/ ops'[s] = ops[s]
      PROVE  LinkOps'
  <2>1. ASSUME NEW s \in Session, NEW i \in DOMAIN ops'[s], ops'[s][i].key \in Link
        PROVE  ops'[s][i].kind # "update"
    <3>1. DOMAIN <<>> = {}
      OBVIOUS
    <3>2. ops'[s] = ops[s]
      BY Zenon, <1>1, <2>1, <3>1
    <3> QED
      BY Zenon, <2>1, <3>2 DEF LinkOps
  <2> QED
    BY Zenon, <2>1 DEF LinkOps
<1>2. ASSUME \A s \in Session : phase'[s] # "apply"
      PROVE  LinkTargets'
  BY Zenon, <1>2 DEF LinkTargets
<1>3. ASSUME durable' = durable,
             \A s \in Session : phase'[s] = "apply" => phase[s] = "apply" /\ ops'[s] = ops[s]
      PROVE  LinkTargets'
  <2>1. ASSUME NEW s \in Session, phase'[s] = "apply", NEW i \in DOMAIN ops'[s],
               ops'[s][i].key \in Link, ops'[s][i].kind = "create"
        PROVE  durable'.store[Target[ops'[s][i].key]].data # Nil
    <3>1. phase[s] = "apply" /\ ops'[s] = ops[s]
      BY Zenon, <1>3, <2>1
    <3> QED
      BY Zenon, <1>3, <2>1, <3>1 DEF LinkTargets
  <2> QED
    BY Zenon, <2>1 DEF LinkTargets
<1>4. ASSUME NEW S, Ends(S)
      PROVE  /\ \A s \in Session : ops'[s] = <<>> \/ ops'[s] = ops[s]
             /\ \A s \in Session : phase'[s] = "apply" => phase[s] = "apply" /\ ops'[s] = ops[s]
  <2>1. ASSUME NEW s \in Session
        PROVE  IF s \in S THEN ops'[s] = <<>> /\ phase'[s] = "idle"
                          ELSE ops'[s] = ops[s] /\ phase'[s] = phase[s]
    BY <1>4 DEF Ends
  <2>2. "idle" # "apply"
    OBVIOUS
  <2> QED
    BY ZenonT(60), <2>1, <2>2
<1>5. ASSUME NEW s \in Session, NEW level \in Level, Open(s, level)
      PROVE  LinkOps' /\ LinkTargets'
  <2>1. durable' = durable /\ ops' = ops
    BY Zenon, <1>5 DEF Open, storeVars
  <2>2. \A t \in Session : phase'[t] = "apply" => phase[t] = "apply"
    BY <1>5 DEF Open, TypeOK, TxTypeOK
  <2> QED
    BY Zenon, <1>1, <1>3, <2>1, <2>2
<1>6. ASSUME NEW s \in Session, Drop(s) \/ CommitRefused(s)
      PROVE  LinkOps' /\ LinkTargets'
  <2>1. Ends({s}) /\ durable' = durable
    BY Zenon, <1>6 DEF Drop, CommitRefused, storeVars
  <2> QED
    BY Zenon, <1>1, <1>3, <1>4, <2>1
<1>7. ASSUME NEW s \in Session, Reading(s)
      PROVE  LinkOps' /\ LinkTargets'
  <2>1. durable' = durable /\ ops' = ops /\ phase' = phase
    BY Zenon, <1>7 DEF Reading, RecordRead, RecordScanRead, storeVars
  <2> QED
    BY Zenon, <1>1, <1>3, <2>1
<1>8. ASSUME NEW s \in Session, Staging(s)
      PROVE  LinkOps' /\ LinkTargets'
  <2>1. PICK op : Stage(s, op) /\ (op.key \in Link => op.kind # "update")
    BY Zenon, <1>8, StagedLinks
  <2>2. LockFree /\ phase' = phase /\ ops' = [ops EXCEPT ![s] = Append(@, op)]
    BY Zenon, <2>1 DEF Stage
  <2>4. ASSUME NEW t \in Session, NEW i \in DOMAIN ops'[t]
        PROVE  ops'[t][i].key \in Link => ops'[t][i].kind # "update"
    <3>1. ops'[t][i] = op \/ (i \in DOMAIN ops[t] /\ ops'[t][i] = ops[t][i])
      <4>1. OneMore(Op, ops', ops, s, op)
        BY Zenon, <2>2 DEF OneMore, TypeOK, TxTypeOK
      <4>2. \A u \in Session : \A j \in DOMAIN ops'[u] : OldOrNew(ops', ops, s, op, u, j)
        BY Zenon, <4>1, AppendAt
      <4> QED
        BY Zenon, <2>4, <4>2 DEF OldOrNew
    <3>2. CASE ops'[t][i] = op
      BY Zenon, <2>1, <3>2
    <3>3. CASE i \in DOMAIN ops[t] /\ ops'[t][i] = ops[t][i]
      BY Zenon, <3>3 DEF LinkOps
    <3> QED
      BY Zenon, <3>1, <3>2, <3>3
  <2>5. LinkOps'
    BY Zenon, <2>4 DEF LinkOps
  <2> QED
    BY Zenon, <1>2, <2>2, <2>5 DEF LockFree
<1>9. ASSUME NEW s \in Session, CommitBegin(s)
      PROVE  LinkOps' /\ LinkTargets'
  <2>1. /\ phase' = [phase EXCEPT ![s] = "apply"] /\ LockFree /\ Validates(s) /\ ~inTx
        /\ durable' = durable /\ ops' = ops
    BY Zenon, <1>9 DEF CommitBegin, BeginTx
  <2>2. durable.store = store
    BY <2>1 DEF AuditInv, ViewIsDurable
  <2>3. \A t \in Session : phase'[t] = "apply" => t = s
    BY <2>1 DEF LockFree, TypeOK, TxTypeOK
  <2>4. ASSUME NEW i \in DOMAIN ops[s], ops[s][i].key \in Link, ops[s][i].kind = "create"
        PROVE  durable.store[Target[ops[s][i].key]].data # Nil
    <3>1. VersionOK(ops[s][i])
      BY Zenon, <2>1 DEF Validates
    <3>2. Present(Target[ops[s][i].key])
      BY Zenon, <2>4, <3>1, LinkValidated
    <3> QED
      BY Zenon, <2>2, <3>2 DEF Present
  <2> QED
    BY Zenon, <1>1, <2>1, <2>3, <2>4 DEF LinkTargets
<1>10. ASSUME NEW s \in Session, ApplyCreate(s) \/ ApplyUpdate(s) \/ ApplyDelete(s)
       PROVE  LinkOps' /\ LinkTargets'
  <2>1. durable' = durable /\ ops' = ops /\ phase' = phase
    BY Zenon, <1>10, ApplyIsWrite DEF Applied
  <2> QED
    BY Zenon, <1>1, <1>3, <2>1
<1>11. ASSUME NEW s \in Session, CommitEnd(s) \/ CommitAborts(s)
       PROVE  LinkOps' /\ LinkTargets'
  <2>1. phase[s] = "apply" /\ Ends({s})
    BY Zenon, <1>11 DEF CommitEnd, CommitAborts
  <2>2. \A t \in Session : phase'[t] # "apply"
    BY Zenon, <2>1 DEF Ends, LockInv
  <2> QED
    BY Zenon, <1>1, <1>2, <1>4, <2>1, <2>2
<1>12. CASE DirectWrite
  <2>1. LockFree /\ ops' = ops /\ phase' = phase
    BY Zenon, <1>12, DirectIsWrite DEF txVars
  <2> QED
    BY Zenon, <1>1, <1>2, <2>1 DEF LockFree
<1>13. CASE Crash
  <2>1. Ends(Session) /\ durable' = durable
    BY Zenon, <1>13 DEF Crash, Restart, AbortTx
  <2> QED
    BY Zenon, <1>1, <1>3, <1>4, <2>1
<1>14. CASE UNCHANGED vars
  <2>1. durable' = durable /\ ops' = ops /\ phase' = phase
    BY <1>14 DEF vars, storeVars, txVars
  <2> QED
    BY Zenon, <1>1, <1>3, <2>1
<1> QED
  BY Zenon, <1>5, <1>6, <1>7, <1>8, <1>9, <1>10, <1>11, <1>12, <1>13, <1>14 DEF Next, Committing

(* Inside a commit call a row is the committed one, or what an operation of  *)
(* the session left.                                                         *)
AppliedRows ==
    \A s \in Session : phase[s] = "apply" =>
        \A k \in Key :
            \/ store[k] = durable.store[k]
            \/ \E i \in DOMAIN ops[s] : ops[s][i].key = k /\ store[k].data = ops[s][i].data

(* Every step keeps it so.                                                   *)
LEMMA AppliedStep ==
    ASSUME TypeOK, OpsCarryData, LockInv, AuditInv, AppliedRows, [Next]_vars
    PROVE  AppliedRows'
<1>1. ASSUME \A s \in Session : phase'[s] # "apply"
      PROVE  AppliedRows'
  BY Zenon, <1>1 DEF AppliedRows
<1>2. ASSUME store' = store, durable' = durable,
             \A s \in Session : phase'[s] = "apply" => phase[s] = "apply" /\ ops'[s] = ops[s]
      PROVE  AppliedRows'
  <2>1. ASSUME NEW s \in Session, phase'[s] = "apply", NEW k \in Key
        PROVE  \/ store'[k] = durable'.store[k]
               \/ \E i \in DOMAIN ops'[s] : ops'[s][i].key = k /\ store'[k].data = ops'[s][i].data
    <3>1. phase[s] = "apply" /\ ops'[s] = ops[s]
      BY Zenon, <1>2, <2>1
    <3>2. \/ store[k] = durable.store[k]
          \/ \E i \in DOMAIN ops[s] : ops[s][i].key = k /\ store[k].data = ops[s][i].data
      BY Zenon, <2>1, <3>1 DEF AppliedRows
    <3> QED
      BY Zenon, <1>2, <3>1, <3>2
  <2> QED
    BY Zenon, <2>1 DEF AppliedRows
<1>3. ASSUME NEW s \in Session, NEW level \in Level, Open(s, level)
      PROVE  AppliedRows'
  <2>1. store' = store /\ durable' = durable /\ ops' = ops
    BY Zenon, <1>3 DEF Open, storeVars
  <2>2. \A t \in Session : phase'[t] = "apply" => phase[t] = "apply"
    BY <1>3 DEF Open, TypeOK, TxTypeOK
  <2> QED
    BY Zenon, <1>2, <2>1, <2>2
<1>4. ASSUME NEW s \in Session, Drop(s) \/ CommitRefused(s)
      PROVE  AppliedRows'
  <2>1. Ends({s}) /\ store' = store /\ durable' = durable
    BY Zenon, <1>4 DEF Drop, CommitRefused, storeVars
  <2>2. \A t \in Session : phase'[t] = "apply" => phase[t] = "apply" /\ ops'[t] = ops[t]
    BY <2>1 DEF Ends
  <2> QED
    BY Zenon, <1>2, <2>1, <2>2
<1>5. ASSUME NEW s \in Session, Reading(s) \/ Staging(s)
      PROVE  AppliedRows'
  <2>1. LockFree /\ UNCHANGED phase
    BY ZenonT(30), <1>5 DEF Reading, RecordRead, RecordScanRead, Staging, StageCreate, StageUpdate,
                StagePatch, StageDelete, StageCreateLink, StageDeleteLink, Stage
  <2> QED
    BY Zenon, <1>1, <2>1 DEF LockFree
<1>6. ASSUME NEW s \in Session, CommitBegin(s)
      PROVE  AppliedRows'
  <2>1. ~inTx /\ store' = store /\ durable' = durable
    BY Zenon, <1>6 DEF CommitBegin, BeginTx
  <2>2. durable.store = store
    BY <2>1 DEF AuditInv, ViewIsDurable
  <2> QED
    BY Zenon, <2>1, <2>2 DEF AppliedRows
<1>7. ASSUME NEW s \in Session, ApplyCreate(s) \/ ApplyUpdate(s) \/ ApplyDelete(s)
      PROVE  AppliedRows'
  <2>1. phase[s] = "apply" /\ next[s] \in DOMAIN ops[s]
    BY Zenon, <1>7, ApplyIsWrite
  <2>2. UNCHANGED <<durable, phase, ops>>
    BY Zenon, <1>7, ApplyIsWrite DEF Applied
  <2>3. PICK e \in Entry : WriteStep(e) /\ Records(e, ops[s][next[s]])
    BY Zenon, <1>7, ApplyIsWrite
  <2>4. PICK n \in DOMAIN ops[s] : n = next[s]
    BY Zenon, <2>1
  <2>5. e.key = ops[s][n].key /\ e.after = ops[s][n].data
    BY Zenon, <2>3, <2>4 DEF Records
  <2>6. store' = [store EXCEPT ![e.key] = Outcome(e)] /\ DOMAIN store = Key
    BY ZenonT(60), <2>3 DEF WriteStep, TypeOK, StoreTypeOK
  <2>7. Outcome(e).data = e.after
    BY DEF Outcome, Absent
  <2>8. \A t \in Session : phase[t] = "apply" => t = s
    BY ZenonT(60), <2>1 DEF LockInv
  <2>9. ASSUME NEW k \in Key
        PROVE  \/ store'[k] = durable.store[k]
               \/ \E i \in DOMAIN ops[s] : ops[s][i].key = k /\ store'[k].data = ops[s][i].data
    <3>1. CASE k = e.key
      <4>1. store'[k].data = ops[s][n].data
        BY <2>5, <2>6, <2>7, <3>1
      <4> QED
        BY ZenonT(60), <2>5, <3>1, <4>1
    <3>2. CASE k # e.key
      <4>1. store'[k] = store[k]
        BY <2>6, <3>2
      <4>2. \/ store[k] = durable.store[k]
            \/ \E i \in DOMAIN ops[s] : ops[s][i].key = k /\ store[k].data = ops[s][i].data
        BY Zenon, <2>1, <2>9 DEF AppliedRows
      <4> QED
        BY Zenon, <4>1, <4>2
    <3> QED
      BY <3>1, <3>2
  <2>10. ASSUME NEW t \in Session, phase'[t] = "apply", NEW k \in Key
         PROVE  \/ store'[k] = durable'.store[k]
                \/ \E i \in DOMAIN ops'[t] : ops'[t][i].key = k /\ store'[k].data = ops'[t][i].data
    <3>1. t = s
      BY Zenon, <2>2, <2>8, <2>10
    <3> QED
      BY ZenonT(60), <2>2, <2>9, <3>1
  <2> QED
    BY Zenon, <2>10 DEF AppliedRows
<1>8. ASSUME NEW s \in Session, CommitEnd(s) \/ CommitAborts(s)
      PROVE  AppliedRows'
  <2>1. phase[s] = "apply" /\ Ends({s})
    BY Zenon, <1>8 DEF CommitEnd, CommitAborts
  <2>2. \A t \in Session : phase'[t] # "apply"
    BY Zenon, <2>1 DEF Ends, LockInv
  <2> QED
    BY Zenon, <1>1, <2>2
<1>9. CASE DirectWrite
  <2>1. LockFree /\ phase' = phase
    BY Zenon, <1>9, DirectIsWrite DEF txVars
  <2> QED
    BY Zenon, <1>1, <2>1 DEF LockFree
<1>10. CASE Crash
  <2>1. \A t \in Session : phase'[t] # "apply"
    BY Zenon, <1>10 DEF Crash, Ends
  <2> QED
    BY Zenon, <1>1, <2>1
<1>11. CASE UNCHANGED vars
  <2>1. store' = store /\ durable' = durable /\ ops' = ops /\ phase' = phase
    BY Zenon, <1>11 DEF vars, storeVars, txVars
  <2> QED
    BY Zenon, <1>2, <2>1
<1> QED
  BY Zenon, <1>3, <1>4, <1>5, <1>6, <1>7, <1>8, <1>9, <1>10, <1>11 DEF Next, Committing

(* A link that loses its target in a commit loses it to a deletion that the  *)
(* transaction staged.                                                       *)
LEMMA CommitTargets ==
    ASSUME TypeOK, OpsCarryData, LinkOps, LinkTargets, AppliedRows, NEW s \in Session, CommitEnd(s),
           NEW l \in Link, ~Dangling(durable.store, l), Dangling(durable'.store, l)
    PROVE  \E i \in DOMAIN ops[s] : ops[s][i].kind = "delete" /\ ops[s][i].key = Target[l]
<1>1. phase[s] = "apply" /\ durable'.store = store
  BY Zenon DEF CommitEnd, CommitTx
<1>2. l \in Key /\ Target[l] \in Key
  BY StoreAssumption DEF Key
<1>3. store[l].data # Nil /\ store[Target[l]].data = Nil
  BY Zenon, <1>1 DEF Dangling
<1>4. CASE store[Target[l]] = durable.store[Target[l]]
  <2>1. durable.store[Target[l]].data = Nil /\ durable.store[l].data = Nil
    BY Zenon, <1>3, <1>4 DEF Dangling
  <2>2. PICK i \in DOMAIN ops[s] : ops[s][i].key = l /\ store[l].data = ops[s][i].data
    BY Zenon, <1>1, <1>2, <1>3, <2>1 DEF AppliedRows
  <2>3. ops[s][i].kind # "delete" /\ ops[s][i].kind # "update"
    BY Zenon, <1>3, <2>2 DEF OpsCarryData, LinkOps
  <2>4. ops[s][i].kind = "create"
    <3>1. ops[s][i] \in Op
      BY Zenon, SeqElement DEF TypeOK, TxTypeOK
    <3> QED
      BY Zenon, <2>3, <3>1 DEF Op, Kind
  <2> QED
    BY Zenon, <1>1, <2>1, <2>2, <2>4 DEF LinkTargets
<1>5. CASE store[Target[l]] # durable.store[Target[l]]
  <2>1. PICK i \in DOMAIN ops[s] : ops[s][i].key = Target[l] /\ store[Target[l]].data = ops[s][i].data
    BY Zenon, <1>1, <1>2, <1>5 DEF AppliedRows
  <2> QED
    BY Zenon, <1>3, <2>1 DEF OpsCarryData
<1> QED
  BY Zenon, <1>4, <1>5

(* No direct write leaves a link without its target, unless it is forced.    *)
LEMMA DirectTargets ==
    ASSUME TypeOK, ForceFlag \subseteq {FALSE}, DirectWrite, NEW l \in Link, Dangling(store', l)
    PROVE  Dangling(store, l)
<1>1. /\ l \in Key /\ Target[l] \in Key /\ Target[l] \in Id /\ DOMAIN store = Key
      /\ \A k \in Id : k \in Key /\ k \notin Link
  BY StoreAssumption DEF Key, TypeOK, StoreTypeOK
<1>2. store'[l].data # Nil /\ store'[Target[l]].data = Nil
  BY Zenon DEF Dangling
<1>3. ASSUME NEW k \in Id, NEW r, r.data # Nil, store' = [store EXCEPT ![k] = r]
      PROVE  Dangling(store, l)
  <2>1. k # l
    BY Zenon, <1>1
  <2>2. k # Target[l]
    BY Zenon, <1>1, <1>2, <1>3
  <2>3. store'[l] = store[l] /\ store'[Target[l]] = store[Target[l]]
    BY <1>1, <1>3, <2>1, <2>2
  <2> QED
    BY Zenon, <1>2, <2>3 DEF Dangling
<1>4. \A v, d : d # Nil => [version |-> v, data |-> d].data # Nil
  OBVIOUS
<1>5. ASSUME NEW k \in Id, NEW d \in Data, CreateEntity(k, d) PROVE Dangling(store, l)
  <2>1. d # Nil /\ store' = [store EXCEPT ![k] = [version |-> 1, data |-> d]]
    BY Zenon, <1>5, StoreAssumption DEF CreateEntity, Put, Doc
  <2> QED
    BY Zenon, <1>3, <1>4, <2>1
<1>6. ASSUME NEW k \in Id, NEW v, NEW d \in Doc, UpdateEntity(k, v, d) PROVE Dangling(store, l)
  <2>1. d # Nil /\ store' = [store EXCEPT ![k] = [version |-> v + 1, data |-> d]]
    BY Zenon, <1>6, StoreAssumption DEF UpdateEntity, CompareAndSwap
  <2> QED
    BY Zenon, <1>3, <1>4, <2>1
<1>7. ASSUME NEW k \in Id, NEW v, NEW p \in Patch, PatchEntity(k, v, p) PROVE Dangling(store, l)
  <2>1. store[k].data \in Doc
    <3>1. store[k] \in Row /\ store[k].data # Nil
      BY Zenon, <1>1, <1>7 DEF PatchEntity, Present, TypeOK, StoreTypeOK
    <3> QED
      BY <3>1 DEF Row
  <2>2. Merge(store[k].data, p) \in Doc
    BY Zenon, <2>1, TransactionAssumption
  <2> QED
    BY Zenon, <1>6, <1>7, <2>2 DEF PatchEntity
<1>8. ASSUME NEW k \in Id, NEW f \in ForceFlag, DeleteEntity(k, f) PROVE Dangling(store, l)
  <2>1. InboundLinks(k) = {} /\ store' = [store EXCEPT ![k] = Absent]
    BY Zenon, <1>8 DEF DeleteEntity, Delete
  <2>2. store'[l] = store[l]
    <3>1. k # l
      BY Zenon, <1>1
    <3> QED
      BY <1>1, <2>1, <3>1
  <2>3. k # Target[l]
    BY Zenon, <1>2, <2>1, <2>2 DEF InboundLinks, Present
  <2>4. store'[Target[l]] = store[Target[l]]
    BY Zenon, <1>1, <2>1, <2>3
  <2> QED
    BY Zenon, <1>2, <2>2, <2>4 DEF Dangling
<1>9. ASSUME NEW m \in Link, NEW r, store' = [store EXCEPT ![m] = r]
      PROVE  store'[Target[l]] = store[Target[l]] /\ (m # l => store'[l] = store[l])
  <2>1. m # Target[l]
    BY Zenon, <1>1
  <2> QED
    BY <1>1, <1>9, <2>1
<1>10. ASSUME NEW m \in Link, CreateLink(m) PROVE Dangling(store, l)
  <2>1. Present(Target[m]) /\ store' = [store EXCEPT ![m] = [version |-> 1, data |-> LinkDoc]]
    BY Zenon, <1>10 DEF CreateLink, Put
  <2>2. store[Target[l]].data = Nil /\ (m # l => store'[l] = store[l])
    BY Zenon, <1>2, <1>9, <2>1
  <2>3. m # l
    BY Zenon, <2>1, <2>2 DEF Present
  <2> QED
    BY Zenon, <1>2, <2>2, <2>3 DEF Dangling
<1>11. ASSUME NEW m \in Link, DeleteLink(m) PROVE Dangling(store, l)
  <2>1. store' = [store EXCEPT ![m] = Absent]
    BY Zenon, <1>11 DEF DeleteLink, Delete
  <2>2. store[Target[l]].data = Nil /\ (m # l => store'[l] = store[l])
    BY Zenon, <1>2, <1>9, <2>1
  <2>3. m # l
    BY <1>1, <1>2, <2>1 DEF Absent
  <2> QED
    BY Zenon, <1>2, <2>2, <2>3 DEF Dangling
<1>12. Data \subseteq Doc
  BY DEF Doc
<1> QED
  BY Zenon, <1>5, <1>6, <1>7, <1>8, <1>10, <1>11, <1>12 DEF DirectWrite

\* The step of the property.
LosesTarget(l) == ~Dangling(durable.store, l) /\ Dangling(durable'.store, l)
DeletesTarget(l) ==
    \E s \in Session :
        /\ phase[s] = "apply" /\ phase'[s] = "idle"
        /\ \E i \in DOMAIN ops[s] : ops[s][i].kind = "delete" /\ ops[s][i].key = Target[l]

(* What sessions stage about links is kept together with the audit           *)
(* invariant.                                                                *)
LEMMA LinkInvariant == Spec => [](AuditIInv /\ LinkOps /\ LinkTargets /\ AppliedRows)
<1>1. Init => LinkOps /\ LinkTargets /\ AppliedRows
  <2> SUFFICES ASSUME Init PROVE LinkOps /\ LinkTargets /\ AppliedRows
    OBVIOUS
  <2>1. \A s \in Session : phase[s] # "apply" /\ DOMAIN ops[s] = {}
    BY DEF Init, TxInit
  <2> QED
    BY Zenon, <2>1 DEF LinkOps, LinkTargets, AppliedRows
<1>2. AuditIInv /\ LinkOps /\ LinkTargets /\ AppliedRows /\ [Next]_vars
      => (AuditIInv /\ LinkOps /\ LinkTargets /\ AppliedRows)'
  <2> SUFFICES ASSUME AuditIInv, LinkOps, LinkTargets, AppliedRows, [Next]_vars
               PROVE  (AuditIInv /\ LinkOps /\ LinkTargets /\ AppliedRows)'
    OBVIOUS
  <2>1. TypeOK /\ OpsCarryData /\ LockInv /\ AuditInv /\ AtomicInv
    BY DEF AuditIInv
  <2>2. AuditIInv'
    BY Zenon, <2>1, TypeStep, LockStep, AuditStep, AtomicStep DEF AuditIInv
  <2>3. LinkOps' /\ LinkTargets'
    BY Zenon, <2>1, LinkStep
  <2>4. AppliedRows'
    BY Zenon, <2>1, AppliedStep
  <2> QED
    BY <2>2, <2>3, <2>4
<1> QED
  BY <1>1, <1>2, AuditInit, PTL DEF Spec

(* While no delete is forced, a link loses its target only to the commit of  *)
(* a transaction that deletes the target: delete_entity looks for inbound    *)
(* links, create_link and the validation of a staged link for the target,    *)
(* whatever is interleaved, aborted or restarted.                            *)
THEOREM LinksKeepTargets == ForceFlag \subseteq {FALSE} => (Spec => LinksLoseTargetsToTransactions)
<1> SUFFICES ASSUME ForceFlag \subseteq {FALSE} PROVE Spec => LinksLoseTargetsToTransactions
  BY Zenon
<1>1. ASSUME AuditIInv, LinkOps, LinkTargets, AppliedRows, Next, NEW l \in Link, LosesTarget(l)
      PROVE  DeletesTarget(l)
  <2>1. TypeOK /\ OpsCarryData /\ LockInv /\ AuditInv
    BY <1>1 DEF AuditIInv
  <2>2. durable' # durable
    BY Zenon, <1>1 DEF LosesTarget
  <2>3. ASSUME NEW s \in Session, CommitEnd(s) PROVE DeletesTarget(l)
    <3>1. phase[s] = "apply" /\ phase'[s] = "idle"
      BY <2>3 DEF CommitEnd, Ends
    <3>2. \E i \in DOMAIN ops[s] : ops[s][i].kind = "delete" /\ ops[s][i].key = Target[l]
      BY Zenon, <1>1, <2>1, <2>3, CommitTargets DEF LosesTarget
    <3> QED
      BY Zenon, <3>1, <3>2 DEF DeletesTarget
  <2>4. ~DirectWrite
    <3> SUFFICES ASSUME DirectWrite PROVE FALSE
      OBVIOUS
    <3>1. ~inTx /\ Conclude
      BY Zenon, <2>1, DirectIsWrite
    <3>2. durable.store = store /\ durable'.store = store'
      BY <2>1, <2>2, <3>1 DEF AuditInv, ViewIsDurable, Conclude, CommitTx
    <3>3. Dangling(store', l) /\ ~Dangling(store, l)
      BY Zenon, <1>1, <3>2 DEF LosesTarget
    <3> QED
      BY Zenon, <2>1, <3>3, DirectTargets
  <2>5. ASSUME NEW s \in Session
        PROVE  /\ ~Drop(s) /\ ~Reading(s) /\ ~Staging(s) /\ ~CommitBegin(s) /\ ~CommitRefused(s)
               /\ ~ApplyCreate(s) /\ ~ApplyUpdate(s) /\ ~ApplyDelete(s) /\ ~CommitAborts(s)
               /\ \A level \in Level : ~Open(s, level)
    BY Zenon, <2>2 DEF Drop, Reading, RecordRead, RecordScanRead, Staging, StageCreate, StageUpdate,
           StagePatch, StageDelete, StageCreateLink, StageDeleteLink, Stage, CommitBegin,
           CommitRefused, ApplyCreate, ApplyUpdate, ApplyDelete, Applied, CommitAborts, AbortTx,
           Open, storeVars
  <2>6. ~Crash
    BY Zenon, <2>2 DEF Crash, Restart, AbortTx
  <2> QED
    BY Zenon, <1>1, <2>3, <2>4, <2>5, <2>6 DEF Next, Committing
<1>2. AuditIInv /\ LinkOps /\ LinkTargets /\ AppliedRows /\ [Next]_vars
      => [\A l \in Link : LosesTarget(l) => DeletesTarget(l)]_vars
  BY Zenon, <1>1
<1>3. Spec => [][\A l \in Link : LosesTarget(l) => DeletesTarget(l)]_vars
  BY <1>2, LinkInvariant, PTL DEF Spec
<1> QED
  BY Zenon, <1>3 DEF LinksLoseTargetsToTransactions, LosesTarget, DeletesTarget

=============================================================================
