------------------------------ MODULE Rollback ------------------------------
(* Undoing from the audit log: revert_entity_to_audit_entry, rollback_entity, *)
(* rollback_collection and rollback_transaction of axon-api/src/handler.rs.   *)
(*                                                                           *)
(* All run under the handler mutex.  The last two write one storage          *)
(* transaction per entity, so a write may fail, or the process die, with     *)
(* some entities rolled back and others not.  Transactions of clients are    *)
(* one step (AxonProofs!Atomicity), staged and committed without a           *)
(* write in between.  The clock never goes back.  A dry run changes nothing  *)
(* and is left out.                                                          *)
EXTENDS Integers, Sequences, FiniteSets

CONSTANTS Id, Collection, CollectionOf, Data, Nil,
          TxId,      \* transaction ids, never reused
          NoTx,      \* the transaction of a single write
          Ops,       \* operation lists clients send: sequences of [kind, key, data]
          PageSize,  \* DEFAULT_PAGE_SIZE of an audit query
          MaxLog, MaxTime

ASSUME RollbackAssumption ==
    /\ CollectionOf \in [Id -> Collection]
    /\ Nil \notin Data /\ NoTx \notin TxId
    /\ {PageSize, MaxLog, MaxTime} \subseteq Nat
    /\ Ops \subseteq Seq([kind : {"create", "update", "delete"}, key : Id, data : Data \cup {Nil}])
    /\ \A ops \in Ops : \A i \in DOMAIN ops : ops[i].data = Nil <=> ops[i].kind = "delete"

VARIABLES row,  \* the stored entities
          log,  \* the audit log
          now,
          job   \* the collection or transaction rollback being worked on
vars == <<row, log, now, job>>

Absent == [version |-> 0, data |-> Nil]
Kind == {"create", "update", "delete", "revert"}
Entry == [key : Id, kind : Kind, version : Nat, before : Data \cup {Nil},
          after : Data \cup {Nil}, tx : TxId \cup {NoTx}, at : Nat]

\* What is rolled back (a collection to a time, or a transaction), the entries
\* whose entities are still to be rolled back, those that failed, and how long
\* the log was at the start.
NoJob == [kind |-> "none", coll |-> Nil, to |-> 0, tx |-> NoTx, todo |-> {}, failed |-> {}, from |-> 0]

TypeOK ==
    /\ row \in [Id -> [version : Nat, data : Data \cup {Nil}]]
    /\ \A k \in Id : row[k].version = 0 <=> row[k].data = Nil
    /\ log \in Seq(Entry)
    /\ now \in Nat
    /\ job.kind \in {"none", "collection", "transaction"}
    /\ job.todo \subseteq DOMAIN log /\ job.failed \subseteq DOMAIN log

Init ==
    /\ row = [k \in Id |-> Absent]
    /\ log = <<>>
    /\ now = 0
    /\ job = NoJob

----------------------------------------------------------------------------
(* The log *)

Present(k) == row[k].data # Nil
Free == job = NoJob
Room(n) == Len(log) + n <= MaxLog

Logged(k, kind, v, before, after, tx) ==
    [key |-> k, kind |-> kind, version |-> v, before |-> before, after |-> after, tx |-> tx, at |-> now]

\* query_by_entity and query_by_transaction_id, as positions
Of(k) == {i \in DOMAIN log : log[i].key = k}
InTx(t) == {i \in DOMAIN log : log[i].tx = t}

First(S) == CHOOSE i \in S : \A j \in S : i <= j
Last(S) == CHOOSE i \in S : \A j \in S : j <= i

\* write_with_durable_audit: the row and its entry, together or not at all.
Writes(k, version, data, entry) ==
    /\ row' = [row EXCEPT ![k] = [version |-> version, data |-> data]]
    /\ log' = Append(log, entry)

----------------------------------------------------------------------------
(* Clients *)

\* create_entity replaces a living entity, with no before-image.
CreateEntity(k, d) ==
    /\ Free /\ Room(1)
    /\ Writes(k, 1, d, Logged(k, "create", 1, Nil, d, NoTx))
    /\ UNCHANGED <<now, job>>

UpdateEntity(k, d) ==
    /\ Free /\ Room(1) /\ Present(k)
    /\ LET v == row[k].version + 1
       IN  Writes(k, v, d, Logged(k, "update", v, row[k].data, d, NoTx))
    /\ UNCHANGED <<now, job>>

DeleteEntity(k) ==
    /\ Free /\ Room(1) /\ Present(k)
    /\ Writes(k, 0, Nil, Logged(k, "delete", row[k].version, row[k].data, Nil, NoTx))
    /\ UNCHANGED <<now, job>>

\* What execute leaves of an operation: its audit entry, with the before-image
\* and the version staged, and the row.
OpEntry(t, op) ==
    CASE op.kind = "create" -> Logged(op.key, "create", 1, Nil, op.data, t)
      [] op.kind = "update" -> Logged(op.key, "update", row[op.key].version + 1, row[op.key].data, op.data, t)
      [] op.kind = "delete" -> Logged(op.key, "delete", row[op.key].version, row[op.key].data, Nil, t)
OpRow(t, op) ==
    IF op.kind = "delete" THEN Absent ELSE [version |-> OpEntry(t, op).version, data |-> op.data]

\* Every operation is validated against the rows before any is applied, so one
\* entity may be created or deleted twice; compare_and_swap refuses an update
\* that comes second.
Transact(t, ops) ==
    /\ Free /\ Room(Len(ops)) /\ InTx(t) = {}
    /\ \A i \in DOMAIN ops :
         /\ ops[i].kind = "create" => ~Present(ops[i].key)
         /\ ops[i].kind = "update" => Present(ops[i].key)
         /\ \A j \in 1..(i - 1) : ops[j].key = ops[i].key => ops[i].kind # "update"
    /\ log' = log \o [i \in DOMAIN ops |-> OpEntry(t, ops[i])]
    /\ row' = [k \in Id |->
                 LET I == {i \in DOMAIN ops : ops[i].key = k}
                 IN  IF I = {} THEN row[k] ELSE OpRow(t, ops[Last(I)])]
    /\ UNCHANGED <<now, job>>

Tick ==
    /\ now < MaxTime
    /\ now' = now + 1
    /\ UNCHANGED <<row, log, job>>

----------------------------------------------------------------------------
(* One entity *)

\* As Restore, recording the version that is replaced.
RestoreRecordsOld(k, d) ==
    IF Present(k)
    THEN Writes(k, row[k].version + 1, d, Logged(k, "revert", row[k].version, row[k].data, d, NoTx))
    ELSE Writes(k, 1, d, Logged(k, "revert", 1, Nil, d, NoTx))

\* Write d as a new version; an entity that is gone starts again at 1.
Restore(k, d) ==
    IF Present(k)
    THEN LET v == row[k].version + 1
         IN  Writes(k, v, d, Logged(k, "revert", v, row[k].data, d, NoTx))
    ELSE Writes(k, 1, d, Logged(k, "revert", 1, Nil, d, NoTx))

Remove(k) ==
    Writes(k, 0, Nil, Logged(k, "delete", row[k].version + 1, row[k].data, Nil, NoTx))

\* revert_entity_to_audit_entry: the before-image of entry i.
RevertEntity(i) ==
    /\ Free /\ Room(1)
    /\ i \in DOMAIN log /\ log[i].before # Nil
    /\ Restore(log[i].key, log[i].before)
    /\ UNCHANGED <<now, job>>

\* As RollbackEntity, without a new version for a living entity.
RollbackEntityReuses(k, i) ==
    /\ Free /\ Room(1)
    /\ log[i].after # Nil
    /\ Present(k) \/ log[Last(Of(k))].kind = "delete"
    /\ LET v == IF Present(k) THEN row[k].version ELSE 1 + log[Last(Of(k))].version
           d == log[i].after
       IN  Writes(k, v, d, Logged(k, "revert", v, row[k].data, d, NoTx))
    /\ UNCHANGED <<now, job>>

\* rollback_entity: the after-image of entry i (named by its id, or by its
\* version as the first entry that has it), as the next version of a living or
\* deleted entity.
RollbackEntity(k, i) ==
    /\ Free /\ Room(1)
    /\ log[i].after # Nil
    /\ Present(k) \/ log[Last(Of(k))].kind = "delete"
    /\ LET v == 1 + IF Present(k) THEN row[k].version ELSE log[Last(Of(k))].version
           d == log[i].after
       IN  Writes(k, v, d, Logged(k, "revert", v, row[k].data, d, NoTx))
    /\ UNCHANGED <<now, job>>

----------------------------------------------------------------------------
(* A collection, a transaction *)

\* The document of k at time t; Nil if it did not exist.
StateAt(k, t) ==
    LET H == {i \in Of(k) : log[i].at <= t}
    IN  IF H = {} THEN Nil ELSE log[Last(H)].after

Since(c, t) == {i \in DOMAIN log : CollectionOf[log[i].key] = c /\ log[i].at > t}

\* query_paginated: the first page.
Page(S) == {i \in S : Cardinality({j \in S : j < i}) < PageSize}

\* rollback_collection: the entities of the page, in the order they appear.
RollbackCollection(c, t) ==
    /\ Free
    /\ LET P == Page(Since(c, t))
       IN  job' = [NoJob EXCEPT !.kind = "collection", !.coll = c, !.to = t, !.from = Len(log),
                     !.todo = {i \in P : \A j \in P : log[j].key = log[i].key => i <= j}]
    /\ UNCHANGED <<row, log, now>>

\* rollback_transaction: its entities, in the order of their last entries.
RollbackTransaction(t) ==
    /\ Free
    /\ InTx(t) # {}
    /\ job' = [NoJob EXCEPT !.kind = "transaction", !.tx = t, !.from = Len(log),
                 !.todo = {i \in InTx(t) : \A j \in InTx(t) : log[j].key = log[i].key => j <= i}]
    /\ UNCHANGED <<row, log, now>>

\* As ToTimestamp, leaving what did not exist then.
ToTimestampKeepsNew(k, t) ==
    LET d == StateAt(k, t)
    IN  IF d \in {Nil, row[k].data} THEN UNCHANGED <<row, log>> ELSE Restore(k, d)

\* rollback_single_entity_to_timestamp
ToTimestamp(k, t) ==
    LET d == StateAt(k, t)
    IN  CASE d = row[k].data -> UNCHANGED <<row, log>>
          [] d = Nil /\ Present(k) -> Remove(k)
          [] d # Nil /\ d # row[k].data -> Restore(k, d)

\* As FromTransaction, leaving what the transaction created.
FromTransactionKeepsCreated(k, t) ==
    LET e == log[First(Of(k) \cap InTx(t))]
    IN  CASE e.kind = "create" -> UNCHANGED <<row, log>>
          [] e.kind = "update" -> IF row[k].data = e.before THEN UNCHANGED <<row, log>>
                                  ELSE Restore(k, e.before)
          [] e.kind = "delete" -> e.before # Nil /\ IF Present(k) THEN UNCHANGED <<row, log>>
                                                    ELSE Restore(k, e.before)

\* rollback_single_entity_from_transaction: by the first of its entries there.
FromTransaction(k, t) ==
    LET e == log[First(Of(k) \cap InTx(t))]
    IN  CASE e.kind = "create" -> IF Present(k) THEN Remove(k) ELSE UNCHANGED <<row, log>>
          [] e.kind = "update" -> IF row[k].data = e.before THEN UNCHANGED <<row, log>>
                                  ELSE Restore(k, e.before)
          [] e.kind = "delete" -> e.before # Nil /\ IF Present(k) THEN UNCHANGED <<row, log>>
                                                    ELSE Restore(k, e.before)

RollbackNext ==
    /\ job.todo # {} /\ Room(1)
    /\ LET i == First(job.todo)
           k == log[i].key
       IN  /\ \/ job.kind = "collection" /\ ToTimestamp(k, job.to)
              \/ job.kind = "transaction" /\ FromTransaction(k, job.tx)
           /\ job' = [job EXCEPT !.todo = @ \ {i}]
    /\ UNCHANGED now

\* A unique constraint, a storage error, a before-image that is missing: the
\* entity is reported and the next one is tried.
RollbackFails ==
    /\ job.todo # {}
    /\ LET i == First(job.todo)
       IN  job' = [job EXCEPT !.todo = @ \ {i}, !.failed = @ \cup {i}]
    /\ UNCHANGED <<row, log, now>>

RollbackEnds ==
    /\ job # NoJob /\ job.todo = {}
    /\ job' = NoJob
    /\ UNCHANGED <<row, log, now>>

\* The process dies between two entities.
Crash == job # NoJob /\ job' = NoJob /\ UNCHANGED <<row, log, now>>

Clients ==
    \/ \E k \in Id, d \in Data : CreateEntity(k, d) \/ UpdateEntity(k, d)
    \/ \E k \in Id : DeleteEntity(k)
    \/ \E t \in TxId, ops \in Ops : Transact(t, ops)

Rollbacks ==
    \/ \E i \in DOMAIN log : RevertEntity(i)
    \/ \E k \in Id : \E i \in Of(k) : RollbackEntity(k, i)
    \/ \E c \in Collection, t \in 0..now : RollbackCollection(c, t)
    \/ \E t \in TxId : RollbackTransaction(t)

Next ==
    \/ Clients
    \/ Rollbacks
    \/ RollbackNext
    \/ RollbackFails
    \/ RollbackEnds
    \/ Tick
    \/ Crash

Spec == Init /\ [][Next]_vars

----------------------------------------------------------------------------
(* Properties *)

\* The document entries S leave behind.
Left(S) == IF S = {} THEN Nil ELSE log[Last(S)].after

(* The log accounts for every row, whatever was undone, half undone or       *)
(* undone again: its document is the last entry's, and so is its version.    *)
LogAccounts ==
    \A k \in Id :
        /\ row[k].data = Left(Of(k))
        /\ Present(k) => row[k].version = log[Last(Of(k))].version

Handled(k) == \A i \in job.todo \cup job.failed : log[i].key # k
WholePage == Cardinality({i \in Since(job.coll, job.to) : i <= job.from}) <= PageSize

(* A collection rollback that sees all the later entries leaves every entity *)
(* it has handled as it was at the requested time, and those that were never *)
(* touched since are that anyway (rollback_collection).                      *)
CollectionRestored ==
    job.kind = "collection" /\ WholePage =>
        \A k \in Id : CollectionOf[k] = job.coll /\ Handled(k) => row[k].data = StateAt(k, job.to)

(* A transaction rollback leaves every entity it has handled as it was       *)
(* before the transaction, if nobody wrote it between the two, even if the   *)
(* transaction wrote it twice (rollback_single_entity_from_transaction).     *)
TransactionUndone ==
    job.kind = "transaction" =>
        \A k \in Id :
            LET T == Of(k) \cap InTx(job.tx)
            IN  /\ T # {}
                /\ \A i \in Of(k) : i > Last(T) => i > job.from
                /\ Handled(k)
                => row[k].data = Left({i \in Of(k) : i < First(T)})

\* Versions of k start again at entry i, or fall back there: a transaction
\* deletes what it has just updated, at the version it had expected.
Restarts(k, i) ==
    \/ log[i].version = 1
    \/ log[i].kind = "delete" /\ \E j \in Of(k) : j < i /\ log[j].tx = log[i].tx /\ log[i].tx # NoTx

(* A version number names one document of an entity, so that an entity can   *)
(* be rolled back by version: updates, reverts and rollbacks, of living and  *)
(* of deleted entities, go on counting until the entity is created anew.     *)
VersionsNameStates ==
    \A k \in Id : \A i, j \in Of(k) :
        /\ i < j /\ log[i].after # Nil /\ log[j].after # Nil
        /\ \A m \in Of(k) : i < m /\ m <= j => ~Restarts(k, m)
        => log[i].version < log[j].version

(* rollback_collection: "Roll back every entity in a collection to its state *)
(* at a given point in time"; RBK-07: all changes after the timestamp.       *)
EveryEntityRestored ==
    job.kind = "collection" /\ job.todo = {} /\ job.failed = {} =>
        \A k \in Id : CollectionOf[k] = job.coll => row[k].data = StateAt(k, job.to)
=============================================================================
