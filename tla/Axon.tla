-------------------------------- MODULE Axon --------------------------------
(* One tenant database: client transactions and single-operation requests    *)
(* sharing a handler and its storage adapter.                                *)
EXTENDS EntityHandler

CONSTANT ForceFlag  \* values of the `force' flag clients send with a delete

Init == StoreInit /\ TxInit

Staging(s) ==
    \/ \E k \in Id, d \in Data : StageCreate(s, k, d)
    \/ \E k \in Id, v \in Expected, d \in Data : StageUpdate(s, k, v, d)
    \/ \E k \in Id, v \in Expected, p \in Patch : StagePatch(s, k, v, p)
    \/ \E k \in Id, v \in Expected : StageDelete(s, k, v)
    \/ \E l \in Link : StageCreateLink(s, l) \/ StageDeleteLink(s, l)

Reading(s) ==
    \/ \E k \in Id : RecordRead(s, k)
    \/ \E c \in Collection : RecordScanRead(s, c)

Committing(s) ==
    \/ CommitBegin(s)
    \/ CommitRefused(s)
    \/ ApplyCreate(s)
    \/ ApplyUpdate(s)
    \/ ApplyDelete(s)
    \/ CommitEnd(s)
    \/ CommitAborts(s)

DirectWrite ==
    \/ \E k \in Id, d \in Data : CreateEntity(k, d)
    \/ \E k \in Id, v \in Expected, d \in Data : UpdateEntity(k, v, d)
    \/ \E k \in Id, v \in Expected, p \in Patch : PatchEntity(k, v, p)
    \/ \E k \in Id, f \in ForceFlag : DeleteEntity(k, f)
    \/ \E l \in Link : CreateLink(l) \/ DeleteLink(l)

Next ==
    \/ \E s \in Session :
         \/ \E level \in Level : Open(s, level)
         \/ Drop(s)
         \/ Reading(s)
         \/ Staging(s)
         \/ Committing(s)
    \/ DirectWrite
    \/ Crash

Spec == Init /\ [][Next]_vars

----------------------------------------------------------------------------
(* Every variable keeps its type: rows, entries and staged operations are    *)
(* well formed in every state of the tenant database.                        *)
TypeOK == StoreTypeOK /\ TxTypeOK

(* With no storage transaction open, what a handler reads is what has been   *)
(* committed: an aborted or finished commit leaves nothing behind in the     *)
(* connection (commit_with_storage_hook ends every path in commit or abort). *)
ViewIsDurable == ~inTx => durable = [store |-> store, log |-> log]

\* Entry i is the last one about its key.
IsLast(l, i) == \A j \in DOMAIN l : j > i => l[j].key # l[i].key

\* The row an audit entry says its mutation left behind.
Outcome(e) == IF e.after = Nil THEN Absent ELSE [version |-> e.version, data |-> e.after]

Replays(st, l) ==
    /\ \A i \in DOMAIN l : IsLast(l, i) => st[l[i].key] = Outcome(l[i])
    /\ \A k \in Key : st[k] # Absent => \E i \in DOMAIN l : l[i].key = k /\ IsLast(l, i)

(* The committed audit log accounts for the committed rows exactly: each row *)
(* is what the last entry about it says, and a key with no entry has no row. *)
(* Writes and their entries are co-located, so no abort, crash or failed     *)
(* commit may keep one without the other.                                    *)
AuditReplays == Replays(durable.store, durable.log)

\* Entry i is the one before entry j about the same key.
Precedes(l, i, j) ==
    /\ l[i].key = l[j].key
    /\ \A m \in (i + 1)..(j - 1) : l[m].key # l[j].key

Chains(l) ==
    \A j \in DOMAIN l : l[j].kind = "update" =>
        \E i \in 1..(j - 1) :
            /\ Precedes(l, i, j)
            /\ l[i].after # Nil
            /\ l[j].version = l[i].version + 1

(* An entity update is recorded one version above the entry before it for    *)
(* the same key, and that entry left the entity in place: compare_and_swap   *)
(* never skips or repeats a version, whoever wrote last.                     *)
UpdateChain == Chains(durable.log)

\* Entries about k after the first n, and those of them that begin or end an
\* incarnation of it.
TouchedIn(l, k, n) == \E j \in DOMAIN l : j > n /\ l[j].key = k

RecreatedIn(l, k, n) ==
    \E j \in DOMAIN l : j > n /\ l[j].key = k /\ l[j].kind # "update"

Touched(k, n) == TouchedIn(durable.log, k, n)
Recreated(k, n) == RecreatedIn(durable.log, k, n)

(* A serializable transaction that passed validation has read nothing that   *)
(* was written since, except an entity that was created or deleted in        *)
(* between: a creation starts again at version 1, so a version comparison    *)
(* cannot tell the new incarnation from the old.                             *)
SerializableReadsHold ==
    \A s \in Session : phase[s] = "apply" /\ Serializable(s) =>
        \A i \in DOMAIN reads[s] :
            Touched(reads[s][i].key, reads[s][i].at) =>
                Recreated(reads[s][i].key, reads[s][i].at)

(* A serializable transaction that passed validation sees every scanned      *)
(* collection with the members it had when scanned: no phantom, whichever    *)
(* guard the adapter implements, and whatever aborted in between.            *)
ScannedMembershipHolds ==
    \A s \in Session : phase[s] = "apply" /\ Serializable(s) =>
        \A i \in DOMAIN scans[s] :
            scans[s][i].members =
                {k \in Key : CollectionOf[k] = scans[s][i].coll /\ durable.store[k].data # Nil}

(* Under the strict level no member of a scanned collection was updated      *)
(* since, unless it was created or deleted in between.                       *)
StrictContentsHold ==
    \A s \in Session : phase[s] = "apply" /\ iso[s] = "strict" =>
        \A i \in DOMAIN scans[s] : \A k \in scans[s][i].members :
            Touched(k, scans[s][i].at) => Recreated(k, scans[s][i].at)

(* The before-image staged with an update or a delete, and the document a    *)
(* patch was merged into, are those the commit replaces, whenever the client *)
(* named the version the staging call saw and no new incarnation intervened. *)
StagedImagesHonest ==
    \A s \in Session : phase[s] = "apply" =>
        \A i \in DOMAIN ops[s] :
            LET op == ops[s][i] IN
            /\ op.key \in Id
            /\ op.kind # "create"
            /\ op.seen = op.expected
            /\ ~Recreated(op.key, op.at)
            => op.before = durable.store[op.key].data

IsPrefixOf(l, m) == Len(l) <= Len(m) /\ \A i \in DOMAIN l : m[i] = l[i]

Records(e, op) == e.key = op.key /\ e.kind = op.kind /\ e.after = op.data

(* What is committed changes only by whole requests: the log is extended by  *)
(* exactly the staged operations of one committing transaction, in order, or *)
(* by the single entry of a direct write; it is never rewritten.             *)
CommitIsAtomic ==
    [][ durable' # durable =>
          /\ IsPrefixOf(durable.log, durable'.log)
          /\ \/ \E s \in Session :
                  /\ phase[s] = "apply" /\ phase'[s] = "idle"
                  /\ Len(durable'.log) = Len(durable.log) + Len(ops[s])
                  /\ \A i \in DOMAIN ops[s] :
                       Records(durable'.log[Len(durable.log) + i], ops[s][i])
             \/ Len(durable'.log) = Len(durable.log) + 1 /\ UNCHANGED txVars ]_vars

----------------------------------------------------------------------------
Ledger == INSTANCE Ledger WITH rows <- durable.store, entries <- durable.log

(* Seen from outside, a tenant database is a ledger: whatever transactions,  *)
(* direct writes, aborts and crashes go on, what is committed moves only by  *)
(* whole batches that extend the audit log and leave the rows it accounts    *)
(* for (commit_with_storage_hook and write_with_durable_audit_entries).      *)
ImplementsLedger == Ledger!Spec

----------------------------------------------------------------------------
Dangling(st, l) == st[l].data # Nil /\ st[Target[l]].data = Nil

(* delete_entity refuses, unforced, to remove an entity that links point to, *)
(* and both ways of creating a link look for its target.  A transactional    *)
(* delete does not look at links, so it alone leaves one without its target: *)
(* whatever else is interleaved, that step is the commit of a transaction    *)
(* that deletes the target itself.                                           *)
LinksLoseTargetsToTransactions ==
    [][ \A l \in Link :
          ~Dangling(durable.store, l) /\ Dangling(durable'.store, l) =>
              \E s \in Session :
                  /\ phase[s] = "apply" /\ phase'[s] = "idle"
                  /\ \E i \in DOMAIN ops[s] :
                       ops[s][i].kind = "delete" /\ ops[s][i].key = Target[l] ]_vars

----------------------------------------------------------------------------
(* What the documents say of the program, and the program does not do        *)

(* Every audited update starts from what the entry before it left (INV-003:  *)
(* an entry with matching before and after state for every version).         *)
BeforeImagesChain ==
    \A j \in DOMAIN durable.log : durable.log[j].kind = "update" =>
        \A i \in 1..(j - 1) :
            Precedes(durable.log, i, j) => durable.log[j].before = durable.log[i].after
=============================================================================
