---------------------------- MODULE Transaction ----------------------------
(* Optimistic multi-operation transactions.  A client session stages reads   *)
(* and writes, each a separate call that takes the handler's mutex only for  *)
(* its own duration, and then commits: one call, under the mutex, that       *)
(* validates every staged expectation against the current rows and applies   *)
(* the operations one by one inside a storage transaction.                   *)
EXTENDS EntityStore

CONSTANTS
    Session,      \* client transactions
    Level,        \* isolation levels the sessions ask for
    Patch,        \* merge patches
    Merge(_, _),  \* document and patch -> merged document
    MaxOps,       \* MAX_OPS: staged operations per transaction
    MaxReads,     \* MAX_READS: tracked reads per transaction
    Expected,     \* expected versions clients send
    MaxLog,       \* bound: length of the audit log
    MaxChurn,     \* bound: membership counter, which aborted commits advance too
    AbortMayFail  \* whether abort_tx may itself return an error

IsolationLevel == {"snapshot", "serializable", "strict"}

ASSUME TransactionAssumption ==
    /\ Level \subseteq IsolationLevel
    /\ \A d \in Doc, p \in Patch : Merge(d, p) \in Doc
    /\ Expected \subseteq Nat
    /\ {MaxOps, MaxReads, MaxLog, MaxChurn} \subseteq Nat
    /\ AbortMayFail \in BOOLEAN

VARIABLES
    phase,  \* "idle", "open" (staging) or "apply" (inside the commit call)
    iso,    \* isolation level, fixed when the transaction is created
    ops,    \* staged operations, in order
    reads,  \* key-addressed read set
    scans,  \* scan-read set
    next    \* index of the next staged operation to apply

txVars == <<phase, iso, ops, reads, scans, next>>
vars == <<storeVars, txVars>>

(* `seen' and `at' are history: the version and the length of the audit log  *)
(* when the staging call looked at the entity.                               *)
Op == [kind : Kind, key : Key, expected : Nat, before : Doc \cup {Nil},
       data : Doc \cup {Nil}, seen : Nat, at : Nat]
ReadRef == [key : Key, version : Nat, at : Nat]

TxTypeOK ==
    /\ phase \in [Session -> {"idle", "open", "apply"}]
    /\ iso \in [Session -> IsolationLevel]
    /\ ops \in [Session -> Seq(Op)]
    /\ reads \in [Session -> Seq(ReadRef)]
    /\ next \in [Session -> Nat \ {0}]

TxInit ==
    /\ phase = [s \in Session |-> "idle"]
    /\ iso = [s \in Session |-> "snapshot"]
    /\ ops = [s \in Session |-> <<>>]
    /\ reads = [s \in Session |-> <<>>]
    /\ scans = [s \in Session |-> <<>>]
    /\ next = [s \in Session |-> 1]

Serializable(s) == iso[s] # "snapshot"

\* The handler mutex is free: no session is inside its commit call.
LockFree == \A s \in Session : phase[s] # "apply"

----------------------------------------------------------------------------
\* Opening and ending a transaction

Open(s, level) ==
    /\ phase[s] = "idle"
    /\ phase' = [phase EXCEPT ![s] = "open"]
    /\ iso' = [iso EXCEPT ![s] = level]
    /\ UNCHANGED <<storeVars, ops, reads, scans, next>>

\* commit consumes the transaction; a client that wants to retry opens a new one.
Ends(S) ==
    /\ phase' = [s \in Session |-> IF s \in S THEN "idle" ELSE phase[s]]
    /\ iso' = [s \in Session |-> IF s \in S THEN "snapshot" ELSE iso[s]]
    /\ ops' = [s \in Session |-> IF s \in S THEN <<>> ELSE ops[s]]
    /\ reads' = [s \in Session |-> IF s \in S THEN <<>> ELSE reads[s]]
    /\ scans' = [s \in Session |-> IF s \in S THEN <<>> ELSE scans[s]]
    /\ next' = [s \in Session |-> IF s \in S THEN 1 ELSE next[s]]

\* The client goes away, a staging call fails, policy or schema refuses, or
\* commit finds the transaction older than its timeout, before any storage call.
Drop(s) ==
    /\ phase[s] = "open"
    /\ Ends({s})
    /\ UNCHANGED storeVars

----------------------------------------------------------------------------
\* Reads through the transaction

\* Mutant: absence recorded as no version at all.
RecordReadNoVersion(s, k) ==
    /\ phase[s] = "open" /\ LockFree
    /\ Serializable(s) /\ Len(reads[s]) < MaxReads
    /\ reads' = [reads EXCEPT ![s] =
                   Append(@, [key |-> k, at |-> Len(log),
                              version |-> IF Present(k) THEN Version(k) ELSE Nil])]
    /\ UNCHANGED <<storeVars, phase, iso, ops, scans, next>>

\* record_read: kept only under a serializable level.
RecordRead(s, k) ==
    /\ phase[s] = "open" /\ LockFree
    /\ Serializable(s) /\ Len(reads[s]) < MaxReads
    /\ reads' = [reads EXCEPT ![s] =
                   Append(@, [key |-> k, version |-> Version(k), at |-> Len(log)])]
    /\ UNCHANGED <<storeVars, phase, iso, ops, scans, next>>

ScanSignature(s, c) ==
    IF iso[s] = "strict" THEN ContentVersion(c) ELSE StructuralVersion(c)

RecordScanRead(s, c) ==
    /\ phase[s] = "open" /\ LockFree
    /\ Serializable(s) /\ Len(scans[s]) < MaxReads
    /\ scans' = [scans EXCEPT ![s] =
                   Append(@, [coll |-> c, sig |-> ScanSignature(s, c),
                              members |-> Members(c), at |-> Len(log)])]
    /\ UNCHANGED <<storeVars, phase, iso, ops, reads, next>>

----------------------------------------------------------------------------
\* Staging writes: the entity is looked at now, for the audit before-image
\* and for the merge, and checked again only when the transaction commits.

Stage(s, op) ==
    /\ phase[s] = "open" /\ LockFree
    /\ Len(ops[s]) < MaxOps
    /\ ops' = [ops EXCEPT ![s] = Append(@, op)]
    /\ UNCHANGED <<storeVars, phase, iso, reads, scans, next>>

\* An operation staged without looking at what is stored.
BlindOp(kind, k, d) ==
    [kind |-> kind, key |-> k, expected |-> 0, before |-> Nil, data |-> d,
     seen |-> 0, at |-> 0]

\* An operation on the entity as it is now, at the version the client names.
SightedOp(kind, k, expected, d) ==
    [kind |-> kind, key |-> k, expected |-> expected, before |-> store[k].data,
     data |-> d, seen |-> Version(k), at |-> Len(log)]

StageCreate(s, k, d) == Stage(s, BlindOp("create", k, d))

StageUpdate(s, k, expected, d) == Stage(s, SightedOp("update", k, expected, d))

\* The merge is computed on the document read here.
StagePatch(s, k, expected, p) ==
    /\ Present(k)
    /\ Stage(s, SightedOp("update", k, expected, Merge(store[k].data, p)))

StageDelete(s, k, expected) == Stage(s, SightedOp("delete", k, expected, Nil))

StageCreateLink(s, l) == Stage(s, BlindOp("create", l, LinkDoc))

StageDeleteLink(s, l) == Stage(s, BlindOp("delete", l, Nil))

----------------------------------------------------------------------------
\* Commit, phase 1: every staged operation against the current rows

\* Mutant: an update's version is left to compare_and_swap.
VersionOKCreatesOnly(op) == op.kind = "create" => ~Present(op.key)

VersionOK(op) ==
    IF op.key \in Link
    THEN IF op.kind = "create"
         THEN Present(Source[op.key]) /\ Present(Target[op.key]) /\ ~Present(op.key)
         ELSE Present(op.key)
    ELSE Version(op.key) = IF op.kind = "create" THEN 0 ELSE op.expected

\* Mutant: only the scans are validated.
ReadSetOKScansOnly(s) ==
    Serializable(s) =>
        \A i \in DOMAIN scans[s] : ScanSignature(s, scans[s][i].coll) = scans[s][i].sig

\* Phase 1b: the tracked reads, under the serializable levels only.
ReadSetOK(s) ==
    Serializable(s) =>
        /\ \A i \in DOMAIN reads[s] : Version(reads[s][i].key) = reads[s][i].version
        /\ \A i \in DOMAIN scans[s] : ScanSignature(s, scans[s][i].coll) = scans[s][i].sig

Validates(s) ==
    /\ \A i \in DOMAIN ops[s] : VersionOK(ops[s][i])
    /\ ReadSetOK(s)

CommitBegin(s) ==
    /\ phase[s] = "open" /\ LockFree
    /\ Len(log) + Len(ops[s]) <= MaxLog
    /\ \A c \in Collection : churn[c] <= MaxChurn
    /\ BeginTx
    /\ Validates(s)
    /\ phase' = [phase EXCEPT ![s] = "apply"]
    /\ UNCHANGED <<store, log, durable, churn, iso, ops, reads, scans, next>>

\* Another storage transaction is open, or validation fails: the storage
\* transaction, if it was begun, is aborted before anything is written.
CommitRefused(s) ==
    /\ phase[s] = "open" /\ LockFree
    /\ inTx \/ ~Validates(s)
    /\ Ends({s})
    /\ UNCHANGED storeVars

----------------------------------------------------------------------------
\* Commit, phases 2 and 3.  The audit entries are buffered with the writes
\* and stored before commit_tx; `log' shows them from the moment they are made.

Applied(s) ==
    /\ next' = [next EXCEPT ![s] = @ + 1]
    /\ UNCHANGED <<durable, inTx, phase, iso, ops, reads, scans>>

Applying(s, kind) ==
    /\ phase[s] = "apply" /\ next[s] \in DOMAIN ops[s]
    /\ ops[s][next[s]].kind = kind

ApplyCreate(s) ==
    LET op == ops[s][next[s]] IN
    /\ Applying(s, "create")
    /\ Put(op.key, 1, op.data)
    /\ Append1(AuditEntry(op.key, "create", 1, Nil, op.data))
    /\ Applied(s)

ApplyUpdate(s) ==
    LET op == ops[s][next[s]] IN
    /\ Applying(s, "update")
    /\ CompareAndSwap(op.key, op.expected, op.data)
    /\ Append1(AuditEntry(op.key, "update", op.expected + 1, op.before, op.data))
    /\ Applied(s)

\* An entity is deleted unconditionally, with the staged before-image; a link
\* must still be there, and its entry takes what is stored.
ApplyDelete(s) ==
    LET op == ops[s][next[s]] IN
    /\ Applying(s, "delete")
    /\ op.key \in Link => Present(op.key)
    /\ Delete(op.key)
    /\ Append1(IF op.key \in Link
               THEN AuditEntry(op.key, "delete", Version(op.key), store[op.key].data, Nil)
               ELSE AuditEntry(op.key, "delete", op.expected, op.before, Nil))
    /\ Applied(s)

\* Mutant: commits after the first operation.
CommitEndEarly(s) ==
    /\ phase[s] = "apply" /\ next[s] > 1
    /\ UNCHANGED <<store, log, churn>>
    /\ CommitTx
    /\ Ends({s})

\* The entries are stored, the before-commit hook succeeds, commit_tx succeeds.
CommitEnd(s) ==
    /\ phase[s] = "apply" /\ next[s] = Len(ops[s]) + 1
    /\ UNCHANGED <<store, log, churn>>
    /\ CommitTx
    /\ Ends({s})

\* A write, an audit append, the hook or commit_tx fails: best-effort abort.
CommitAborts(s) ==
    /\ phase[s] = "apply"
    /\ AbortTx \/ (AbortMayFail /\ UNCHANGED <<store, log, durable, inTx>>)
    /\ UNCHANGED churn
    /\ Ends({s})

\* The process restarts: transactions that had not finished are lost.
Crash == Restart /\ Ends(Session)
=============================================================================
