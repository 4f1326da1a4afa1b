---------------------------- MODULE EntityStore ----------------------------
(* The storage adapter as the handlers use it: one versioned record per      *)
(* key (entities, and links, which are stored as rows of a pseudo-           *)
(* collection), the co-located audit log, and one storage transaction at a   *)
(* time.  `store' and `log' are what the adapter's own connection sees;      *)
(* `durable' is what a commit has made permanent and a restart finds.        *)
EXTENDS Integers, Sequences, FiniteSets

CONSTANTS
    Id,            \* entity keys: (collection, entity id) pairs
    Link,          \* link keys: (source, link type, target) triples
    Collection,    \* collections, the links pseudo-collection included
    CollectionOf,  \* key -> its collection
    Source,        \* link -> the entity it starts from
    Target,        \* link -> the entity it points to
    Data,          \* entity documents
    LinkDoc,       \* the document of a stored link
    Nil,           \* no document
    CounterGuard   \* TRUE: membership counter (memory); FALSE: id-set hash (SQL)

Key == Id \cup Link
Doc == Data \cup {LinkDoc}

ASSUME StoreAssumption ==
    /\ Id \cap Link = {}
    /\ CollectionOf \in [Key -> Collection]
    /\ Source \in [Link -> Id]
    /\ Target \in [Link -> Id]
    /\ Nil \notin Doc
    /\ CounterGuard \in BOOLEAN

VARIABLES
    store,    \* the rows the connection sees
    log,      \* the audit entries the connection sees, in id order
    durable,  \* the committed rows and entries
    inTx,     \* a storage transaction is open
    churn     \* membership counter of each collection, never rolled back

storeVars == <<store, log, durable, inTx, churn>>

Row    == [version : Nat, data : Doc \cup {Nil}]
Absent == [version |-> 0, data |-> Nil]
Kind   == {"create", "update", "delete"}
Entry  == [key : Key, kind : Kind, version : Nat,
           before : Doc \cup {Nil}, after : Doc \cup {Nil}]

StoreTypeOK ==
    /\ store \in [Key -> Row]
    /\ log \in Seq(Entry)
    /\ durable \in [store : [Key -> Row], log : Seq(Entry)]
    /\ inTx \in BOOLEAN
    /\ churn \in [Collection -> Nat]

StoreInit ==
    /\ store = [k \in Key |-> Absent]
    /\ log = <<>>
    /\ durable = [store |-> store, log |-> log]
    /\ inTx = FALSE
    /\ churn = [c \in Collection |-> 0]

----------------------------------------------------------------------------
\* Reads

Present(k) == store[k].data # Nil

\* The stored version, 0 standing for absence.
Version(k) == store[k].version

Members(c) == {k \in Key : CollectionOf[k] = c /\ Present(k)}

\* A hash of a set is modelled by the set: collisions are left out.
StructuralVersion(c) == IF CounterGuard THEN churn[c] ELSE Members(c)

\* Mutant: a content signature that forgets the versions.
ContentVersionIdsOnly(c) == Members(c)

ContentVersion(c) == {<<k, Version(k)>> : k \in Members(c)}

InboundLinks(k) == {l \in Link : Present(l) /\ Target[l] = k}

----------------------------------------------------------------------------
\* Write primitives, and the audit entry each caller appends with them

AuditEntry(k, kind, v, before, after) ==
    [key |-> k, kind |-> kind, version |-> v, before |-> before, after |-> after]

Append1(e) == log' = Append(log, e)

\* Only the memory adapter keeps a counter; the SQL adapters hash the rows.
BumpStructuralVersion(k) ==
    churn' = IF CounterGuard THEN [churn EXCEPT ![CollectionOf[k]] = @ + 1] ELSE churn

\* put: create or replace, whatever version is stored.
Put(k, v, d) ==
    /\ store' = [store EXCEPT ![k] = [version |-> v, data |-> d]]
    /\ IF Present(k) THEN UNCHANGED churn ELSE BumpStructuralVersion(k)

\* compare_and_swap: only over a present row at the expected version.
CanSwap(k, expected) == Present(k) /\ Version(k) = expected

CompareAndSwap(k, expected, d) ==
    /\ CanSwap(k, expected)
    /\ store' = [store EXCEPT ![k] = [version |-> expected + 1, data |-> d]]
    /\ UNCHANGED churn

\* Mutant: only insertions advance the membership counter.
DeleteWithoutBump(k) == store' = [store EXCEPT ![k] = Absent] /\ UNCHANGED churn

\* delete: succeeds whether or not the row exists.
Delete(k) ==
    /\ store' = [store EXCEPT ![k] = Absent]
    /\ IF Present(k) THEN BumpStructuralVersion(k) ELSE UNCHANGED churn

----------------------------------------------------------------------------
\* The storage transaction

BeginTx == ~inTx /\ inTx' = TRUE

\* commit_tx: what the connection sees after this step becomes permanent.
CommitTx ==
    /\ durable' = [store |-> store', log |-> log']
    /\ inTx' = FALSE

\* abort_tx: rows and audit entries go back; the membership counter does not.
AbortTx ==
    /\ store' = durable.store
    /\ log' = durable.log
    /\ inTx' = FALSE
    /\ UNCHANGED durable

\* Mutant: the adapter reopens on a new, empty file.
RestartEmpty ==
    /\ ~CounterGuard
    /\ store' = [k \in Key |-> Absent]
    /\ log' = <<>>
    /\ durable' = [store |-> store', log |-> log']
    /\ inTx' = FALSE
    /\ UNCHANGED churn

\* The process dies: a durable adapter reopens on what was committed.
Restart == ~CounterGuard /\ AbortTx /\ UNCHANGED churn
=============================================================================
