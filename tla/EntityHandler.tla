--------------------------- MODULE EntityHandler ---------------------------
(* The single-operation handlers.  Each runs wholly under the handler mutex: *)
(* it looks at the entity, then opens a storage transaction, writes, appends *)
(* the audit entry and commits.  A failing write or append aborts; an error  *)
(* from commit_tx itself is returned as it is, the transaction still open.   *)
EXTENDS Transaction

CONSTANTS
    MaxDirect,     \* bound: length of the audit log direct writes extend
    CommitMayFail  \* whether commit_tx may return an error

ASSUME HandlerAssumption == MaxDirect \in Nat /\ CommitMayFail \in BOOLEAN

\* The tail of commit_write_with_durable_audit, after `write' and the append.
Conclude ==
    \/ CommitTx
    \/ CommitMayFail /\ inTx' = TRUE /\ UNCHANGED durable

Direct == LockFree /\ ~inTx /\ Len(log) < MaxDirect /\ UNCHANGED txVars

\* create_entity is create-or-replace: an existing entity restarts at
\* version 1 and the entry has no before-image.
CreateEntity(k, d) ==
    /\ Direct
    /\ Put(k, 1, d)
    /\ Append1(AuditEntry(k, "create", 1, Nil, d))
    /\ Conclude

\* Mutant: the entry carries the version the client expected.
UpdateEntityAuditsExpected(k, expected, d) ==
    /\ Direct
    /\ CompareAndSwap(k, expected, d)
    /\ Append1(AuditEntry(k, "update", expected, store[k].data, d))
    /\ Conclude

UpdateEntity(k, expected, d) ==
    /\ Direct
    /\ CompareAndSwap(k, expected, d)
    /\ Append1(AuditEntry(k, "update", expected + 1, store[k].data, d))
    /\ Conclude

\* patch_entity merges into the document read under the same lock.
PatchEntity(k, expected, p) ==
    /\ Present(k)
    /\ UpdateEntity(k, expected, Merge(store[k].data, p))

\* Mutant: no look at the inbound links.
DeleteEntityUnguarded(k, force) ==
    /\ Direct
    /\ Present(k)
    /\ Delete(k)
    /\ Append1(AuditEntry(k, "delete", Version(k), store[k].data, Nil))
    /\ Conclude

\* delete_entity: refused while links point here, unless forced; the links
\* of a forced delete stay.  Deleting nothing writes nothing.
DeleteEntity(k, force) ==
    /\ Direct
    /\ force \/ InboundLinks(k) = {}
    /\ Present(k)
    /\ Delete(k)
    /\ Append1(AuditEntry(k, "delete", Version(k), store[k].data, Nil))
    /\ Conclude

CreateLink(l) ==
    /\ Direct
    /\ Present(Source[l]) /\ Present(Target[l]) /\ ~Present(l)
    /\ Put(l, 1, LinkDoc)
    /\ Append1(AuditEntry(l, "create", 1, Nil, LinkDoc))
    /\ Conclude

DeleteLink(l) ==
    /\ Direct
    /\ Present(l)
    /\ Delete(l)
    /\ Append1(AuditEntry(l, "delete", Version(l), store[l].data, Nil))
    /\ Conclude
=============================================================================
