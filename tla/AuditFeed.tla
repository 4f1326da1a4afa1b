----------------------------- MODULE AuditFeed -----------------------------
(* The source of every change feed: requests that change rows under the      *)
(* handler's lock append to the audit log and, on some surfaces, publish     *)
(* change events on the tenant's broadcast channel before the lock is let go. *)
(* An audit id is the position of its entry in the log, and a document is    *)
(* named by the audit id of the write that stored it: all are different.     *)
EXTENDS Naturals, Sequences, FiniteSets

CONSTANTS
    Entity,   \* entity ids of one collection, in the order of their names
    LinkKey,  \* ids of links between them, in the links collection
    MaxLog    \* bound: audit entries

ASSUME EntitiesAreOrdered == Entity \subseteq Nat \ {0} /\ LinkKey \subseteq Nat \ {0}

VARIABLES
    rows,  \* what is stored
    log,   \* the audit log
    sent,  \* audit ids carried by the events sent on the channel, in order
    receivers  \* open receivers of the channel

feedVars == <<rows, log, sent>>

Key == Entity \cup LinkKey
Nil == 0
Kind == {"create", "update", "delete", "drop", "other"}
AuditEntry(kind, k) == [kind |-> kind, key |-> k]
Rows == [Key -> 0..Len(log)]

\* The document an entry says its mutation left.
After(id) == IF log[id].kind \in {"create", "update"} THEN id ELSE Nil

FeedTypeOK ==
    /\ rows \in Rows
    /\ log \in Seq([kind : Kind, key : Key \cup {0}])
    /\ sent \in Seq(1..Len(log))
    /\ receivers \in Nat

FeedInit ==
    /\ rows = [k \in Key |-> Nil]
    /\ log = <<>>
    /\ sent = <<>>
    /\ receivers = 0

----------------------------------------------------------------------------
Exists(k) == rows[k] # Nil

\* The mutation a request makes of its target, judged by what is stored.
KindOf(op) ==
    CASE op.delete -> "delete"
      [] ~op.delete /\ ~Exists(op.key) -> "create"
      [] OTHER -> "update"

\* A deletion needs its target; a link is created between entities that are
\* there, and never replaced.
Allowed(op) ==
    /\ op.delete => Exists(op.key)
    /\ op.key \in LinkKey /\ ~op.delete => ~Exists(op.key) /\ \E e \in Entity : Exists(e)

\* The operations, in order, on the rows and at the end of the log.
Write(ops) ==
    LET id(k) == CHOOSE n \in DOMAIN ops :
                     ops[n].key = k /\ \A m \in (n + 1)..Len(ops) : ops[m].key # k
    IN  /\ Len(log) + Len(ops) <= MaxLog
        /\ \A n \in DOMAIN ops : Allowed(ops[n])
        /\ rows' = [k \in Key |->
                      IF \A n \in DOMAIN ops : ops[n].key # k THEN rows[k]
                      ELSE IF ops[id(k)].delete THEN Nil ELSE Len(log) + id(k)]
        /\ log' = log \o [n \in DOMAIN ops |-> AuditEntry(KindOf(ops[n]), ops[n].key)]

\* An event published while nobody listens is lost.
publish(ids) == sent' = IF receivers = 0 THEN sent ELSE sent \o ids

\* A REST write of an entity: the event carries the id of the entry just made.
broadcast_entity_change(op) ==
    /\ op.key \in Entity
    /\ Write(<<op>>)
    /\ publish(<<Len(log) + 1>>)

\* The surfaces that do not publish: GraphQL and MCP mutations, rollbacks of a
\* collection or a transaction, and links on every surface.
WriteUnpublished(op) == Write(<<op>>) /\ UNCHANGED sent

\* Two operations of one REST transaction that phase 1 lets through together:
\* each is checked against the rows before the transaction.
Compatible(a, b) ==
    \/ a.key # b.key
    \/ /\ a.key \in Entity
       /\ <<KindOf(a), KindOf(b)>> \in
            {<<"create", "create">>, <<"update", "delete">>, <<"delete", "delete">>}

\* Mutant: looks through the whole log for the entry of a written entity.
EventOfWholeLog(ops, n) ==
    LET key(i) == IF i <= Len(log) THEN log[i].key ELSE ops[i - Len(log)].key
    IN  CHOOSE i \in 1..(Len(log) + Len(ops)) :
            key(i) = ops[n].key /\ \A j \in 1..(i - 1) : key(j) # ops[n].key

\* The id of the first entry of the transaction about the entity that its n-th
\* operation wrote.
EventOf(ops, n) ==
    Len(log) + CHOOSE i \in DOMAIN ops :
                   ops[i].key = ops[n].key /\ \A j \in 1..(i - 1) : ops[j].key # ops[n].key

\* A REST transaction of two operations: both entries are in the log before
\* the events of the written entities are published, in the order of the
\* writes.  There is no event for a link.
commit_transaction(a, b) ==
    LET ops == <<a, b>>
        event(n) == IF ops[n].key \in Entity THEN <<EventOf(ops, n)>> ELSE <<>>
    IN  /\ Write(ops)
        /\ Compatible(a, b)
        /\ publish(event(1) \o event(2))

\* The rows of the collection go, and one entry says so; links stay.
drop_collection ==
    /\ Len(log) < MaxLog
    /\ rows' = [k \in Key |-> IF k \in Entity THEN Nil ELSE rows[k]]
    /\ log' = Append(log, AuditEntry("drop", 0))
    /\ UNCHANGED sent

\* Schema, template, namespace and intent entries.
AppendOther ==
    /\ Len(log) < MaxLog
    /\ log' = Append(log, AuditEntry("other", 0))
    /\ UNCHANGED <<rows, sent>>

Op == [key : Key, delete : BOOLEAN]

FeedNext ==
    /\ \/ \E op \in Op : broadcast_entity_change(op)
       \/ \E op \in Op : WriteUnpublished(op)
       \/ \E a, b \in Op : commit_transaction(a, b)
       \/ drop_collection
       \/ AppendOther
    /\ UNCHANGED receivers
=============================================================================
