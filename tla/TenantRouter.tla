---------------------------- MODULE TenantRouter ----------------------------
(* The map from a tenant's database to the one handler that serves it.      *)
(* Every request on the database goes through the handler's mutex, which is *)
(* what makes its operations atomic: two handlers over one database would   *)
(* each lock only itself.  The backend is fixed when the router is made but *)
(* shows only in how a database is dropped, so the first drop reveals it.   *)
EXTENDS Integers, FiniteSets

CONSTANTS Slug,        \* "{tenant}:{database}"
          MaxOpened    \* bound on the handlers opened

ASSUME OpenedIsBounded == MaxOpened \in Nat

VARIABLES backend,     \* the backends the router may have
          handlers,    \* the router's cache
          physical,    \* the database under each slug: its incarnation, 0 if none
          opened,      \* handlers opened so far
          dropping,    \* slugs whose PostgreSQL database is about to be dropped
          torn         \* slugs a drop did not get to remove (history)

routerVars == <<backend, handlers, physical, opened, dropping, torn>>

NoHandler == [n |-> 0, inc |-> 0, slug |-> "none"]
Handler == [n : 1..MaxOpened, inc : 1..MaxOpened, slug : Slug]

RouterTypeOK ==
    /\ backend \subseteq {"sqlite", "postgres"}
    /\ handlers \in [Slug -> Handler \cup {NoHandler}]
    /\ physical \in [Slug -> 0..MaxOpened]
    /\ opened \in 0..MaxOpened
    /\ dropping \subseteq Slug /\ torn \subseteq Slug

RouterInit ==
    /\ backend = {"sqlite", "postgres"}
    /\ handlers = [s \in Slug |-> NoHandler]
    /\ physical = [s \in Slug |-> 0]
    /\ opened = 0
    /\ dropping = {} /\ torn = {}

\* The database is created when it is not there, and opened when it is.
OpenedOver(s) == [n |-> opened + 1, slug |-> s,
                  inc |-> IF physical[s] = 0 THEN opened + 1 ELSE physical[s]]

Open(s) ==
    /\ opened < MaxOpened
    /\ opened' = opened + 1
    /\ physical' = [physical EXCEPT ![s] = OpenedOver(s).inc]
    /\ handlers' = [handlers EXCEPT ![s] = OpenedOver(s)]
    /\ UNCHANGED <<backend, dropping, torn>>

\* Slip: the write lock is taken and the handler created without looking again.
create_unchecked(s) == Open(s)

\* The slow path: under the write lock, look again, then create.
get_or_create(s) ==
    \/ handlers[s] # NoHandler /\ UNCHANGED routerVars
    \/ handlers[s] = NoHandler /\ Open(s)

\* One file: the write lock is held until it is removed.
DropFile(s) ==
    /\ "sqlite" \in backend /\ backend' = {"sqlite"}
    /\ handlers' = [handlers EXCEPT ![s] = NoHandler]
    /\ \/ /\ physical' = [physical EXCEPT ![s] = 0]
          /\ UNCHANGED torn
       \/ /\ physical[s] # 0
          /\ torn' = torn \cup {s}
          /\ UNCHANGED physical
    /\ UNCHANGED <<opened, dropping>>

\* One PostgreSQL database: the lock is released before the database goes.
ForgetHandler(s) ==
    /\ "postgres" \in backend /\ backend' = {"postgres"}
    /\ s \notin dropping
    /\ handlers' = [handlers EXCEPT ![s] = NoHandler]
    /\ dropping' = dropping \cup {s}
    /\ UNCHANGED <<physical, opened, torn>>

\* PostgreSQL refuses to drop a database somebody is connected to.
deprovision_postgres_database(s, held) ==
    /\ s \in dropping
    /\ dropping' = dropping \ {s}
    /\ LET connected == \E h \in held \cup {handlers[s]} : h.slug = s /\ h.inc = physical[s]
       IN  IF connected
           THEN torn' = torn \cup {s} /\ UNCHANGED physical
           ELSE physical' = [physical EXCEPT ![s] = 0] /\ UNCHANGED torn
    /\ UNCHANGED <<backend, handlers, opened>>

\* The call takes effect at once on a file, and in two steps on PostgreSQL.
drop_database(s) == DropFile(s) \/ ForgetHandler(s)
============================================================================
