----------------------------- MODULE Admission -----------------------------
(* A request's way into the data plane: its credential is verified, the     *)
(* handler of its database is looked up, and a write asks the rate limiter. *)
EXTENDS Credentials, TenantRouter, RateLimit

CONSTANTS ActorOf      \* the caller each request comes from

ASSUME OneActorEach == ActorOf \in [Request -> Actor]
ASSUME SlugPerTenant == Slug = Tenant

vars == <<credentialVars, routerVars, limitVars>>

Phase == {"idle", "revocation", "remember", "user", "member",
          "verified", "create", "check", "admitted"}

\* The requests that hold a handler, and the handlers they hold.
Holding == {r \in Request : reqs[r].phase \in {"check", "admitted"}}
Held == {reqs[r].handler : r \in Holding}

\* The stores, the router and the limiter hold what their types say; no deque
\* outgrows the limit.
TypeOK ==
    /\ CredentialsTypeOK
    /\ RouterTypeOK
    /\ \A r \in Request : reqs[r].phase \in Phase
    /\ \A r \in Holding : reqs[r].handler \in Handler
    /\ \A a \in Actor : Len(windows[a]) <= MaxWrites

Init == CredentialsInit /\ RouterInit /\ LimitInit(0..MaxClock)

\* A read runs under the handler it was given; a write first reads the clock
\* and queues for the limiter's lock.
Enter(r, h) ==
    reqs' = [reqs EXCEPT ![r] =
               IF @.op = "Write"
               THEN [@ EXCEPT !.phase = "check", !.handler = h, !.now = clock]
               ELSE [phase |-> "admitted", t |-> @.t, dead |-> @.dead, handler |-> h]]

\* The fast path: a cached handler under the read lock.
resolve_tenant_handler(r) ==
    /\ reqs[r].phase = "verified"
    /\ IF handlers[reqs[r].t] # NoHandler
       THEN Enter(r, handlers[reqs[r].t])
       ELSE Proceed(r, "create")
    /\ UNCHANGED <<stores, handlers_, cache, clock, changes, routerVars, limitVars>>

\* The slow path, or an error opening the database.
CreateHandler(r) ==
    /\ reqs[r].phase = "create"
    /\ \/ get_or_create(reqs[r].t) /\ Enter(r, handlers'[reqs[r].t])
       \/ Refuse(r) /\ UNCHANGED routerVars
    /\ UNCHANGED <<stores, handlers_, cache, clock, changes, limitVars>>

check(r) ==
    /\ reqs[r].phase = "check"
    /\ check_at(ActorOf[r], reqs[r].now)
    /\ IF Limited(ActorOf[r], reqs[r].now) THEN Refuse(r)
       ELSE reqs' = [reqs EXCEPT ![r] = [phase |-> "admitted", t |-> @.t, dead |-> @.dead,
                                         handler |-> @.handler]]
    /\ UNCHANGED <<stores, handlers_, cache, clock, changes, routerVars>>

\* The operation itself, under the handler's mutex, and the response.
Finish(r) ==
    /\ reqs[r].phase = "admitted"
    /\ Refuse(r)
    /\ UNCHANGED <<stores, handlers_, cache, clock, changes, routerVars, limitVars>>

Drop(s) ==
    /\ \/ drop_database(s) /\ changes < MaxChanges /\ changes' = changes + 1
       \/ deprovision_postgres_database(s, Held) /\ UNCHANGED changes
    /\ UNCHANGED <<stores, handlers_, cache, reqs, clock, limitVars>>

\* A restart forgets everything that is not stored.
Restart ==
    /\ issuing' = Idle /\ revoking' = Idle /\ deleting' = Idle
    /\ cache' = {}
    /\ reqs' = [r \in Request |-> Idle]
    /\ handlers' = [s \in Slug |-> NoHandler]
    /\ dropping' = {} /\ torn' = {}
    /\ windows' = [a \in Actor |-> <<>>]
    /\ passed' = [a \in Actor |-> [t \in 0..MaxClock |-> 0]]
    /\ changes < MaxChanges /\ changes' = changes + 1
    /\ UNCHANGED <<stores, clock, backend, physical, opened>>

Next ==
    \/ Administer /\ UNCHANGED <<routerVars, limitVars>>
    \/ Tick /\ Forget(clock + 1) /\ UNCHANGED <<changes, routerVars>>
    \/ \E r \in Request :
          \/ Verify(r) /\ UNCHANGED <<changes, routerVars, limitVars>>
          \/ resolve_tenant_handler(r)
          \/ CreateHandler(r)
          \/ check(r)
          \/ Finish(r)
    \/ \E s \in Slug : Drop(s)
    \/ Restart

Spec == Init /\ [][Next]_vars

----------------------------------------------------------------------------
Verified == {r \in Request : reqs[r].phase \in
               {"verified", "create", "check", "admitted"}}

\* A request that begins after its credential was revoked, its user suspended
\* or its tenant deleted never gets past verify_request_inner, whatever the
\* control plane does between its lookups, and also after a restart.  The one
\* exception is a tenant whose deletion has begun: its revocations are the
\* first thing to go.
LateRequestsRefused ==
    \A r \in Verified :
        /\ reqs[r].dead \cap {"suspended", "deleted"} = {}
        /\ "revoked" \in reqs[r].dead => reqs[r].t \in wiped

\* Two handlers over one physical database are never in use or cached at the
\* same time, except when a drop_database is under way or failed: get_or_create
\* looks again under the write lock.
OneHandlerPerDatabase ==
    \A g, h \in Held \cup {handlers[s] : s \in Slug} :
        g # h /\ g.slug = h.slug /\ g.inc = h.inc => g.slug \in dropping \cup torn

\* The writes let through with an instant of the last window: the i-th of
\* those with instant t is <<t, i>>.
Recent(a) ==
    UNION {{t} \X (1..passed[a][t]) : t \in {u \in 0..clock : u >= clock - Window}}

\* However late a check gets the limiter's lock, the writes let through with
\* an instant of the last window are at most max_writes.
WindowBound == \A a \in Actor : Cardinality(Recent(a)) <= MaxWrites
============================================================================
