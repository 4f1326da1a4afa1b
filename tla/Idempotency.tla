---------------------------- MODULE Idempotency ----------------------------
(* Keyed transactions: the gateway reserves the idempotency key of a         *)
(* transaction before it runs it and caches the response                     *)
(* (axon-server/src/idempotency.rs, commit_transaction of gateway.rs); the   *)
(* GraphQL resolver only caches (commit_transaction_resolver of dynamic.rs). *)
(* A key stands for a (tenant:database, idempotency key) pair.  Deadlines    *)
(* are kept as the time left, so that the clock needs no bound.              *)
EXTENDS Integers

CONSTANTS Request,   \* request slots; a slot is reused, as by a retrying client
          Key,
          None,
          Surface,   \* a subset of {"http", "graphql"}
          TTL,       \* DEFAULT_IDEMPOTENCY_TTL, IDEMPOTENCY_TTL
          Timeout,   \* DEFAULT_TIMEOUT of a transaction
          Patience   \* no request takes longer than this

ASSUME IdempotencyAssumption ==
    /\ Surface \subseteq {"http", "graphql"}
    /\ TTL \in Nat \ {0} /\ Timeout \in Nat /\ Patience \in Nat
    /\ None \notin Request

\* Nobody waits for the handler as long as a reservation lives.
ASSUME PatienceAssumption == Patience < TTL

VARIABLES entries,  \* the gateway's store: status, the request whose response
                    \* it holds (None while pending), time left
          cache,    \* the GraphQL cache: as entries, never pending
          req,      \* the requests
          applied   \* per surface and key: how many commits are within their
                    \* lifetime, the latest of them, and its time left
vars == <<entries, cache, req, applied>>

Absent == [status |-> "absent", by |-> None, left |-> 0]
Entry == [status : {"absent", "pending", "ok", "forbidden"}, by : Request \cup {None}, left : Nat]
Idle == [phase |-> "idle", surface |-> "none", key |-> None, age |-> 0]
Phase == {"idle", "running", "ok", "forbidden", "failed"}

TypeOK ==
    /\ entries \in [Key -> Entry]
    /\ cache \in [Key -> Entry]
    /\ req \in [Request -> [phase : Phase, surface : {"http", "graphql", "none"},
                            key : Key \cup {None}, age : Nat]]
    /\ applied \in [Surface -> [Key -> [count : Nat, by : Request \cup {None}, left : Nat]]]

Init ==
    /\ entries = [k \in Key |-> Absent]
    /\ cache = [k \in Key |-> Absent]
    /\ req = [r \in Request |-> Idle]
    /\ applied = [s \in Surface |-> [k \in Key |-> [count |-> 0, by |-> None, left |-> 0]]]

----------------------------------------------------------------------------
(* The stores *)

\* As Evict, never forgetting a reservation.
EvictKeepsPending(es) ==
    [k \in Key |-> IF es[k].left > 0 \/ es[k].status = "pending" THEN es[k] ELSE Absent]

\* evict_expired_locked, and the retain of idempotency_cached
Evict(es) == [k \in Key |-> IF es[k].left > 0 THEN es[k] ELSE Absent]

Starts(r, s, k) ==
    req' = [req EXCEPT ![r] = [phase |-> "running", surface |-> s, key |-> k, age |-> 0]]

\* try_reserve: a reserved or answered key is answered at once (409 or the
\* cached response), another is reserved and the transaction runs.
TryReserve(r, k) ==
    LET es == Evict(entries)
    IN  /\ req[r] = Idle
        /\ IF es[k].status = "absent"
           THEN /\ entries' = [es EXCEPT ![k] = [status |-> "pending", by |-> None, left |-> TTL]]
                /\ Starts(r, "http", k)
           ELSE entries' = es /\ UNCHANGED req
        /\ UNCHANGED <<cache, applied>>

\* idempotency_cached, then the transaction runs unless there is a response.
LookUp(r, k) ==
    LET es == Evict(cache)
    IN  /\ req[r] = Idle
        /\ cache' = es
        /\ IF es[k].status = "absent" THEN Starts(r, "graphql", k) ELSE UNCHANGED req
        /\ UNCHANGED <<entries, applied>>

Submit(r, s, k) ==
    \/ s = "http" /\ TryReserve(r, k)
    \/ s = "graphql" /\ LookUp(r, k)

----------------------------------------------------------------------------
(* The transaction.  The gateway keeps the handler locked until it has       *)
(* answered; the resolver unlocks it before it caches.                       *)

LockFree == \A r \in Request : req[r].surface = "http" => req[r].phase \in {"idle", "running", "failed"}

Concludes(r, outcome) == req' = [req EXCEPT ![r].phase = outcome]

Commit(r) ==
    LET s == req[r].surface
        k == req[r].key
    IN  /\ req[r].phase = "running"
        /\ LockFree
        /\ req[r].age <= Timeout
        /\ Concludes(r, "ok")
        /\ applied' = [applied EXCEPT ![s][k] = [count |-> @.count + 1, by |-> r, left |-> TTL]]
        /\ UNCHANGED <<entries, cache>>

\* A terminal policy denial, which the gateway caches.
Deny(r) ==
    /\ req[r].phase = "running"
    /\ LockFree
    /\ Concludes(r, IF req[r].surface = "http" THEN "forbidden" ELSE "failed")
    /\ UNCHANGED <<entries, cache, applied>>

\* Staging, validation, the version checks or the timeout.
Fail(r) ==
    /\ req[r].phase = "running"
    /\ Concludes(r, "failed")
    /\ UNCHANGED <<entries, cache, applied>>

\* As Answer, leaving the deadline of the reservation on the response.
AnswerKeepsDeadline(r) ==
    LET k == req[r].key
        response == [status |-> req[r].phase, by |-> r, left |-> entries[k].left]
    IN  /\ req[r].phase \in {"ok", "forbidden", "failed"}
        /\ entries' = IF req[r].surface # "http" THEN entries
                      ELSE IF req[r].phase # "failed" THEN [entries EXCEPT ![k] = response]
                      ELSE IF entries[k].status = "pending" THEN [entries EXCEPT ![k] = Absent]
                      ELSE entries
        /\ cache' = IF req[r].surface = "graphql" /\ req[r].phase = "ok"
                    THEN [cache EXCEPT ![k] = [response EXCEPT !.left = TTL]] ELSE cache
        /\ req' = [req EXCEPT ![r] = Idle]
        /\ UNCHANGED applied

\* As Answer, caching policy denials only.
AnswerUncached(r) ==
    LET k == req[r].key
        response == [status |-> req[r].phase, by |-> r, left |-> TTL]
    IN  /\ req[r].phase \in {"ok", "forbidden", "failed"}
        /\ entries' = IF req[r].surface # "http" THEN entries
                      ELSE IF req[r].phase = "forbidden" THEN [entries EXCEPT ![k] = response]
                      ELSE IF entries[k].status = "pending" THEN [entries EXCEPT ![k] = Absent]
                      ELSE entries
        /\ cache' = IF req[r].surface = "graphql" /\ req[r].phase = "ok"
                    THEN [cache EXCEPT ![k] = response] ELSE cache
        /\ req' = [req EXCEPT ![r] = Idle]
        /\ UNCHANGED applied

\* store_response or release, or idempotency_store, and the answer.
Answer(r) ==
    LET k == req[r].key
        response == [status |-> req[r].phase, by |-> r, left |-> TTL]
    IN  /\ req[r].phase \in {"ok", "forbidden", "failed"}
        /\ entries' = IF req[r].surface # "http" THEN entries
                      ELSE IF req[r].phase # "failed" THEN [entries EXCEPT ![k] = response]
                      ELSE IF entries[k].status = "pending" THEN [entries EXCEPT ![k] = Absent]
                      ELSE entries
        /\ cache' = IF req[r].surface = "graphql" /\ req[r].phase = "ok"
                    THEN [cache EXCEPT ![k] = response] ELSE cache
        /\ req' = [req EXCEPT ![r] = Idle]
        /\ UNCHANGED applied

\* The client goes away and the request is dropped where it awaits the
\* handler; its reservation stays.
Cancel(r) ==
    /\ req[r].phase = "running"
    /\ req' = [req EXCEPT ![r] = Idle]
    /\ UNCHANGED <<entries, cache, applied>>

----------------------------------------------------------------------------
(* Time and restarts *)

Less(n) == IF n > 0 THEN n - 1 ELSE 0

\* A request that holds the handler awaits nothing before it answers: that
\* takes no time.
Tick ==
    /\ LockFree
    /\ \A r \in Request : req[r] # Idle => req[r].age < Patience
    /\ entries' = [k \in Key |-> [entries[k] EXCEPT !.left = Less(@)]]
    /\ cache' = [k \in Key |-> [cache[k] EXCEPT !.left = Less(@)]]
    /\ req' = [r \in Request |-> IF req[r] = Idle THEN Idle ELSE [req[r] EXCEPT !.age = @ + 1]]
    /\ applied' = [s \in Surface |-> [k \in Key |->
          IF applied[s][k].left > 1 THEN [applied[s][k] EXCEPT !.left = @ - 1]
          ELSE [count |-> 0, by |-> None, left |-> 0]]]

\* Both stores live in the process; so does what they can promise.
Crash ==
    /\ entries' = [k \in Key |-> Absent]
    /\ cache' = [k \in Key |-> Absent]
    /\ req' = [r \in Request |-> Idle]
    /\ applied' = [s \in Surface |-> [k \in Key |-> [count |-> 0, by |-> None, left |-> 0]]]

Serve(r) == Commit(r) \/ Deny(r) \/ Fail(r) \/ Answer(r)

Next ==
    \/ \E r \in Request, s \in Surface, k \in Key : Submit(r, s, k)
    \/ \E r \in Request : Serve(r) \/ Cancel(r)
    \/ Tick
    \/ Crash

\* The runtime polls a request that can go on, and requests do not stop the clock.
Fairness == SF_vars(Tick) /\ \A r \in Request : WF_vars(Serve(r))

Spec == Init /\ [][Next]_vars
FairSpec == Spec /\ Fairness

----------------------------------------------------------------------------
(* Properties *)

(* TXN-09 for the gateway: within the lifetime of a key's response its       *)
(* transaction is applied at most once, whatever duplicates, retries,        *)
(* cancellations and failures surround it, as long as no request outlives    *)
(* the reservation it made (PatienceAssumption).                             *)
HttpAppliedOnce ==
    \A s \in Surface \cap {"http"} : \A k \in Key : applied[s][k].count <= 1

(* A key is executed by one gateway request at a time, and that request's    *)
(* own reservation is still the entry of the store, so that what it stores   *)
(* or releases is its own.                                                   *)
OneInFlight ==
    \A r \in Request : req[r].surface = "http" =>
        /\ entries[req[r].key].status = "pending" /\ entries[req[r].key].left > 0
        /\ \A q \in Request \ {r} : ~(req[q].surface = "http" /\ req[q].key = req[r].key)

(* What a gateway replay returns is the response of the latest applied       *)
(* transaction of its key, for exactly the lifetime counted from its commit. *)
CachedIsApplied ==
    \A s \in Surface \cap {"http"} : \A k \in Key :
        entries[k].status = "ok" /\ entries[k].left > 0 =>
            /\ applied[s][k].count > 0
            /\ applied[s][k].by = entries[k].by
            /\ applied[s][k].left = entries[k].left

(* A reserved key does not stay blocked: even if the request that reserved   *)
(* it was dropped, the reservation ends (the TTL of a pending entry).        *)
Blocked(k) == Evict(entries)[k].status = "pending"
KeyIsFreed == \A k \in Key : Blocked(k) ~> ~Blocked(k)

(* TXN-09 for GraphQL: a concurrent duplicate is not applied a second time.  *)
GraphqlAppliedOnce ==
    \A s \in Surface \cap {"graphql"} : \A k \in Key : applied[s][k].count <= 1
=============================================================================
