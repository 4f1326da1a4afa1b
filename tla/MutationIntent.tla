--------------------------- MODULE MutationIntent ---------------------------
(* Mutation intents: a write is previewed, perhaps approved, and committed   *)
(* later if what was reviewed still holds (axon-core/src/intent.rs,          *)
(* axon-api/src/intent.rs and the GraphQL and MCP surfaces).                 *)
(*                                                                           *)
(* Every call runs under the handler mutex, but the GraphQL resolvers read   *)
(* the clock before they wait for it: a request carries the time of its      *)
(* arrival.  A commit call is one step, because the storage transaction it   *)
(* runs is atomic (AxonProofs!Atomicity).                                    *)
EXTENDS Integers, Sequences, FiniteSets, FiniteSetsExt

CONSTANTS Intent,        \* intent ids (next_graphql_intent_id never repeats)
          Entity, Collection, CollectionOf,
          Operation,     \* operations: functions from the entities to a kind
          Lifetime,      \* expiresInSeconds
          Request,       \* calls in flight
          None,
          MaxTime, MaxWrites, MaxSchema, MaxTrail

Kind == {"create", "update", "delete"}
Decision == {"allow", "needs_approval", "deny"}
ApprovalState == {"none", "pending", "approved", "rejected", "expired", "committed"}
Call == {"preview", "get", "approve", "reject", "commit"}
Event == {"preview", "approve", "reject", "expire", "commit_failed", "write"}

ASSUME IntentAssumption ==
    /\ CollectionOf \in [Entity -> Collection]
    /\ \A op \in Operation :
          /\ op \in [DOMAIN op -> Kind]
          /\ DOMAIN op \in (SUBSET Entity) \ {{}} /\ IsFiniteSet(DOMAIN op)
    /\ Lifetime \subseteq Nat
    /\ {MaxTime, MaxWrites, MaxSchema, MaxTrail} \subseteq Nat

VARIABLES now,      \* the wall clock
          row,      \* entities: version (0: absent), the write that made the
                    \* document, and the write that created the entity
          stamp,    \* number of writes so far
          schema,   \* schema version of each collection; policy is part of it
          intents,  \* the mutation_intents table
          trail,    \* audit entries that carry an intent, per intent
          req       \* calls that have read the clock and wait for the handler
vars == <<now, row, stamp, schema, intents, trail, req>>

Row == [version : Nat, data : Nat, born : Nat]
Absent == [version |-> 0, data |-> 0, born |-> 0]
MutationIntent ==
    [op : Operation, decision : Decision, state : ApprovalState, expires : Nat, schemaVersion : Nat,
     reviewed : [row : [Entity -> Row], schema : [Collection -> Nat]]]

ASSUME NoneAssumption == None \notin MutationIntent \cup Intent

Idle == [call |-> "idle", intent |-> None, at |-> 0]

TypeOK ==
    /\ now \in Nat /\ stamp \in Nat
    /\ row \in [Entity -> Row]
    /\ schema \in [Collection -> Nat]
    /\ intents \in [Intent -> MutationIntent \cup {None}]
    /\ trail \in [Intent -> Seq(Event)]
    /\ req \in [Request -> [call : Call \cup {"idle"}, intent : Intent \cup {None}, at : Nat]]

Init ==
    /\ now = 0 /\ stamp = 0
    /\ row = [e \in Entity |-> Absent]
    /\ schema = [c \in Collection |-> 1]
    /\ intents = [i \in Intent |-> None]
    /\ trail = [i \in Intent |-> <<>>]
    /\ req = [r \in Request |-> Idle]

----------------------------------------------------------------------------
(* Entities and schemas change under the intents *)

Written(e, kind, s) ==
    CASE kind = "create" -> [version |-> 1, data |-> s, born |-> s]
      [] kind = "update" -> [version |-> row[e].version + 1, data |-> s, born |-> row[e].born]
      [] kind = "delete" -> Absent

\* A direct write of another client; create_entity replaces a living entity.
WriteEntity(e, kind) ==
    /\ stamp < MaxWrites
    /\ kind # "create" => row[e].version > 0
    /\ stamp' = stamp + 1
    /\ row' = [row EXCEPT ![e] = Written(e, kind, stamp + 1)]
    /\ UNCHANGED <<now, schema, intents, trail, req>>

PutSchema(c) ==
    /\ schema[c] < MaxSchema
    /\ schema' = [schema EXCEPT ![c] = @ + 1]
    /\ UNCHANGED <<now, row, stamp, intents, trail, req>>

Tick ==
    /\ now < MaxTime
    /\ now' = now + 1
    /\ UNCHANGED <<row, stamp, schema, intents, trail, req>>

----------------------------------------------------------------------------
(* Calls *)

\* current_time_ns, then handler.lock().await
Arrive(r, call, i) ==
    /\ req[r] = Idle
    /\ call \in {"preview", "get"} <=> i = None
    /\ call = "commit" => Len(trail[i]) < MaxTrail
    /\ req' = [req EXCEPT ![r] = [call |-> call, intent |-> i, at |-> now]]
    /\ UNCHANGED <<now, row, stamp, schema, intents, trail>>

Answered(r) == req' = [req EXCEPT ![r] = Idle]

Expirable == {"none", "pending", "approved"}

\* expire_due_with_audit: the due intents at time t, and both tables after it.
Due(t) == {i \in Intent : /\ intents[i] # None
                          /\ intents[i].expires <= t
                          /\ intents[i].state \in Expirable}
AfterExpiry(t) ==
    [i \in Intent |-> IF i \in Due(t) THEN [intents[i] EXCEPT !.state = "expired"] ELSE intents[i]]
TrailAfterExpiry(t) ==
    [i \in Intent |-> IF i \in Due(t) THEN Append(trail[i], "expire") ELSE trail[i]]

\* As SchemaVersion, taking the oldest.
SchemaVersionOldest(op) == Min({schema[CollectionOf[e]] : e \in DOMAIN op})

\* The version an operation is bound to: the newest schema among the
\* collections it touches (preview_transaction, schema_version_for_intent_operation).
SchemaVersion(op) == Max({schema[CollectionOf[e]] : e \in DOMAIN op})

\* preview_state_for_decision
PreviewState(d) == IF d = "needs_approval" THEN "pending" ELSE "none"

\* Preview computes the operation on the current rows; a create of a living
\* entity and an update or delete of a missing one are refused.
Preview(r, i, op, d, life) ==
    /\ req[r].call = "preview"
    /\ intents[i] = None
    /\ \A e \in DOMAIN op : op[e] = "create" <=> row[e].version = 0
    /\ intents' = [intents EXCEPT ![i] =
            [op |-> op, decision |-> d, state |-> PreviewState(d), expires |-> req[r].at + life,
             schemaVersion |-> SchemaVersion(op), reviewed |-> [row |-> row, schema |-> schema]]]
    /\ trail' = [trail EXCEPT ![i] = Append(@, "preview")]
    /\ Answered(r)
    /\ UNCHANGED <<now, row, stamp, schema>>

\* get and list materialise due expirations; so does every other call on an
\* existing intent, and the ones that are refused afterwards keep the expiry.
Refuse(r) ==
    /\ req[r].call \in Call \ {"preview"}
    /\ intents' = AfterExpiry(req[r].at)
    /\ trail' = TrailAfterExpiry(req[r].at)
    /\ Answered(r)
    /\ UNCHANGED <<now, row, stamp, schema>>

\* A preview that cannot be computed, a caller without the write grant, a
\* malformed token: refused before anything is read or expired.
RefuseEarly(r) ==
    /\ req[r] # Idle
    /\ Answered(r)
    /\ UNCHANGED <<now, row, stamp, schema, intents, trail>>

\* As Review, judging the intent before the expiry of what is due.
ReviewBeforeExpiry(r) ==
    LET i == req[r].intent
        verdict == IF req[r].call = "approve" THEN "approved" ELSE "rejected"
    IN  /\ req[r].call \in {"approve", "reject"}
        /\ intents[i] # None
        /\ intents[i].decision = "needs_approval"
        /\ intents[i].state = "pending"
        /\ intents' = [AfterExpiry(req[r].at) EXCEPT ![i].state = verdict]
        /\ trail' = [TrailAfterExpiry(req[r].at) EXCEPT ![i] = Append(@, req[r].call)]
        /\ Answered(r)
        /\ UNCHANGED <<now, row, stamp, schema>>

\* approve_with_audit and reject_with_audit, after the expiry of what is due.
Review(r) ==
    LET i == req[r].intent
        x == AfterExpiry(req[r].at)[i]
        verdict == IF req[r].call = "approve" THEN "approved" ELSE "rejected"
    IN  /\ req[r].call \in {"approve", "reject"}
        /\ intents[i] # None
        /\ x.decision = "needs_approval"
        /\ x.state = "pending"
        /\ intents' = [AfterExpiry(req[r].at) EXCEPT ![i].state = verdict]
        /\ trail' = [TrailAfterExpiry(req[r].at) EXCEPT ![i] = Append(@, req[r].call)]
        /\ Answered(r)
        /\ UNCHANGED <<now, row, stamp, schema>>

\* As CommitStateOK, taking any state that is not terminal.
CommitStateOKUnapproved(x, t) ==
    x.expires > t /\ x.state \notin {"expired", "rejected", "committed"}

\* As CommitStateOK, letting a committed token be used again.
CommitStateOKReplay(x, t) ==
    /\ x.expires > t
    /\ x.state \notin {"expired", "rejected"}
    /\ x.decision # "deny"
    /\ x.decision = "needs_approval" => x.state \in {"approved", "committed"}

\* validate_intent_commit_state at the request's time
CommitStateOK(x, t) ==
    /\ x.expires > t
    /\ x.state \notin {"expired", "rejected", "committed"}
    /\ x.decision # "deny"
    /\ x.decision = "needs_approval" => x.state = "approved"

\* As Stale, taking only an intent whose every entity changed as stale.
StaleWhenAll(x) ==
    \/ x.schemaVersion # SchemaVersion(x.op)
    \/ \A e \in {e \in DOMAIN x.op : x.op[e] # "create"} :
          row[e].version # x.reviewed.row[e].version

\* stale_commit_dimensions.  The surfaces pass the intent's own subject, so
\* the subject dimension never differs; policy_version is the schema version.
Bound(op) == {e \in DOMAIN op : op[e] # "create"}
Stale(x) ==
    \/ x.schemaVersion # SchemaVersion(x.op)
    \/ \E e \in Bound(x.op) : row[e].version # x.reviewed.row[e].version

\* The commit gets past the token and the state of the intent.
Resolves(r) ==
    LET i == req[r].intent
    IN  /\ req[r].call = "commit"
        /\ intents[i] # None
        /\ CommitStateOK(intents[i], req[r].at)

\* transaction_from_intent_operation reads the entities to update or delete.
Stages(op) == \A e \in Bound(op) : row[e].version > 0

\* The caller supplied an operation whose hash is not the stored one, or a
\* dimension is stale: append_commit_validation_failure_audit.
CommitInvalid(r, mismatch) ==
    LET i == req[r].intent
    IN  /\ Resolves(r)
        /\ mismatch \/ (Stages(intents[i].op) /\ Stale(intents[i]))
        /\ intents' = AfterExpiry(req[r].at)
        /\ trail' = [TrailAfterExpiry(req[r].at) EXCEPT ![i] = Append(@, "commit_failed")]
        /\ Answered(r)
        /\ UNCHANGED <<now, row, stamp, schema>>

\* What the commit call requires: a live token, no stale dimension, and the
\* version checks of the transaction itself (an entity to create is absent).
CommitOK(r) ==
    LET x == intents[req[r].intent]
    IN  /\ Resolves(r)
        /\ Stages(x.op)
        /\ ~Stale(x)
        /\ \A e \in DOMAIN x.op : x.op[e] = "create" => row[e].version = 0

\* commit_transaction_intent: the writes, their audit entries and the state
\* change are one storage transaction.
Commit(r) ==
    LET i == req[r].intent
        op == intents[i].op
    IN  /\ CommitOK(r)
        /\ stamp' = stamp + 1
        /\ row' = [e \in Entity |-> IF e \in DOMAIN op THEN Written(e, op[e], stamp + 1)
                                                       ELSE row[e]]
        /\ intents' = [AfterExpiry(req[r].at) EXCEPT ![i].state = "committed"]
        /\ trail' = [TrailAfterExpiry(req[r].at) EXCEPT ![i] =
                        @ \o [n \in 1..Cardinality(DOMAIN op) |-> "write"]]
        /\ Answered(r)
        /\ UNCHANGED <<now, schema>>

\* The process dies: calls in flight are lost, the tables are not.
Crash ==
    /\ \E r \in Request : req[r] # Idle
    /\ req' = [r \in Request |-> Idle]
    /\ UNCHANGED <<now, row, stamp, schema, intents, trail>>

Serve(r) ==
    \/ \E i \in Intent, op \in Operation, d \in Decision, life \in Lifetime :
          Preview(r, i, op, d, life)
    \/ Refuse(r) \/ RefuseEarly(r)
    \/ Review(r)
    \/ \E mismatch \in BOOLEAN : CommitInvalid(r, mismatch)
    \/ Commit(r)

Next ==
    \/ \E e \in Entity, kind \in Kind : WriteEntity(e, kind)
    \/ \E c \in Collection : PutSchema(c)
    \/ Tick
    \/ \E r \in Request, call \in Call, i \in Intent \cup {None} : Arrive(r, call, i)
    \/ \E r \in Request : Serve(r)
    \/ Crash

Spec == Init /\ [][Next]_vars

----------------------------------------------------------------------------
(* Properties *)

Occurrences(i, event) == Cardinality({n \in DOMAIN trail[i] : trail[i][n] = event})

(* Single use, and no partial commit: an intent's operation is written       *)
(* exactly when the intent is committed, once, one entry for each entity of  *)
(* the operation (commit_transaction_intent runs the state change in the     *)
(* transaction that writes).                                                 *)
WrittenOnce ==
    \A i \in Intent :
        LET done == intents[i] # None /\ intents[i].state = "committed"
        IN  Occurrences(i, "write") = IF done THEN Cardinality(DOMAIN intents[i].op) ELSE 0

(* The state of an intent is the one its audit entries account for: one      *)
(* preview, and one entry for each review or expiry that happened.           *)
TrailTellsState ==
    \A i \in Intent :
        IF intents[i] = None THEN trail[i] = <<>>
        ELSE /\ Occurrences(i, "preview") = 1
             /\ Occurrences(i, "reject") = IF intents[i].state = "rejected" THEN 1 ELSE 0
             /\ Occurrences(i, "expire") = IF intents[i].state = "expired" THEN 1 ELSE 0
             /\ intents[i].state = "approved" => Occurrences(i, "approve") = 1
             /\ intents[i].state = "pending" => Occurrences(i, "approve") = 0

(* Nothing is written for a denied intent, nor for one that needs approval   *)
(* before its approval was recorded.                                         *)
CommitsWereApproved ==
    \A i \in Intent : \A n \in DOMAIN trail[i] :
        trail[i][n] = "write" =>
            /\ intents[i].decision # "deny"
            /\ intents[i].decision = "needs_approval" =>
                  \E m \in 1..(n - 1) : trail[i][m] = "approve"

(* What a commit is about to overwrite is what was reviewed, unless the      *)
(* entity was created anew since (validate_commit_bindings).                 *)
ReviewedIsCommitted ==
    \A r \in Request :
        LET x == intents[req[r].intent]
        IN  CommitOK(r) => \A e \in Bound(x.op) :
                row[e].born = x.reviewed.row[e].born => row[e] = x.reviewed.row[e]

(* Of the collections an intent touches, one whose schema (and with it the   *)
(* policy) was the newest when the intent was previewed has not changed by   *)
(* the time of a commit.  A change of another one below it goes unnoticed,   *)
(* because the bound version is the maximum (schema_version_for_intent_      *)
(* operation).                                                               *)
NewestPolicyHolds ==
    \A r \in Request :
        LET x == intents[req[r].intent]
            before(e) == x.reviewed.schema[CollectionOf[e]]
        IN  CommitOK(r) => \A e \in DOMAIN x.op :
                (\A f \in DOMAIN x.op : before(f) <= before(e)) => schema[CollectionOf[e]] = before(e)

(* INT-06: an expired intent can be neither executed nor approved.           *)
CommitsInTime ==
    \A r \in Request : CommitOK(r) => now < intents[req[r].intent].expires

(* FEAT-030, edge cases: an intent whose policy or schema changed during     *)
(* approval is stale.                                                        *)
ChangedPolicyIsStale ==
    \A r \in Request :
        LET x == intents[req[r].intent]
        IN  CommitOK(r) => \A e \in DOMAIN x.op :
                schema[CollectionOf[e]] = x.reviewed.schema[CollectionOf[e]]
=============================================================================
