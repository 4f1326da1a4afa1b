-------------------------- MODULE TransactionPolicy --------------------------
(* The policy of a transaction, twice: the explanation a preview gives, which *)
(* threads the documents the earlier steps leave through the later ones, and  *)
(* the enforcement at commit, which reads every document from storage.        *)
(*                                                                            *)
(* A step is [kind, id, data, patch]: `data' for a create or an update,       *)
(* `patch', a function from some of the fields, for a patch.                  *)
EXTENDS QueryPlan

CONSTANT Steps    \* transactions clients preview and commit: sequences of steps

ASSUME StepsAssumption ==
    /\ NoDocument \notin Document
    /\ \A ops \in Steps :
          /\ Len(ops) \in Nat /\ DOMAIN ops = 1..Len(ops)
          /\ \A n \in DOMAIN ops :
                /\ ops[n].kind \in {"create", "update", "patch", "delete"} /\ ops[n].id \in Id
                /\ ops[n].kind = "patch" => ops[n].patch # NoDocument

\* A null takes the field away.
json_merge_patch(d, patch) ==
    [f \in Field |-> IF f \notin DOMAIN patch THEN d[f] ELSE IF patch[f] = Null THEN Missing ELSE patch[f]]

\* FieldWriteScope::PresentFields
PresentFields(d) == {f \in Field : policy_values_at_path(d, f) # {}}

Stored(i) == IF rows[i] = Absent THEN NoDocument ELSE rows[i].data

----------------------------------------------------------------------------
(* Explanation                                                               *)

Check(operation, current, candidate, touched) ==
    [operation |-> operation, current |-> current, candidate |-> candidate, touched |-> touched]

explain_create_policy(plan, ctx, s) ==
    explain_write_policy_response(plan, ctx, Check("create", NoDocument, s.data, PresentFields(s.data)))

explain_update_policy_with_shadow(plan, ctx, s, current) ==
    explain_write_policy_response(plan, ctx, Check("update", current, s.data, PresentFields(s.data)))

explain_patch_policy_with_shadow(plan, ctx, s, current) ==
    explain_write_policy_response(plan, ctx,
        Check("update", current, json_merge_patch(current, s.patch), DOMAIN s.patch))

explain_delete_policy_with_shadow(plan, ctx, s, current) ==
    explain_write_policy_response(plan, ctx, Check("delete", current, current, PresentFields(current)))

\* The document carries its id here, so that relations are looked up.
explain_read_policy_with_shadow(plan, ctx, s, current) ==
    explain_operation_policy_response(plan,
        [ctx EXCEPT !.operation = "read", !.data = current, !.id = s.id])

\* The decision on a step and the shadows after it; "error" for a document
\* that is not there.
explain_transaction_step(plan, ctx, s, shadows) ==
    LET current == IF shadows[s.id] # NoDocument THEN shadows[s.id] ELSE Stored(s.id)
        to(d) == [shadows EXCEPT ![s.id] = d]
        step(decision, after) == [decision |-> decision, shadows |-> after]
    IN  CASE s.kind = "create" -> step(explain_create_policy(plan, ctx, s), to(s.data))
          [] s.kind # "create" /\ current = NoDocument -> step("error", shadows)
          [] s.kind = "update" /\ current # NoDocument ->
               step(explain_update_policy_with_shadow(plan, ctx, s, current), to(s.data))
          [] s.kind = "patch" /\ current # NoDocument ->
               step(explain_patch_policy_with_shadow(plan, ctx, s, current),
                    to(json_merge_patch(current, s.patch)))
          [] s.kind = "delete" /\ current # NoDocument ->
               step(explain_delete_policy_with_shadow(plan, ctx, s, current), to(NoDocument))
          [] s.kind = "read" /\ current # NoDocument ->
               step(explain_read_policy_with_shadow(plan, ctx, s, current), shadows)

\* Deny over needs_approval over allow; an error is the answer to the request.
strictest(seen) ==
    CASE "error" \in seen -> "error"
      [] "deny" \in seen /\ "error" \notin seen -> "deny"
      [] seen \cap {"error", "deny"} = {} ->
           IF "needs_approval" \in seen THEN "needs_approval" ELSE "allow"

\* What was decided so far, and the shadows, with one more step.
explained(so_far, plan, ctx, s) ==
    LET r == explain_transaction_step(plan, ctx, s, so_far.shadows)
    IN  [seen |-> so_far.seen \cup {r.decision}, shadows |-> r.shadows]

Unexplained == [seen |-> {}, shadows |-> [i \in Id |-> NoDocument]]

explain_transaction_inner(plan, ctx, ops) ==
    LET after[n \in 0..Len(ops)] ==
            IF n = 0 THEN Unexplained ELSE explained(after[n - 1], plan, ctx, ops[n])
    IN  strictest(after[Len(ops)].seen)

----------------------------------------------------------------------------
(* Enforcement                                                               *)

\* The staged operation: a patch is merged into the stored document when it
\* is staged.  GraphQL and MCP stage it with its patch (patch_update), the HTTP
\* gateway as an update of the whole document.
Stage(s, surface) ==
    [mutation |-> IF s.kind = "patch" THEN "update" ELSE s.kind,
     id |-> s.id,
     data |-> CASE s.kind = "patch" -> json_merge_patch(Stored(s.id), s.patch)
                [] s.kind = "delete" -> Stored(s.id)
                [] OTHER -> s.data,
     scope |-> IF s.kind = "patch" /\ surface # "gateway" THEN s.patch ELSE NoDocument]

transaction_write_scope(op) ==
    IF op.scope = NoDocument THEN PresentFields(op.data) ELSE DOMAIN op.scope

enforce_transaction_policy(plan, ctx, ops, approval_envelopes_satisfied) ==
    LET check(op) == Check(op.mutation,
                           IF op.mutation = "create" THEN NoDocument ELSE Stored(op.id),
                           op.data, transaction_write_scope(op))
    IN  \A n \in DOMAIN ops :
            enforce_write_policy(plan, ctx, check(ops[n]), approval_envelopes_satisfied) = "ok"

----------------------------------------------------------------------------
\* Every step finds its document and none touches what another one did.
Plain(ops) ==
    /\ \A n \in DOMAIN ops : ops[n].kind # "create" => rows[ops[n].id] # Absent
    /\ \A m, n \in DOMAIN ops : ops[m].id = ops[n].id => m = n

(* The explanation of a transaction foretells its commit, when no two of its *)
(* steps are about the same entity: it is allowed exactly when the commit    *)
(* goes through, and needs approval exactly when the commit goes through     *)
(* only with an approval.  So it is for the patches GraphQL and MCP stage.   *)
(* The gateway's have the scope of a whole document instead of the patch's,  *)
(* so that field rules may decide otherwise than was explained; a step of    *)
(* another kind is staged alike by all.                                      *)
PreviewForetellsCommit ==
    \A plan \in Plan, subject \in Subject, ops \in Steps : Plain(ops) =>
        LET ctx == Ctx(subject, "update", NoDocument, Missing, {})
            surfaces == IF \E n \in DOMAIN ops : ops[n].kind = "patch" THEN {"graphql"}
                        ELSE {"graphql", "gateway"}
            commits(surface, approved) == enforce_transaction_policy(plan, ctx,
                [n \in DOMAIN ops |-> Stage(ops[n], surface)], approved)
            foretold(said) == \A surface \in surfaces, approved \in BOOLEAN :
                commits(surface, approved) = (said \in {"allow"} \cup IF approved THEN {"needs_approval"} ELSE {})
        IN  foretold(explain_transaction_inner(plan, ctx, ops))
=============================================================================
