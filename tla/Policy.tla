------------------------------- MODULE Policy -------------------------------
(* Access-control policies of a collection, as the handler evaluates them:   *)
(* predicates over a document and its subject, operation and field rules,    *)
(* approval envelopes, and the explanation of a decision.                    *)
(*                                                                           *)
(* A document maps fields to integers, Null, or Missing when the field is    *)
(* not there.  A policy plan is a record:                                    *)
(*   operations: functions from operations to [allow, deny] sets of rules,   *)
(*   read, write: functions from fields to [allow, deny] sets of rules,      *)
(*   envelopes: set of [on, when, decision].                                 *)
(* A context is [subject, operation, data, id, related]: `related' holds the *)
(* ids whose links reach an entity the subject may use.                      *)
EXTENDS Documents, Sequences, FiniteSets

CONSTANT PredicateDepth  \* the predicates of the policies, each with its depth

Predicate == DOMAIN PredicateDepth

Subpredicates(p) ==
    CASE p.k \in {"all", "any"} -> {p.of[n] : n \in DOMAIN p.of}
      [] p.k = "not" -> {p.of}
      [] OTHER -> {}

Comparisons == {"eq", "ne", "in", "is_null", "not_null", "gt", "gte", "lt", "lte",
                "eq_subject", "contains_subject"}

\* A compiled predicate is a finite tree.
ASSUME PredicateAssumption ==
    \A p \in Predicate :
        /\ p.k \in {"always", "all", "any", "not", "compare", "operation", "related", "shares_relation"}
        /\ p.k = "compare" => p.op \in Comparisons
        /\ p.k \in {"all", "any"} => DOMAIN p.of \subseteq Nat
        /\ PredicateDepth[p] \in Nat
        /\ \A q \in Subpredicates(p) : q \in Predicate /\ PredicateDepth[q] < PredicateDepth[p]

\* The values a path selects in a document: at most one, paths being plain.
policy_values_at_path(data, f) == {data[f]} \ {Missing}

policy_subject_value(ctx, name) == ctx.subject[name]

policy_comparison_matches(c, ctx) ==
    LET values  == IF c.target = "field" THEN policy_values_at_path(ctx.data, c.name)
                   ELSE {policy_subject_value(ctx, c.name)} \ {Missing}
        some(os) == \E v \in values : compare_values(v, c.value) \in os
    IN  CASE c.op = "eq"  -> c.value \in values
          [] c.op = "ne"  -> c.value \notin values
          [] c.op = "in"  -> values \cap c.value # {}
          [] c.op = "is_null" -> (values \subseteq {Null}) = c.value
          [] c.op = "not_null" -> (values \ {Null} # {}) = c.value
          [] c.op = "gt"  -> some({"Greater"})
          [] c.op = "gte" -> some({"Greater", "Equal"})
          [] c.op = "lt"  -> some({"Less"})
          [] c.op = "lte" -> some({"Less", "Equal"})
          [] c.op \in {"eq_subject", "contains_subject"} ->
               policy_subject_value(ctx, c.value) \in values

\* Only a document that carries its id can be looked up among the links.
policy_related_matches(ctx) == ctx.id \in ctx.related

\* One level of a predicate, the levels below being known.
MatchesBy(matches, p, ctx) ==
    CASE p.k = "always"    -> TRUE   \* no predicate
      [] p.k = "all"       -> \A n \in DOMAIN p.of : matches[p.of[n]]
      [] p.k = "any"       -> \E n \in DOMAIN p.of : matches[p.of[n]]
      [] p.k = "not"       -> ~matches[p.of]
      [] p.k = "compare"   -> policy_comparison_matches(p, ctx)
      [] p.k = "operation" -> p.of = ctx.operation
      [] p.k = "related"   -> policy_related_matches(ctx)
      [] p.k = "shares_relation" -> FALSE

policy_predicate_matches(p, ctx) ==
    LET matches[q \in Predicate] == MatchesBy(matches, q, ctx) IN matches[p]

\* What a predicate is worth without a document: a set of one truth value,
\* or the empty set when it takes a document to know.
StaticBy(static, p, ctx) ==
    LET sub == {static[p.of[n]] : n \in DOMAIN p.of}
    IN  CASE p.k = "always"    -> {TRUE}
          [] p.k = "all"       -> IF {FALSE} \in sub THEN {FALSE} ELSE IF {} \in sub THEN {} ELSE {TRUE}
          [] p.k = "any"       -> IF {TRUE} \in sub THEN {TRUE} ELSE IF {} \in sub THEN {} ELSE {FALSE}
          [] p.k = "not"       -> {~b : b \in static[p.of]}
          [] p.k = "operation" -> {p.of = ctx.operation}
          [] p.k = "compare" /\ p.target = "subject" -> {policy_comparison_matches(p, ctx)}
          [] OTHER -> {}

policy_static_predicate_matches(p, ctx) ==
    LET static[q \in Predicate] == StaticBy(static, q, ctx) IN static[p]

combine_static_and(a, b) ==
    IF FALSE \in a \cup b THEN {FALSE} ELSE IF {} \in {a, b} THEN {} ELSE {TRUE}

policy_rule_matches(r, ctx) ==
    policy_predicate_matches(r.when, ctx) /\ policy_predicate_matches(r.where, ctx)

policy_rule_static_matches(r, ctx) ==
    combine_static_and(policy_static_predicate_matches(r.when, ctx),
                       policy_static_predicate_matches(r.where, ctx))

Writes == {"create", "update", "delete"}

\* The policies, and envelopes, of an operation and of `write' for it.
Governing(operation) == {operation} \cup (IF operation \in Writes THEN {"write"} ELSE {})

applicable_operation_policies(plan, operation) ==
    {plan.operations[o] : o \in Governing(operation) \cap DOMAIN plan.operations}

applicable_policy_envelopes(plan, operation) ==
    {e \in plan.envelopes : e.on \in Governing(operation)}

\* Any matching deny rule wins; allow rules, once there are any, must match.
Denied(allow, deny, matches(_)) ==
    (\E r \in deny : matches(r)) \/ (allow # {} /\ \A r \in allow : ~matches(r))

policy_operation_denial_label(plan, ctx) ==
    LET policies == applicable_operation_policies(plan, ctx.operation)
        matches(r) == policy_rule_matches(r, ctx)
    IN  Denied(UNION {p.allow : p \in policies}, UNION {p.deny : p \in policies}, matches)

policy_operation_allows(plan, ctx) == ~policy_operation_denial_label(plan, ctx)

\* Mutant: an undecided allow rule counts as one that does not match.
effective_allows_only_decided(plan, ctx) ==
    LET policies == applicable_operation_policies(plan, ctx.operation)
        allow == UNION {p.allow : p \in policies}
    IN  /\ \A r \in UNION {p.deny : p \in policies} : policy_rule_static_matches(r, ctx) # {TRUE}
        /\ allow # {} => \E r \in allow : policy_rule_static_matches(r, ctx) = {TRUE}

effective_operation_allows_static(plan, ctx) ==
    LET policies == applicable_operation_policies(plan, ctx.operation)
        allow == UNION {p.allow : p \in policies}
    IN  /\ \A r \in UNION {p.deny : p \in policies} : policy_rule_static_matches(r, ctx) # {TRUE}
        /\ allow # {} => \E r \in allow : policy_rule_static_matches(r, ctx) # {FALSE}

\* The same, for the rules of one field.
field_denied(rules, ctx) ==
    LET matches(r) == policy_rule_matches(r, ctx) IN Denied(rules.allow, rules.deny, matches)

field_denied_static(rules, ctx) ==
    LET matches(r) == policy_rule_static_matches(r, ctx) # {FALSE}
    IN  Denied(rules.allow, rules.deny, matches)

field_read_redactions(plan, ctx) ==
    {f \in DOMAIN plan.read : field_denied(plan.read[f], [ctx EXCEPT !.operation = "read"])}

effective_redacted_static(plan, ctx) ==
    {f \in DOMAIN plan.read : field_denied_static(plan.read[f], [ctx EXCEPT !.operation = "read"])}

----------------------------------------------------------------------------
(* Writes.  A check is [operation, current, candidate, touched]: the stored  *)
(* document (NoDocument for a create), the one to be stored, and the fields  *)
(* the write touches.  Neither document carries its id.                      *)
NoDocument == [none |-> TRUE]

On(ctx, operation, data) == [ctx EXCEPT !.operation = operation, !.data = data, !.id = Missing]

enforce_field_write_policy(plan, ctx, check) ==
    \A f \in DOMAIN plan.write \cap check.touched :
        ~field_denied(plan.write[f], On(ctx, check.operation, check.candidate))

\* The decision of the envelopes that apply: a deny over a needs_approval.
enforce_policy_envelopes(plan, ctx, check) ==
    LET met == {e.decision : e \in {x \in applicable_policy_envelopes(plan, check.operation) :
                   policy_predicate_matches(x.when, On(ctx, check.operation, check.candidate))}}
    IN  IF "deny" \in met THEN "deny" ELSE IF "needs_approval" \in met THEN "needs_approval" ELSE "allow"

\* Ok, or the first refusal, in the order the checks are made.
enforce_write_policy(plan, ctx, check, approval_envelopes_satisfied) ==
    LET by(envelopes) ==
            CASE envelopes = "deny" -> "row_write_denied"
              [] envelopes = "needs_approval" /\ ~approval_envelopes_satisfied -> "needs_approval"
              [] OTHER -> "ok"
    IN  IF \/ check.current # NoDocument
              /\ ~policy_operation_allows(plan, On(ctx, "read", check.current))
           \/ ~policy_operation_allows(plan, On(ctx, check.operation, check.candidate))
        THEN "row_write_denied"
        ELSE IF ~enforce_field_write_policy(plan, ctx, check) THEN "field_write_denied"
        ELSE by(enforce_policy_envelopes(plan, ctx, check))

\* The explanation of the same write, evaluated on its own.
explain_operation_policy_response(plan, ctx) ==
    LET policies == applicable_operation_policies(plan, ctx.operation)
        hit(rules) == {r \in rules : policy_rule_matches(r, ctx)}
    IN  CASE hit(UNION {p.deny : p \in policies}) # {} -> "deny"
          [] /\ \E p \in policies : p.allow # {}
             /\ hit(UNION {p.allow : p \in policies}) = {} -> "deny"
          [] OTHER -> "allow"

explain_field_write_policy(plan, ctx, check) ==
    {f \in DOMAIN plan.write \cap check.touched :
        field_denied(plan.write[f], On(ctx, check.operation, check.candidate))}

\* Mutant: the envelopes of `write' are not explained.
explain_own_envelopes(plan, ctx, check) ==
    LET met(d) == \E e \in plan.envelopes : e.on = check.operation /\ e.decision = d
            /\ policy_predicate_matches(e.when, On(ctx, check.operation, check.candidate))
    IN  IF met("deny") THEN "deny" ELSE IF met("needs_approval") THEN "needs_approval" ELSE "allow"

explain_policy_envelopes(plan, ctx, check) ==
    LET met(d) == \E e \in applicable_policy_envelopes(plan, check.operation) :
            e.decision = d /\ policy_predicate_matches(e.when, On(ctx, check.operation, check.candidate))
    IN  IF met("deny") THEN "deny" ELSE IF met("needs_approval") THEN "needs_approval" ELSE "allow"

explain_write_policy_response(plan, ctx, check) ==
    CASE check.current # NoDocument
           /\ explain_operation_policy_response(plan, On(ctx, "read", check.current)) = "deny" -> "deny"
      [] explain_operation_policy_response(plan, On(ctx, check.operation, check.candidate)) = "deny" -> "deny"
      [] explain_field_write_policy(plan, ctx, check) # {} -> "deny"
      [] OTHER -> explain_policy_envelopes(plan, ctx, check)
=============================================================================
