----------------------------- MODULE QueryPlan ------------------------------
(* Reading a collection: the filter of a query and the read policy of the    *)
(* collection are both looked up in the secondary indexes where the latest   *)
(* schema declares one, and evaluated on every row that comes back.          *)
(*                                                                           *)
(* Candidate ids are a set, or Scan when nothing narrows the rows down.      *)
EXTENDS Indexes, Policy

CONSTANTS
    FilterDepth, \* filters clients send and their parts, each with its depth
    Plan,        \* compiled policies of the collection
    Subject,     \* subjects of requests: functions from names to values
    CostLimit    \* POLICY_POST_FILTER_COST_LIMIT

Filter == DOMAIN FilterDepth

ASSUME FilterAssumption ==
    \A c \in Filter :
        /\ c.k \in {"none", "field", "and", "or"}
        /\ c.k = "field" => c.op \in {"eq", "ne", "in", "gt", "gte", "lt", "lte"}
        /\ FilterDepth[c] \in Nat
        /\ c.k \in {"and", "or"} => \A n \in DOMAIN c.of :
              n \in Nat /\ c.of[n] \in Filter /\ FilterDepth[c.of[n]] < FilterDepth[c]

PolicyRule == [when : Predicate, where : Predicate]
PolicyRules == [allow : SUBSET PolicyRule, deny : SUBSET PolicyRule]

ASSUME PlanAssumption ==
    /\ \A plan \in Plan :
          /\ \A o \in DOMAIN plan.operations : plan.operations[o] \in PolicyRules
          /\ \A f \in DOMAIN plan.read : plan.read[f] \in PolicyRules
          /\ \A f \in DOMAIN plan.write : plan.write[f] \in PolicyRules
          /\ \A e \in plan.envelopes : e.when \in Predicate
    /\ \A p \in Predicate : p.k = "compare" /\ p.op \in {"gt", "gte", "lt", "lte"} =>
          p.value \in Value \cup {Null}

Scan == [k |-> "scan"]
Narrow(ids) == [k |-> "ids", ids |-> ids]

Ctx(subject, operation, data, id, related) ==
    [subject |-> subject, operation |-> operation, data |-> data, id |-> id, related |-> related]

----------------------------------------------------------------------------
(* Filters                                                                   *)

apply_field_filter(c, d) ==
    LET is(os) == compare_values(d[c.name], c.value) \in os
    IN  CASE c.op = "eq"  -> d[c.name] = c.value
          [] c.op = "ne"  -> d[c.name] # c.value
          [] c.op = "in"  -> d[c.name] \in c.value
          [] c.op = "gt"  -> is({"Greater"})
          [] c.op = "gte" -> is({"Greater", "Equal"})
          [] c.op = "lt"  -> is({"Less"})
          [] c.op = "lte" -> is({"Less", "Equal"})

AppliesBy(applies, c, d) ==
    CASE c.k = "none"  -> TRUE
      [] c.k = "field" -> apply_field_filter(c, d)
      [] c.k = "and"   -> \A n \in DOMAIN c.of : applies[c.of[n]]
      [] c.k = "or"    -> \E n \in DOMAIN c.of : applies[c.of[n]]

apply_filter(c, d) ==
    LET applies[q \in Filter] == AppliesBy(applies, q, d) IN applies[c]

----------------------------------------------------------------------------
(* Index lookups                                                             *)

Indexed == Declared(Latest).idx

index_lookup(f, v) == {e.id : e \in {x \in single : x.field = f /\ x.value = v}}

index_range(f, op, v) ==
    {e.id : e \in {x \in single : x.field = f /\
        CASE op = "gt" -> x.value > v [] op = "gte" -> x.value >= v
          [] op = "lt" -> x.value < v [] op = "lte" -> x.value <= v}}

try_index_lookup(c) ==
    LET usable(q) == q.k = "field" /\ q.name \in Indexed
        eq(q) == usable(q) /\ q.op = "eq" /\ q.value \in Value
        range(q) == usable(q) /\ q.op \in {"gt", "gte", "lt", "lte"} /\ q.value \in Value
        eqs == IF c.k = "and" THEN {n \in DOMAIN c.of : eq(c.of[n])} ELSE {}
    IN  CASE eq(c) -> Narrow(index_lookup(c.name, c.value))
          [] range(c) -> Narrow(index_range(c.name, c.op, c.value))
          [] eqs # {} ->   \* the first equality with an index
               LET q == c.of[CHOOSE n \in eqs : \A m \in eqs : n <= m]
               IN  Narrow(index_lookup(q.name, q.value))
          [] OTHER -> Scan

----------------------------------------------------------------------------
(* The read policy as candidate ids.  A plan for a rule is "all" rows, an    *)
(* "indexed" set of ids, or "unindexed" with the field that lacks an index.  *)

All == [k |-> "all"]
Ids(s) == [k |-> "indexed", ids |-> s]
Unindexed(f) == [k |-> "unindexed", missing |-> f]

policy_comparison_candidate_plan(c, ctx) ==
    LET lookup(v) == IF v \in Value THEN index_lookup(c.name, v) ELSE {}
    IN  IF c.target # "field" THEN Unindexed(Missing)
        ELSE IF c.name \notin Indexed THEN Unindexed(c.name)
        ELSE CASE c.op = "eq" -> Ids(lookup(c.value))
          [] c.op \in {"eq_subject", "contains_subject"} ->
               Ids(lookup(policy_subject_value(ctx, c.value)))
          [] c.op = "in" -> Ids(UNION {lookup(v) : v \in c.value})
          [] c.op \in {"gt", "gte", "lt", "lte"} ->
               Ids(IF c.value \in Value THEN index_range(c.name, c.op, c.value) ELSE {})
          [] OTHER -> Unindexed(c.name)

policy_related_candidate_plan(ctx) == Ids(ctx.related)

CandidatesBy(candidates, p, ctx) ==
    LET sub == [n \in DOMAIN p.of |-> candidates[p.of[n]]]
        is(k) == {n \in DOMAIN sub : sub[n].k = k}
        sets == {sub[n].ids : n \in is("indexed")}
        first(S) == sub[CHOOSE n \in S : \A m \in S : n <= m]
    IN  CASE p.k = "all" -> IF is("unindexed") # {} THEN first(is("unindexed"))
                            ELSE IF sets = {} THEN All
                            ELSE Ids({i \in UNION sets : \A s \in sets : i \in s})
          [] p.k = "any" -> IF is("all") \cup is("unindexed") = {} THEN Ids(UNION sets)
                            ELSE first(is("all") \cup is("unindexed"))
          [] p.k = "compare" -> policy_comparison_candidate_plan(p, ctx)
          [] p.k = "related" -> policy_related_candidate_plan(ctx)
          [] p.k = "operation" /\ p.of = "read" -> All
          [] OTHER -> Unindexed(Missing)

policy_predicate_candidate_plan(p, ctx) ==
    LET candidates[q \in Predicate] == CandidatesBy(candidates, q, ctx) IN candidates[p]

policy_rule_candidate_plan(r, ctx) ==
    LET when == policy_static_predicate_matches(r.when, ctx)
    IN  IF when = {FALSE} THEN Ids({})
        ELSE IF when = {} THEN Unindexed(Missing)
        ELSE IF r.where.k = "always" THEN All
        ELSE policy_predicate_candidate_plan(r.where, ctx)

\* Mutant: the rules without an index are left out of the candidates.
plan_from_indexed_rules_only(plan, ctx) ==
    LET none == [allow |-> {}, deny |-> {}]
        policy == IF "read" \in DOMAIN plan.operations THEN plan.operations["read"] ELSE none
        indexed == {x \in {policy_rule_candidate_plan(r, ctx) : r \in policy.allow} : x.k = "indexed"}
    IN  [candidates |-> IF indexed = {} THEN Scan ELSE Narrow(UNION {x.ids : x \in indexed}),
         post_filter |-> TRUE, missing_index |-> FALSE]

plan_read_policy_storage_filters(plan, ctx) ==
    LET none == [allow |-> {}, deny |-> {}]
        policy == IF "read" \in DOMAIN plan.operations THEN plan.operations["read"] ELSE none
        rule(r) == policy_rule_candidate_plan(r, ctx)
        allow == {rule(r) : r \in policy.allow}
        un == {x \in allow \cup {rule(r) : r \in policy.deny} : x.k = "unindexed"}
    IN  [candidates |-> IF \A x \in allow : x.k = "indexed"
                        THEN IF allow = {} THEN Scan ELSE Narrow(UNION {x.ids : x \in allow})
                        ELSE Scan,
         post_filter |-> policy.deny # {} \/ \E x \in allow : x.k = "unindexed",
         missing_index |-> \E x \in un : x.missing # Missing]

----------------------------------------------------------------------------
(* query_entities                                                            *)

combine_candidate_ids(a, b) ==
    CASE a = Scan -> b
      [] b = Scan -> a
      [] OTHER -> Narrow(a.ids \cap b.ids)

Live == {i \in Id : rows[i] # Absent}

\* entity_policy_data: a stored document with its id.
read_policy_allows_entity(plan, subject, related, i) ==
    policy_operation_allows(plan, Ctx(subject, "read", rows[i].data, i, related))

Candidates(c, plan, subject, related) ==
    LET ctx == Ctx(subject, "read", [f \in Field |-> Missing], Missing, related)
    IN  combine_candidate_ids(try_index_lookup(c), plan_read_policy_storage_filters(plan, ctx).candidates)

\* Too many rows to evaluate a policy on that an index would have narrowed.
policy_filter_unindexed(c, plan, subject, related) ==
    LET ctx == Ctx(subject, "read", [f \in Field |-> Missing], Missing, related)
        storage == plan_read_policy_storage_filters(plan, ctx)
        found == Candidates(c, plan, subject, related)
        scope == IF found = Scan THEN Live ELSE found.ids
    IN  storage.post_filter /\ storage.missing_index /\ Cardinality(scope) > CostLimit

Fetched(found) == IF found = Scan THEN Live ELSE found.ids \cap Live

Refused == [k |-> "policy_filter_unindexed"]

\* The rows fetched, each filtered again.
query_entities(c, plan, subject, related) ==
    IF policy_filter_unindexed(c, plan, subject, related) THEN Refused
    ELSE Narrow({i \in Fetched(Candidates(c, plan, subject, related)) :
                    /\ apply_filter(c, rows[i].data)
                    /\ read_policy_allows_entity(plan, subject, related, i)})

\* Mutant: rows without the field are counted and in no group.
count_without_null_group(c, f) ==
    LET matched == {i \in Fetched(try_index_lookup(c)) : apply_filter(c, rows[i].data)}
    IN  [total |-> Cardinality(matched),
         groups |-> {[key |-> k, count |-> Cardinality({i \in matched : rows[i].data[f] = k})] :
                         k \in {rows[i].data[f] : i \in matched} \ {Missing, Null}}]

\* The total and, by the value of a field, the groups; Null stands for a
\* missing value as well.  Counts are not subject to the policy.
count_entities(c, f) ==
    LET matched == {i \in Fetched(try_index_lookup(c)) : apply_filter(c, rows[i].data)}
        key(i) == IF rows[i].data[f] = Missing THEN Null ELSE rows[i].data[f]
    IN  [total |-> Cardinality(matched),
         groups |-> {[key |-> k, count |-> Cardinality({i \in matched : key(i) = k})] :
                         k \in {key(i) : i \in matched}}]

----------------------------------------------------------------------------
\* The index of f has seen every row: nothing was written under a version that
\* did not declare it.
Current(f) == \A i \in Live : f \in Declared(rows[i].under).idx

\* Every row has a value of f for its index.
Total(f) == \A i \in Live : rows[i].data[f] \in Value

\* The index of a field answers like the documents do.
Faithful(c) == c.name \in Indexed => Current(c.name) /\ (c.op \in {"lt", "lte"} => Total(c.name))

\* try_index_lookup looks at a filter and at the parts of a conjunction.
FaithfulFilter(c) ==
    /\ c.k = "field" => Faithful(c)
    /\ c.k = "and" => \A n \in DOMAIN c.of : c.of[n].k = "field" => Faithful(c.of[n])

\* What a comparison of the policy looks up.
Comparands(p, subject) ==
    CASE p.op = "in" -> p.value
      [] p.op \in {"eq_subject", "contains_subject"} -> {subject[p.value]}
      [] OTHER -> {p.value}

\* The comparisons that candidate ids are taken from.  A null is in no index.
FaithfulBy(faithful, p, subject) ==
    CASE p.k \in {"all", "any"} -> \A n \in DOMAIN p.of : faithful[p.of[n]]
      [] p.k = "compare" /\ p.target = "field" ->
           p.name \in Indexed => Faithful(p) /\ Null \notin Comparands(p, subject)
      [] OTHER -> TRUE

FaithfulPredicate(p, subject) ==
    LET faithful[q \in Predicate] == FaithfulBy(faithful, q, subject) IN faithful[p]

FaithfulPlan(plan, subject) ==
    "read" \in DOMAIN plan.operations =>
        \A r \in plan.operations["read"].allow : FaithfulPredicate(r.where, subject)

\* What a query should return: the rows that match, of those the policy shows.
Expected(c, plan, subject, related) ==
    {i \in Live : apply_filter(c, rows[i].data) /\ read_policy_allows_entity(plan, subject, related, i)}

(* A query that is not refused answers what a scan of the collection would,  *)
(* whichever indexes its filter and the read policy went through, once the   *)
(* indexes it uses have seen every row.  (They need not have: a schema that  *)
(* adds an index builds nothing.  And rows without the field are `less' for  *)
(* a filter or a policy and in no index.)                                    *)
QueryEqualsScan ==
    versions # <<>> =>
    \A c \in Filter, plan \in Plan, subject \in Subject, related \in SUBSET Id :
        FaithfulFilter(c) /\ FaithfulPlan(plan, subject) =>
            query_entities(c, plan, subject, related) \in {Refused, Narrow(Expected(c, plan, subject, related))}

(* The groups of a count add up to its total, and the total is that of a     *)
(* scan, with or without an index.                                           *)
CountsAddUp ==
    \A c \in Filter, f \in Field :
        LET r == count_entities(c, f)
            size(k) == (CHOOSE x \in r.groups : x.key = k).count
            keys == {x.key : x \in r.groups}
        IN  /\ FaithfulFilter(c) => r.total = Cardinality({i \in Live : apply_filter(c, rows[i].data)})
            /\ Cardinality(r.groups) = Cardinality(keys)
            /\ r.total = Cardinality(UNION {{k} \X (1..size(k)) : k \in keys})

(* IDX-14 and IDX-15 of the index feature: a scan produces the same results   *)
(* as the indexed path would, a new index not being used until it is built.   *)
(* What a query for one value of a field finds is what a scan finds.          *)
IndexBuiltBeforeUse ==
    \A f \in Field, v \in Value :
        LET c == [k |-> "field", name |-> f, op |-> "eq", value |-> v]
        IN  {i \in Live : apply_field_filter(c, rows[i].data)} \subseteq Fetched(try_index_lookup(c))

(* What effective_policy says of a subject with no row at hand stands for     *)
(* every row there is: an operation it denies is denied on each, a field it  *)
(* leaves out of the redacted ones is shown in each, unless one of the allow *)
(* rules of the field looks at the row.                                      *)
EffectivePolicyIsSound ==
    \A plan \in Plan, subject \in Subject, related \in SUBSET Id, i \in Live :
        LET ctx(op) == Ctx(subject, op, rows[i].data, i, related)
            looks(f) == \E r \in plan.read[f].allow : policy_rule_static_matches(r, ctx("read")) = {}
        IN  /\ \A op \in Writes \cup {"read"} :
                  policy_operation_allows(plan, ctx(op)) => effective_operation_allows_static(plan, ctx(op))
            /\ \A f \in field_read_redactions(plan, ctx("read")) :
                  f \in effective_redacted_static(plan, ctx("read")) \/ looks(f)
=============================================================================
