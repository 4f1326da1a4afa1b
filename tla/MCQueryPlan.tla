----------------------------- MODULE MCQueryPlan -----------------------------
(* Small instances of the query and policy modules: documents of two fields  *)
(* with a value, null or nothing in each, three schemas, and three policies  *)
(* that between them use every kind of rule, predicate and envelope.         *)
EXTENDS TransactionPolicy, TLC
CONSTANTS i1, i2, f, g, role

Doc(x, y) == (f :> x) @@ (g :> y)
MCDocument == {Doc(1, 2), Doc(2, Null), Doc(Missing, 1)}
Symmetry == Permutations(Id)
Decl(idx, uniq, comp) == [idx |-> idx, uniq |-> uniq, comp |-> comp, compUniq |-> TRUE]
MCSchema == {Decl({f}, {}, << >>), Decl({f, g}, {f}, << <<f, g>> >>), Decl({g}, {}, << <<g, f>> >>)}
MCSubject == {role :> 1, role :> Null, role :> Missing}

Is(name, op, v) == [k |-> "field", name |-> name, op |-> op, value |-> v]
MCFilterDepth ==
    [c \in {[k |-> "none"], Is(f, "eq", 1), Is(f, "gt", 1), Is(f, "lte", 1), Is(f, "eq", Null), Is(f, "in", {1, 2}),
            Is(f, "ne", 2), Is(g, "eq", 2), Is(g, "lt", 2)} |-> 0] @@
    [c \in {[k |-> "and", of |-> <<Is(f, "ne", 2), Is(g, "eq", 2)>>],
            [k |-> "or", of |-> <<Is(f, "eq", 1), Is(g, "lt", 2)>>]} |-> 1]

Always == [k |-> "always"]
If(target, name, op, v) == [k |-> "compare", target |-> target, name |-> name, op |-> op, value |-> v]
Rule(when, where) == [when |-> when, where |-> where]
Rules(allow, deny) == [allow |-> allow, deny |-> deny]
Operator == If("subject", role, "eq", 1)
Owned == If("field", f, "eq_subject", role)
Or(a, b) == [k |-> "any", of |-> <<a, b>>]
And(a, b) == [k |-> "all", of |-> <<a, b>>]
Not(a) == [k |-> "not", of |-> a]
Nothing == Rules({}, {})
For(op, r) == op :> r

Anyone == Or(Owned, [k |-> "related"])
Small == And(If("field", g, "in", {1, 2}), If("field", f, "lte", 1))
MCPredicateDepth ==
    [p \in {Always, Operator, Owned, [k |-> "related"]}
           \cup {[k |-> "operation", of |-> o] : o \in {"read", "update"}}
           \cup {If("field", f, x[1], x[2]) : x \in {<<"eq", 1>>, <<"ne", 1>>, <<"gte", 2>>, <<"lte", 1>>,
                                                    <<"is_null", TRUE>>, <<"not_null", TRUE>>}}
           \cup {If("field", g, x[1], x[2]) : x \in {<<"eq", 1>>, <<"lt", 2>>, <<"in", {1, 2}>>}} |-> 0] @@
    [p \in {Anyone, Small, Not(Operator)} |-> 1]

MCPlan == {
    \* no row rules; writes of f for operators only, and of small ones after approval
    [operations |-> For("write", Rules({Rule(Always, Always)}, {})),
     read |-> f :> Rules({Rule(Operator, Always)}, {}),
     write |-> f :> Rules({}, {Rule(Not(Operator), Always)}),
     envelopes |-> {[on |-> "write", when |-> If("field", g, "lt", 2), decision |-> "needs_approval"]}],
    \* rows one owns or is related to; nothing of f = 2 is deleted
    [operations |-> For("read", Rules({Rule(Always, Anyone)}, {}))
                    @@ For("delete", Rules({}, {Rule(Always, If("field", f, "gte", 2))})),
     read |-> g :> Rules({}, {Rule(Always, If("field", f, "is_null", TRUE))}),
     write |-> g :> Rules({Rule(Always, Owned)}, {}),
     envelopes |-> {[on |-> "update", when |-> If("field", f, "ne", 1), decision |-> "deny"],
                    [on |-> "write", when |-> [k |-> "operation", of |-> "update"], decision |-> "needs_approval"]}],
    \* two allow rules and a deny rule on reads
    [operations |-> For("read", Rules({Rule(Operator, Small),
                                       Rule([k |-> "operation", of |-> "read"], If("field", g, "eq", 1))},
                                      {Rule(Not(Operator), If("field", f, "not_null", TRUE))})),
     read |-> f :> Nothing,
     write |-> f :> Rules({Rule(Always, If("field", f, "eq", 1))}, {}),
     envelopes |-> {}] }

Step(kind, i, d, patch) == [kind |-> kind, id |-> i, data |-> d, patch |-> patch]
Update == {Step("update", i, Doc(1, 1), << >>) : i \in Id}
Patch == {Step("patch", i, << >>, p) : i \in Id, p \in {g :> 1, f :> Null}}
Other == {Step("create", i, Doc(2, 1), << >>) : i \in Id} \cup {Step("delete", i, << >>, << >>) : i \in Id}
MCSteps == {<<s>> : s \in Update \cup Patch \cup Other} \cup {p \in Update \X Other : p[1].id # p[2].id}
=============================================================================
