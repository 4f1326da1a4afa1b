\* Two GraphQL requests with one key at the same time.
SPECIFICATION Spec
CONSTANTS
    k1 = k1  k2 = k2  r1 = r1  r2 = r2  r3 = r3  None = None
    Request = {r1, r2}
    Key = {k1}
    Surface = {"graphql"}
    TTL = 3
    Timeout = 1
    Patience = 2
SYMMETRY Slots
INVARIANTS
    GraphqlAppliedOnce
