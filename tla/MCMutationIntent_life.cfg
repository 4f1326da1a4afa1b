\* One intent, on one entity or on two in two collections, two calls in
\* flight, other writes, schema changes, expiry and restarts.
SPECIFICATION Spec
CONSTANTS
    a = a  b = b  ca = ca  cb = cb
    i1 = i1  r1 = r1  r2 = r2  None = None
    Intent = {i1}
    Entity = {a, b}
    Collection = {ca, cb}
    CollectionOf <- TwoCollections
    Operation <- MCOperation
    Lifetime = {1}
    Request = {r1, r2}
    MaxTime = 1
    MaxWrites = 3
    MaxSchema = 2
    MaxTrail = 3
SYMMETRY Calls
INVARIANTS
    TrailTellsState
    WrittenOnce
    CommitsWereApproved
    ReviewedIsCommitted
    NewestPolicyHolds
CHECK_DEADLOCK FALSE
