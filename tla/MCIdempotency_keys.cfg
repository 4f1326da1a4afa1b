\* Three requests with one key on both surfaces, with cancellations and
\* restarts; a request never outlives its reservation.
SPECIFICATION FairSpec
CONSTANTS
    k1 = k1  k2 = k2  r1 = r1  r2 = r2  r3 = r3  None = None
    Request = {r1, r2, r3}
    Key = {k1}
    Surface = {"http", "graphql"}
    TTL = 3
    Timeout = 1
    Patience = 2
INVARIANTS
    HttpAppliedOnce
    CachedIsApplied
PROPERTIES
    KeyIsFreed
