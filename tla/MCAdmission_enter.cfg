\* Two requests race three administrative requests on two tenants; a limit of
\* one write in a window of one tick.  Bounded requests may all be used up.
SPECIFICATION Spec
CONSTANTS
    Tenant = {t1, t2}
    Slug = {t1, t2}
    Default = t1
    User = {u1}
    Jti = {j1}
    Request = {r1, r2}
    Ttl = {0}
    Skew = 1
    MaxClock = 2
    MaxChanges = 3
    GivenRole = {"read"}
    Asked <- MCAsked
    MaxOpened = 2
    Actor = {a1}
    MaxWrites = 1
    Window = 1
    ActorOf <- MCActorOf
INVARIANTS LateRequestsRefused OneHandlerPerDatabase 
SYMMETRY MCSymmetry
CHECK_DEADLOCK FALSE
