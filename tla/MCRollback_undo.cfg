\* Two entities, one transaction of up to two operations, two instants.
SPECIFICATION Spec
CONSTANTS
    e1 = e1  e2 = e2  c1 = c1  d1 = d1  d2 = d2  Nil = Nil  NoTx = NoTx
    Id = {e1, e2}
    Collection = {c1}
    CollectionOf <- MCCollectionOf
    Data = {d1, d2}
    TxId = {"t1"}
    Ops <- UpToTwo
    PageSize = 4
    MaxLog = 4
    MaxTime = 1
SYMMETRY Symmetry
INVARIANTS
    LogAccounts
    CollectionRestored
    TransactionUndone
    VersionsNameStates
CHECK_DEADLOCK FALSE
