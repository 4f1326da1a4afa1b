\* Two entities and two sessions of up to two operations each: interleaved
\* staging, conflicting and partial commits, crashes in the middle of one.
SPECIFICATION Spec
CONSTANTS
    e1 = e1  e2 = e2  l1 = l1  ents = ents  lnks = lnks
    d1 = d1  d2 = d2  keep = keep  LinkDoc = LinkDoc  Nil = Nil
    s1 = s1  s2 = s2
    CollectionOf <- MCCollectionOf
    Source <- MCSource
    Target <- MCTarget
    Merge <- MCMerge
    Collection = {ents}
    Id = {e1, e2}
    Link = {}
    Data = {d1}
    Patch = {}
    Session = {s1, s2}
    Level = {"snapshot"}
    CounterGuard = FALSE
    MaxOps = 2
    MaxReads = 0
    Expected = {1}
    MaxLog = 3
    MaxChurn = 0
    MaxDirect = 0
    AbortMayFail = FALSE
    CommitMayFail = FALSE
    ForceFlag = {FALSE}
SYMMETRY SymmetrySet
PROPERTIES
    ImplementsLedger
    CommitIsAtomic
CHECK_DEADLOCK FALSE
