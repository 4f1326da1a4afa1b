\* Two entities and a link between them, unforced single-operation requests
\* and one transaction: who can leave the link without its target.
SPECIFICATION Spec
CONSTANTS
    e1 = e1  e2 = e2  l1 = l1  ents = ents  lnks = lnks
    d1 = d1  d2 = d2  keep = keep  LinkDoc = LinkDoc  Nil = Nil
    s1 = s1  s2 = s2
    CollectionOf <- MCCollectionOf
    Source <- MCSource
    Target <- MCTarget
    Merge <- MCMerge
    Collection = {ents, lnks}
    Id = {e1, e2}
    Link = {l1}
    Data = {d1}
    Patch = {}
    Session = {s1}
    Level = {"snapshot"}
    CounterGuard = FALSE
    MaxOps = 2
    MaxReads = 0
    Expected = {1}
    MaxLog = 5
    MaxChurn = 0
    MaxDirect = 5
    AbortMayFail = FALSE
    CommitMayFail = TRUE
    ForceFlag = {FALSE}
SYMMETRY SymmetrySet
PROPERTIES
    LinksLoseTargetsToTransactions
CHECK_DEADLOCK FALSE
