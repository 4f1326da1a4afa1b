\* One session of a read, a scan and a write among direct writes to two
\* entities: stale reads, phantoms, new incarnations, failed commits and
\* aborts, crashes.
SPECIFICATION Spec
CONSTANTS
    e1 = e1  e2 = e2  l1 = l1  ents = ents  lnks = lnks
    d1 = d1  d2 = d2  keep = keep  LinkDoc = LinkDoc  Nil = Nil
    s1 = s1  s2 = s2
    CollectionOf <- MCCollectionOf
    Source <- MCSource
    Target <- MCTarget
    Merge <- MCMerge
    Collection = {ents}
    Id = {e1, e2}
    Link = {}
    Data = {d1, d2}
    Patch = {keep}
    Session = {s1}
    Level = {"snapshot", "serializable", "strict"}
    CounterGuard = TRUE
    MaxOps = 1
    MaxReads = 1
    Expected = {1, 2}
    MaxLog = 4
    MaxChurn = 3
    MaxDirect = 2
    AbortMayFail = TRUE
    CommitMayFail = TRUE
    ForceFlag = {FALSE}
SYMMETRY SymmetrySet
INVARIANTS
    TypeOK
    AuditReplays
    SerializableReadsHold
    StagedImagesHonest
    ScannedMembershipHolds
    StrictContentsHold
CHECK_DEADLOCK FALSE
