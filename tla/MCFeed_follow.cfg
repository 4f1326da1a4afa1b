\* Three entries, two entities and a link, a channel of two events, pages of
\* one entry, two failures.
SPECIFICATION FairSpec
CONSTANTS
    Entity = {1, 2}
    LinkKey = {3}
    MaxLog = 3
    Capacity = 2
    PageLimit = 1
    MaxFaults = 2
    Role = {"watch", "live", "capture"}
INVARIANTS
    
    LiveCatchesUp
    CompactionKeepsState
    ReplicaConverges
PROPERTIES
    PublishedIsShown
    
CHECK_DEADLOCK FALSE
