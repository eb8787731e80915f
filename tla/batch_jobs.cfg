SPECIFICATION FairSpec
CONSTANTS
    Chunks = {"c1", "c2"}
    Order <- MCOrder
    Jobs <- MCJobs
    Workers = {"w1", "w2"}
    ItemCount = 2
    Bad <- MCBad
    MaxRefresh = 1
    MaxSubmits = 2
    MaxCrashes = 1
    MaxFaults = 1
INVARIANTS
    FinishedIsDurable
    NoChunkLost
PROPERTIES
    JobFinishes
CHECK_DEADLOCK FALSE
