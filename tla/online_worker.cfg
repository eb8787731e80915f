SPECIFICATION FairSpec
CONSTANTS
    Absent = Absent
    Requests = {"r1", "r2"}
    Poison = {}
    Broken = {"r1"}
    Features = {"f1", "f2"}
    DataTs <- MCDataTs
    Workers = {w1, w2}
    MaxAttempts = 2
    MaxCrashes = 1
    MaxRebalances = 1
    MaxFaults = 1
INVARIANTS
    NoSilentLoss
    ResultImpliesDownstream
PROPERTIES
    ExpiredIsFinal
    EveryRequestSettles
CHECK_DEADLOCK FALSE
