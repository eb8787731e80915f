SPECIFICATION Spec
CONSTANTS
    Absent = Absent
    Requests = {"r1", "r2"}
    Poison = {}
    Broken = {}
    Features = {"f1"}
    DataTs <- MCDataTs
    Workers = {w1}
    MaxAttempts = 2
    MaxCrashes = 0
    MaxRebalances = 0
    MaxFaults = 1
INVARIANTS
    UncommittedIsReplayed
CHECK_DEADLOCK FALSE
