SPECIFICATION FairSpec
CONSTANTS
    Events = {"e1", "e2", "e3"}
    RowsOf <- MCRowsOf
    Poison = {"e2"}
    Broken = {"e3"}
    Reactive = {"f"}
    NoFp = "none"
    NoAv = "none"
    Rerunners = {d1}
    RerunEvents = {"e1", "e3"}
    Workers = {w1, w2}
    MaxCopies = 1
    MaxAttempts = 2
    MaxRestarts = 1
    MaxFaults = 1
    MaxReruns = 1
INVARIANTS
    NoDuplicateRows
    CommittedIsSettled
PROPERTIES
    EveryEventSettles
CHECK_DEADLOCK FALSE
