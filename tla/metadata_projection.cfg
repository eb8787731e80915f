SPECIFICATION FairSpec
CONSTANTS
    Writers = {w1, w2}
    Conflicting = {"requested"}
    MaxRedeliveries = 1
    MaxFaults = 1
    Published = {"requested", "offline_requested", "completed", "dlq_online"}
INVARIANTS
    Converges
PROPERTIES
    TerminalNeverRegresses
    OutcomeProjected
CHECK_DEADLOCK FALSE
