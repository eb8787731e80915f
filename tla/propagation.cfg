SPECIFICATION FairSpec
CONSTANTS
    Base = {"a", "z"}
    Derived <- MCDerived
    Deps <- MCDeps
    Version <- MCVersion
    Skipping = {"e"}
    Rows <- MCRows
    Epoch = 2
    Ticks = {1}
    Delays = {0}
    Round = 2
    Poisoned = TRUE
    MaxUpdates = 2
    MaxInterruptions = 1
INVARIANTS
    HeldUntilRecomputed
    CaughtUp
PROPERTIES
    PropagationEnds
CHECK_DEADLOCK FALSE
