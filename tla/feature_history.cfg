SPECIFICATION Spec
CONSTANTS
    Absent = Absent
    Sources = {"s1", "s2"}
    Views <- MCViews
    Serving <- MCServing
    Claims <- MCClaims
    Workers = {w1, w2}
    Gaps = {0, 1}
    MaxClock = 2
    MaxReports = 3
    MaxComputes = 2
    MaxDeaths = 1
SYMMETRY WorkerSymmetry
INVARIANTS
    LoadedIsSound
    PlansRun
    DigestIsMeaning
    NoLookahead
    PitTwinsAgree
    OnlineFollowsHistory
PROPERTIES
    NoStaleOverwrite
CHECK_DEADLOCK FALSE
