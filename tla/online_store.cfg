SPECIFICATION Spec
CONSTANTS
    Absent = Absent
    Keys = {k1, k2}
    Writers = {w1, w2}
    Results <- MCResults
    MaxCalls = 2
SYMMETRY MCSymmetry
INVARIANTS
    TypeOK
    LatestWins
    ReportTruthful
    TwinsAgree
PROPERTIES
    ReplayIsNoop
    ImplementsLatestRegister
CHECK_DEADLOCK FALSE
