SPECIFICATION EntrancesSpec
CONSTANTS
    Publishers = {p1, p2}
    Operators = {o1}
    Versions = {1}
    Codes = {"c1", "c2"}
    Defs = {"d1", "d2"}
    FirstCheckout <- MCFirst
    Golden <- MCGolden
    Cores <- MCCores
    requires_core <- MCRequires
    Approvers = {a1}
    required_approvers = 1
    shadow_min_days = 1
    MaxPublications = 2
    MaxCommands = 3
    MaxEdits = 1
    MaxDays = 1
    MaxCrashes = 1
    Landings = {"l1", "l2", "l3"}
    Reports <- MCReports
    fail_fast = {"l1"}
    created_at <- MCCreated
    Source_of <- MCSource
    Runs = {"d", "t", "b"}
    Kind <- MCKind
    Groups <- MCGroups
    write_online = {"t", "b"}
    Reactive = {"x1", "x3", "x5"}
    Absent = Absent
    Writes = {"s1", "s2", "s3", "s4", "bad"}
    Scores <- MCScores
    Unusable = {"bad"}
    scores_online = {"s1", "s2", "s3", "bad"}
    scores_offline = {"s1", "s2", "s4"}
    MaxPosts = 4
    MaxInterruptions = 2
SYMMETRY PublisherSymmetry
INVARIANTS
    OneWheelPerVersion
    ServedIsTested
    JobItemsResolve
    AvailabilityAudited
    DurableFirst
    ScoresSettled
PROPERTIES
    SoakEnforced
CHECK_DEADLOCK FALSE
