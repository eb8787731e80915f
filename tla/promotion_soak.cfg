SPECIFICATION Spec
CONSTANTS
    Publishers = {p1}
    Operators = {o1}
    Versions = {1}
    Codes = {"c1", "c2"}
    Defs = {"d1", "d2"}
    FirstCheckout <- MCFirst
    Golden <- MCGolden
    Cores <- MCCores
    requires_core <- MCRequires
    Approvers = {a1}
    required_approvers = 1
    shadow_min_days = 1
    MaxPublications = 2
    MaxCommands = 4
    MaxEdits = 1
    MaxDays = 1
    MaxCrashes = 0
PROPERTIES
    SoakAlwaysEnforced
CHECK_DEADLOCK FALSE
