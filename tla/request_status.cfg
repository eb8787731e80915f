SPECIFICATION FairSpec
CONSTANTS
    Instances <- MCInstances
    MetadataWriters = {"m1", "m2"}
    MaxAttempts = 2
INVARIANTS
    ClaimsAreTrue
PROPERTIES
    NoPermanentFalsePending
CHECK_DEADLOCK FALSE
