SPECIFICATION AuditFairSpec
CONSTANTS
    Chunks = {"c1", "c2"}
    ResultsOf <- MCResultsOf
    AuditWriters = {w1, w2}
    MaxInterruptions = 1
INVARIANTS
    JobFollowsChunks
PROPERTIES
    JobIsAudited
CHECK_DEADLOCK FALSE
