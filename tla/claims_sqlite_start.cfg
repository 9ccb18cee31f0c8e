CONSTANTS
    Worker = {w1, w2}
    TaskRun = {r1}
    Claim = {g1, g2}
    Pod = {p1, p2, p3}
    NULL = NULL
    Backend = "sqlite"
    ClaimBatchSize = 2
    MaxConcurrentClaims = 2
    MaxFaults = 2
SPECIFICATION FairSpec

PROPERTIES PendingIsStarted
CHECK_DEADLOCK FALSE
