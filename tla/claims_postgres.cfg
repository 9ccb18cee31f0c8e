CONSTANTS
    Worker = {w1, w2}
    TaskRun = {r1, r2}
    Claim = {g1, g2}
    Pod = {p1, p2}
    NULL = NULL
    Backend = "postgres"
    ClaimBatchSize = 2
    MaxConcurrentClaims = 1
    MaxFaults = 2
SPECIFICATION Spec
SYMMETRY Symmetry
INVARIANTS TypeOK InFlightBounded SecondPodNeedsExpiry AdoptedAtMostOnce StrayNeedsFault
CHECK_DEADLOCK FALSE
