CONSTANTS
    A = A  B = B  C = C
    Task = {A, B, C}
    Deps <- JoinDeps
    Handler = {h1, h2}
    BackoffLimit = 0
    Retryable = {A}
    Failing = {A, B}
    Misconfigured = {}
    RunId = 9
    ForeignRows = {}
    MaxRows = 4
    MaxFailures = 1
    MaxRedeliver = 0
    MaxFaults = 0
SPECIFICATION FairSpec
INVARIANTS QuiescentMeansDone SuspendedNeverRuns Unforked
PROPERTIES RunEnds
CHECK_DEADLOCK FALSE
