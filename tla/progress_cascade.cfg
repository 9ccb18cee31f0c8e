CONSTANTS
    A = A  B = B  C = C
    Task = {A, B, C}
    Deps <- JoinDeps
    Handler = {h1, h2}
    BackoffLimit = 0
    Retryable = {}
    Failing = {A, B}
    Misconfigured = {}
    RunId = 9
    ForeignRows = {}
    MaxRows = 3
    MaxFailures = 2
    MaxRedeliver = 0
    MaxFaults = 0
SPECIFICATION Spec
SYMMETRY Handlers
INVARIANTS QuiescentMeansDone
CHECK_DEADLOCK FALSE
