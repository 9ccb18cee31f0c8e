CONSTANTS
    A = A  B = B  C = C
    Task = {A, B, C}
    Deps <- JoinDeps
    Handler = {h1, h2}
    BackoffLimit = 0
    Retryable = {}
    Failing = {A, B}
    Misconfigured = {B}
    RunId = 3
    ForeignRows <- OtherRun
    MaxRows = 4
    MaxFailures = 2
    MaxRedeliver = 1
    MaxFaults = 2
SPECIFICATION Spec
SYMMETRY Handlers
INVARIANTS SuccessIsTotal PvcOutlivesPods DependencyOrder
CHECK_DEADLOCK FALSE
