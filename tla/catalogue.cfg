CONSTANTS
    t = t  twice = twice  ref = ref
    Dag = {d, e}
    NameOf <- Names
    NsOf <- OneNs
    DagTask = {t}
    TaskNs = "n"
    Body = {twice, ref}
    Scheduled = {ref}
    Refs <- BodyRefs
    TaskBody = {"b"}
    Stored = {t}
    Period = 1
    MaxEdits = 3
    MaxClock = 1
    MaxFaults = 1
    MaxCreateDagRunRetries = 2
SYMMETRY Dags
SPECIFICATION Spec
INVARIANTS OneActiveVersion StoredOrFailed StartedOnce OneRunPerOccurrence
PROPERTIES FinalizerKeptWhileUsed
CHECK_DEADLOCK FALSE
