CONSTANTS
    t = t  twice = twice  ref = ref
    Dag = {d, e}
    NameOf <- Names
    NsOf <- OneNs
    DagTask = {t}
    TaskNs = "n"
    Body = {twice, ref}
    Scheduled = {ref}
    Refs <- BodyRefs
    TaskBody = {"b"}
    Stored = {t}
    Period = 1
    MaxEdits = 1
    MaxClock = 2
    MaxFaults = 0
    MaxCreateDagRunRetries = 2
SYMMETRY Dags
SPECIFICATION Spec
INVARIANTS StartsOncePerOccurrence
CHECK_DEADLOCK FALSE
