CONSTANTS
    Pod = {p}
    Collector = {c1, c2}
    Template = {TRUE, FALSE}
    MaxEvents = 3
    MaxFaults = 1
SPECIFICATION FairSpec
INVARIANTS TypeOK OneCollectorPerPod CleanedUp LogsOfDeletedRunGo PartsBelongToSomeone
PROPERTIES LogIsKept PodsOfDeletedRunGo
CHECK_DEADLOCK FALSE
