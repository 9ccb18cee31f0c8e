CONSTANTS
    MaxEvents = 6
    MaxBatch = 2
    CompactAt = 1
    MaxFaults = 2
SPECIFICATION FairSpec
INVARIANTS TypeOK NoLostWakeup OnlyTheEventInHandIsLost
PROPERTIES FifoSpec Drained
CHECK_DEADLOCK FALSE
