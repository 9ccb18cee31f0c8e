CONSTANTS
    Pod = {p1}
    ChanCap = 1
    MaxStatusRetries = 2
    TicksPerSecond = 2
    MaxClock = 1
    MaxWarnings = 1
    MaxErrors = 1
    HasWebhook = TRUE
    VerifySSL = TRUE
SPECIFICATION FairSpec
INVARIANTS EndIsRecorded EndHasDuration StartedComesFirst
PROPERTIES RefusalIsFinal EventsAreHandled
CHECK_DEADLOCK FALSE
