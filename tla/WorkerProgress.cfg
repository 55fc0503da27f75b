\* One worker: the properties are about each worker by itself.
SPECIFICATION FairSpec
CONSTANTS
    Workers = {w1}
    HeartbeatTimeout = 1
    MaxJobs = 1
    MaxActive = 2
    MaxQueue = 1
    Lossy = TRUE
    NULL = NULL
INVARIANT TypeOK
PROPERTIES IdleBecomesEligible FullGetsSkipped GoneIsReaped
