\* The values of config.Default(), in ticks of a second: a lease of 30 s renewed every
\* 10 s, dispatches of up to 10 s, runs of up to 5 minutes, reports of up to 3 s.
\* No faults; every deadline is kept.
SPECIFICATION Spec
CONSTANTS
    Jobs = {j1}
    Workers = {w1, w2}
    Tenants = {t1}
    Priorities = {"HIGH"}
    RetryLimits = {5}
    LeaseDuration = 30
    BaseDelay = 2
    MaxDelay = 60
    Second = 1
    MaxInt = 127
    MaxLeaseVersion = 2
    NULL = NULL
    DispatchTimeout = 10
    RunTimeout = 300
    ReportTimeout = 3
    LeaseRenewAt = 10
    MaxActive = 100
    Faults = {}
    Timely = TRUE
SYMMETRY Symmetry
INVARIANT NoDoubleExecution
