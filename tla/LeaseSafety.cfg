\* One job, two workers, three claims: a job is claimed, lost, claimed again and
\* failed, and claimed once more, by either worker.  Claims, calls, renewals,
\* autopsies and workers are lost and no deadline is kept, so the timeouts do not
\* matter; only the clock and the reconciler are fair.
SPECIFICATION ReconcilerSpec
CONSTANTS
    Jobs = {j1}
    Workers = {w1, w2}
    Tenants = {t1}
    Priorities = {"HIGH"}
    RetryLimits = {2}
    LeaseDuration = 1
    BaseDelay = 1
    MaxDelay = 1
    Second = 2
    MaxInt = 7
    MaxLeaseVersion = 3
    NULL = NULL
    DispatchTimeout = 0
    RunTimeout = 0
    ReportTimeout = 0
    LeaseRenewAt = 1
    MaxActive = 1
    Faults = {"claim", "message", "renew", "autopsy", "crash"}
    Timely = FALSE
INVARIANTS TypeOK FencingToken LeaseSpentOnce BackoffFresh
PROPERTIES LeaseEnds
