\* One job, two workers that run one job each; nothing fails but renewals, every
\* deadline is kept, and dispatch, run and report fit exactly into the lease.  A
\* claim that meets the worker still busy with the report of the attempt before is
\* rejected and lapses, so with three attempts a job needs at most five claims.
SPECIFICATION FairSpec
CONSTANTS
    Jobs = {j1}
    Workers = {w1, w2}
    Tenants = {t1}
    Priorities = {"HIGH"}
    RetryLimits = {0, 3}
    LeaseDuration = 6
    BaseDelay = 1
    MaxDelay = 2
    Second = 2
    MaxInt = 7
    MaxLeaseVersion = 5
    NULL = NULL
    DispatchTimeout = 2
    RunTimeout = 3
    ReportTimeout = 1
    LeaseRenewAt = 2
    MaxActive = 1
    Faults = {"renew"}
    Timely = TRUE
INVARIANTS NoDoubleExecution VerdictCounts
PROPERTIES EventuallyTerminal DeadGetsReport
