\* Two jobs, two workers, arbitrary callers.  Limits 0, 2 and 4 give a job that
\* dies at its first failure, one that dies at its second, and one with three
\* retries: a delay below the cap, one at the cap, and one whose product no longer
\* fits the integer.
SPECIFICATION JobSpec
CONSTANTS
    Jobs = {j1, j2}
    Workers = {w1, w2}
    Tenants = {t1}
    Priorities = {"HIGH", "UNLISTED"}
    RetryLimits = {0, 2, 4}
    LeaseDuration = 1
    BaseDelay = 4
    MaxDelay = 6
    Second = 4
    MaxInt = 15
    MaxLeaseVersion = 3
    NULL = NULL
SYMMETRY Symmetry
INVARIANTS JobTypeOK LeaseShape RetryBudget
PROPERTIES Lifecycle RetryWaits
