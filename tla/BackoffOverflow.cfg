\* One job with four retries: the product of the fourth no longer fits the integer.
\* The values keep the order of the defaults: second, base delay, maximum, MaxInt.
SPECIFICATION JobSpec
CONSTANTS
    Jobs = {j1}
    Workers = {w1}
    Tenants = {t1}
    Priorities = {"HIGH"}
    RetryLimits = {5}
    LeaseDuration = 1
    BaseDelay = 2
    MaxDelay = 12
    Second = 1
    MaxInt = 15
    MaxLeaseVersion = 5
    NULL = NULL
PROPERTY BackoffFollowsFormula
