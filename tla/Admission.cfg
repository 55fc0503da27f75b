\* Two keys, t1 and "unknown"; two handlers; a bucket of one and a half tokens
\* that gains half a token per tick, so that refusals fall between two tokens.
SPECIFICATION FairSpec
CONSTANTS
    Tenants = {t1}
    Callers = {c1, c2}
    Methods = {"SubmitJob", "GetJob", "CancelJob", "CreateSchedule", "DeleteSchedule", "Heartbeat"}
    Headers = {""}
    Cost = 2
    Rate = 1
    Burst = 3
    CleanupTick = 3
    JobQuota = 1
    ScheduleQuota = 1
    MaxCron = 1
    NULL = NULL
INVARIANTS TypeOK QuotaExcess
PROPERTIES ActsAsTokenBucket ServedAgain
