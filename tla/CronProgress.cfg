\* One evaluator and two schedules, so that one can be in the way of the other.
SPECIFICATION FairSpec
CONSTANTS
    Schedules = {s1, s2}
    Evaluators = {e1}
    Periods = {1}
    Policies = {"RUN_ONCE"}
    MaxCatchup = 10
    MaxSchedules = 2
    Faults = {"create", "advance", "stop"}
    MaxSkew = 0
    MaxTime = 2
    GONE = GONE
    NULL = NULL
PROPERTY DueGetsFired
