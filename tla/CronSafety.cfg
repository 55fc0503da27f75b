\* One schedule, two evaluators as during split-brain, every fault, clocks up to
\* one tick apart.  MaxCatchup is 2 (10 in the code), so that catch-ups are cut off.
SPECIFICATION Spec
CONSTANTS
    Schedules = {s1}
    Evaluators = {e1, e2}
    Periods = {1, 2}
    Policies = {"SKIP", "RUN_ALL"}
    MaxCatchup = 2
    MaxSchedules = 1
    Faults = {"create", "advance", "stop"}
    MaxSkew = 1
    MaxTime = 4
    GONE = GONE
    NULL = NULL
SYMMETRY Symmetry
INVARIANTS TypeOK NoLostRun OnlyDueRuns
