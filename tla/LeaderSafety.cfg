\* Two instances as in docker-compose.yml, two connections each: one that holds
\* the lock and one that does not.  Every fault.
SPECIFICATION FairSpec
CONSTANTS
    Instances = {i1, i2}
    Conns = {c1, c2}
    Faults = {"cut", "query", "crash", "signal"}
    ORPHAN = ORPHAN
    NULL = NULL
INVARIANTS SplitBrainNeedsCut LoopsFollowLeadership
PROPERTIES DeposedLeaderStops LeadershipRecovers StandbyShutsDown
