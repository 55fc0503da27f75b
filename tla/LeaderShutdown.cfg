\* SIGTERM and no other fault.
SPECIFICATION FairSpec
CONSTANTS
    Instances = {i1, i2}
    Conns = {c1, c2}
    Faults = {"signal"}
    ORPHAN = ORPHAN
    NULL = NULL
PROPERTY ShutdownReleases
