\* One job whose second failure kills it, up to three claims; every INSERT may be
\* late (two at a time, MaxLate) or lost (one, MaxLost).  An autopsy reads four
\* transitions, so longer trails are cut.  A job that has ended stays as it is.
SPECIFICATION AuditSpec
CONSTANTS
    Jobs = {j1}
    Workers = {w1, w2}
    Budgets = {2}
    Kinds = {"rejected command", "misnamed command", "blank command", "slow sleep",
             "slow request", "malformed"}
    MaxEpoch = 3
    MaxLate = 2
    MaxLost = 1
    Limit = 4
    NULL = NULL
SYMMETRY Symmetry
INVARIANTS AuditTypeOK TrailAccounts ClaimBeforeVerdict ReportTrue CauseTrue
CHECK_DEADLOCK FALSE
