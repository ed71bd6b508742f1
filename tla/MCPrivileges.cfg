SPECIFICATION Spec
CONSTANTS
    Account = {a1, a2}
    NoAccount = NoAccount
    Call = {c1, c2}
    RoleTTL = 2
    AccessTTL = 1
    Leeway = 1
    ValidatorTTL = 2
    CleanupInterval = 3
    CacheMax = 1
    RequestTimeout = 1
    MaxTime = 5
    MaxRequests = 3
SYMMETRY Symmetry
INVARIANTS
    RoleRunsOut
    SuspensionRunsOut
PROPERTY ValidatorLags
CHECK_DEADLOCK FALSE
