SPECIFICATION Spec
CONSTANTS
    Account = {a, b}
    NoAccount = NoAccount
    Email = {e, f}
    NoEmail = NoEmail
    Code = {c, d}
    NoCode = NoCode
    Identity = {i, j}
    NoIdentity = NoIdentity
    Req = {r1, r2}
    MaxAttempts = 1
    Faulty = TRUE
    MaxRequests = 3
SYMMETRY Symmetry
INVARIANTS
    VerifiedMeansProved
    CodesUsedOnce
    EntersProvedAccounts
    DeletedNotEntered
PROPERTY IdentityKept
CHECK_DEADLOCK FALSE
