SPECIFICATION FairSpec
CONSTANTS
    Account = {a}
    NoAccount = NoAccount
    Session = {s}
    Token = {t1, t2}
    NoToken = NoToken
    Req = {r1, r2}
    Job = {j}
    MaxAttempts = 2
    Faulty = TRUE
    MaxRequests = 3
    MaxStops = 1
INVARIANTS
    SpentTokenIsDead
    ResetsBounded
    ChangeProvesCurrent
    RevokedBeforeAnswer
PROPERTIES
    ResetRevokes
CHECK_DEADLOCK FALSE
