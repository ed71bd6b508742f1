SPECIFICATION FairSpec
CONSTANTS
    t1 = t1
    t2 = t2
    t3 = t3
    a1 = a1
    r1 = r1
    r2 = r2
    Token = {t1, t2, t3}
    Session = {}
    NoSession = NoSession
    Account = {a1}
    Request = {r1, r2}
    NoToken = NoToken
    RefreshTTL = 1
    ReplayTTL = 1
    RevokedTTL = 1
    LockTTL = 1
    MaxLogins = 1
    MaxTime = 1
PROPERTY EveryRequestAnswered
CHECK_DEADLOCK FALSE
