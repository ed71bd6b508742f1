SPECIFICATION Spec
CONSTANTS
    t1 = t1
    t2 = t2
    t3 = t3
    s1 = s1
    a1 = a1
    r1 = r1
    r2 = r2
    Token = {t1, t2, t3}
    Session = {s1}
    NoSession = NoSession
    Account = {a1}
    Request = {r1, r2}
    NoToken = NoToken
    RefreshTTL = 2
    ReplayTTL = 1
    RevokedTTL = 1
    LockTTL = 1
    MaxLogins = 1
    MaxTime = 2
SYMMETRY Symmetry
INVARIANTS
    TypeOK
    SingleSuccessor
    OneLivePerFamily
    IndexCoversLiveTokens
    RevokedFamiliesStayDead
    RotationAgreement
PROPERTY ImplementsTokenFamily
CHECK_DEADLOCK FALSE
