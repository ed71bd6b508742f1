SPECIFICATION Spec
CONSTANTS
    Account = {a, b}
    NoAccount = NoAccount
    Passkey = {p}
    BackupCode = {k}
    Challenge = {c}
    Setup = {u}
    MaxEnrolments = 1
    Token = {t1, t2}
    NoToken = NoToken
    NoId = NoId
    Req = {r1, r2}
    LoginMax = 2
    IPMax = 3
    MFAMax = 3
    Allowlisted = FALSE
    Faults = {"redis", "crash"}
    MaxRequests = 3
    MaxEvents = 1
SYMMETRY Symmetry
INVARIANTS
    SecondFactorProven
    ProofsUsedOnce
    GuessesBounded
    DeadTokensStayDead
    NoLoginWhileSuspended
CHECK_DEADLOCK FALSE
