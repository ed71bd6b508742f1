SPECIFICATION Spec
CONSTANTS
    s1 = s1
    a1 = a1
    c1 = c1
    c2 = c2
    Session = {s1}
    NoSession = NoSession
    Account = {a1}
    Call = {c1, c2}
    SessionTTL = 1
    MaxSessionAge = 1
    MaxSessions = 1
    CacheMax = 1
    IndexFailClosed = {FALSE, TRUE}
    RequestTimeout = 1
    Faults = {"redis", "crash"}
    MaxTime = 4
SYMMETRY Symmetry
INVARIANTS
    NoResurrection
    NoOrphanTokens
