SPECIFICATION Spec
CONSTANTS
    s1 = s1
    s2 = s2
    a1 = a1
    c1 = c1
    c2 = c2
    Session = {s1, s2}
    NoSession = NoSession
    Account = {a1}
    Call = {c1, c2}
    SessionTTL = 1
    MaxSessionAge = 2
    MaxSessions = 1
    CacheMax = 0
    IndexFailClosed = {FALSE}
    RequestTimeout = 1
    Faults = {}
    MaxTime = 3
SYMMETRY Symmetry
INVARIANTS
    IndexCoversSessions
    SessionLimit
    DeletionRevokesTokens
PROPERTY RevokeAllComplete
