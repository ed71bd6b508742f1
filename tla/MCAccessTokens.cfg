SPECIFICATION Spec
CONSTANTS
    j1 = j1
    a1 = a1
    v1 = v1
    c1 = c1
    c2 = c2
    Jti = {j1}
    Subject = {a1}
    Validation = {v1}
    Revocation = {c1, c2}
    NoJti = NoJti
    AccessExpiry = 2
    ShortExpiry = 3
    MaxShortLivedExpiry = 2
    Leeway = 1
    Buffer = 2
    MinAccountRevocationTTL = 4
    RequestTimeout = 1
    MaxTime = 7
SYMMETRY Symmetry
INVARIANTS
    RevokedNeverAccepted
CHECK_DEADLOCK FALSE
