SPECIFICATION Spec
CONSTANTS
    a1 = a1
    a2 = a2
    s1 = s1
    s2 = s2
    p1 = p1
    p2 = p2
    c1 = c1
    c2 = c2
    k1 = k1
    k2 = k2
    x1 = x1
    x2 = x2
    Account = {a1, a2}
    NoAccount = NoAccount
    Scope = {s1, s2}
    Page = {p1, p2}
    Call = {c1, c2}
    Faults = {"redis", "crash"}
    MaxAsks = 2
    Code = {k1, k2}
    Exchange = {x1, x2}
SYMMETRY Symmetry
INVARIANTS
    TokensConsented
    ScopesConsented
    MisusedCodeIsBurned
PROPERTIES
    ImplementsOneTimeGrant
CHECK_DEADLOCK FALSE
