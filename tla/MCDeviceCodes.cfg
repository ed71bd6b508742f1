SPECIFICATION Spec
CONSTANTS
    k1 = k1
    cl1 = cl1
    cl2 = cl2
    a1 = a1
    a2 = a2
    c1 = c1
    c2 = c2
    c3 = c3
    Code = {k1}
    Client = {cl1, cl2}
    Account = {a1, a2}
    NoAccount = NoAccount
    Call = {c1, c2, c3}
    Expiry = 2
    Interval = 1
    UsedTTL = 2
    Faults = {"redis", "crash"}
    MaxTime = 4
SYMMETRY Symmetry
INVARIANTS
    DecisionIsFinal
PROPERTIES
    ImplementsOneTimeGrant
