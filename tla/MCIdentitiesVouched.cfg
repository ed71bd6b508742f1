SPECIFICATION Spec
CONSTANTS
    Account = {a}
    NoAccount = NoAccount
    Email = {e}
    NoEmail = NoEmail
    Code = {c}
    NoCode = NoCode
    Identity = {i}
    NoIdentity = NoIdentity
    Req = {r1}
    MaxAttempts = 1
    Faulty = FALSE
    MaxRequests = 1
INVARIANTS
    LinksVouchedAddress
CHECK_DEADLOCK FALSE
