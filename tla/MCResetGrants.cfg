SPECIFICATION Spec
CONSTANTS
    Files = {f1, f2}
    Orgs = {o1}
    Flows = {w1, w2}
    MaxClaims = 2
    MaxResets = 2
    ReadTimeout = 1
    ClaimTimeout = 1
    ClaimLease = 4
    RetryWindow = 5
    None = None
SYMMETRY Symmetric
INVARIANTS OneResetPerReading SentIsHeld ClearedWasSpent
CHECK_DEADLOCK FALSE
