SPECIFICATION Spec
CONSTANTS
    k = k
    o = o
    c = c
    d = d
    m = m
    sh = sh
    pr = pr
    x1 = x1
    x2 = x2
    Scopes = {k, o, c, d}
    KeyScopes = {k}
    Callers = {m}
    KeyOf <- MCKeyOf
    SharedOf <- MCSharedOf
    Credentials = {sh, pr}
    Shared = {sh}
    ScopeOf <- MCScopeOf
    Periods = {"day", "month"}
    Calendars = {0, 1}
    LimitIds <- MCLimitIds
    MaxTime = 1
    periodStart <- MCPeriodStart
    MaxAmount = 1
    MaxCost = 1
    Slots = {x1, x2}
    NoLimit = NoLimit
    Idle = Idle
INVARIANTS CountedExactly OneRowPerLimit OverspendBounded
SYMMETRY Symmetric
CHECK_DEADLOCK FALSE
