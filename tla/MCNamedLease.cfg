SPECIFICATION LeaseSpec
CONSTANTS
    s1 = s1
    s2 = s2
    r1 = r1
    quota_sweep = quota_sweep
    catalog_refresh = catalog_refresh
    Workers <- MCWorkers
    Names <- MCNames
    LeaseOf <- MCLeaseOf
    Renewing <- MCRenewing
    TTL = 2
    LeaseTime = 6
    MaxTokens = 4
INVARIANTS
    LeaseIInv
    HeldWhileAlive
    OneLiveHolder
PROPERTIES
    LeaseTransfer
CHECK_DEADLOCK FALSE
