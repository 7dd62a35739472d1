SPECIFICATION FairSpec
CONSTANTS
    MaxTurns = 2
    MaxAttempts = 2
    Loops = {l1, l2}
    Claims = {k1}
    NamedClaims = FALSE
    Evictions = FALSE
    Endings = FALSE
PROPERTIES
    DroppedForCause
    DeliveryEnds
CHECK_DEADLOCK FALSE
