SPECIFICATION FairSpec
CONSTANTS
    MaxTurns = 1
    MaxAttempts = 2
    Loops = {l1, l2}
    Claims = {k1}
    NamedClaims = FALSE
    Evictions = FALSE
    Endings = TRUE

PROPERTIES
    StopEnds
CHECK_DEADLOCK FALSE
