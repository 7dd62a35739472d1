SPECIFICATION Spec
CONSTANTS
    MaxTurns = 2
    MaxAttempts = 1
    Loops = {l1, l2}
    Claims = {k1}
    NamedClaims = FALSE
    Evictions = TRUE
    Endings = TRUE
SYMMETRY LoopSlots
INVARIANTS
    ResultAccounted
    DeliveredWasTaken
    PendingListed
    ClaimedNotPending
    EndedIsQuiet
PROPERTIES
    ResultsHandedOver
CHECK_DEADLOCK FALSE
