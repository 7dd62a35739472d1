SPECIFICATION Spec
CONSTANTS
    Keys = {k1, k2}
    Callers = {c1}
    None = None
    MinTtl = 1
    MaxTtl = 3
    Asked = {0, 9}
    MaxEntries = 1
    Lag = 1
    MaxTime = 3
    MaxWrites = 2
    MaxDeletions = 1
SYMMETRY Names
INVARIANTS
    NoLostUpdate
    AlarmCovers
    FoundByDeletion
PROPERTIES
    WriteKept
CHECK_DEADLOCK FALSE
