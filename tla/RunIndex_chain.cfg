SPECIFICATION Spec
CONSTANTS
    Runs = {r1, r2, r3}
    Agents = {a1, a2, a3}
    NoRun = NoRun
    NoAgent = NoAgent
    MaxChain = 3
    MaxChildren = 1
    MaxReports = 1
    MaxCalls = 1
    MaxStarts = 1
    MaxPurges = 0
    Edits = FALSE
    Faults = FALSE
SYMMETRY Ids
INVARIANTS
    TurnChainBounded
PROPERTIES
    WorkUnderLiveChain
CHECK_DEADLOCK FALSE
