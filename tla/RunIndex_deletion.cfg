SPECIFICATION Spec
CONSTANTS
    Runs = {r1, r2}
    Agents = {a1, a2}
    NoRun = NoRun
    NoAgent = NoAgent
    MaxChain = 2
    MaxChildren = 1
    MaxReports = 1
    MaxCalls = 1
    MaxStarts = 1
    MaxPurges = 1
    Edits = TRUE
    Faults = TRUE
SYMMETRY Ids
INVARIANTS
    EndedClosed
    ForgottenIsQuiet
PROPERTIES
    WorkUnderLiveChain
CHECK_DEADLOCK FALSE
