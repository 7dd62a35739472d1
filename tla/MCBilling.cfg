SPECIFICATION Spec
CONSTANTS
    MaxMonth = 2
    Units = {"requests", "hours"}
    FreeUsage <- MCFreeUsage
    MaxUses = 2
    Subs = {s1}
    NoSub = NoSub
    MaxChanges = 2
    MaxBatches = 2
    MaxMarks = 2
    Calls = {c1, c2}
SYMMETRY Slots
INVARIANTS
    BilledForUse
PROPERTIES
    InvoicedOnce
CHECK_DEADLOCK FALSE
