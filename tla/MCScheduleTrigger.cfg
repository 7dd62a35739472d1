SPECIFICATION Spec
CONSTANTS
    Schedules = {{1, 2, 3, 4}, {2, 4}}
    Calls = {c1, c2}
    Retry = 2
    EarlyRetry = 1
    Skew = 1
    MaxTime = 3
    Faults = TRUE
SYMMETRY Slots
INVARIANTS
    ScheduleWakes
    TickWakes
    ForgottenIsSilent
    RunsFollowed
CHECK_DEADLOCK FALSE
