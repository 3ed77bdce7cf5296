SPECIFICATION Spec
CONSTANTS
    Delays = {0, 1, 3}
    Deltas = {0, 2, 3}
    MaxTasks = 2
    MaxTimers = 3
    MaxTime = 5
INVARIANTS
    NothingOverdue
PROPERTY ImplementsScheduler
CHECK_DEADLOCK FALSE
