SPECIFICATION MCSpec
CONSTANTS
    Users = {u1, u2}
    Loop = loopThread
    Stoppers = {u1, loopThread}
    Delays = {0, 2}
    MaxTasks = 2
    MaxTimers = 2
    MaxTime = 3
    Ms = 2
    Infinite = 3
INVARIANTS
    NoLostWakeup
PROPERTIES
    ImplementsScheduler
    PostedTasksRun
    TimersEnd
    StopReturns
CHECK_DEADLOCK FALSE
