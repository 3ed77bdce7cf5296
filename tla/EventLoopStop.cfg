SPECIFICATION Spec
CONSTANTS
    Users = {u1, u2}
    Loop = loopThread
    Stoppers = {u1, u2}
    Delays = {1}
    MaxTasks = 2
    MaxTimers = 1
    MaxTime = 2
PROPERTY StopWaits
CHECK_DEADLOCK FALSE
