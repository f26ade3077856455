SPECIFICATION Spec
CONSTANTS
    Timers = {"round"}
    Repeats = {"round"}
    Seconds = 3
    Lateness = {0}
    BinderOps = {"start", "pause"}
    MaxOps = 4
    MaxTasks = 4
    MaxPending = 2
INVARIANT PauseKeepsTime
CHECK_DEADLOCK FALSE
