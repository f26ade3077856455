SPECIFICATION Spec
CONSTANTS
    Timers = {"round", "once"}
    Repeats = {"round"}
    Seconds = 1
    Lateness = {0}
    BinderOps = {"start", "stop"}
    MaxOps = 3
    MaxTasks = 4
    MaxPending = 2
INVARIANT StoppedStaysStopped
CHECK_DEADLOCK FALSE
