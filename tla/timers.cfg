SPECIFICATION FairSpec
CONSTANTS
    Timers = {"round", "once"}
    Repeats = {"round"}
    Seconds = 2
    Lateness = {0, 1}
    BinderOps = {"start", "pause", "stop", "reset", "getTimers", "delete", "add"}
    MaxOps = 3
    MaxTasks = 4
    MaxPending = 2
INVARIANTS TypeOK FlagAgrees NoOrphan ThrowsOnlyIfTouched
PROPERTIES PlayingFires OneShotEnds
CHECK_DEADLOCK FALSE
