CONSTANTS
    MaxPumps = 2
    Limit = 1
    AutoReconnect = TRUE
    UserOps = {"endXfer"}
    Foreground = {TRUE}
    PeerFaults = {}
    MaxFaults = 0
    MaxOps = 1
    MaxSends = 0
    MaxChunks = 0
SPECIFICATION Spec
PROPERTY KillStopsPump
CHECK_DEADLOCK FALSE
