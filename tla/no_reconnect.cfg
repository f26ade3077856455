CONSTANTS
    MaxPumps = 2
    Limit = 1
    AutoReconnect = TRUE
    UserOps = {"endXfer"}
    Foreground = {TRUE}
    PeerFaults = {"refused"}
    MaxFaults = 1
    MaxOps = 1
    MaxSends = 0
    MaxChunks = 0
SPECIFICATION Spec
INVARIANT NoReconnectAfterKill
CHECK_DEADLOCK FALSE
