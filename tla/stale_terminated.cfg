CONSTANTS
    MaxPumps = 2
    Limit = 1
    AutoReconnect = TRUE
    UserOps = {"reconnect"}
    Foreground = {TRUE}
    PeerFaults = {"eof"}
    MaxFaults = 1
    MaxOps = 1
    MaxSends = 0
    MaxChunks = 0
SPECIFICATION Spec
PROPERTY TerminatedIsCurrent
CHECK_DEADLOCK FALSE
