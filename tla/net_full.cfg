CONSTANTS
    MaxPumps = 2
    Limit = 1
    AutoReconnect = TRUE
    UserOps = {"sendData", "initXfer", "endXfer", "reconnect", "closeConnection"}
    Foreground = {TRUE}
    PeerFaults = {"reset"}
    MaxFaults = 1
    MaxOps = 1
    MaxSends = 1
    MaxChunks = 1
SPECIFICATION Spec
INVARIANTS TypeOK OneReport ClosedNotConnected PollsOnce NeverDeaf
CHECK_DEADLOCK FALSE
