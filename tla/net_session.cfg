CONSTANTS
    MaxPumps = 3
    Limit = 1
    AutoReconnect = TRUE
    UserOps = {}
    Foreground = {TRUE, FALSE}
    PeerFaults = {"refused", "eof", "reset"}
    MaxFaults = 2
    MaxOps = 0
    MaxSends = 0
    MaxChunks = 1
SPECIFICATION FairSpec
INVARIANTS OneSession ReportsAreFresh ReconnectWaitsAlone
PROPERTIES KillReturns LossIsHandled ImplementsSession
CHECK_DEADLOCK FALSE
