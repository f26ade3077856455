SPECIFICATION FairSpec
CONSTANTS
    Displays = {"aard", "bat", "cyb"}
    MaxOps = 4
INVARIANTS TypeOK StatusBarAgrees ForegroundKept NoticesAgree
PROPERTIES WindowGetsSession
CHECK_DEADLOCK FALSE
