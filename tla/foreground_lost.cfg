SPECIFICATION Spec
CONSTANTS
    Displays = {"aard", "bat"}
    MaxOps = 4
INVARIANT OneInForeground
CHECK_DEADLOCK FALSE
