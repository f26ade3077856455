SPECIFICATION Spec
CONSTANTS
    mUseGMCP = FALSE
    MaxUnits = 2
    MaxAsked = 6
    Cuts = TRUE
INVARIANT HoldoverHolds
CHECK_DEADLOCK FALSE
