SPECIFICATION FairSpec
CONSTANTS
    Names = {"n", "m"}
    Words = {"w"}
    MaxLine = 4
    MaxBody = 1
    MaxText = 6
INVARIANTS SentAsTyped
PROPERTIES LineEnds
CHECK_DEADLOCK FALSE
