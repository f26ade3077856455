SPECIFICATION FairSpec
CONSTANTS
    Count = 3
    Owned = 1
    Gags = {1, 3}
    Switches = {3}
    Deletes = {2}
    Target = 2
    MaxText = 3
    MaxOps = 3
INVARIANTS TypeOK LinesKept RightLine TableFresh
PROPERTIES DispatchEnds
CHECK_DEADLOCK FALSE
