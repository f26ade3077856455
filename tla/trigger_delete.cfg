SPECIFICATION Spec
CONSTANTS
    Count = 2
    Owned = 0
    Gags = {1}
    Switches = {}
    Deletes = {1}
    Target = 2
    MaxText = 3
    MaxOps = 3
PROPERTIES DeletedIsSilent
CHECK_DEADLOCK FALSE
