SPECIFICATION Spec
CONSTANTS
    Displays = {"aard", "bat"}
    MaxOps = 5
PROPERTIES CloseSparesNext
CHECK_DEADLOCK FALSE
