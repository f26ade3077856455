SPECIFICATION Spec
CONSTANTS
    mUseGMCP = TRUE
    MaxUnits = 3
    MaxAsked = 6
    Cuts = TRUE
INVARIANTS TypeOK DecodesStream AnswersInOrder SizePerAgreement TermTypesInOrder
CHECK_DEADLOCK FALSE
