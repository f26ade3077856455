SPECIFICATION Spec
CONSTANTS
    MaxSent = 7
    Prompt = {TRUE, FALSE}
INVARIANTS TypeOK ShownOnce InOrder OnlyText LossIsTheLastCall CorruptedIsPlain
CHECK_DEADLOCK FALSE
