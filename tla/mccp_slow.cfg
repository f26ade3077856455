SPECIFICATION Spec
CONSTANTS
    MaxSent = 3
    Prompt = {FALSE}
INVARIANT FollowedIsInflated
CHECK_DEADLOCK FALSE
