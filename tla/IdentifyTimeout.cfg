SPECIFICATION Spec
CONSTANTS
    Sessions = {s1}
    Kinds = {"identify"}
    MaxOpens = 2
    MaxTicks = 1
CHECK_DEADLOCK FALSE
INVARIANT
    TimeoutIsSilence
