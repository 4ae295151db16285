SPECIFICATION Spec
CONSTANTS
    Sessions = {s1}
    Kinds = {"ping"}
    MaxOpens = 2
    MaxTicks = 1
CHECK_DEADLOCK FALSE
INVARIANT
    PongAccepted
