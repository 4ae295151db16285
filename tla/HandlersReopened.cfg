SPECIFICATION Spec
CONSTANTS
    Sessions = {s1}
    Kinds = {"discovery"}
    MaxOpens = 2
    MaxTicks = 1
CHECK_DEADLOCK FALSE
INVARIANT
    OpenIsKnown
