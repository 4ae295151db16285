SPECIFICATION Spec
CONSTANTS
    Sessions = {s1}
    Kinds = {"connector"}
    MaxOpens = 2
    MaxTicks = 1
CHECK_DEADLOCK FALSE
INVARIANT
    NoGhostSession
