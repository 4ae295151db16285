SPECIFICATION FairSpec
CONSTANTS
    Sessions = {s1}
    Kinds = {"ping", "identify", "discovery", "connector"}
    MaxOpens = 2
    MaxTicks = 2
CHECK_DEADLOCK FALSE
INVARIANT
    NoFalseDuplicate
PROPERTY
    SessionForgotten
