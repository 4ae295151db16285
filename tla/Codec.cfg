SPECIFICATION Spec
CONSTANTS
    Messages <- MCMessages
    MaxFaults = 2
    FaultBytes = {0, 1, 4, 8, 12, 64}
INVARIANTS DecodeNeverPanics DecodeInverts OneEncoding
CHECK_DEADLOCK FALSE
