SPECIFICATION FairSpec
CONSTANTS
    Protos = {p}
    Exclusive = {p}
    MaxStreams = 1
PROPERTY EndedIsForgotten
CHECK_DEADLOCK FALSE
