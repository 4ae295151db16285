SPECIFICATION FairSpec
CONSTANTS
    Protos = {p}
    Exclusive = {p}
    MaxStreams = 2
INVARIANTS Registered EndIsReported
PROPERTIES SessionEnds StreamsEnd
CHECK_DEADLOCK FALSE
