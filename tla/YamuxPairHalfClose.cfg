SPECIFICATION FairSpec
CONSTANTS
    InitialWindow = 1
    U32Max = 7
    StreamId = 1
    OpenerMaxWindow = 1
    AcceptorMaxWindow = 1
    OpenerBytes = 2
    AcceptorBytes = 0
    MaxWrite = 2
    MaxPipe = 1
PROPERTY HalfClosedWriterUnblocked
CHECK_DEADLOCK FALSE
