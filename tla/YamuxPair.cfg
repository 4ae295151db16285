SPECIFICATION FairSpec
CONSTANTS
    InitialWindow = 1
    U32Max = 7
    StreamId = 1
    OpenerMaxWindow = 1
    AcceptorMaxWindow = 4
    OpenerBytes = 5
    AcceptorBytes = 0
    MaxWrite = 2
    MaxPipe = 1
INVARIANTS WindowSafe InOrder FinComplete NoLostWakeup
PROPERTIES Delivered WriterUnblocked
CHECK_DEADLOCK FALSE
