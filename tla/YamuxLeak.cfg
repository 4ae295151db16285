SPECIFICATION Spec
CONSTANTS
    InitialWindow = 1
    U32Max = 7
    MaxStreamId = 3
    ClientMaxWindow = 1
    ServerMaxWindow = 2
    ClientMaxStreams = 1
    ServerMaxStreams = 1
    accept_backlog = 1
    ChannelCap = 1
    SinkCap = 1
    ClientCommands = {"OpenStream"}
    ServerCommands = {}
    ClientCalls = {"Shutdown", "Drop"}
    ServerCalls = {"Shutdown", "Drop"}
    Watched = 1
    MayBreak = FALSE
    Written = {1, 2, 3}
    OpenerBytes = 0
    AcceptorBytes = 0
    MaxWrite = 1
    MaxEvents = 1
    ClientPings = 0
    ServerPings = 0
    MaxGoAways = 1
INVARIANT NothingHeldForGoneStream
CHECK_DEADLOCK FALSE
