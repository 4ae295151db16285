SPECIFICATION TimerSpec
CONSTANTS
    InitialWindow = 1
    U32Max = 7
    MaxStreamId = 4
    ClientMaxWindow = 1
    ServerMaxWindow = 1
    ClientMaxStreams = 2
    ServerMaxStreams = 1
    accept_backlog = 1
    ChannelCap = 1
    SinkCap = 1
    ClientCommands = {"OpenStream"}
    ServerCommands = {"OpenStream", "GoAway"}
    ClientCalls = {"Drop"}
    ServerCalls = {}
    Watched = 1
    MayBreak = FALSE
    Written = {1}
    OpenerBytes = 0
    AcceptorBytes = 0
    MaxWrite = 1
    MaxEvents = 1
    ClientPings = 0
    ServerPings = 1
    MaxGoAways = 1
INVARIANTS RegisteredWhileReadable NoProtocolError PingsInFlight
PROPERTY GoAwayEnds
CHECK_DEADLOCK FALSE
