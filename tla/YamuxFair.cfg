SPECIFICATION FairSpec
CONSTANTS
    InitialWindow = 1
    U32Max = 7
    MaxStreamId = 3
    ClientMaxWindow = 1
    ServerMaxWindow = 1
    ClientMaxStreams = 1
    ServerMaxStreams = 1
    accept_backlog = 1
    ChannelCap = 1
    SinkCap = 1
    ClientCommands = {"OpenStream"}
    ServerCommands = {"GoAway", "Shutdown"}
    ClientCalls = {"Shutdown"}
    ServerCalls = {}
    Watched = 1
    MayBreak = FALSE
    Written = {1}
    OpenerBytes = 2
    AcceptorBytes = 0
    MaxWrite = 1
    MaxEvents = 1
    ClientPings = 0
    ServerPings = 0
    MaxGoAways = 1
INVARIANTS DataBounded RegisteredWhileReadable
PROPERTIES StreamIsPair StreamIsFair
CHECK_DEADLOCK FALSE
