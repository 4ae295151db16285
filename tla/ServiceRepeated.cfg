SPECIFICATION Spec
CONSTANTS
    k1 = k1
    k2 = k2
    h1 = h1
    h2 = h2
    Keys = {k1, k2}
    Anonymous = Anonymous
    DialAddresses <- MCDialAddresses
    ListenAddresses = {"name", "addr"}
    Binds <- MCBinds
    InboundHosts = {h2}
    Secio = TRUE
    max_connection_number = 2
    MaxCommands = 3
    MaxInbound = 1
INVARIANT NoRepeatedConnection
CHECK_DEADLOCK FALSE
