SPECIFICATION FairSpec
CONSTANTS
    Protos = {p1, p2}
    send_buffer_size = 1
    send_event_size = 1
    ChannelCap = 1
    MaxMessages = 4
    MaxOpens = 2
INVARIANTS PendingCovers NothingSkipped
PROPERTIES BurstDrains
CHECK_DEADLOCK FALSE
