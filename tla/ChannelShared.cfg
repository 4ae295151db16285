SPECIFICATION FairSpec
CONSTANTS
    Tasks = {t1, t2}
    First = t1
    Shared = TRUE
    buffer = 1
PROPERTY SenderProceeds
CHECK_DEADLOCK FALSE
