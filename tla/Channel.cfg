SPECIFICATION FairSpec
CONSTANTS
    Tasks = {t1, t2}
    First = t1
    Shared = FALSE
    buffer = 1
INVARIANTS CountExact ParkedCovered EndIsEnd
PROPERTIES AllReceived SenderProceeds ClosedEnds
CHECK_DEADLOCK FALSE
