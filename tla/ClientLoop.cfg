CONSTANTS
    Message <- MCMessage
    UMod = 4
    Room = 1
    MaxMsgs = 3
SPECIFICATION FairSpec
CHECK_DEADLOCK FALSE
INVARIANTS Conserved
PROPERTIES WritesLines PassedOn StopEnds
