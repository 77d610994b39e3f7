CONSTANTS
    Node = {n1, n2}
    Sync = TRUE
    StaleReady = {}
    StaleFifo = {}
    MayTerm = FALSE
    MayStop = {}
    MaxFaults = 0
SPECIFICATION FairSpec
CHECK_DEADLOCK FALSE
PROPERTY ReportedStart
