CONSTANTS
    Node = {n1, n2, n3}
    Sync = TRUE
    StaleReady = {}
    StaleFifo = {}
    MayTerm = TRUE
    MayStop = {n1}
    MaxFaults = 2
SPECIFICATION FairSpec
CHECK_DEADLOCK FALSE
INVARIANTS Barrier NoSignalLost CleanStart FaultsInOrder AtMostOnceInOrder
PROPERTIES AllStart
