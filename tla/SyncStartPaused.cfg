CONSTANTS
    Node = {n1, n2}
    Sync = TRUE
    StaleReady = {n1}
    StaleFifo = {n2}
    MayTerm = TRUE
    MayStop = {n1, n2}
    MaxFaults = 2
SPECIFICATION Spec
CHECK_DEADLOCK FALSE
INVARIANT StartedBySignal
