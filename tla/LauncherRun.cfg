CONSTANTS
    Proc = {sh, app}
    First = sh
    Faults <- MCLines
    AppExits = TRUE
    MaxLines = 2
    MaxSignals = 2
SPECIFICATION LFairSpec
CHECK_DEADLOCK FALSE
INVARIANTS SharedOnce NetFollows FifoLife ClientTold
PROPERTIES BackendEnds LauncherEnds
