CONSTANTS
    NULL = NULL
    Node <- MCNode
    Index <- MCIndex
    Comp <- MCComp
    Batches <- MCBatches
    TicLength = 2
    MaxTics = 0
    UIntMod = 3
    MaxBusy = 6
    TicBound = 3
SPECIFICATION RandomFairSpec
INVARIANTS
    TimeLine
    OnTime
    SleepBound
    LagBound
    ViewsAgree
    HealthKnown
    FailsOnce
PROPERTIES
    TermEnds
