CONSTANTS
    NULL = NULL
    Node <- MCNode
    Index <- MCIndex
    Comp <- MCComp
    Batches <- MCBatches
    TicLength = 2
    MaxTics = 2
    UIntMod = 3
    MaxBusy = 6
    TicBound = 0
SPECIFICATION RandomSpec
INVARIANT
    TicLimit
