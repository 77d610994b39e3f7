CONSTANTS
    NULL = NULL
    CutName = CutName
    Node = {"node0", "node1"}
    Comp = {"net"}
    UMod = 256
    Garbage = {0, 1, 7}
    Nodes <- MCNodes
    Batches <- MCBatches
    MayCrash = TRUE
    MaxRec = 4
    MaxReplay = 5
SPECIFICATION FairSpec
INVARIANTS
    Faithful
    NodesReproduced
PROPERTIES
    ReplayCompletes
    Reproduces
