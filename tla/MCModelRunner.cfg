SPECIFICATION Spec
CONSTANTS
    Ids = {a, b, c}
    NumBlocks = 3
    BlockSize = 2
    MaxModelLen = 4
    MaxPrompt = 2
    MaxNumSeqs = 3
    CaptureSizes <- TwoAndFour
    GraphSafe = TRUE
INVARIANTS
    RunnerTypeOK
    FlatArraysMatchItems
    BackendsReadTheSameContext
    PaddingStaysInScratch
    CacheKeepsComputedTokens
    ReplaySampledFromOwnContext
    RunnerNeverRefuses
CHECK_DEADLOCK FALSE
SYMMETRY IdSymmetry
