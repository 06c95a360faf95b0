SPECIFICATION Spec
CONSTANTS
    Ids = {"a", "b"}
    MaxAdds = 2
    Quitters = {"a"}
    Reused = {"b"}
    BadPrompts = {"b"}
    MaxAborts = 0
    MaxOutputs = 1
    Ranks = {k1, k2}
    MaxBatches = 1
INVARIANTS
    ClientTypeOK
    ReadersSeeOwnOutputs
    NoRequestWithoutReader
    StreamsAreReleased
    BatchesCountedOnce
CHECK_DEADLOCK FALSE
SYMMETRY RankSymmetry
