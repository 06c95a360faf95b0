SPECIFICATION Spec
CONSTANTS
    Ids = {"a"}
    MaxAdds = 2
    Quitters = {"a"}
    Reused = {"a"}
    BadPrompts = {}
    MaxAborts = 0
    MaxOutputs = 1
    Ranks = {0}
    MaxBatches = 1
INVARIANTS ReadersSeeOwnOutputs
CHECK_DEADLOCK FALSE
