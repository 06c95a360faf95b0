SPECIFICATION FairSpec
CONSTANTS
    Ids = {"a", "b"}
    MaxAdds = 1
    Quitters = {"a"}
    Reused = {}
    BadPrompts = {"b"}
    MaxAborts = 1
    MaxOutputs = 1
    Ranks = {0}
    MaxBatches = 1
PROPERTIES
    ReadersEnd
CHECK_DEADLOCK FALSE
