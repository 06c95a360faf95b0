SPECIFICATION FairSpec
CONSTANTS
    Ids = {"a", "b"}
    MaxAdds = 1
    NumRanks = 2
    MaxAborts = 1
    MaxOutputs = 1
    CanFail <- FirstRank
INVARIANTS
    LoadIsOutstanding
    AbortFindsItsRank
PROPERTIES
    ImplementsRequestService
    LiveRanksAnswer
    RanksShutDown
CHECK_DEADLOCK FALSE
