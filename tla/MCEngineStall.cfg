SPECIFICATION FairSpec
CONSTANTS
    Ids = {"a", "b"}
    NumBlocks = 4
    BlockSize = 1
    PromptLen <- UnitPrompts
    MaxTokens <- FullAnswers
    MaxNumSeqs = 2
    MaxNumBatchedTokens = 2
    MaxModelLen = 4
    Faults = {}
    MaxAdds = 1
    MaxAborts = 0
    CanShutdown = FALSE
    CanKill = FALSE
PROPERTIES EverySubmissionAnswered
