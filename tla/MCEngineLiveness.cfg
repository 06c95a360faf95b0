SPECIFICATION FairSpec
CONSTANTS
    Ids = {"a", "b", "c"}
    NumBlocks = 3
    BlockSize = 2
    PromptLen <- Prompts
    MaxTokens <- Answers
    MaxNumSeqs = 2
    MaxNumBatchedTokens = 3
    MaxModelLen = 5
    Faults = {"batch"}
    MaxAdds = 1
    MaxAborts = 0
    CanShutdown = FALSE
    CanKill = FALSE
PROPERTIES EverySubmissionAnswered
