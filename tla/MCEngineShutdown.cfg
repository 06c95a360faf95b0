SPECIFICATION FairSpec
CONSTANTS
    Ids = {"a", "b", "c"}
    NumBlocks = 3
    BlockSize = 2
    PromptLen <- OversizedPrompt
    MaxTokens <- Answers
    MaxNumSeqs = 1
    MaxNumBatchedTokens = 2
    MaxModelLen = 5
    Faults = {"init", "batch"}
    MaxAdds = 1
    MaxAborts = 1
    CanShutdown = TRUE
    CanKill = TRUE
INVARIANTS ExceptionAnswersAll
PROPERTIES
    ShutdownCompletes
    ImplementsRequestService
CHECK_DEADLOCK FALSE
