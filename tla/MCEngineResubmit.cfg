SPECIFICATION Spec
CONSTANTS
    Ids = {"a", "b"}
    NumBlocks = 3
    BlockSize = 2
    PromptLen <- Prompts
    MaxTokens <- ShortAnswers
    MaxNumSeqs = 2
    MaxNumBatchedTokens = 2
    MaxModelLen = 5
    Faults = {"batch"}
    MaxAdds = 2
    MaxAborts = 1
    CanShutdown = FALSE
    CanKill = FALSE
INVARIANTS
    BookkeepingNeverRaises
    AttentionReadsOwnTokens
PROPERTIES
    ImplementsRequestService
