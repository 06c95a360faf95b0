SPECIFICATION Spec
CONSTANTS
    Ids = {"a", "b", "c"}
    NumBlocks = 3
    BlockSize = 2
    PromptLen <- Prompts
    MaxTokens <- Answers
    MaxNumSeqs = 3
    MaxNumBatchedTokens = 3
    MaxModelLen = 5
    Faults = {"init", "batch"}
    MaxAdds = 1
    MaxAborts = 1
    CanShutdown = TRUE
    CanKill = FALSE
INVARIANTS
    TypeOK
    BookkeepingNeverRaises
    BlocksFollowRequests
    AttentionReadsOwnTokens
    BatchesFitTheWorker
    RunningHasWork
    SubmissionInOnePlace
    OneFinalOutput
    LengthLimits
PROPERTIES
    TablesOnlyGrow
CHECK_DEADLOCK FALSE
