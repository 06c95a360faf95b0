\* 4 blocks of 2 tokens, 3 requests: enough for every interleaving of partial
\* growth, exhaustion and reuse of released blocks in a different order.
SPECIFICATION CacheSpec
CONSTANTS
    Ids = {r1, r2, r3}
    NumBlocks = 4
    BlockSize = 2
    Targets <- AllTargets
INVARIANTS
    CacheTypeOK
    BlocksConserved
    SlotsDisjoint
PROPERTIES
    FailedCallsChangeNothing
    ImplementsOwnership
CHECK_DEADLOCK TRUE
