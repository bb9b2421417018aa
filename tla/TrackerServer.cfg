SPECIFICATION Spec
CONSTANTS
    None = None
    Cap = 3
    LastCredit = 1
    Window = 2
    JoinGap = 2
    DayLength = 4
    Batches <- MCBatches
    Items <- MCItems
    MaxRequests = 3
    MaxInflight = 2
    MaxOps = 2
    ChunkDays = 2
    MaxDays = 3
    Cutoffs = {4, 8}
INVARIANTS
    StoreIsFaithful
    AttributionIsRight
    
CHECK_DEADLOCK FALSE
