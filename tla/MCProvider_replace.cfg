SPECIFICATION FairSpec
CONSTANTS
    Mode <- Modes
    MaxInstance = 2
    MaxImage = 1
    MaxCalls = 1
    Parts = 2
    Env <- Everything
INVARIANTS
    TypeOK
    Remains
    PauseHolds
    SyncingIsReal
    StoreWhole
PROPERTIES
    StopReturns
    ResumeSyncs
CHECK_DEADLOCK FALSE
