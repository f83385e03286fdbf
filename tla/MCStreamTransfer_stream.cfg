SPECIFICATION FairSpec
CONSTANTS
    push = push
    pull = pull
    one = one
    two = two
    Link <- Links
    Pull <- Pulls
    Path <- Paths
    Files <- Lists
    Size <- Sizes
    MaxSize = 3
    Threshold = 2
    Buffer = 2
    MaxFaults = 1
    Env <- Everything
INVARIANTS
    TypeOK
    DamageStaysLocal
    EntryOfFile
    InFrame
PROPERTIES
    SessionEnds
CHECK_DEADLOCK FALSE
