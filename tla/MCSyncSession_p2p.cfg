SPECIFICATION FairSpec
CONSTANTS
    a = a
    b = b
    Node = {a, b}
    Path = {f, g}
    Link <- BothWays
    GreetFirst = FALSE
    SyncDeletes = TRUE
    Strategy = "keep-both"
    Env = {"write", "delete", "move", "copy"}
    MaxTime = 3
INVARIANTS
    NoMutualWait
    IndexHonest
PROPERTY EventuallyAgree
CHECK_DEADLOCK FALSE
