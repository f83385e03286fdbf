SPECIFICATION Spec
CONSTANTS
    a = a
    b = b
    Node = {a, b}
    Path = {f}
    Link <- BothWays
    GreetFirst = FALSE
    SyncDeletes = TRUE
    Strategy = "keep-both"
    Env = {"write", "delete", "cross"}
    MaxTime = 3
PROPERTY NoDataLost
CHECK_DEADLOCK FALSE
