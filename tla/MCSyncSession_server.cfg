SPECIFICATION Spec
CONSTANTS
    a = a
    b = b
    Node = {a, b}
    Path = {f}
    Link <- ClientOnly
    GreetFirst = TRUE
    SyncDeletes = TRUE
    Strategy = "last-write-wins"
    Env = {"write", "delete", "mid", "lag", "drop"}
    MaxTime = 4
INVARIANTS
    TypeOK
    SameClockSameVersion
PROPERTY NeverBackwards
CHECK_DEADLOCK FALSE
