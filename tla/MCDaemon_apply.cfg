SPECIFICATION FairSpec
CONSTANTS
    p = p
    q = q
    PairId = {p, q}
    Config <- Configs
    MaxPairs = 2
    Boot = boot
    Halt = halt
    Request = {r1, r2}
    Env <- SerialEnv
INVARIANTS
    TypeOK
    OneInstance
    Owned
    ShownIsServed
    EndsStopped
PROPERTY TasksEnd
CHECK_DEADLOCK FALSE
