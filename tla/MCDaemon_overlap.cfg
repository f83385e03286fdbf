SPECIFICATION Spec
CONSTANTS
    p = p
    q = q
    PairId = {p, q}
    Config <- Configs
    MaxPairs = 2
    Boot = boot
    Halt = halt
    Request = {r1, r2}
    Env = {"overlap"}
INVARIANT OneInstance
CHECK_DEADLOCK FALSE
