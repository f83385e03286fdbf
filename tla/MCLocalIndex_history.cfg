SPECIFICATION FairSpec
CONSTANTS
    Node = {self, peerNode}
    Self = self
    Peer = peerNode
    Path = {f}
    Dir = dir
    InDir = {}
    Content = {1, 2}
    Strategy = "keep-both"
    Env <- HistoryEnv
    MaxTime = 4
INVARIANTS
    OwnHistoryKept
    SameClockSameVersion
PROPERTIES
    CorruptionRepaired
CHECK_DEADLOCK FALSE
