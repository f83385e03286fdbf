SPECIFICATION Spec
CONSTANTS
    Node = {self, peerNode}
    Self = self
    Peer = peerNode
    Path = {f}
    Dir = dir
    InDir = {}
    Content = {1, 2}
    Strategy = "last-write-wins"
    Env <- RestartEnv
    MaxTime = 5
INVARIANT OwnHistoryKept
CHECK_DEADLOCK FALSE
