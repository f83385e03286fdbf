SPECIFICATION Spec
CONSTANTS
    Node = {self, peerNode}
    Self = self
    Peer = peerNode
    Path = {f, g}
    Dir = dir
    InDir = {g}
    Content = {1, 2}
    Strategy = "last-write-wins"
    Env <- WatchEnv
    MaxTime = 3
INVARIANTS
    TypeOK
    IndexTracksDisk
PROPERTIES
    TombstoneMeansGone
    LocalStepsForward
CHECK_DEADLOCK FALSE
