CONSTANTS
    Group = {"g"}
    Stream = {"s"}
    BlockDim = 2
    QueueSize = 2
    Width = 4
    Id <- TwoIds
    Jobs <- JobsShared
SPECIFICATION Spec
INVARIANTS
    OnlyEnabledReport

