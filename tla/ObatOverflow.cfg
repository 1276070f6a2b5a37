CONSTANTS
    Group = {"g0", "g1"}
    Stream = {"s0", "s1"}
    BlockDim = 1
    Capacity = 3
    Width = 4
    Id <- TwoIds
    Jobs <- JobsGrid
SPECIFICATION Spec
INVARIANTS
    GetInBounds
