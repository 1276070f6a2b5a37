CONSTANTS
    Group = {"g"}
    Stream = {"s"}
    BlockDim = 2
    QueueSize = 3
    Width = 4
    Id <- TwoIds
    Jobs <- MCJobs
SPECIFICATION FairSpec
INVARIANTS
    QueueInv
    ReportsExact
PROPERTIES
    Implements
    Terminates
