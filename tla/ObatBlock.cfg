CONSTANTS
    Group = {"g0"}
    Stream = {"s0"}
    BlockDim = 3
    Capacity = 6
    Width = 4
    Id <- TwoIds
    Jobs <- MCJobs
SPECIFICATION FairSpec
INVARIANTS
    IInv
    NoRace
    ReportsExact
PROPERTIES
    Implements
    Terminates
