CONSTANTS
    Group = {"g"}
    Stream = {"s"}
    BlockDim = 2
    SlotCount = 5
    Capacity = 2
    Symbol <- AB
    Id <- TwoIds
    Jobs <- MCJobs
SPECIFICATION FairSpec
INVARIANTS
    ActiveIncompatible
    ReportsExact
PROPERTIES
    Implements
    Terminates
