CONSTANTS
    Group = {"g"}
    Stream = {"s"}
    BlockDim = 2
    WordBits = 2
    Capacity = 2
    Symbol <- AB
    Id <- TwoIds
    Jobs <- JobsPair
SPECIFICATION FairSpec
INVARIANTS
    TypeOK
    ReportsLate
PROPERTIES
    Implements
    Terminates
