CONSTANTS
    Symbol <- AB
    Id <- TwoIds
    Networks <- Components
SPECIFICATION PairsFairSpec
INVARIANTS
    IInv
    TogetherIncompatible
PROPERTIES
    PairsTerminate
