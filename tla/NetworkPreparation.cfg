CONSTANTS
    Symbol <- AB
    Jobs <- MCJobs
SPECIFICATION FairSpec
INVARIANTS
    GraphsSound
    SameReports
    FitsBlock
    PackedOnce
PROPERTIES
    Ends
