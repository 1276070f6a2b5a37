SPECIFICATION FairSpec
CONSTANTS
    OVERLAPPING = 8
    MaxPolls = 2
    ClearedPast = 2
    SearchedPast = 1
    Jobs <- MCJobs
INVARIANTS
    SeeksInFile
    ChunksCover
    OnlyRealMatches
    MissedOnlyThere
PROPERTIES
    Ends
