CONSTANTS
    MaxV = 5
    Graphs <- MCGraphs
SPECIFICATION FairSpec
INVARIANTS
    RoundInv
    GroupsIndependent
PROPERTIES
    Terminates
