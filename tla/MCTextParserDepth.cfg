SPECIFICATION FairSpec
CONSTANTS
    TreeLevels = 16
    Cases <- DepthCases
    Instants <- MCInstants
    Numbers <- MCNumbers
INVARIANTS
    Inv
    TreeInv
    SavesOrdered
    RecursionBounded
    TreeWithinDepth
    RoomLeft
PROPERTIES
    Terminates
