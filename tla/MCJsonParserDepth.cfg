SPECIFICATION FairSpec
CONSTANTS
    Cases <- DepthCases
    DocumentLevels = 24
    TreeLevels = 16
    Instants <- MCInstants
    Numbers <- MCNumbers
INVARIANTS
    Inv
    TreeInv
    RecursionBounded
    TreeWithinDepth
    RoomLeft
    RejectedIsMeaningless
PROPERTIES
    Terminates
