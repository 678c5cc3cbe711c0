SPECIFICATION Spec
CONSTANTS
    TreeLevels = 12
    Cases <- NotChainCases
    Instants <- MCInstants
    Numbers <- MCNumbers
INVARIANTS
    RecursionWithinMaxDepth
