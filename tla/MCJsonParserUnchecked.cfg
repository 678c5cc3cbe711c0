SPECIFICATION Spec
CONSTANTS
    Cases <- UncheckedCases
    DocumentLevels = 24
    TreeLevels = 12
    Instants <- MCInstants
    Numbers <- MCNumbers
INVARIANTS
    RecursionWithinMaxDepth
