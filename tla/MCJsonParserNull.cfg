SPECIFICATION Spec
CONSTANTS
    Cases <- NullCases
    DocumentLevels = 10
    TreeLevels = 12
    Instants <- MCInstants
    Numbers <- MCNumbers
INVARIANTS
    NullOnlyInIsNull
