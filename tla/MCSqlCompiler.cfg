SPECIFICATION Spec
CONSTANTS
    Instants <- MCInstants
    Numbers <- MCNumbers
    Nodes <- AllNodes
    Filters <- AllFilters
    Targets <- AllTargets
    FilterLevels = 6
    Rows <- AllRows
INVARIANTS
    SelectsTheFilter
    RelatesTheIntervals
    EveryPlaceholderBound
    ArgsInPlaceholderOrder
    CompiledIffSupported
