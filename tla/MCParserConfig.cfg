SPECIFICATION Spec
CONSTANTS
    Instants <- MCInstants
    Depths <- MCDepths
    PropertyLists <- MCPropertyLists
    FunctionLists <- MCFunctionLists
    ClassLists <- MCClassLists
INVARIANTS
    TypeOK
    EnabledPredicatesAreSupported
PROPERTIES
    
    ImplementsSettings
