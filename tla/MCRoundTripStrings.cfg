SPECIFICATION Spec
CONSTANTS
    TextCases <- NoCases
    JsonCases <- StringCases
    TreeLevels = 12
    Instants <- MCInstants
    Numbers <- MCRoundTripNumbers
    Spelling <- MCSpelling
INVARIANTS
    SafeRoundTrip
