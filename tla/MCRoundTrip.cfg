SPECIFICATION Spec
CONSTANTS
    TextCases <- MCTextCases
    JsonCases <- MCJsonCases
    TreeLevels = 12
    Instants <- MCInstants
    Numbers <- MCRoundTripNumbers
    Spelling <- MCSpelling
INVARIANTS
    RoundTripsExactly
    OnlyNamedChanges
    CanonicalOutputIsStable
