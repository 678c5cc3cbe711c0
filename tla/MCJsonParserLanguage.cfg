SPECIFICATION Spec
CONSTANTS
    Cases <- LanguageCases
    DocumentLevels = 10
    TreeLevels = 12
    Instants <- MCInstants
    Numbers <- MCNumbers
INVARIANTS
    AcceptedIsMeant
    RejectedIsMeaningless
    FailClosed
    OperandsCanMeet
    GeometriesAreSound
