SPECIFICATION Spec
CONSTANTS
    TreeLevels = 12
    Cases <- LanguageCases
    Instants <- MCInstants
    Numbers <- MCNumbers
INVARIANTS
    AcceptedIsTheDerivation
    RejectedIsUnderivable
    FailClosed
    OperandsCanMeet
    GeometriesAreSound
