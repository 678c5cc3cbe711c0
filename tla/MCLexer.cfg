SPECIFICATION Spec
CONSTANTS
    Texts <- MCTexts
    MaxExponent = 11
INVARIANTS
    TypeOK
    NumbersAreLongest
    NumbersKeepTheirValue
    RewrittenTextLexesAlike
