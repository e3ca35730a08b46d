CONSTANTS
    WordBits = 8
    Texts <- ShortTexts
    Operands <- SomeValues
SPECIFICATION ArithmeticSpec
CHECK_DEADLOCK FALSE
INVARIANTS
    DivisionTruncates
    TextsAreDecimal
    TextsAreReadAsDecimal
    EqualityIsES5
    ImmediatesAreLoaded
