CONSTANTS
    Families <- AllFamilies
SPECIFICATION SyntaxSpec
CHECK_DEADLOCK FALSE
INVARIANTS
    TokensAreLongest
    GapsAreBlank
    ParsesTheGrammar
