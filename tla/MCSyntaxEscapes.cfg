CONSTANTS
    Families <- EscapeFamilies
SPECIFICATION SyntaxSpec
CHECK_DEADLOCK FALSE
INVARIANTS
    EscapesAreEvaluated
