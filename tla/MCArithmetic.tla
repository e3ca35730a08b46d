---------------------------- MODULE MCArithmetic ----------------------------
\* Words of eight bits, texts of up to four characters, and values of every type.
EXTENDS Arithmetic

LetterTexts(n) == {FoldLeft(LAMBDA text, c : text \o c, "", t) : t \in [1 .. n -> {"-", "+", "0", "1", "9", "a"}]}

ShortTexts == UNION {LetterTexts(n) : n \in 0 .. 4}

SomeValues ==
    {Undefined, BoxObject(0), BoxObject(1), BoxFunc(1)}
    \cup {BoxBool(b) : b \in BOOLEAN}
    \cup {BoxInt(n) : n \in {-1, 0, 1}}
    \cup {BoxString(s) : s \in {"", "0", "1", "01", "-1", "true", "undefined", "[object Object]", "[function]"}}
==============================================================================
