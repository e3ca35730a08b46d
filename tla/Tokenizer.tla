------------------------------ MODULE Tokenizer ------------------------------
(***************************************************************************)
(* sdyn_tokenize of tokenizer.c, over texts that are strings.  The type of *)
(* a symbol or keyword is its text; the other types have the names they    *)
(* have in docs/GRAMMAR.                                                   *)
(***************************************************************************)
EXTENDS Integers, Sequences, FiniteSetsExt

Characters(s) == {SubSeq(s, i, i) : i \in 1 .. Len(s)}

White    == {" ", "\t", "\n", "\r"}
Letters  == Characters("abcdefghijklmnopqrstuvwxyz") \cup Characters("ABCDEFGHIJKLMNOPQRSTUVWXYZ")
Digits   == Characters("0123456789")
Alphanumerics == Letters \cup Digits
Keywords == {"else", "false", "function", "if", "null", "return", "true", "typeof", "var", "while"}
OneChar  == {"(", ")", "{", "}", "[", "]", ";", ",", "+", "-", "*", "%", "/", "~", ".",
             "=", "!", "<", ">"}
TwoChars == {"||", "&&", "==", "!=", "<=", ">="}
Fixed    == Keywords \cup OneChar \cup TwoChars

\* The characters from position i to j, as far as the text goes; the NUL at its end is "".
Slice(inp, i, j) == SubSeq(inp, i, IF j < Len(inp) THEN j ELSE Len(inp))
CharAt(inp, i)   == IF i <= Len(inp) THEN SubSeq(inp, i, i) ELSE ""

\* The first position from i on where P holds, or that of the NUL
FirstFrom(inp, i, P(_)) == Min({k \in i .. Len(inp) : P(k)} \cup {Len(inp) + 1})

\* A type, and where in the text
Token(type, at, valLen) == [type |-> type, at |-> at, valLen |-> valLen]

Text(inp, tok) == Slice(inp, tok.at, tok.at + tok.valLen - 1)

\* The position after the next end of a line, or after the next end of a block comment
EndOfLine(inp, i) == FirstFrom(inp, i, LAMBDA k : CharAt(inp, k) = "\n")
EndOfComment(inp, i) ==
    Min({FirstFrom(inp, i, LAMBDA k : Slice(inp, k, k + 1) = "*/") + 2, Len(inp) + 1})

EndOfWhite(inp, i) == FirstFrom(inp, i, LAMBDA k : CharAt(inp, k) \notin White)

\* mutant: the end of a block comment is looked for right after its start's first character
RECURSIVE SkipBlankEarly(_, _)
SkipBlankEarly(inp, i) ==
    LET start == EndOfWhite(inp, i)
    IN  CASE Slice(inp, start, start + 1) = "//" -> SkipBlankEarly(inp, EndOfLine(inp, start))
          [] Slice(inp, start, start + 1) = "/*" -> SkipBlankEarly(inp, EndOfComment(inp, start + 1))
          [] OTHER -> start

\* The first position from i on that is neither whitespace nor in a comment
RECURSIVE SkipBlank(_, _)
SkipBlank(inp, i) ==
    LET start == EndOfWhite(inp, i)
    IN  CASE Slice(inp, start, start + 1) = "//" -> SkipBlank(inp, EndOfLine(inp, start))
          [] Slice(inp, start, start + 1) = "/*" -> SkipBlank(inp, EndOfComment(inp, start + 2))
          [] OTHER -> start

\* The position after the string literal of which k is the next character
RECURSIVE EndOfString(_, _)
EndOfString(inp, k) ==
    CASE k > Len(inp)                              -> k
      [] k <= Len(inp) /\ CharAt(inp, k) = "\""    -> k + 1
      [] k < Len(inp) /\ CharAt(inp, k) = "\\"     -> EndOfString(inp, k + 2)
      [] OTHER                                     -> EndOfString(inp, k + 1)

\* The type of what begins like a name
NameType(name) ==
    CASE name \in Keywords          -> name
      [] CharAt(name, 1) = "$"      -> "<intrinsic>"
      [] OTHER                      -> "<id>"

NameUpTo(inp, at, end) == Token(NameType(Slice(inp, at, end - 1)), at, end - at)

Name(inp, at) ==
    NameUpTo(inp, at, FirstFrom(inp, at + 1, LAMBDA k : CharAt(inp, k) \notin Alphanumerics))

Number(inp, at) ==
    Token("<num>", at, FirstFrom(inp, at + 1, LAMBDA k : CharAt(inp, k) \notin Digits) - at)

\* mutant: one character is tried first
ShortSymbol(inp, at) ==
    LET two == Slice(inp, at, at + 1)
        one == CharAt(inp, at)
    IN  CASE one \in OneChar -> Token(one, at, 1)
          [] one \notin OneChar /\ two \in TwoChars -> Token(two, at, 2)
          [] OTHER           -> Token("ERR", at, 1)

Symbol(inp, at) ==
    LET two == Slice(inp, at, at + 1)
        one == CharAt(inp, at)
    IN  CASE two \in TwoChars -> Token(two, at, 2)
          [] two \notin TwoChars /\ one \in OneChar -> Token(one, at, 1)
          [] OTHER            -> Token("ERR", at, 1)

\* The token at a position; at the end of the text, one without a position
TokenAt(inp, at) ==
    LET c == CharAt(inp, at)
    IN  CASE c = ""                      -> Token("EOF", 0, 0)
          [] c \in Letters \cup {"$"}    -> Name(inp, at)
          [] c \in Digits                -> Number(inp, at)
          [] c = "\""                    -> Token("<str>", at, EndOfString(inp, at + 1) - at)
          [] OTHER                       -> Symbol(inp, at)

Tokenize(inp, i) == TokenAt(inp, SkipBlank(inp, i))

\* The tokens from position i on, each found where the one before it ends
RECURSIVE TokensFrom(_, _)
TokensFrom(inp, i) ==
    LET tok == Tokenize(inp, i)
    IN  IF tok.type = "EOF" THEN <<tok>> ELSE <<tok>> \o TokensFrom(inp, tok.at + tok.valLen)

Tokens(inp) == TokensFrom(inp, 1)

\* What a parser sees of them
Word(inp, tok) == [type |-> tok.type, text |-> Text(inp, tok)]
WordsOf(inp, toks) == [i \in DOMAIN toks |-> Word(inp, toks[i])]
Words(inp) == WordsOf(inp, Tokens(inp))
==============================================================================
