------------------------------- MODULE Syntax --------------------------------
(***************************************************************************)
(* Programs as sdyn_parse gets them, texts that grow piece by piece, and   *)
(* what tokenizer.c and parser.c make of each.                             *)
(***************************************************************************)
EXTENDS Parser

\* Families of texts: the start of all of them, the pieces that are added to it, how many,
\* and whether the texts are programs or only tokens
CONSTANT Families

VARIABLES
    family,     \* one of them
    text,       \* the text so far
    size        \* the pieces in it

syntaxVars == <<family, text, size>>

SyntaxInit ==
    /\ family \in Families
    /\ text = family.start
    /\ size = 0

\* A program that the parser has given up on only gets longer: later text is not read.
GivenUp == family.program /\ ParseProgram(Words(text)).status = "error"

AddPiece ==
    /\ size < family.max
    /\ ~GivenUp
    /\ \E p \in family.pieces : text' = text \o p
    /\ size' = size + 1
    /\ UNCHANGED family

SyntaxSpec == SyntaxInit /\ [][AddPiece]_syntaxVars
------------------------------------------------------------------------------
\* The lengths of the lexemes of docs/GRAMMAR that start at a position
Lexemes(at) == {n \in 1 .. Len(text) - at + 1 : Lexeme(Slice(text, at, at + n - 1)) # "none"}

\* What sdyn_tokenize takes for a token, and the document does not: a string literal
\* that the text's end cuts off, an intrinsic without a name, a number that starts with 0.
IsLenient(t) ==
    \/ t.type = "<str>" /\ t.at + t.valLen = Len(text) + 1
    \/ t.type = "<intrinsic>" /\ t.valLen = 1 /\ CharAt(text, t.at + 1) \notin Alphanumerics
    \/ /\ t.type = "<num>"
       /\ Consists(Text(text, t), Digits)
       /\ CharAt(text, t.at + t.valLen) \notin Digits

IsLongest(t) ==
    IF Lexemes(t.at) # {}
    THEN t.valLen = Max(Lexemes(t.at)) /\ t.type = Lexeme(Text(text, t))
    ELSE IsLenient(t) \/ (t.type = "ERR" /\ t.valLen = 1)

\* All tokens but EOF
RealTokens(ts) == {ts[k] : k \in 1 .. Len(ts) - 1}

\* "Tokenization is greedy" (docs/GRAMMAR 16): a token is the longest lexeme at its
\* place, of that lexeme's type, and an error only where there is none.
TokensAreLongest == ~family.program => \A t \in RealTokens(Tokens(text)) : IsLongest(t)

\* Where the k-th token ends
EndOf(ts, k) == IF k = 0 THEN 1 ELSE ts[k].at + ts[k].valLen

BlankBetween(ts) ==
    /\ \A k \in 1 .. Len(ts) - 1 :
          /\ ts[k].at >= EndOf(ts, k - 1)
          /\ IsBlank(Slice(text, EndOf(ts, k - 1), ts[k].at - 1), FALSE)
          /\ CharAt(text, ts[k].at) \notin White
          /\ Slice(text, ts[k].at, ts[k].at + 1) \notin {"//", "/*"}
    /\ IsBlank(Slice(text, EndOf(ts, Len(ts) - 1), Len(text)), TRUE)

\* Nothing of the text is lost: what is before, between and behind the tokens is
\* whitespace and whole comments, and no token is in a comment.
GapsAreBlank == BlankBetween(Tokens(text))

\* p is what the document makes of these tokens.
AgreesOn(ts, p) == ProgramTrees(ts) = IF Fine(p) THEN {p.value} ELSE {}

\* The recursive descent, which parses an expression before it knows whether it is what
\* is assigned to, accepts exactly the programs of docs/GRAMMAR, and the tree it makes of one
\* is that of its only derivation.
ParsesTheGrammar == family.program => AgreesOn(Words(text), ParseProgram(Words(text)))
------------------------------------------------------------------------------
\* String literals.  sdyn_unquote reads the character after a backslash before it
\* moves there: it finds the backslash, and skips the character.
RECURSIVE UnquoteFrom(_, _)
UnquoteFrom(s, i) ==
    CASE i >= Len(s)                             -> ""
      [] i < Len(s) /\ CharAt(s, i) = "\\"       -> "\\" \o UnquoteFrom(s, i + 2)
      [] OTHER                                   -> CharAt(s, i) \o UnquoteFrom(s, i + 1)

Unquote(s) == UnquoteFrom(s, 2)

\* docs/SEMANTICS 347-359
RECURSIVE EvaluateFrom(_, _)
EvaluateFrom(s, i) ==
    LET escaped == CharAt(s, i + 1)
        char    == CASE escaped = "n" -> "\n"
                     [] escaped = "r" -> "\r"
                     [] OTHER         -> escaped
    IN  CASE i >= Len(s)                       -> ""
          [] i < Len(s) /\ CharAt(s, i) = "\\" -> char \o EvaluateFrom(s, i + 2)
          [] OTHER                             -> CharAt(s, i) \o EvaluateFrom(s, i + 1)

\* "\n: Newline (\x0A)", and so on: a literal evaluates to the characters that it
\* denotes.
EscapesAreEvaluated ==
    \A t \in RealTokens(Tokens(text)) :
        t.type = "<str>" /\ IsLiteral(Text(text, t)) =>
            Unquote(Text(text, t)) = EvaluateFrom(Text(text, t), 2)
==============================================================================
