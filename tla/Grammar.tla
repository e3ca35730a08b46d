------------------------------- MODULE Grammar -------------------------------
(***************************************************************************)
(* docs/GRAMMAR, as data: what a token is, which sequences of tokens are   *)
(* programs, and the tree each of them stands for.  It knows nothing of    *)
(* tokenizer.c and parser.c; they are compared with it.                    *)
(*                                                                         *)
(* A tree has a type, the name or literal it is about, and its children;   *)
(* an else clause that is not there is no child.                           *)
(***************************************************************************)
EXTENDS Tokenizer

Node(type, tok, children) == [type |-> type, tok |-> tok, children |-> children]
------------------------------------------------------------------------------
\* Lexemes.

Consists(s, set) == \A i \in 1 .. Len(s) : CharAt(s, i) \in set

\* The quotation mark at position i of a literal's text is escaped: an odd number of
\* backslashes is before it.
Escaped(s, i) ==
    \E k \in 1 .. i - 1 :
        /\ (i - k) % 2 = 1
        /\ \A m \in k .. i - 1 : CharAt(s, m) = "\\"
        /\ k = 1 \/ CharAt(s, k - 1) # "\\"

IsLiteral(s) ==
    /\ Len(s) >= 2
    /\ CharAt(s, 1) = "\""
    /\ {i \in 2 .. Len(s) : CharAt(s, i) = "\"" /\ ~Escaped(s, i)} = {Len(s)}

\* The type of a whole lexeme, or "none"
Lexeme(s) ==
    CASE s \in Fixed -> s
      [] s \notin Keywords /\ s # "" /\ CharAt(s, 1) \in Letters
         /\ Consists(s, Alphanumerics) -> "<id>"
      [] Len(s) > 1 /\ CharAt(s, 1) = "$"
         /\ Consists(Slice(s, 2, Len(s)), Alphanumerics) -> "<intrinsic>"
      [] s # "" /\ CharAt(s, 1) \in Digits \ {"0"} /\ Consists(s, Digits) -> "<num>"
      [] IsLiteral(s) -> "<str>"
      [] OTHER        -> "none"

\* Whitespace, and the comments that are not in the document: up to the end of the line,
\* or of the text; and up to the first */, or the end of the text.
IsLineComment(s) ==
    /\ Slice(s, 1, 2) = "//"
    /\ \A i \in 1 .. Len(s) : CharAt(s, i) # "\n"

Closings(s) == {i \in 3 .. Len(s) - 1 : Slice(s, i, i + 1) = "*/"}

IsBlockComment(s) == Len(s) >= 4 /\ Slice(s, 1, 2) = "/*" /\ Closings(s) = {Len(s) - 1}

IsOpenComment(s)  == Slice(s, 1, 2) = "/*" /\ Closings(s) = {}

\* s is blank; last says that the text ends with it.
RECURSIVE IsBlank(_, _)
IsBlank(s, last) ==
    \/ s = ""
    \/ CharAt(s, 1) \in White /\ IsBlank(Slice(s, 2, Len(s)), last)
    \/ \E k \in 2 .. Len(s) :
         LET unit == Slice(s, 1, k)
             rest == Slice(s, k + 1, Len(s))
         IN  /\ \/ IsLineComment(unit) /\ (CharAt(rest, 1) = "\n" \/ (rest = "" /\ last))
                \/ IsBlockComment(unit)
                \/ IsOpenComment(unit) /\ rest = "" /\ last
             /\ IsBlank(rest, last)
------------------------------------------------------------------------------
\* The rules: for each nonterminal its right hand sides.
Binary(name, ops, sub) == {<<sub>>} \cup {<<name, op, sub>> : op \in ops}

Productions == [
    Top        |-> {<<"Decls">>},
    Decls      |-> {<<"Decl", "Decls">>, <<>>},
    Decl       |-> {<<"FunDecl">>, <<"VarDecl">>, <<"<id>", "(", ")", ";">>},
    FunDecl    |-> {<<"function", "<id>", "(", "Params", ")", "{", "VarDecls", "Statements", "}">>},
    VarDecls   |-> {<<"VarDecl", "VarDecls">>, <<>>},
    VarDecl    |-> {<<"var", "<id>", ";">>},
    Params     |-> {<<"ParamList">>, <<>>},
    ParamList  |-> {<<"Param", ",", "ParamList">>, <<"Param">>},
    Param      |-> {<<"<id>">>},
    Statements |-> {<<"Statement", "Statements">>, <<>>},
    Statement  |-> {<<"if", "(", "Expression", ")", "{", "Statements", "}", "ElseClause">>,
                    <<"while", "(", "Expression", ")", "{", "Statements", "}">>,
                    <<"return", "Expression", ";">>, <<"Expression", ";">>},
    ElseClause |-> {<<"else", "{", "Statements", "}">>, <<>>},
    Expression |-> {<<"LVal", "=", "Expression">>, <<"OrExp">>},
    OrExp      |-> Binary("OrExp", {"||"}, "AndExp"),
    AndExp     |-> Binary("AndExp", {"&&"}, "EqExp"),
    EqExp      |-> Binary("EqExp", {"==", "!="}, "RelExp"),
    RelExp     |-> Binary("RelExp", {"<", ">", "<=", ">="}, "AddExp"),
    AddExp     |-> Binary("AddExp", {"+", "-"}, "MulExp"),
    MulExp     |-> Binary("MulExp", {"*", "%"}, "PrefixExp"),
    PrefixExp  |-> {<<"~", "~", "(", "MulExp", "/", "PrefixExp", ")">>, <<"!", "PrefixExp">>,
                    <<"typeof", "PrefixExp">>, <<"PostfixExp">>},
    PostfixExp |-> {<<"PostfixExp", "(", "Args", ")">>, <<"PostfixExp", "[", "Expression", "]">>,
                    <<"PostfixExp", ".", "<id>">>, <<"<intrinsic>", "(", "Args", ")">>, <<"Primary">>},
    LVal       |-> {<<"PostfixExp", "[", "Expression", "]">>, <<"PostfixExp", ".", "<id>">>,
                    <<"<id>">>, <<"(", "LVal", ")">>},
    Args       |-> {<<"ArgList">>, <<>>},
    ArgList    |-> {<<"Arg", ",", "ArgList">>, <<"Arg">>},
    Arg        |-> {<<"Expression">>},
    Primary    |-> {<<"<id>">>, <<"<num>">>, <<"<str>">>, <<"false">>, <<"true">>,
                    <<"{", "}">>, <<"(", "Expression", ")">>} ]

Nonterminals == DOMAIN Productions
Terminals    == (UNION {UNION {{rhs[i] : i \in DOMAIN rhs} : rhs \in Productions[N]} : N \in Nonterminals}) \ Nonterminals
Nullable     == {"Top", "Decls", "VarDecls", "Params", "Statements", "ElseClause", "Args"}

\* The operation an operator stands for
Operation ==
    [type \in {"||", "&&", "==", "!=", "<", ">", "<=", ">=", "+", "-", "*", "%", "/", "=", "!", "typeof"} |->
       CASE type = "||" -> "OR"  [] type = "&&" -> "AND" [] type = "==" -> "EQ"  [] type = "!=" -> "NE"
         [] type = "<"  -> "LT"  [] type = ">"  -> "GT"  [] type = "<=" -> "LE"  [] type = ">=" -> "GE"
         [] type = "+"  -> "ADD" [] type = "-"  -> "SUB" [] type = "*"  -> "MUL" [] type = "%"  -> "MOD"
         [] type = "/"  -> "DIV" [] type = "="  -> "ASSIGN" [] type = "!" -> "NOT"
         [] type = "typeof" -> "TYPEOF"]

Block(trees) == Node("STATEMENTS", "", trees)

\* What a rule makes of the values of its right hand side: k[i] is the tree of the i-th
\* symbol, the text if it is a terminal, the sequence of trees if it is a list.
Meant(lhs, rhs, k) ==
    CASE lhs \in {"Decls", "VarDecls", "Statements", "ParamList", "ArgList"} ->
           IF rhs = <<>> THEN <<>> ELSE <<k[1]>> \o (IF Len(k) = 1 THEN <<>> ELSE k[Len(k)])
      [] lhs \in {"Params", "Args"} -> IF rhs = <<>> THEN <<>> ELSE k[1]
      [] lhs = "Top"     -> Node("TOP", "", k[1])
      [] lhs = "Decl" /\ Len(rhs) > 1 -> Node("GLOBALCALL", k[1], <<>>)
      [] lhs = "FunDecl" -> Node("FUNDECL", k[2], <<Node("PARAMS", "", k[4]), Node("VARDECLS", "", k[7]), Block(k[8])>>)
      [] lhs = "VarDecl" -> Node("VARDECL", k[2], <<>>)
      [] lhs = "Param"   -> Node("PARAM", k[1], <<>>)
      [] lhs = "ElseClause" -> IF rhs = <<>> THEN <<>> ELSE <<Block(k[3])>>
      [] lhs = "Statement" /\ rhs[1] = "if"    -> Node("IF", "", <<k[3], Block(k[6])>> \o k[8])
      [] lhs = "Statement" /\ rhs[1] = "while" -> Node("WHILE", "", <<k[3], Block(k[6])>>)
      [] lhs = "Statement" /\ rhs[1] = "return" -> Node("RETURN", "", <<k[2]>>)
      [] lhs = "PrefixExp" /\ rhs[1] = "~"     -> Node("DIV", "", <<k[4], k[6]>>)
      [] lhs = "PrefixExp" /\ Len(rhs) = 2     -> Node(Operation[rhs[1]], "", <<k[2]>>)
      [] rhs = <<"<intrinsic>", "(", "Args", ")">> -> Node("INTRINSICCALL", k[1], <<Node("ARGS", "", k[3])>>)
      [] rhs = <<"PostfixExp", "(", "Args", ")">>  -> Node("CALL", "", <<k[1], Node("ARGS", "", k[3])>>)
      [] rhs = <<"PostfixExp", "[", "Expression", "]">> -> Node("INDEX", "", <<k[1], k[3]>>)
      [] rhs = <<"PostfixExp", ".", "<id>">>       -> Node("MEMBER", k[3], <<k[1]>>)
      [] lhs \in {"Primary", "LVal"} /\ rhs = <<"<id>">> -> Node("VARREF", k[1], <<>>)
      [] rhs = <<"<num>">> -> Node("NUM", k[1], <<>>)
      [] rhs = <<"<str>">> -> Node("STR", k[1], <<>>)
      [] rhs = <<"false">> -> Node("FALSE", "", <<>>)
      [] rhs = <<"true">>  -> Node("TRUE", "", <<>>)
      [] rhs = <<"{", "}">> -> Node("OBJ", "", <<>>)
      [] rhs \in {<<"(", "Expression", ")">>, <<"(", "LVal", ")">>} -> k[2]
      [] Len(rhs) = 3 /\ rhs[2] \in DOMAIN Operation -> Node(Operation[rhs[2]], "", <<k[1], k[3]>>)
      [] OTHER -> k[1]

\* A cheap test first: symbols can only stand for the tokens i to j if these agree.
Fits(ts, symbols, i, j) ==
    LET n == Len(symbols) IN
    /\ n = 0 => i = j + 1
    /\ n > 0 => /\ i <= j + 1
                /\ symbols[1] \in Terminals => i <= j /\ ts[i].type = symbols[1]
                /\ symbols[n] \in Terminals => i <= j /\ ts[j].type = symbols[n]
    /\ (\A k \in 1 .. n : symbols[k] \in Terminals) => j = i + n - 1

\* All trees that nonterminal N has for the tokens i to j, and all sequences of values that
\* a sequence of symbols has
RECURSIVE Trees(_, _, _, _), Values(_, _, _, _)

Trees(ts, N, i, j) ==
    UNION {{Meant(N, rhs, k) : k \in Values(ts, rhs, i, j)} : rhs \in Productions[N]}

Values(ts, symbols, i, j) ==
    CASE ~Fits(ts, symbols, i, j) -> {}
      [] symbols = <<>> /\ i = j + 1  -> {<<>>}
      [] Fits(ts, symbols, i, j) /\ symbols # <<>> /\ Head(symbols) \in Terminals ->
           {<<ts[i].text>> \o rest : rest \in Values(ts, Tail(symbols), i + 1, j)}
      [] OTHER ->
           UNION { LET first == Trees(ts, Head(symbols), i, k)
                   IN  IF first = {} THEN {}
                       ELSE {<<t>> \o rest : t \in first, rest \in Values(ts, Tail(symbols), k + 1, j)} :
                   k \in {m \in (IF Head(symbols) \in Nullable THEN i - 1 ELSE i) .. j :
                            Fits(ts, Tail(symbols), m + 1, j)} }

\* The trees of a whole program, given as its tokens and EOF
ProgramTrees(ts) == Trees(ts, "Top", 1, Len(ts) - 1)
==============================================================================
