-------------------------------- MODULE Parser -------------------------------
(***************************************************************************)
(* sdyn_parse of parser.c: what each parse function makes of the tokens    *)
(* ts and a state.  A state has                                            *)
(*   at      the next token, the parser's only memory,                     *)
(*   value   what was parsed last: a tree, a sequence of trees, or the     *)
(*           text of a token,                                              *)
(*   status  parsed; error after ERROR(); crash after the use of the token *)
(*           after EOF, whose text is NULL.                                *)
(* Once the status is not "parsed" nothing more happens.                   *)
(***************************************************************************)
EXTENDS Grammar, SequencesExt

Fine(s) == s.status = "parsed"

\* RET: what was parsed, if all went well
Result(s, value) == IF Fine(s) THEN [s EXCEPT !.value = value] ELSE s

Fail(s, status) == IF Fine(s) THEN [s EXCEPT !.status = status] ELSE s

\* PEEK and IFTOK
Sees(ts, s, types) == Fine(s) /\ ts[s.at].type \in types

\* NEXT
Next(ts, s) ==
    IF Sees(ts, s, {"EOF"}) THEN Fail(s, "crash")
                            ELSE Result([s EXCEPT !.at = @ + 1], ts[s.at].text)

\* ASSERTNEXT: the next token must have this type.
AssertNext(ts, s, type) ==
    IF Sees(ts, s, {type, "EOF"}) THEN Next(ts, s) ELSE Fail(s, "error")

RECURSIVE Parse(_, _, _)

\* ASSERTNEXTs of tokens and calls of parse functions, one after the other
Follow(ts, s, symbols) ==
    LET step(acc, symbol) ==
          LET n == IF symbol \in Nonterminals THEN Parse(ts, acc, symbol) ELSE AssertNext(ts, acc, symbol)
          IN  Result(n, Append(acc.value, n.value))
    IN  FoldLeft(step, Result(s, <<>>), symbols)

\* while the next token is one of these types, one more tree
RECURSIVE Repeat(_, _, _, _)
Repeat(ts, s, N, types) ==
    LET n == Parse(ts, s, N)
    IN  IF Sees(ts, s, types) THEN Repeat(ts, Result(n, Append(s.value, n.value)), N, types) ELSE s

\* ... one more after each comma
RECURSIVE AfterCommas(_, _, _)
AfterCommas(ts, s, N) ==
    LET n == Follow(ts, s, <<",", N>>)
    IN  IF Sees(ts, s, {","}) THEN AfterCommas(ts, Result(n, Append(s.value, n.value[2])), N) ELSE s

List(ts, s, N) == LET n == Parse(ts, s, N) IN AfterCommas(ts, Result(n, <<n.value>>), N)

AnyType == Fixed \cup {"<id>", "<num>", "<str>", "<intrinsic>", "ERR", "EOF"}

ParseDecl(ts, s) ==
    LET call == Follow(ts, s, <<"<id>", "(", ")", ";">>)
    IN  CASE Sees(ts, s, {"function"}) -> Parse(ts, s, "FunDecl")
          [] Sees(ts, s, {"var"})      -> Parse(ts, s, "VarDecl")
          [] Sees(ts, s, {"<id>"})     -> Result(call, Node("GLOBALCALL", call.value[1], <<>>))
          [] OTHER                     -> Fail(s, "error")

ParseFunDecl(ts, s) ==
    LET n == Follow(ts, s, <<"function", "<id>", "(", "Params", ")", "{", "VarDecls", "Statements", "}">>)
        v == n.value
    IN  Result(n, Node("FUNDECL", v[2], <<Node("PARAMS", "", v[4]), Node("VARDECLS", "", v[7]), Block(v[8])>>))

ParseStatement(ts, s) ==
    LET cond == Follow(ts, s, <<"if", "(", "Expression", ")", "{", "Statements", "}", "ElseClause">>)
        loop == Follow(ts, s, <<"while", "(", "Expression", ")", "{", "Statements", "}">>)
        ret  == Follow(ts, s, <<"return", "Expression", ";">>)
        exp  == Follow(ts, s, <<"Expression", ";">>)
    IN  CASE Sees(ts, s, {"if"}) ->
               Result(cond, Node("IF", "", <<cond.value[3], Block(cond.value[6])>> \o cond.value[8]))
          [] Sees(ts, s, {"while"}) -> Result(loop, Node("WHILE", "", <<loop.value[3], Block(loop.value[6])>>))
          [] Sees(ts, s, {"return"}) -> Result(ret, Node("RETURN", "", <<ret.value[2]>>))
          [] OTHER -> Result(exp, exp.value[1])

ParseElseClause(ts, s) ==
    LET n == Follow(ts, s, <<"else", "{", "Statements", "}">>)
    IN  IF Sees(ts, s, {"else"}) THEN Result(n, <<Block(n.value[3])>>) ELSE Result(s, <<>>)

IsLValue(tree) == tree.type \in {"INDEX", "MEMBER", "VARREF"}

\* mutant: parseLValOpt does not rewind
ExpressionWithoutRewind(ts, s) ==
    LET left   == Parse(ts, s, "OrExp")
        assign == Follow(ts, left, <<"=", "Expression">>)
    IN  CASE ~Fine(left) -> left
          [] Fine(left) /\ ~IsLValue(left.value) -> Parse(ts, left, "OrExp")
          [] OTHER -> IF Sees(ts, left, {"="})
                      THEN Result(assign, Node("ASSIGN", "", <<left.value, assign.value[2]>>))
                      ELSE left

\* What is no lvalue is parsed again, from its start.
ParseExpression(ts, s) ==
    LET left   == Parse(ts, s, "OrExp")
        assign == Follow(ts, left, <<"=", "Expression">>)
    IN  CASE ~Fine(left) -> left
          [] Fine(left) /\ ~IsLValue(left.value) -> Parse(ts, s, "OrExp")
          [] OTHER -> IF Sees(ts, left, {"="})
                      THEN Result(assign, Node("ASSIGN", "", <<left.value, assign.value[2]>>))
                      ELSE left

\* The binary operators: what they are between, and which there are
Operand == [OrExp |-> "AndExp", AndExp |-> "EqExp", EqExp |-> "RelExp", RelExp |-> "AddExp",
            AddExp |-> "MulExp", MulExp |-> "PrefixExp"]
Operators == [OrExp |-> {"||"}, AndExp |-> {"&&"}, EqExp |-> {"==", "!="},
              RelExp |-> {"<", ">", "<=", ">="}, AddExp |-> {"+", "-"}, MulExp |-> {"*", "%"}]

RECURSIVE BinaryTail(_, _, _)
BinaryTail(ts, s, N) ==
    LET op == ts[s.at].type
        n  == Follow(ts, s, <<op, Operand[N]>>)
    IN  IF Sees(ts, s, Operators[N])
        THEN BinaryTail(ts, Result(n, Node(Operation[op], "", <<s.value, n.value[2]>>)), N)
        ELSE s

ParsePrefixExp(ts, s) ==
    LET div   == Follow(ts, s, <<"~", "~", "(", "MulExp", "/", "PrefixExp", ")">>)
        op    == ts[s.at].type
        unary == Follow(ts, s, <<op, "PrefixExp">>)
    IN  CASE Sees(ts, s, {"~"})           -> Result(div, Node("DIV", "", <<div.value[4], div.value[6]>>))
          [] Sees(ts, s, {"!", "typeof"}) -> Result(unary, Node(Operation[op], "", <<unary.value[2]>>))
          [] OTHER                        -> Parse(ts, s, "PostfixExp")

RECURSIVE PostfixTail(_, _)
PostfixTail(ts, s) ==
    LET call   == Follow(ts, s, <<"(", "Args", ")">>)
        index  == Follow(ts, s, <<"[", "Expression", "]">>)
        member == Follow(ts, s, <<".", "<id>">>)
    IN  CASE Sees(ts, s, {"("}) ->
               PostfixTail(ts, Result(call, Node("CALL", "", <<s.value, Node("ARGS", "", call.value[2])>>)))
          [] Sees(ts, s, {"["}) -> PostfixTail(ts, Result(index, Node("INDEX", "", <<s.value, index.value[2]>>)))
          [] Sees(ts, s, {"."}) -> PostfixTail(ts, Result(member, Node("MEMBER", member.value[2], <<s.value>>)))
          [] OTHER -> s

ParsePostfixExp(ts, s) ==
    LET call == Follow(ts, s, <<"<intrinsic>", "(", "Args", ")">>)
    IN  PostfixTail(ts, IF Sees(ts, s, {"<intrinsic>"})
                        THEN Result(call, Node("INTRINSICCALL", call.value[1], <<Node("ARGS", "", call.value[3])>>))
                        ELSE Parse(ts, s, "Primary"))

ParsePrimary(ts, s) ==
    LET n     == Next(ts, s)
        paren == Follow(ts, s, <<"(", "Expression", ")">>)
    IN  CASE Sees(ts, s, {"<id>"})  -> Result(n, Node("VARREF", n.value, <<>>))
          [] Sees(ts, s, {"<num>"}) -> Result(n, Node("NUM", n.value, <<>>))
          [] Sees(ts, s, {"<str>"}) -> Result(n, Node("STR", n.value, <<>>))
          [] Sees(ts, s, {"false"}) -> Result(n, Node("FALSE", "", <<>>))
          [] Sees(ts, s, {"true"})  -> Result(n, Node("TRUE", "", <<>>))
          [] Sees(ts, s, {"{"})     -> Result(Follow(ts, s, <<"{", "}">>), Node("OBJ", "", <<>>))
          [] Sees(ts, s, {"("})     -> Result(paren, paren.value[2])
          [] OTHER                  -> Fail(n, "error")

\* parse<N>
Parse(ts, s, N) ==
    CASE N = "Top"        -> LET n == Repeat(ts, Result(s, <<>>), "Decl", AnyType \ {"EOF"})
                             IN  Result(n, Node("TOP", "", n.value))
      [] N = "Decl"       -> ParseDecl(ts, s)
      [] N = "FunDecl"    -> ParseFunDecl(ts, s)
      [] N = "VarDecls"   -> Repeat(ts, Result(s, <<>>), "VarDecl", {"var"})
      [] N = "VarDecl"    -> LET n == Follow(ts, s, <<"var", "<id>", ";">>)
                             IN  Result(n, Node("VARDECL", n.value[2], <<>>))
      [] N = "Params"     -> IF Sees(ts, s, {"<id>"}) THEN List(ts, s, "Param") ELSE Result(s, <<>>)
      [] N = "Param"      -> LET n == AssertNext(ts, s, "<id>") IN Result(n, Node("PARAM", n.value, <<>>))
      [] N = "Statements" -> Repeat(ts, Result(s, <<>>), "Statement", AnyType \ {"}"})
      [] N = "Statement"  -> ParseStatement(ts, s)
      [] N = "ElseClause" -> ParseElseClause(ts, s)
      [] N = "Expression" -> ParseExpression(ts, s)
      [] N \in DOMAIN Operand -> BinaryTail(ts, Parse(ts, s, Operand[N]), N)
      [] N = "PrefixExp"  -> ParsePrefixExp(ts, s)
      [] N = "PostfixExp" -> ParsePostfixExp(ts, s)
      [] N = "Args"       -> IF Sees(ts, s, {")"}) THEN Result(s, <<>>) ELSE List(ts, s, "Expression")
      [] N = "Primary"    -> ParsePrimary(ts, s)

\* sdyn_parse
ParseProgram(ts) == Parse(ts, [at |-> 1, value |-> <<>>, status |-> "parsed"], "Top")
==============================================================================
