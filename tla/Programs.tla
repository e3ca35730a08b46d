------------------------------- MODULE Programs ------------------------------
(***************************************************************************)
(* Parse trees of small functions, as sdyn_parse builds them, and families *)
(* of functions made of them.  Names follow docs/GRAMMAR.               *)
(***************************************************************************)
EXTENDS IRCompile

Num(n)            == Tree("NUM", "", n, <<>>)
Str(s)            == Tree("STR", s, 0, <<>>)
True              == Tree("TRUE", "", 0, <<>>)
False             == Tree("FALSE", "", 0, <<>>)
Obj               == Tree("OBJ", "", 0, <<>>)
Var(x)            == Tree("VARREF", x, 0, <<>>)
Not(e)            == Tree("NOT", "", 0, <<e>>)
TypeOfExp(e)      == Tree("TYPEOF", "", 0, <<e>>)
Bin(op, l, r)     == Tree(op, "", 0, <<l, r>>)
Dot(e, m)         == Tree("MEMBER", m, 0, <<e>>)
Idx(e, i)         == Tree("INDEX", "", 0, <<e, i>>)
Assign(lhs, e)    == Tree("ASSIGN", "", 0, <<lhs, e>>)
Set(x, e)         == Assign(Var(x), e)
Call(f, args)     == Tree("CALL", "", 0, <<f, Tree("ARGS", "", 0, args)>>)
Show(args)        == Tree("INTRINSICCALL", "$print", 0, <<Tree("ARGS", "", 0, args)>>)
Block(ss)         == Tree("STATEMENTS", "", 0, ss)
If(c, s)          == Tree("IF", "", 0, <<c, s>>)
IfElse(c, s, t)   == Tree("IF", "", 0, <<c, s, t>>)
While(c, s)       == Tree("WHILE", "", 0, <<c, s>>)
Return(e)         == Tree("RETURN", "", 0, <<e>>)

Names(type, xs) == [i \in DOMAIN xs |-> Tree(type, xs[i], 0, <<>>)]

Function(params, vars, body) ==
    Tree("FUNDECL", "", 0, << Tree("PARAMS", "", 0, Names("PARAM", params)),
                              Tree("VARDECLS", "", 0, Names("VARDECL", vars)),
                              Block(body) >>)
------------------------------------------------------------------------------
\* The functions below have parameters a and b and locals x and y.
Fun(body) == Function(<<"a", "b">>, <<"x", "y">>, body)

This == Var("this")
A    == Var("a")
B    == Var("b")
X    == Var("x")
Y    == Var("y")

\* One statement for every operation and every kind of location.  The result of a call
\* is used at once or never: see CallResults.
Operations ==
    {Set("x", Num(1)), Set("x", True), Set("y", Obj), Set("y", X),
     Set("x", Bin("ADD", A, Num(1))), Set("x", Bin("ADD", Y, B)), Set("a", Bin("SUB", A, Num(1))),
     Set("x", Bin("MOD", B, Num(2))), Set("x", Bin("DIV", Bin("MUL", B, Num(7)), Num(2))),
     Set("x", Bin("EQ", A, B)), Set("x", Not(Bin("LT", A, B))), Set("x", TypeOfExp(A)),
     Set("x", Bin("OR", Bin("ADD", A, Num(0)), Bin("MUL", B, Num(2)))),
     Set("x", Bin("OR", Num(0), Bin("ADD", B, Num(0)))),
     Set("x", Bin("AND", Bin("LT", A, Num(1)), Str("s"))),
     Set("x", Bin("OR", Bin("AND", Bin("ADD", A, Num(0)), Bin("MUL", B, Num(2))), Str("s"))),
     Set("b", Call(Var("g"), <<X>>)), Show(<<Call(Dot(This, "g"), <<B, False>>)>>),
     Show(<<Call(Idx(This, Str("g")), <<>>)>>), Call(A, <<>>),
     Set("x", Dot(This, "m")), Assign(Dot(This, "m"), X),
     Assign(Idx(This, B), A), Set("x", Idx(This, Num(2))),
     Set("z", A), Set("x", Bin("NE", X, Y))}

\* Statements that use the values others leave
Observations ==
    {Show(<<X>>), Set("y", Bin("ADD", X, Y)), Assign(Dot(This, "m"), Y),
     Set("x", Bin("LE", X, A)), Set("a", Call(Var("g"), <<A, X>>))}

Straight == {<<s, t, Show(<<Y>>), Return(X)>> : s \in Operations, t \in Observations}

Updates == {Set("x", Num(1)), Set("x", Bin("ADD", X, A)), Set("y", X), Set("b", Str("s")), Show(<<A>>)}

IfBodies ==
    {<<Set("x", B), IfElse(Bin("LT", A, Num(2)), s, t), Show(<<Y, B>>), Return(X)>> : s, t \in Updates}
    \cup {<<If(A, s), Show(<<Y>>), Return(X)>> : s \in Updates}

Down == Set("a", Bin("SUB", A, Num(1)))

WhileBodies ==
    {<<Set("x", B), While(A, Block(<<s, Down>>)), Show(<<Y, B>>), Return(X)>> : s \in Updates}
    \cup {<<While(Bin("GT", A, Num(0)), Block(<<If(Bin("NE", A, Num(2)), s), Down>>)), Return(X)>> :
            s \in Updates}
    \cup {<<While(A, Block(<<Set("x", Bin("ADD", X, B)), Down>>)), Return(X)>>}
    \cup {<<While(A, Block(<<Show(<<Y>>), Set("y", Bin("MUL", A, Num(2))), Down>>)), Return(Y)>>}

\* Functions whose code takes a word for a pointer, or follows one that is out of date
MixedBodies ==
    {<<Set("x", e), Return(Bin("ADD", X, Num(1)))>> :
       e \in {Bin(op, l, Assign(lhs, r)) : op \in {"OR", "AND"},
                                           l \in {A, Num(1), Bin("LT", A, B)},
                                           lhs \in {Dot(This, "m"), Idx(This, B), Var("z")},
                                           r \in {Num(3), B, Y}}}
    \cup {<<Set("x", Not(e)), Return(X)>> :
            e \in {A, Num(0), Str("s"), Bin("SUB", A, B), X, Assign(Dot(This, "m"), Y)}}
    \cup {<<s, Set("x", Y), Set("x", Not(X)), Return(X)>> : s \in {Show(<<A>>), Set("x", Num(1))}}
    \cup {<<Set("x", Num(1)), Bin("OR", A, Assign(Dot(This, "m"), r)), If(c, Set("y", Bin("ADD", A, Num(1)))),
             If(c, Set("x", Num(2))), If(c, Set("x", Num(3))), Return(X)>> :
            c \in {A, Bin("EQ", B, Num(1))}, r \in {Num(3), B}}
    \cup {<<Set("x", Idx(e, Num(0))), Return(X)>> : e \in {A, This, Num(0)}}
    \cup {<<Set("x", Bin("ADD", True, Bin("EQ", A, B))), Set("x", Bin("DIV", Num(1), A)), Return(X)>>}
------------------------------------------------------------------------------
\* Functions that are not compiled to what they mean

\* a variable changes in two ifs, one after the other
TwoConditionals == {<<Set("x", Num(1)), If(A, Set("x", Num(2))), If(B, Set("x", Num(3))), Return(X)>>}

\* a call's result waits for another call's
CallResults == {<<Return(Call(Var("g"), <<Call(Var("g"), <<A>>), Call(Var("g"), <<B>>)>>))>>}

\* the dividend is negative
NegativeDividend == {<<Return(Bin("DIV", Bin("SUB", A, Num(5)), Num(2)))>>}
==============================================================================
