------------------------------ MODULE IRCompile ------------------------------
(***************************************************************************)
(* irCompileNode of ir.c: from the parse tree of a function to its IR.     *)
(* A parse tree node has a type, the name or number of its token and its   *)
(* children.  Compiling one appends to the IR, may change the symbol table *)
(* (which names each local's current value), and yields the index of the   *)
(* node that holds its value.                                              *)
(***************************************************************************)
EXTENDS IR, Sequences, SequencesExt, TLC

Tree(type, tok, imm, children) ==
    [type |-> type, tok |-> tok, imm |-> imm, children |-> children]

\* What a compilation carries along: the IR so far, the symbol table, the index of the
\* last value, and the object of a member access when a call may want it as "this".
NewState == [ir |-> <<>>, symbols |-> <<>>, value |-> 0, target |-> NoOperand]

Emit(st, node) ==
    [st EXCEPT !.ir = Append(@, node), !.value = Len(st.ir), !.target = NoOperand]

\* Emit a node and make it the value of a local.
Define(st, name, node) ==
    LET e == Emit(st, node) IN [e EXCEPT !.symbols = (name :> e.value) @@ @]

Local(st, name) == name \in DOMAIN st.symbols
------------------------------------------------------------------------------
\* mutant: nothing keeps a loop's values alive
UnifyWithoutNops(st, symbols, symbols2, loop) ==
    FoldLeft(LAMBDA s, n : IF symbols[n] = symbols2[n]
                           THEN s
                           ELSE Emit(s, Binary("UNIFY", "BOXED", symbols[n], symbols2[n])),
             st, SetToSeq(DOMAIN symbols2))

\* unifySymbolTables.  The locals of a function are all declared at its top, so the two
\* tables have the same names; the order in which a hash table yields them is
\* immaterial, and here it is that of their values in the second table.
UnifySymbolTables(st, symbols, symbols2, loop) ==
    LET names == SetToSortSeq(DOMAIN symbols2, LAMBDA m, n : symbols2[m] < symbols2[n])
        UnifyName(s, n) ==
            IF symbols[n] = symbols2[n]
            THEN s
            ELSE Emit(s, Binary("UNIFY", "BOXED", symbols[n], symbols2[n]))
        KeepAlive(s, n) == IF loop THEN Emit(s, Unary("NOP", "NIL", symbols2[n])) ELSE s
    IN  FoldLeft(LAMBDA s, n : KeepAlive(UnifyName(s, n), n), st, names)

CompileParams(st, params) ==
    FoldLeftDomain(LAMBDA s, i : Define(s, params[i].tok,
                                        [Node("PARAM", "BOXED") EXCEPT !.imm = i]),
                   Define(st, "this", Node("PARAM", "BOXED")), params)

\* The argument values, one node each in argument slots 0, 1, ...
PassArgs(st, values) ==
    FoldLeftDomain(LAMBDA s, i : Emit(s, [Unary("ARG", "NIL", values[i]) EXCEPT !.imm = i - 1]),
                   st, values)

\* A local is a symbol, a global a member of the global object.
GetGlobal(st, name) ==
    LET top == Emit(st, Node("TOP", "OBJECT"))
    IN  Emit(top, [Unary("MEMBER", "BOXED", top.value) EXCEPT !.immp = name])

GetVariable(st, name) ==
    IF Local(st, name) THEN [st EXCEPT !.value = st.symbols[name], !.target = NoOperand]
                       ELSE GetGlobal(st, name)

SetVariable(st, name, v) ==
    IF Local(st, name)
    THEN Define(st, name, Unary("ASSIGN", "BOXED", v))
    ELSE LET top == Emit(st, Node("TOP", "OBJECT"))
         IN  Emit(top, [Binary("ASSIGNMEMBER", "NIL", top.value, v) EXCEPT !.immp = name])
------------------------------------------------------------------------------
RECURSIVE Compile(_, _)

CompileAll(st, trees) == FoldLeft(LAMBDA s, t : Compile(t, s), st, trees)

\* Compile trees one after the other and remember where their values are.
CompileValues(st, trees) ==
    FoldLeft(LAMBDA acc, t : LET s == Compile(t, acc.st)
                             IN  [st |-> s, values |-> Append(acc.values, s.value)],
             [st |-> st, values |-> <<>>], trees)

CompileFunction(fun, st) ==
    LET alloca == Emit(Emit(st, Node("ALLOCA", "NIL")), Node("PALLOCA", "NIL"))
        params == CompileParams(alloca, fun.children[1].children)
        locals == FoldLeft(LAMBDA s, d : Define(s, d.tok, Node("NIL", "UNDEFINED")),
                           params, fun.children[2].children)
        body   == CompileAll(locals, fun.children[3].children)
        undef  == Emit(body, Node("NIL", "UNDEFINED"))
        return == Emit(undef, Unary("RETURN", "NIL", undef.value))
    IN  Emit(Emit(return, Node("PPOPA", "NIL")), Node("POPA", "NIL"))

CompileAssign(lhs, rhs, st) ==
    CASE lhs.type = "INDEX" ->
           LET vs == CompileValues(st, <<lhs.children[1], lhs.children[2], rhs>>)
           IN  Emit(vs.st, [Binary("ASSIGNINDEX", "BOXED", vs.values[1], vs.values[2])
                              EXCEPT !.third = vs.values[3]])
      [] lhs.type = "MEMBER" ->
           LET vs == CompileValues(st, <<lhs.children[1], rhs>>)
           IN  Emit(vs.st, [Binary("ASSIGNMEMBER", "BOXED", vs.values[1], vs.values[2])
                              EXCEPT !.immp = lhs.tok])
      [] lhs.type = "VARREF" ->
           LET v == Compile(rhs, st) IN SetVariable(v, lhs.tok, v.value)

\* Both branches start from the symbols after the condition; the then branch's are kept.
CompileIf(tree, st) ==
    LET cond  == Compile(tree.children[1], st)
        jump  == Emit(cond, Unary("IF", "NIL", cond.value))
        then  == Compile(tree.children[2], jump)
        else  == Emit([then EXCEPT !.symbols = jump.symbols], Unary("IFELSE", "NIL", jump.value))
        other == CompileAll(else, SubSeq(tree.children, 3, Len(tree.children)))
        end   == Emit(other, Unary("IFEND", "NIL", else.value))
    IN  [UnifySymbolTables(end, other.symbols, then.symbols, FALSE)
           EXCEPT !.symbols = then.symbols]

CompileWhile(tree, st) ==
    LET begin == Emit(st, Node("WHILE", "NIL"))
        cond  == Compile(tree.children[1], begin)
        wcond == Emit(cond, Unary("WCOND", "NIL", cond.value))
        body  == Compile(tree.children[2], wcond)
        end   == Emit(body, Binary("WEND", "NIL", begin.value, wcond.value))
    IN  UnifySymbolTables(end, end.symbols, begin.symbols, TRUE)

\* a || b and a && b: an if without an else around b, and the two values unified
CompileLogical(tree, st) ==
    LET cond1 == Compile(tree.children[1], st)
        test  == IF tree.type = "OR" THEN Emit(cond1, Unary("NOT", "BOOL", cond1.value))
                                     ELSE cond1
        jump  == Emit(test, Unary("IF", "NIL", test.value))
        cond2 == Compile(tree.children[2], jump)
        else  == Emit(cond2, Unary("IFELSE", "NIL", jump.value))
        end   == Emit(else, Unary("IFEND", "NIL", else.value))
        unify == Emit(end, Binary("UNIFY", "BOXED", cond1.value, cond2.value))
    IN  [UnifySymbolTables(unify, unify.symbols, jump.symbols, FALSE) EXCEPT !.target = NoOperand]

\* The member access that names the function also gives its "this"; any other function
\* expression is called on undefined.
CompileCall(tree, st) ==
    LET fun    == Compile(tree.children[1], st)
        this   == IF fun.target # NoOperand
                  THEN [fun EXCEPT !.value = fun.target]
                  ELSE Emit(fun, Node("NIL", "BOXED"))
        args   == CompileValues(this, tree.children[2].children)
    IN  Emit(PassArgs(args.st, <<this.value>> \o args.values), Unary("CALL", "BOXED", fun.value))

CompileIntrinsicCall(tree, st) ==
    LET args == CompileValues(st, tree.children[1].children)
    IN  Emit(PassArgs(args.st, args.values),
             [Node("INTRINSICCALL", "BOXED") EXCEPT !.imm = Len(args.values), !.immp = tree.tok])

\* The type of the result of a node that has only operands.
ResultType(type) ==
    CASE type \in Comparison \cup {"NOT", "TRUE", "FALSE"} -> "BOOL"
      [] type \in Arithmetic \cup {"NUM"}                  -> "INT"
      [] type \in {"STR", "TYPEOF"}                        -> "STRING"
      [] type = "OBJ"                                      -> "OBJECT"
      [] type = "RETURN"                                   -> "NIL"
      [] type \in {"ADD", "MEMBER", "INDEX"}               -> "BOXED"

\* A node over its children's values, in order.  A member access also reports its object.
CompileOperation(tree, st) ==
    LET vs   == CompileValues(st, tree.children)
        node == [Node(tree.type, ResultType(tree.type))
                   EXCEPT !.imm   = tree.imm,
                          !.immp  = tree.tok,
                          !.left  = IF Len(vs.values) >= 1 THEN vs.values[1] ELSE NoOperand,
                          !.right = IF Len(vs.values) >= 2 THEN vs.values[2] ELSE NoOperand]
    IN  [Emit(vs.st, node) EXCEPT
           !.target = IF tree.type \in {"MEMBER", "INDEX"} THEN vs.values[1] ELSE NoOperand]

Compile(tree, st) ==
    CASE tree.type = "FUNDECL"       -> CompileFunction(tree, st)
      [] tree.type = "STATEMENTS"    -> CompileAll(st, tree.children)
      [] tree.type = "ASSIGN"        -> CompileAssign(tree.children[1], tree.children[2], st)
      [] tree.type = "VARREF"        -> GetVariable(st, tree.tok)
      [] tree.type = "IF"            -> CompileIf(tree, st)
      [] tree.type = "WHILE"         -> CompileWhile(tree, st)
      [] tree.type \in {"OR", "AND"} -> CompileLogical(tree, st)
      [] tree.type = "CALL"          -> CompileCall(tree, st)
      [] tree.type = "INTRINSICCALL" -> CompileIntrinsicCall(tree, st)
      [] OTHER                       -> CompileOperation(tree, st)

\* The IR array of a function.
IRCompileFunction(fun) ==
    LET ir == Compile(fun, NewState).ir IN [i \in 0 .. Len(ir) - 1 |-> ir[i + 1]]
==============================================================================
