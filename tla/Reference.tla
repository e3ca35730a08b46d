------------------------------- MODULE Reference -----------------------------
(***************************************************************************)
(* What a function means, after docs/SEMANTICS: an evaluator of parse      *)
(* trees.  It has nothing of the compiler in it; the compiled function is  *)
(* compared with it.                                                       *)
(***************************************************************************)
EXTENDS Programs, Outside

\* An evaluation: the world, the locals, the value of the last expression, how the
\* function is doing, and how many loop iterations it may still take.
StartEval(params, vars, args, fuel) ==
    [world  |-> World,
     env    |-> [x \in Range(vars) |-> Undefined]
                @@ [x \in Range(params) \cup {"this"} |->
                      IF x \in Range(params)
                      THEN LET i == CHOOSE k \in DOMAIN params : params[k] = x
                           IN  IF i + 1 <= Len(args) THEN args[i + 1] ELSE Undefined
                      ELSE IF Len(args) >= 1 THEN args[1] ELSE Undefined],
     value  |-> Undefined,
     status |-> "running",
     fuel   |-> fuel]

Running(e)  == e.status = "running"
Yield(e, v) == [e EXCEPT !.value = v]
Abort(e)    == [e EXCEPT !.status = "aborted"]

RECURSIVE Eval(_, _)

\* Evaluate trees in order until the function is over.
EvalAll(e, trees) == FoldLeft(LAMBDA acc, t : IF Running(acc) THEN Eval(t, acc) ELSE acc, e, trees)

\* ... and collect their values.
EvalValues(e, trees) ==
    FoldLeft(LAMBDA acc, t : IF Running(acc.e)
                             THEN LET n == Eval(t, acc.e)
                                  IN  [e |-> n, values |-> Append(acc.values, n.value)]
                             ELSE acc,
             [e |-> e, values |-> <<>>], trees)

\* A local, or a member of the global object; if it is neither, the end.
EvalVariable(x, e) ==
    CASE x \in DOMAIN e.env -> Yield(e, e.env[x])
      [] x \notin DOMAIN e.env /\ <<GlobalObject, x>> \in DOMAIN e.world.heap ->
           Yield(e, Lookup(e.world, GlobalObject, x))
      [] OTHER -> Abort(e)

\* A member of an object, or undefined; of undefined, the end.
EvalMember(e, obj, m) ==
    CASE obj.tag = "OBJECT" -> Yield(e, Lookup(e.world, obj.n, m))
      [] obj = Undefined    -> Abort(e)
      [] OTHER              -> Yield(e, Undefined)

StoreMember(e, obj, m, v) ==
    CASE obj.tag = "OBJECT" -> [Yield(e, v) EXCEPT !.world = PutMember(@, obj.n, m, v)]
      [] obj = Undefined    -> Abort(e)
      [] OTHER              -> Yield(e, v)

EvalAssign(lhs, rhs, e) ==
    LET es == EvalValues(e, lhs.children \o <<rhs>>)
        v  == es.values[Len(es.values)]
    IN  CASE ~Running(es.e) -> es.e
          [] Running(es.e) /\ lhs.type = "INDEX" ->
               StoreMember(es.e, es.values[1], ToText(es.values[2]), v)
          [] Running(es.e) /\ lhs.type = "MEMBER" -> StoreMember(es.e, es.values[1], lhs.tok, v)
          [] Running(es.e) /\ lhs.type = "VARREF" ->
               IF lhs.tok \in DOMAIN es.e.env
               THEN [Yield(es.e, v) EXCEPT !.env[lhs.tok] = v]
               ELSE StoreMember(es.e, BoxObject(GlobalObject), lhs.tok, v)

EvalIf(t, e) ==
    LET c == Eval(t.children[1], e)
    IN  CASE ~Running(c)        -> c
          [] Running(c) /\ ToBoolean(c.value) -> Eval(t.children[2], c)
          [] OTHER              -> EvalAll(c, SubSeq(t.children, 3, Len(t.children)))

EvalWhile(t, e) ==
    LET c == Eval(t.children[1], e)
    IN  CASE ~Running(c) \/ ~ToBoolean(c.value) -> c
          [] Running(c) /\ ToBoolean(c.value) /\ c.fuel = 0 -> [c EXCEPT !.status = "diverged"]
          [] OTHER -> LET b == Eval(t.children[2], [c EXCEPT !.fuel = @ - 1])
                      IN  IF Running(b) THEN Eval(t, b) ELSE b

EvalLogical(t, e) ==
    LET l == Eval(t.children[1], e)
    IN  IF Running(l) /\ (ToBoolean(l.value) <=> t.type = "AND") THEN Eval(t.children[2], l) ELSE l

\* The function, its "this" when it is named as a member, then the arguments.
EvalCall(t, e) ==
    LET callee == t.children[1]
        method == callee.type \in {"MEMBER", "INDEX"}
        obj    == IF method THEN Eval(callee.children[1], e) ELSE Yield(e, Undefined)
        key    == IF callee.type = "INDEX" THEN Eval(callee.children[2], obj) ELSE obj
        fun    == IF ~method THEN Eval(callee, e)
                  ELSE EvalMember(key, obj.value,
                                  IF callee.type = "INDEX" THEN ToText(key.value) ELSE callee.tok)
        args   == EvalValues(fun, t.children[2].children)
        world  == Record(args.e.world, "g", <<obj.value>> \o args.values)
    IN  CASE ~Running(fun) -> fun
          [] Running(fun) /\ fun.value.tag # "FUNCTION" -> Abort(fun)
          [] Running(fun) /\ fun.value.tag = "FUNCTION" /\ ~Running(args.e) -> args.e
          [] OTHER -> [args.e EXCEPT !.world = world, !.value = Answer(world)]

EvalIntrinsic(t, e) ==
    LET args == EvalValues(e, t.children[1].children)
    IN  IF Running(args.e)
        THEN [Yield(args.e, Undefined) EXCEPT !.world = Record(@, "$print", <<Head(args.values)>>)]
        ELSE args.e

\* "with its fractional part truncated"; by 0 it is not said what happens, and no function
\* here divides by it where its meaning is looked at.
EvalDivision(type, l, r, e) ==
    Yield(e, BoxInt(IF type = "DIV" THEN Quotient(ToNumber(l), ToNumber(r))
                                    ELSE Remainder(ToNumber(l), ToNumber(r))))

\* Values of different types are equal if they are as ToValue says.
ToValue(v) == IF v.tag \in {"STRING", "BOXED_INT"} THEN v ELSE BoxString(ToText(v))

SameValue(l, r) == IF l.tag = r.tag THEN l = r ELSE ToValue(l) = ToValue(r)

\* An operator applied to its operands' values, evaluated from left to right
EvalOperation(t, e) ==
    LET es == EvalValues(e, t.children)
        v  == es.values
        k  == es.e
    IN  CASE ~Running(k)      -> k
          [] Running(k) /\ t.type = "MEMBER" -> EvalMember(k, v[1], t.tok)
          [] Running(k) /\ t.type = "INDEX"  -> EvalMember(k, v[1], ToText(v[2]))
          [] Running(k) /\ t.type = "NOT"    -> Yield(k, BoxBool(~ToBoolean(v[1])))
          [] Running(k) /\ t.type = "TYPEOF" -> Yield(k, BoxString(TypeOf(v[1])))
          [] Running(k) /\ t.type = "RETURN" -> [Yield(k, v[1]) EXCEPT !.status = "returned"]
          [] Running(k) /\ t.type \in {"DIV", "MOD"} -> EvalDivision(t.type, v[1], v[2], k)
          [] Running(k) /\ t.type = "EQ"     -> Yield(k, BoxBool(SameValue(v[1], v[2])))
          [] Running(k) /\ t.type = "NE"     -> Yield(k, BoxBool(~SameValue(v[1], v[2])))
          [] OTHER            -> Yield(k, Operate(t.type, v[1], v[2]))

EvalLiteral(t, e) ==
    CASE t.type = "NUM"   -> Yield(e, BoxInt(t.imm))
      [] t.type = "STR"   -> Yield(e, BoxString(t.tok))
      [] t.type = "TRUE"  -> Yield(e, BoxBool(TRUE))
      [] t.type = "FALSE" -> Yield(e, BoxBool(FALSE))
      [] t.type = "OBJ"   -> [Yield(e, BoxObject(e.world.objects)) EXCEPT !.world = NewObjectIn(@)]

Eval(t, e) ==
    CASE t.type = "STATEMENTS"    -> EvalAll(e, t.children)
      [] t.type = "ASSIGN"        -> EvalAssign(t.children[1], t.children[2], e)
      [] t.type = "VARREF"        -> EvalVariable(t.tok, e)
      [] t.type = "IF"            -> EvalIf(t, e)
      [] t.type = "WHILE"         -> EvalWhile(t, e)
      [] t.type \in {"OR", "AND"} -> EvalLogical(t, e)
      [] t.type = "CALL"          -> EvalCall(t, e)
      [] t.type = "INTRINSICCALL" -> EvalIntrinsic(t, e)
      [] t.type \in {"NUM", "STR", "TRUE", "FALSE", "OBJ"} -> EvalLiteral(t, e)
      [] OTHER                    -> EvalOperation(t, e)

Toks(trees) == [i \in DOMAIN trees |-> trees[i].tok]

\* What a caller sees of a function applied to arguments, "this" first: how it ended,
\* its result, and what it did to the world.
Outcome(status, result, world) ==
    [status |-> status,
     result |-> IF status = "returned" THEN result ELSE Undefined,
     world  |-> world]

Meaning(fun, args, fuel) ==
    LET e == Eval(fun.children[3], StartEval(Toks(fun.children[1].children),
                                             Toks(fun.children[2].children), args, fuel))
    IN  IF Running(e) THEN Outcome("returned", Undefined, e.world)
                      ELSE Outcome(e.status, e.value, e.world)
==============================================================================
