---------------------------- MODULE ScopeProofs ----------------------------
(***************************************************************************)
(* The proof that Exec implements GlobalScope, for any files, functions,   *)
(* frames and stack sizes.                                                 *)
(***************************************************************************)
EXTENDS ExecProofs, WellFoundedInduction

------------------------------------------------------------------------------
\* A set of positions has a latest one.
LEMMA LatestFacts ==
    ASSUME NEW last \in Nat, NEW P \in SUBSET (1 .. last), P # {}
    PROVE  Latest(P) \in P /\ \A j \in P : j <= Latest(P)
<1> DEFINE R == OpToRel(<, Nat)
           S == {last - j : j \in P}
<1>1. IsWellFoundedOn(R, Nat)
  BY NatLessThanWellFounded
<1>2. \A m, n \in Nat : m < n => <<m, n>> \in R
  BY DEF OpToRel
<1>3. S \in SUBSET Nat /\ S # {}
  <2>1. \A j \in P : j \in Nat /\ last - j \in Nat
    OBVIOUS
  <2> QED BY <2>1
<1> HIDE DEF R
<1>4. PICK m \in S : \A n \in S : <<n, m>> \notin R
  BY <1>1, <1>3, WFMin
<1>5. PICK i \in P : m = last - i
  BY <1>4
<1>6. \A j \in P : last - j \in S /\ last - j \in Nat
  OBVIOUS
<1>7. \A j \in P : ~(last - j < last - i)
  BY <1>2, <1>4, <1>5, <1>6
<1>8. \A j \in P : j <= i
  BY <1>7
<1> QED BY <1>8 DEF Latest

\* The latest of some positions is no other than that.
LEMMA LatestIs ==
    ASSUME NEW last \in Nat, NEW P \in SUBSET (1 .. last), NEW i \in P, \A j \in P : j <= i
    PROVE  Latest(P) = i
<1>1. Latest(P) \in P /\ \A j \in P : j <= Latest(P)
  BY LatestFacts
<1> DEFINE l == Latest(P)
<1> HIDE DEF l
<1>2. l \in P /\ i <= l
  BY <1>1 DEF l
<1>3. l <= i /\ l \in Int /\ i \in Int
  BY <1>2
<1> QED BY <1>2, <1>3 DEF l

LEMMA DeclarationFacts ==
    ASSUME NEW file \in Files
    PROVE  /\ Len(Declarations[file]) \in Nat
           /\ DOMAIN Declarations[file] = 1 .. Len(Declarations[file])
           /\ \A i \in DOMAIN Declarations[file] :
                /\ Declarations[file][i].kind \in {"function", "var", "call"}
                /\ Declarations[file][i].name \in Names
                /\ Declarations[file][i].kind = "function" => Declarations[file][i].body \in Bodies
<1> DEFINE Sort == [kind : {"function", "var", "call"}, name : Names, body : Bodies \cup {"none"}]
<1>1. Declarations[file] \in Seq(Sort)
  BY FilesAssumption
<1>2. \A d \in Sort : d.kind \in {"function", "var", "call"} /\ d.name \in Names
  OBVIOUS
<1>3. \A i \in DOMAIN Declarations[file] :
        Declarations[file][i].kind = "function" => Declarations[file][i].body \in Bodies
  BY FilesAssumption
<1> HIDE DEF Sort
<1>4. \A i \in DOMAIN Declarations[file] : Declarations[file][i] \in Sort
  BY <1>1
<1>5. Len(Declarations[file]) \in Nat /\ DOMAIN Declarations[file] = 1 .. Len(Declarations[file])
  BY <1>1
<1> QED BY <1>2, <1>3, <1>4, <1>5

\* One declaration less to make
LEMMA NextPositions ==
    ASSUME NEW file \in Files, NEW i \in DOMAIN Declarations[file], NEW kind, NEW n
    PROVE  Positions(file, kind, n, i) =
             Positions(file, kind, n, i + 1)
             \cup (IF Declarations[file][i].kind = kind /\ Declarations[file][i].name = n THEN {i} ELSE {})
<1>1. i \in Nat /\ DOMAIN Declarations[file] = 1 .. Len(Declarations[file]) /\ Len(Declarations[file]) \in Nat
  BY DeclarationFacts
<1>2. \A j \in DOMAIN Declarations[file] : j >= i <=> j >= i + 1 \/ j = i
  BY <1>1
<1> QED BY <1>2 DEF Positions

LEMMA NoPositions ==
    ASSUME NEW file \in Files, NEW i \in Nat, i > Len(Declarations[file]), NEW kind, NEW n
    PROVE  Positions(file, kind, n, i) = {}
<1>1. DOMAIN Declarations[file] = 1 .. Len(Declarations[file]) /\ Len(Declarations[file]) \in Nat
  BY DeclarationFacts
<1> QED BY <1>1 DEF Positions

\* A declaration that has been made is in effect: the scope does not change.
LEMMA DeclarationMade ==
    ASSUME NEW file \in Files, NEW i \in DOMAIN Declarations[file], NEW values, NEW made,
           \A n \in Names : made[n] =
              IF Declarations[file][i].kind = "function" /\ Declarations[file][i].name = n
              THEN Declarations[file][i].body ELSE values[n]
    PROVE  AfterDeclarations(made, file, i + 1) = AfterDeclarations(values, file, i)
<1> DEFINE Now(n)  == Positions(file, "function", n, i)
           Next1(n) == Positions(file, "function", n, i + 1)
           last    == Len(Declarations[file])
<1>1. last \in Nat /\ DOMAIN Declarations[file] = 1 .. last /\ i \in 1 .. last
  BY DeclarationFacts
<1>2. SUFFICES ASSUME NEW n \in Names
               PROVE  (IF Next1(n) = {} THEN made[n] ELSE Declarations[file][Latest(Next1(n))].body)
                      = (IF Now(n) = {} THEN values[n] ELSE Declarations[file][Latest(Now(n))].body)
  BY DEF AfterDeclarations
<1>3. Now(n) = Next1(n) \cup (IF Declarations[file][i].kind = "function" /\ Declarations[file][i].name = n
                              THEN {i} ELSE {})
  BY NextPositions
<1>4. Next1(n) \subseteq 1 .. last /\ \A j \in Next1(n) : j > i
  BY <1>1 DEF Positions
<1>5. Now(n) \subseteq 1 .. last
  BY <1>1 DEF Positions
<1> HIDE DEF Now, Next1
<1>6. CASE ~(Declarations[file][i].kind = "function" /\ Declarations[file][i].name = n)
  BY <1>3, <1>6
<1>7. CASE (Declarations[file][i].kind = "function" /\ Declarations[file][i].name = n) /\ Next1(n) = {}
  <2>1. Now(n) = {i}
    BY <1>3, <1>7
  <2>2. i \in Now(n) /\ \A j \in Now(n) : j <= i
    BY <1>1, <2>1
  <2>3. Latest(Now(n)) = i
    BY <1>1, <1>5, <2>2, LatestIs
  <2> QED BY <1>7, <2>1, <2>3
<1>8. CASE (Declarations[file][i].kind = "function" /\ Declarations[file][i].name = n) /\ Next1(n) # {}
  <2>1. Latest(Next1(n)) \in Next1(n) /\ \A j \in Next1(n) : j <= Latest(Next1(n))
    BY <1>1, <1>4, <1>8, LatestFacts
  <2>2. Latest(Next1(n)) \in Now(n)
    BY <1>3, <2>1
  <2>3. \A j \in Now(n) : j <= Latest(Next1(n))
    BY <1>1, <1>3, <1>4, <2>1
  <2>4. Latest(Now(n)) = Latest(Next1(n))
    BY <1>1, <1>5, <2>2, <2>3, LatestIs
  <2> QED BY <1>8, <2>2, <2>4
<1> QED BY <1>6, <1>7, <1>8

\* When all declarations have been made, the scope is what the globals say.
LEMMA NothingToDeclare ==
    ASSUME NEW file \in Files, NEW i \in Nat, i > Len(Declarations[file]), NEW values,
           values = [n \in Names |-> values[n]]
    PROVE  AfterDeclarations(values, file, i) = values
<1>1. \A n \in Names : Positions(file, "function", n, i) = {}
  BY NoPositions
<1> QED BY <1>1 DEF AfterDeclarations

\* The calls that a file has still to make
LEMMA CallsFacts ==
    ASSUME NEW file \in Files, NEW i \in Nat \ {0}
    PROVE  /\ Calls(file, i) \subseteq Nat
           /\ \A j \in Calls(file, i) : j >= i
           /\ i > Len(Declarations[file]) => Calls(file, i) = {}
           /\ i \in DOMAIN Declarations[file] =>
                IF Declarations[file][i].kind = "call"
                THEN /\ i \in Calls(file, i)
                     /\ Calls(file, i + 1) = Calls(file, i) \ {i}
                ELSE Calls(file, i + 1) = Calls(file, i)
<1>1. Len(Declarations[file]) \in Nat /\ DOMAIN Declarations[file] = 1 .. Len(Declarations[file])
      /\ \A j \in DOMAIN Declarations[file] : Declarations[file][j].name \in Names
  BY DeclarationFacts
<1>2. \A start, j : j \in Calls(file, start) <=>
         j \in DOMAIN Declarations[file] /\ j >= start /\ Declarations[file][j].kind = "call"
  BY <1>1 DEF Calls, Positions
<1>3. \A j \in DOMAIN Declarations[file] : j \in Nat /\ (j >= i <=> j >= i + 1 \/ j = i) /\ ~(i >= i + 1)
  BY <1>1
<1>4. ASSUME i \in DOMAIN Declarations[file], Declarations[file][i].kind = "call"
      PROVE  i \in Calls(file, i) /\ Calls(file, i + 1) = Calls(file, i) \ {i}
  <2>1. i \in Calls(file, i)
    BY <1>2, <1>4
  <2>2. \A j : j \in Calls(file, i + 1) <=> j \in Calls(file, i) /\ j # i
    BY <1>2, <1>3
  <2> QED BY <2>1, <2>2
<1>5. ASSUME i \in DOMAIN Declarations[file], Declarations[file][i].kind # "call"
      PROVE  Calls(file, i + 1) = Calls(file, i)
  <2>1. \A j : j \in Calls(file, i + 1) <=> j \in Calls(file, i)
    BY <1>2, <1>3, <1>5
  <2> QED BY <2>1
<1>6. Calls(file, i) \subseteq Nat /\ \A j \in Calls(file, i) : j >= i
  BY <1>2, <1>3
<1>7. i > Len(Declarations[file]) => Calls(file, i) = {}
  BY <1>1, <1>2
<1> QED BY <1>4, <1>5, <1>6, <1>7
------------------------------------------------------------------------------
\* What another sequence is, from what it has in common with one
LEMMA OneReplaced ==
    ASSUME NEW T, NEW s \in Seq(T), NEW u \in Seq(T), s # <<>>, Len(u) = Len(s),
           \A k \in 1 .. Len(s) - 1 : u[k] = s[k]
    PROVE  u = Append(SubSeq(s, 1, Len(s) - 1), u[Len(s)])
<1> DEFINE p == SubSeq(s, 1, Len(s) - 1)
           n == Len(s)
           t == Append(p, u[n])
<1>1. n \in Nat /\ n >= 1 /\ DOMAIN u = 1 .. n
  OBVIOUS
<1>2. p \in Seq(T) /\ Len(p) = n - 1 /\ \A k \in 1 .. n - 1 : p[k] = s[k]
  BY <1>1
<1>3. u[n] \in T
  BY <1>1
<1> HIDE DEF p, n
<1>4. /\ t \in Seq(T) /\ Len(t) = Len(p) + 1
      /\ \A k \in 1 .. Len(p) : t[k] = p[k]
      /\ t[Len(p) + 1] = u[n]
  BY <1>2, <1>3, AppendProperties
<1>5. Len(p) + 1 = n /\ \A k \in 1 .. n : k \in 1 .. Len(p) \/ k = n
  BY <1>1, <1>2
<1> HIDE DEF t
<1>6. \A k \in 1 .. n : t[k] = u[k]
  <2>1. \A k \in 1 .. Len(p) : p[k] = s[k] /\ s[k] = u[k]
    BY <1>1, <1>2 DEF n
  <2> QED BY <1>4, <1>5, <2>1
<1>7. Len(t) = n /\ Len(u) = n
  BY <1>4, <1>5 DEF n
<1>8. t = u
  BY <1>4, <1>6, <1>7, SeqEqual
<1> QED BY <1>8 DEF t, p, n

LEMMA OnePushed ==
    ASSUME NEW T, NEW s \in Seq(T), NEW u \in Seq(T), Len(u) = Len(s) + 1,
           \A k \in 1 .. Len(s) : u[k] = s[k]
    PROVE  u = Append(s, u[Len(s) + 1])
<1>1. Len(s) \in Nat /\ DOMAIN u = 1 .. Len(s) + 1 /\ u[Len(s) + 1] \in T
  OBVIOUS
<1>2. /\ Append(s, u[Len(s) + 1]) \in Seq(T) /\ Len(Append(s, u[Len(s) + 1])) = Len(s) + 1
      /\ \A k \in 1 .. Len(s) : Append(s, u[Len(s) + 1])[k] = s[k]
      /\ Append(s, u[Len(s) + 1])[Len(s) + 1] = u[Len(s) + 1]
  BY <1>1, AppendProperties
<1>3. \A k \in 1 .. Len(s) + 1 : k \in 1 .. Len(s) \/ k = Len(s) + 1
  BY <1>1
<1>4. \A k \in 1 .. Len(s) + 1 : Append(s, u[Len(s) + 1])[k] = u[k]
  BY <1>2, <1>3
<1> QED BY <1>1, <1>2, <1>4, SeqEqual

\* All but the last
LEMMA WithoutLast ==
    ASSUME NEW T, NEW s \in Seq(T), s # <<>>
    PROVE  /\ SubSeq(s, 1, Len(s) - 1) \in Seq(T) /\ Len(SubSeq(s, 1, Len(s) - 1)) = Len(s) - 1
           /\ \A k \in 1 .. Len(s) - 1 : SubSeq(s, 1, Len(s) - 1)[k] = s[k]
           /\ Len(s) \in Nat /\ Len(s) >= 1
<1>1. Len(s) \in Nat /\ Len(s) >= 1
  OBVIOUS
<1> QED BY <1>1

LEMMA OnePopped ==
    ASSUME NEW T, NEW s \in Seq(T), NEW u \in Seq(T), s # <<>>, Len(u) = Len(s) - 1,
           \A k \in 1 .. Len(s) - 1 : u[k] = s[k]
    PROVE  u = SubSeq(s, 1, Len(s) - 1)
BY WithoutLast, SeqEqual
------------------------------------------------------------------------------
\* What is compiled names no intrinsic that does not exist.
CompiledAreValid ==
    \A f \in DOMAIN functions : functions[f].value # "none" => functions[f].ast \notin Invalid

\* sdyn_exec is interrupted by calls only, and $eval by no file.
CallersAreCalling ==
    \A k \in DOMAIN stack : k < Len(stack) /\ stack[k].kind = "exec" => stack[k].loop = "call"

ScopeInv == ExecInv /\ CompiledAreValid /\ CallersAreCalling

\* The activation on top is replaced.
LEMMA ReplaceEffect ==
    ASSUME ExecInv, stack # <<>>, NEW t \in Activations, stack' = Append(Pop, t)
    PROVE  /\ stack' \in Seq(Activations) /\ stack' # <<>>
           /\ Len(stack') = Len(stack) /\ DOMAIN stack' = DOMAIN stack
           /\ Len(stack) \in DOMAIN stack
           /\ stack'[Len(stack)] = t /\ Top' = t
           /\ \A k \in DOMAIN stack : k # Len(stack) => stack'[k] = stack[k]
<1>1. Types
  BY DEF ExecInv
<1>2. Len(stack) \in DOMAIN stack
  BY <1>1, TopActivation
<1>3. /\ stack' \in Seq(Activations)
      /\ Len(stack') = Len(stack) /\ DOMAIN stack' = DOMAIN stack
      /\ stack'[Len(stack)] = t
      /\ \A k \in DOMAIN stack : k # Len(stack) => stack'[k] = stack[k]
  BY <1>1, Replaced DEF Types
<1> QED BY <1>2, <1>3 DEF Top

\* What sdyn_exec is at
LEMMA FileOnTop ==
    ASSUME ExecInv, stack # <<>>, Top.kind = "exec"
    PROVE  /\ Top \in Activations /\ Top.file \in Files \ Broken
           /\ Top.loop \in {"declare", "call"} /\ Top.i \in Nat \ {0}
           /\ More <=> Top.i \in DOMAIN Declarations[Top.file]
           /\ ~More <=> Top.i > Len(Declarations[Top.file])
           /\ More => Child.name \in Names
           /\ More /\ Child.kind = "function" => Child.body \in Bodies
<1>1. Top \in Activations /\ Top = stack[Len(stack)] /\ Len(stack) \in DOMAIN stack
  BY TopActivation DEF ExecInv
<1>2. Top.file \in Files \ Broken /\ Top.loop \in {"declare", "call"} /\ Top.i \in Nat \ {0}
  BY <1>1 DEF ExecInv, ActivationsAreSound, Activations
<1> QED BY <1>1, <1>2, DeclarationFacts DEF More, Child

\* The declaration or call of sdyn_exec is the next one.
LEMMA AdvanceEffect ==
    ASSUME ExecInv, stack # <<>>, Top.kind = "exec"
    PROVE  /\ [Top EXCEPT !.i = @ + 1] \in Activations
           /\ [Top EXCEPT !.i = @ + 1].kind = "exec"
           /\ [Top EXCEPT !.i = @ + 1].file = Top.file
           /\ [Top EXCEPT !.i = @ + 1].loop = Top.loop
           /\ [Top EXCEPT !.i = @ + 1].i = Top.i + 1
           /\ [Top EXCEPT !.loop = "call", !.i = 1] \in Activations
           /\ [Top EXCEPT !.loop = "call", !.i = 1].kind = "exec"
           /\ [Top EXCEPT !.loop = "call", !.i = 1].file = Top.file
           /\ [Top EXCEPT !.loop = "call", !.i = 1].loop = "call"
           /\ [Top EXCEPT !.loop = "call", !.i = 1].i = 1
<1>1. Top \in Activations /\ Top.i \in Nat /\ Top.i + 1 \in Nat
  BY FileOnTop
<1> QED BY <1>1 DEF Activations

\* A function is called: its object is compiled, and it is at work above those below.
EnterFunction(v, d, below) ==
    /\ Callable(v)
    /\ functions' = AssertCompiled(v.n)
    /\ stack' = Append(below, RunOf(v.n, functions'[v.n].value, d))
    /\ UNCHANGED <<globals, status>>

LEMMA EnterEffect ==
    ASSUME ScopeInv, NEW v \in GlobalValues, NEW d \in Nat, NEW below \in Seq(Activations),
           EnterFunction(v, d, below)
    PROVE  /\ v.n \in DOMAIN functions /\ IsFunc(v)
           /\ functions[v.n].ast \in Bodies \ Invalid
           /\ DOMAIN functions' = DOMAIN functions
           /\ \A f \in DOMAIN functions :
                /\ functions'[f].ast = functions[f].ast
                /\ f # v.n => functions'[f] = functions[f]
           /\ stack' \in Seq(Activations) /\ stack' # <<>>
           /\ Len(stack') = Len(below) + 1 /\ DOMAIN stack' = 1 .. Len(below) + 1
           /\ \A k \in DOMAIN below : stack'[k] = below[k]
           /\ Top' = stack'[Len(below) + 1]
           /\ Top'.kind = "run" /\ Top'.fun = v.n /\ Top'.local = Undefined
<1> USE DEF EnterFunction
<1>1. Types /\ CompiledFromOwnTree
  BY DEF ScopeInv, ExecInv
<1>2. v.n \in DOMAIN functions /\ IsFunc(v) /\ v.n \in Nat
  BY <1>1 DEF Callable, IsFunc, GlobalValues, BoxFunc, Undefined, Types
<1>3. functions[v.n].ast \notin Invalid
  BY <1>2 DEF Callable, Compiles, ScopeInv, CompiledAreValid
<1>4. /\ DOMAIN functions' = DOMAIN functions
      /\ functions'[v.n].value = functions[v.n].ast
      /\ functions[v.n].ast \in Bodies
      /\ \A g \in DOMAIN functions : functions'[g].ast = functions[g].ast
  BY <1>1, <1>2, CompiledObjects
<1>5. \A f \in DOMAIN functions : f # v.n => functions'[f] = functions[f]
  BY <1>1 DEF AssertCompiled, Types
<1>6. RunOf(v.n, functions'[v.n].value, d) \in Activations
  BY <1>1, <1>2, <1>4, ActivationTypes
<1>7. /\ stack' \in Seq(Activations)
      /\ Len(stack') = Len(below) + 1 /\ DOMAIN stack' = 1 .. Len(below) + 1
      /\ stack'[Len(below) + 1] = RunOf(v.n, functions'[v.n].value, d)
      /\ \A k \in DOMAIN below : stack'[k] = below[k]
  BY <1>6, Pushed
<1>8. Top' = stack'[Len(below) + 1] /\ stack' # <<>>
  BY <1>7 DEF Top
<1> QED BY <1>2, <1>3, <1>4, <1>5, <1>7, <1>8 DEF RunOf

\* What the two calls enter, and over what
LEMMA CallEffect ==
    ASSUME ScopeInv
    PROVE  /\ CallGlobal =>
                /\ globals[Child.name] \in GlobalValues /\ depth \in Nat
                /\ Append(Pop, [Top EXCEPT !.i = @ + 1]) \in Seq(Activations)
                /\ Len(Append(Pop, [Top EXCEPT !.i = @ + 1])) = Len(stack)
                /\ DOMAIN Append(Pop, [Top EXCEPT !.i = @ + 1]) = DOMAIN stack
                /\ Append(Pop, [Top EXCEPT !.i = @ + 1])[Len(stack)] = [Top EXCEPT !.i = @ + 1]
                /\ \A k \in DOMAIN stack :
                     k # Len(stack) => Append(Pop, [Top EXCEPT !.i = @ + 1])[k] = stack[k]
           /\ CallLocal =>
                /\ Top.local \in GlobalValues /\ FrameEnd(Top) \in Nat
                /\ stack \in Seq(Activations)
<1>1. Types /\ ExecInv
  BY DEF ScopeInv, ExecInv
<1>2. ASSUME CallGlobal
      PROVE  /\ globals[Child.name] \in GlobalValues /\ depth \in Nat
             /\ Append(Pop, [Top EXCEPT !.i = @ + 1]) \in Seq(Activations)
             /\ Len(Append(Pop, [Top EXCEPT !.i = @ + 1])) = Len(stack)
             /\ DOMAIN Append(Pop, [Top EXCEPT !.i = @ + 1]) = DOMAIN stack
             /\ Append(Pop, [Top EXCEPT !.i = @ + 1])[Len(stack)] = [Top EXCEPT !.i = @ + 1]
             /\ \A k \in DOMAIN stack :
                  k # Len(stack) => Append(Pop, [Top EXCEPT !.i = @ + 1])[k] = stack[k]
  <2>1. stack # <<>> /\ Top.kind = "exec" /\ More
    BY <1>2 DEF CallGlobal, InExec
  <2>2. Child.name \in Names /\ [Top EXCEPT !.i = @ + 1] \in Activations
    BY <1>1, <2>1, FileOnTop, AdvanceEffect
  <2>3. stack \in Seq(Activations) /\ depth \in Nat /\ globals[Child.name] \in GlobalValues
    BY <1>1, <2>2, ExecAssumption DEF Types
  <2> QED BY <2>1, <2>2, <2>3, Replaced
<1>3. ASSUME CallLocal
      PROVE  Top.local \in GlobalValues /\ FrameEnd(Top) \in Nat /\ stack \in Seq(Activations)
  BY <1>1, <1>3, TopIsSound, ExecAssumption DEF CallLocal, Types
<1> QED BY <1>2, <1>3
------------------------------------------------------------------------------
LEMMA InitScopeInv == Init => ScopeInv
<1> SUFFICES ASSUME Init PROVE ScopeInv
  OBVIOUS
<1>1. functions = <<>> /\ stack = <<>>
  BY DEF Init
<1>2. DOMAIN functions = {} /\ DOMAIN stack = {}
  BY <1>1
<1> QED BY <1>2, InitInv DEF ScopeInv, CompiledAreValid, CallersAreCalling

\* A function's object is one that a declaration made, and compiled by a call.
LEMMA CompiledStayValid == ScopeInv /\ [Next]_vars => CompiledAreValid'
<1> SUFFICES ASSUME ScopeInv, [Next]_vars PROVE CompiledAreValid'
  OBVIOUS
<1> USE DEF CompiledAreValid
<1>1. CompiledAreValid /\ ExecInv /\ Types /\ CompiledFromOwnTree
  BY DEF ScopeInv, ExecInv
<1>2. CASE UNCHANGED functions
  BY <1>1, <1>2
<1>3. CASE Declare
  <2>1. stack # <<>> /\ Top.kind = "exec" /\ More
    BY <1>3 DEF Declare, InExec
  <2>2. CASE Child.kind = "function"
    <3>1. functions' = Append(functions, [ast |-> Child.body, value |-> "none"])
      BY <1>3, <2>2 DEF Declare
    <3>2. Child.body \in Bodies
      BY <1>1, <2>1, <2>2, FileOnTop
    <3>3. /\ DOMAIN functions' = 1 .. Len(functions) + 1
          /\ \A f \in DOMAIN functions : functions'[f] = functions[f]
          /\ functions'[Len(functions) + 1].value = "none"
      BY <1>1, <3>1, <3>2, NewFunction
    <3>4. DOMAIN functions = 1 .. Len(functions) /\ Len(functions) \in Nat
      BY <1>1 DEF Types
    <3>5. \A f \in DOMAIN functions' : f \in DOMAIN functions \/ f = Len(functions) + 1
      BY <3>3, <3>4
    <3> QED BY <1>1, <3>3, <3>5
  <2>3. CASE Child.kind # "function"
    BY <1>2, <1>3, <2>3 DEF Declare
  <2> QED BY <2>2, <2>3
<1>4. ASSUME NEW v \in GlobalValues, NEW d \in Nat, NEW below \in Seq(Activations), Enter(v, d, below)
      PROVE  CompiledAreValid'
  <2>1. CASE EnterFunction(v, d, below)
    <3>1. /\ DOMAIN functions' = DOMAIN functions
          /\ \A f \in DOMAIN functions : f # v.n => functions'[f] = functions[f]
          /\ functions'[v.n].ast \notin Invalid
      BY <2>1, EnterEffect
    <3> QED BY <1>1, <3>1
  <2>2. CASE UNCHANGED functions
    BY <1>2, <2>2
  <2> QED BY <1>4, <2>1, <2>2 DEF Enter, Abort, EnterFunction
<1>5. CASE CallGlobal \/ CallLocal
  BY <1>4, <1>5, CallEffect DEF CallGlobal, CallLocal
<1> QED
  BY <1>2, <1>3, <1>5
     DEF Next, vars, StartFile, Exit, DeclarationsEnd, PassDeclaration, ExecEnds, CallNative, Return,
         TakeGlobal, GiveGlobal, Eval, Abort

\* What a call leaves below itself in the stack is calling.
LEMMA CallersStayCalling == ScopeInv /\ [Next]_vars => CallersAreCalling'
<1> SUFFICES ASSUME ScopeInv, [Next]_vars PROVE CallersAreCalling'
  OBVIOUS
<1> USE DEF CallersAreCalling
<1>1. CallersAreCalling /\ ExecInv /\ Types /\ stack \in Seq(Activations)
  BY DEF ScopeInv, ExecInv, Types
<1>2. Len(stack) \in Nat /\ DOMAIN stack = 1 .. Len(stack)
  BY <1>1
<1>3. CASE UNCHANGED stack
  BY <1>1, <1>3
<1>4. ASSUME stack # <<>>, NEW t \in Activations, stack' = Append(Pop, t)
      PROVE  CallersAreCalling'
  <2>1. /\ Len(stack') = Len(stack) /\ DOMAIN stack' = DOMAIN stack
        /\ \A k \in DOMAIN stack : k # Len(stack) => stack'[k] = stack[k]
    BY <1>1, <1>4, ReplaceEffect
  <2> QED BY <1>1, <1>2, <2>1
<1>5. ASSUME stack # <<>>, stack' = Pop
      PROVE  CallersAreCalling'
  <2>1. Len(Pop) = Len(stack) - 1 /\ DOMAIN Pop = 1 .. Len(stack) - 1
        /\ \A k \in DOMAIN Pop : Pop[k] = stack[k]
    BY <1>1, <1>5, Popped
  <2> QED BY <1>1, <1>2, <1>5, <2>1
<1>6. ASSUME NEW file \in Files, stack' = Append(stack, ExecOf(file)),
             stack = <<>> \/ Top.kind = "run"
      PROVE  CallersAreCalling'
  <2>1. Len(stack') = Len(stack) + 1 /\ DOMAIN stack' = 1 .. Len(stack) + 1
        /\ \A k \in DOMAIN stack : stack'[k] = stack[k]
    BY <1>1, <1>6, Pushed, ActivationTypes
  <2>2. stack # <<>> => stack[Len(stack)].kind = "run"
    BY <1>6 DEF Top
  <2>3. \A k \in DOMAIN stack : k < Len(stack) \/ (k = Len(stack) /\ stack # <<>>)
    BY <1>2
  <2> QED BY <1>1, <1>2, <2>1, <2>2, <2>3
<1>7. ASSUME NEW v \in GlobalValues, NEW d \in Nat, NEW below \in Seq(Activations), Enter(v, d, below),
             Len(below) = Len(stack), \A k \in DOMAIN stack : k # Len(stack) => below[k] = stack[k],
             stack # <<>>, below[Len(stack)].kind = "exec" => below[Len(stack)].loop = "call"
      PROVE  CallersAreCalling'
  <2>1. CASE EnterFunction(v, d, below)
    <3>1. Len(stack') = Len(stack) + 1 /\ DOMAIN stack' = 1 .. Len(stack) + 1
          /\ \A k \in DOMAIN below : stack'[k] = below[k]
      BY <1>7, <2>1, EnterEffect
    <3>2. DOMAIN below = DOMAIN stack
      BY <1>2, <1>7
    <3>3. \A k \in DOMAIN stack : below[k].kind = "exec" => below[k].loop = "call"
      BY <1>1, <1>2, <1>7
    <3> QED BY <1>2, <3>1, <3>2, <3>3
  <2>2. CASE UNCHANGED stack
    BY <1>3, <2>2
  <2> QED BY <1>7, <2>1, <2>2 DEF Enter, Abort, EnterFunction
<1>8. CASE CallGlobal
  <2>1. stack # <<>> /\ Top.kind = "exec" /\ Top.loop = "call"
    BY <1>8 DEF CallGlobal, InExec
  <2>2. [Top EXCEPT !.i = @ + 1].loop = "call"
    BY <1>1, <2>1, AdvanceEffect
  <2> QED BY <1>7, <1>8, <2>1, <2>2, CallEffect DEF CallGlobal
<1>9. CASE CallLocal
  <2>1. stack # <<>> /\ Top.kind = "run" /\ Top = stack[Len(stack)]
    BY <1>9 DEF CallLocal, InCode, Top
  <2> QED BY <1>7, <1>9, <2>1, CallEffect DEF CallLocal
<1>10. CASE Declare \/ DeclarationsEnd \/ PassDeclaration
  <2>1. stack # <<>> /\ Top.kind = "exec"
    BY <1>10 DEF Declare, DeclarationsEnd, PassDeclaration, InExec
  <2> QED BY <1>1, <1>4, <1>10, <2>1, AdvanceEffect DEF Declare, DeclarationsEnd, PassDeclaration, Advance
<1>11. CASE ExecEnds \/ Return
  BY <1>5, <1>11 DEF ExecEnds, Return, InExec, InCode
<1>12. CASE StartFile
  <2>1. CASE stack' = <<ExecOf(Head(arguments))>> /\ arguments # <<>>
    <3>1. Head(arguments) \in Files /\ stack = <<>>
      BY <1>1, <1>12, <2>1 DEF Types, StartFile
    <3>2. <<ExecOf(Head(arguments))>> = Append(stack, ExecOf(Head(arguments)))
      BY <3>1
    <3> QED BY <1>6, <2>1, <3>1, <3>2
  <2> QED BY <1>3, <1>12, <2>1 DEF StartFile, Abort
<1>13. ASSUME NEW file \in Files, Eval(file)
       PROVE  CallersAreCalling'
  BY <1>3, <1>6, <1>13 DEF Eval, InCode, Abort
<1>14. ASSUME NEW n \in Names, TakeGlobal(n)
       PROVE  CallersAreCalling'
  <2>1. /\ stack # <<>> /\ Top.kind = "run" /\ Top \in Activations
        /\ stack' = Append(Pop, [Top EXCEPT !.local = globals[n]])
    BY <1>1, <1>14, TopActivation DEF TakeGlobal, Native, InCode
  <2>2. globals[n] \in [tag : {"BOXED_UNDEFINED", "FUNCTION"}, n : Nat]
    <3>1. globals[n] \in GlobalValues /\ DOMAIN functions \subseteq Nat
      BY <1>1 DEF Types
    <3> QED BY <3>1 DEF GlobalValues, BoxFunc, Undefined
  <2>3. [Top EXCEPT !.local = globals[n]] \in Activations
    BY <2>1, <2>2 DEF Activations
  <2> QED BY <1>4, <2>1, <2>3
<1> QED
  BY <1>3, <1>8, <1>9, <1>10, <1>11, <1>12, <1>13, <1>14
     DEF Next, vars, Exit, CallNative, GiveGlobal, Abort

\* What the refinement rests on holds of every reachable state.
THEOREM ScopeInvariant == Spec => []ScopeInv
<1>1. ScopeInv /\ [Next]_vars => ScopeInv'
  BY StepInv, CompiledStayValid, CallersStayCalling DEF ScopeInv
<1> QED BY <1>1, InitScopeInv, PTL DEF Spec
------------------------------------------------------------------------------
\* What GlobalScope says of the state.
AbstractActivities ==
    [kind : {"file", "function"}, calls : SUBSET Nat, body : Files \cup Bodies,
     local : Bodies \cup {"undefined"}]

CallsAhead(a) == Calls(a.file, IF a.loop = "declare" THEN 1 ELSE a.i)

AbstractState ==
    /\ AbstractActivity \in Seq(AbstractActivities)
    /\ Len(AbstractActivity) = Len(stack)
    /\ \A k \in DOMAIN stack :
         IF stack[k].kind = "exec"
         THEN AbstractActivity[k] = Scope!File(stack[k].file, CallsAhead(stack[k]))
         ELSE AbstractActivity[k] = Scope!Function(functions[stack[k].fun].ast, AbstractValue(stack[k].local))
    /\ \A n \in Names : AbstractValue(globals[n]) \in Bodies \cup {"undefined"}
    /\ AbstractScope = [n \in Names |-> AbstractScope[n]]

LEMMA ValuesAreAbstract ==
    ASSUME ExecInv, NEW v \in GlobalValues
    PROVE  /\ AbstractValue(v) \in Bodies \cup {"undefined"}
           /\ AbstractValue(v) \in Bodies <=> IsFunc(v)
           /\ IsFunc(v) => v.n \in DOMAIN functions
<1>1. IsFunc(v) => v.n \in DOMAIN functions
  BY DEF IsFunc, GlobalValues, BoxFunc, Undefined
<1>2. \A f \in DOMAIN functions : functions[f].ast \in Bodies
  <2>1. functions \in Seq(FunctionObjects)
    BY DEF ExecInv, Types
  <2>2. \A f \in DOMAIN functions : functions[f] \in FunctionObjects
    BY <2>1
  <2> QED BY <2>2 DEF FunctionObjects
<1> QED BY <1>1, <1>2, FilesAssumption DEF AbstractValue

LEMMA StateIsAbstract == ExecInv => AbstractState
<1> SUFFICES ASSUME ExecInv PROVE AbstractState
  OBVIOUS
<1>1. Types /\ ActivationsAreSound /\ stack \in Seq(Activations)
  BY DEF ExecInv, Types
<1>2. Len(stack) \in Nat /\ DOMAIN stack = 1 .. Len(stack)
  BY <1>1
<1>3. ASSUME NEW k \in DOMAIN stack
      PROVE  /\ ActivityOf(stack[k]) \in AbstractActivities
             /\ IF stack[k].kind = "exec"
                THEN ActivityOf(stack[k]) = Scope!File(stack[k].file, CallsAhead(stack[k]))
                ELSE ActivityOf(stack[k])
                       = Scope!Function(functions[stack[k].fun].ast, AbstractValue(stack[k].local))
  <2>1. CASE stack[k].kind = "exec"
    <3>1. ActivityOf(stack[k]) = Scope!File(stack[k].file, CallsAhead(stack[k]))
      BY <2>1 DEF ActivityOf, CallsAhead, Scope!File, Scope!Undefined
    <3>2. stack[k].file \in Files /\ stack[k].i \in Nat \ {0}
      <4>1. stack[k] \in Activations
        BY <1>1
      <4> QED BY <1>1, <2>1, <4>1 DEF ActivationsAreSound, Activations
    <3>3. CallsAhead(stack[k]) \in SUBSET Nat
      BY <3>2, CallsFacts DEF CallsAhead
    <3> QED BY <2>1, <3>1, <3>2, <3>3 DEF AbstractActivities, Scope!File, Scope!Undefined
  <2>2. CASE stack[k].kind # "exec"
    <3>1. ActivityOf(stack[k])
            = Scope!Function(functions[stack[k].fun].ast, AbstractValue(stack[k].local))
      BY <2>2 DEF ActivityOf, Scope!Function
    <3>2. stack[k].fun \in DOMAIN functions /\ stack[k].local \in GlobalValues
      BY <1>1, <2>2 DEF ActivationsAreSound
    <3>3. functions[stack[k].fun] \in FunctionObjects
      BY <1>1, <3>2 DEF Types
    <3>4. AbstractValue(stack[k].local) \in Bodies \cup {"undefined"}
      BY <3>2, ValuesAreAbstract
    <3> QED BY <2>2, <3>1, <3>3, <3>4 DEF AbstractActivities, Scope!Function, FunctionObjects
  <2> QED BY <2>1, <2>2
<1>4. AbstractActivity = [k \in 1 .. Len(stack) |-> ActivityOf(stack[k])]
  BY <1>2 DEF AbstractActivity
<1>5. AbstractActivity \in Seq(AbstractActivities) /\ Len(AbstractActivity) = Len(stack)
  BY <1>2, <1>3, <1>4
<1>6. \A n \in Names : AbstractValue(globals[n]) \in Bodies \cup {"undefined"}
  BY <1>1, ValuesAreAbstract DEF Types
<1>7. AbstractScope = [n \in Names |-> AbstractScope[n]]
  BY DEF AbstractScope, ScopeSoFar, AfterDeclarations
<1> QED BY <1>2, <1>3, <1>4, <1>5, <1>6, <1>7 DEF AbstractState

\* Function objects keep their trees.
TreesStay ==
    \A f \in DOMAIN functions : f \in DOMAIN functions' /\ functions'[f].ast = functions[f].ast

\* What a value is with these function objects
ValueAmong(objects, v) == IF IsFunc(v) THEN objects[v.n].ast ELSE "undefined"

LEMMA SameValue ==
    ASSUME ExecInv, TreesStay, NEW v \in GlobalValues
    PROVE  ValueAmong(functions', v) = ValueAmong(functions, v)
BY ValuesAreAbstract DEF ValueAmong, TreesStay

LEMMA SameActivity ==
    ASSUME ExecInv, ExecInv', TreesStay, NEW k \in DOMAIN stack, k \in DOMAIN stack',
           stack'[k].kind = stack[k].kind, stack'[k].file = stack[k].file,
           stack'[k].fun = stack[k].fun, stack'[k].local = stack[k].local,
           stack[k].kind = "exec" => CallsAhead(stack'[k]) = CallsAhead(stack[k])
    PROVE  AbstractActivity'[k] = AbstractActivity[k]
<1>1. AbstractActivity'[k] = ActivityOf(stack[k])'
  BY DEF AbstractActivity
<1>2. AbstractActivity[k] = ActivityOf(stack[k])
  BY DEF AbstractActivity
<1>3. CASE stack[k].kind = "exec"
  BY <1>1, <1>2, <1>3 DEF ActivityOf, CallsAhead
<1>4. CASE stack[k].kind # "exec"
  <2>1. stack[k].fun \in DOMAIN functions /\ stack[k].local \in GlobalValues
    BY <1>4 DEF ExecInv, ActivationsAreSound
  <2>2. functions'[stack[k].fun].ast = functions[stack[k].fun].ast
    BY <2>1 DEF TreesStay
  <2>3. ValueAmong(functions', stack[k].local) = ValueAmong(functions, stack[k].local)
    BY <2>1, SameValue
  <2> QED BY <1>1, <1>2, <1>4, <2>2, <2>3 DEF ActivityOf, AbstractValue, ValueAmong, IsFunc
<1> QED BY <1>3, <1>4

LEMMA SameState ==
    ASSUME UNCHANGED <<globals, functions, stack>>
    PROVE  UNCHANGED <<AbstractScope, AbstractActivity>>
BY DEF AbstractScope, ScopeSoFar, AbstractValue, Declaring, Top, AbstractActivity, ActivityOf

\* The end of the program
LEMMA AbortMaps ==
    ASSUME status = "running"
    PROVE  /\ Abort("aborted") => Scope!Terminate
           /\ Abort("crashed") \/ Abort("overrun") => Scope!RunOut
           /\ Abort("exited") => UNCHANGED Scope!scopeVars
BY SameState DEF Abort, AbstractOutcome, Scope!Terminate, Scope!RunOut, Scope!scopeVars

\* The operators of SourceFiles are the same ones in GlobalScope.
LEMMA SameOperators ==
    /\ \A values, file, start :
         Scope!AfterDeclarations(values, file, start) = AfterDeclarations(values, file, start)
    /\ \A file, start : Scope!Calls(file, start) = Calls(file, start)
BY DEF Scope!AfterDeclarations, AfterDeclarations, Scope!Calls, Calls, Scope!Positions, Positions,
       Scope!Latest, Latest
------------------------------------------------------------------------------
\* A step that is not the end of the program, before and after
RunningStep ==
    /\ ScopeInv /\ AbstractState /\ ScopeInv' /\ AbstractState'
    /\ status = "running" /\ status' = "running"

LEMMA OutcomeStays == RunningStep => AbstractOutcome = "running" /\ AbstractOutcome' = "running"
BY DEF RunningStep, AbstractOutcome

\* What is on top in GlobalScope
LEMMA AbstractTop ==
    ASSUME ScopeInv, AbstractState, stack # <<>>
    PROVE  /\ AbstractActivity # <<>> /\ Scope!Top = AbstractActivity[Len(stack)]
           /\ Top.kind = "exec" => Scope!Top = Scope!File(Top.file, CallsAhead(Top))
           /\ Top.kind = "run" => /\ Scope!Top = Scope!Function(functions[Top.fun].ast, AbstractValue(Top.local))
                                  /\ Top.local \in GlobalValues
           /\ InCode => Scope!InFunction
           /\ status = "running" /\ Top.kind = "exec" => Scope!InFile
           /\ Scope!Top \in AbstractActivities
<1>1. Len(stack) \in DOMAIN stack /\ Top = stack[Len(stack)]
  BY TopActivation DEF ScopeInv, ExecInv
<1>2. Len(stack) \in Nat /\ Len(stack) >= 1
  BY DEF ScopeInv, ExecInv, Types
<1>3. AbstractActivity # <<>> /\ Scope!Top = AbstractActivity[Len(stack)]
      /\ Scope!Top \in AbstractActivities
  BY <1>2 DEF AbstractState, Scope!Top
<1>4. /\ Top.kind = "exec" => Scope!Top = Scope!File(Top.file, CallsAhead(Top))
      /\ Top.kind = "run" => Scope!Top = Scope!Function(functions[Top.fun].ast, AbstractValue(Top.local))
  BY <1>1, <1>3 DEF AbstractState
<1>5. Top.kind = "run" => Top.local \in GlobalValues
  BY <1>1 DEF ScopeInv, ExecInv, ActivationsAreSound
<1> QED
  BY <1>3, <1>4, <1>5
     DEF InCode, Scope!InFunction, Scope!InFile, AbstractOutcome, Scope!File, Scope!Function

LEMMA ActivityReplaced ==
    ASSUME RunningStep, TreesStay, stack # <<>>, NEW t \in Activations, stack' = Append(Pop, t)
    PROVE  /\ AbstractActivity' = Append(Scope!Pop, AbstractActivity'[Len(stack)])
           /\ AbstractActivity'[Len(stack)] = AbstractActivity[Len(stack)]
                => AbstractActivity' = AbstractActivity
           /\ IF t.kind = "exec"
              THEN AbstractActivity'[Len(stack)] = Scope!File(t.file, CallsAhead(t))
              ELSE AbstractActivity'[Len(stack)]
                     = Scope!Function(functions'[t.fun].ast, ValueAmong(functions', t.local))
<1>1. /\ ExecInv /\ ExecInv' /\ AbstractState
      /\ AbstractActivity' \in Seq(AbstractActivities)
      /\ Len(AbstractActivity') = Len(stack')
  BY DEF RunningStep, ScopeInv, AbstractState
<1>2. /\ Len(stack') = Len(stack) /\ DOMAIN stack' = DOMAIN stack
      /\ Len(stack) \in DOMAIN stack /\ stack'[Len(stack)] = t
      /\ \A k \in DOMAIN stack : k # Len(stack) => stack'[k] = stack[k]
  BY <1>1, ReplaceEffect
<1>3. Len(stack) \in Nat /\ DOMAIN stack = 1 .. Len(stack)
  BY <1>1 DEF ExecInv, Types
<1>4. \A k \in 1 .. Len(stack) - 1 : AbstractActivity'[k] = AbstractActivity[k]
  BY <1>1, <1>2, <1>3, SameActivity
<1>5. /\ AbstractActivity \in Seq(AbstractActivities) /\ Len(AbstractActivity) = Len(stack)
      /\ AbstractActivity # <<>>
  BY <1>1, <1>2, <1>3 DEF AbstractState
<1>6. AbstractActivity' = Append(Scope!Pop, AbstractActivity'[Len(stack)])
  BY <1>1, <1>2, <1>4, <1>5, OneReplaced DEF Scope!Pop
<1>7. ASSUME AbstractActivity'[Len(stack)] = AbstractActivity[Len(stack)]
      PROVE  AbstractActivity' = AbstractActivity
  <2>1. \A k \in 1 .. Len(stack) : AbstractActivity'[k] = AbstractActivity[k]
    BY <1>3, <1>4, <1>7
  <2> QED BY <1>1, <1>2, <1>5, <2>1, SeqEqual
<1>8. IF t.kind = "exec"
      THEN AbstractActivity'[Len(stack)] = Scope!File(t.file, CallsAhead(t))
      ELSE AbstractActivity'[Len(stack)]
             = Scope!Function(functions'[t.fun].ast, ValueAmong(functions', t.local))
  BY <1>2 DEF AbstractActivity, ActivityOf, AbstractValue, ValueAmong, CallsAhead, Scope!File,
              Scope!Function, Scope!Undefined
<1> QED BY <1>6, <1>7, <1>8

\* Nothing is at work but what was there: sdyn_exec or code goes on.
LEMMA ScopeSame ==
    ASSUME ~Declaring, ~Declaring', UNCHANGED <<globals, functions>>
    PROVE  AbstractScope' = AbstractScope
BY DEF AbstractScope, ScopeSoFar, AbstractValue

\* The first loop changes nothing that can be seen: its declarations count from its start.
LEMMA DeclareMaps ==
    ASSUME RunningStep, Declare
    PROVE  UNCHANGED Scope!scopeVars
<1> DEFINE t == [Top EXCEPT !.i = @ + 1]
<1>1. ExecInv /\ Types /\ CompiledFromOwnTree
  BY DEF RunningStep, ScopeInv, ExecInv
<1>2. /\ stack # <<>> /\ Top.kind = "exec" /\ Top.loop = "declare" /\ More
      /\ stack' = Append(Pop, t)
  BY DEF Declare, InExec, Advance
<1>3. /\ t \in Activations /\ t.kind = "exec" /\ t.file = Top.file /\ t.loop = "declare"
      /\ t.i = Top.i + 1
  BY <1>1, <1>2, AdvanceEffect
<1>4. Top.file \in Files /\ Top.i \in DOMAIN Declarations[Top.file] /\ Child.name \in Names
      /\ (Child.kind = "function" => Child.body \in Bodies)
  BY <1>1, <1>2, FileOnTop
<1> HIDE DEF t
<1>5. stack' # <<>> /\ Top' = t
  BY <1>1, <1>2, <1>3, ReplaceEffect
<1>6. TreesStay
  <2>1. CASE Child.kind = "function"
    BY <1>1, <1>4, <2>1, NewFunction DEF TreesStay, Declare
  <2>2. CASE Child.kind # "function"
    BY <2>2 DEF TreesStay, Declare
  <2> QED BY <2>1, <2>2
<1>7. AbstractActivity' = AbstractActivity
  <2>1. Scope!Top = AbstractActivity[Len(stack)] /\ Scope!Top = Scope!File(Top.file, CallsAhead(Top))
    BY <1>2, AbstractTop DEF RunningStep
  <2>2. CallsAhead(t) = CallsAhead(Top)
    BY <1>2, <1>3 DEF CallsAhead
  <2> QED BY <1>2, <1>3, <1>6, <2>1, <2>2, ActivityReplaced
<1>8. ASSUME NEW n \in Names
      PROVE  ValueAmong(functions', globals'[n]) =
               IF Child.kind = "function" /\ Child.name = n THEN Child.body
                                                          ELSE ValueAmong(functions, globals[n])
  <2>1. globals[n] \in GlobalValues /\ DOMAIN globals = Names
    BY <1>1 DEF Types
  <2>2. ValueAmong(functions', globals[n]) = ValueAmong(functions, globals[n])
    BY <1>1, <1>6, <2>1, SameValue
  <2>3. CASE Child.kind = "function" /\ Child.name = n
    <3>1. /\ functions' = Append(functions, [ast |-> Child.body, value |-> "none"])
          /\ globals' = [globals EXCEPT ![Child.name] = BoxFunc(Len(functions) + 1)]
      BY <2>3 DEF Declare
    <3>2. functions'[Len(functions) + 1].ast = Child.body
      BY <1>1, <1>4, <2>3, <3>1, NewFunction
    <3>3. globals'[n] = BoxFunc(Len(functions) + 1)
      BY <2>1, <2>3, <3>1
    <3> QED BY <2>3, <3>2, <3>3 DEF ValueAmong, IsFunc, BoxFunc
  <2>4. CASE ~(Child.kind = "function" /\ Child.name = n)
    <3>1. globals'[n] = globals[n]
      BY <2>1, <2>4 DEF Declare
    <3> QED BY <2>2, <2>4, <3>1
  <2> QED BY <2>3, <2>4
<1>9. /\ \A n \in Names : ScopeSoFar[n] = ValueAmong(functions, globals[n])
      /\ \A n \in Names : ScopeSoFar'[n] = ValueAmong(functions', globals'[n])
  BY DEF ScopeSoFar, AbstractValue, ValueAmong
<1>10. AfterDeclarations(ScopeSoFar', Top.file, Top.i + 1) = AfterDeclarations(ScopeSoFar, Top.file, Top.i)
  <2>1. \A n \in Names : ScopeSoFar'[n] =
           IF Declarations[Top.file][Top.i].kind = "function" /\ Declarations[Top.file][Top.i].name = n
           THEN Declarations[Top.file][Top.i].body ELSE ScopeSoFar[n]
    BY <1>8, <1>9 DEF Child
  <2> QED BY <1>4, <2>1, DeclarationMade
<1>11. AbstractScope' = AbstractScope
  <2>1. AbstractScope = AfterDeclarations(ScopeSoFar, Top.file, Top.i)
    BY <1>2 DEF AbstractScope, Declaring
  <2>2. AbstractScope' = AfterDeclarations(ScopeSoFar', t.file, t.i)
    BY <1>3, <1>5 DEF AbstractScope, Declaring
  <2> QED BY <1>3, <1>10, <2>1, <2>2
<1> QED BY <1>7, <1>11, OutcomeStays DEF Scope!scopeVars

\* Nor do the steps of sdyn_exec that only go on.
LEMMA LoopMaps ==
    ASSUME RunningStep, DeclarationsEnd \/ PassDeclaration
    PROVE  UNCHANGED Scope!scopeVars
<1>1. ExecInv /\ stack # <<>> /\ Top.kind = "exec" /\ TreesStay
  BY DEF RunningStep, ScopeInv, DeclarationsEnd, PassDeclaration, InExec, TreesStay
<1>2. /\ Top.file \in Files /\ Top.i \in Nat \ {0}
      /\ (More => Top.i \in DOMAIN Declarations[Top.file])
      /\ (~More => Top.i > Len(Declarations[Top.file]))
  BY <1>1, FileOnTop
<1>3. Scope!Top = AbstractActivity[Len(stack)] /\ Scope!Top = Scope!File(Top.file, CallsAhead(Top))
  BY <1>1, AbstractTop DEF RunningStep
<1>4. UNCHANGED ScopeSoFar
  BY DEF ScopeSoFar, AbstractValue, DeclarationsEnd, PassDeclaration
<1>5. CASE DeclarationsEnd
  <2> DEFINE t == [Top EXCEPT !.loop = "call", !.i = 1]
  <2>1. Top.loop = "declare" /\ ~More /\ stack' = Append(Pop, t)
    BY <1>5 DEF DeclarationsEnd, InExec
  <2>2. t \in Activations /\ t.kind = "exec" /\ t.file = Top.file /\ t.loop = "call" /\ t.i = 1
    BY <1>1, AdvanceEffect
  <2> HIDE DEF t
  <2>3. CallsAhead(t) = CallsAhead(Top)
    BY <2>1, <2>2 DEF CallsAhead
  <2>4. AbstractActivity' = AbstractActivity
    BY <1>1, <1>3, <2>1, <2>2, <2>3, ActivityReplaced
  <2>5. Top' = t
    BY <1>1, <2>1, <2>2, ReplaceEffect
  <2>6. ScopeSoFar = [n \in Names |-> ScopeSoFar[n]]
    BY DEF ScopeSoFar
  <2>7. AfterDeclarations(ScopeSoFar, Top.file, Top.i) = ScopeSoFar
    BY <1>2, <2>1, <2>6, NothingToDeclare
  <2>8. AbstractScope = ScopeSoFar
    BY <1>1, <2>1, <2>7 DEF AbstractScope, Declaring
  <2>9. AbstractScope' = ScopeSoFar'
    BY <2>2, <2>5 DEF AbstractScope, Declaring
  <2> QED BY <1>4, <2>4, <2>8, <2>9, OutcomeStays DEF Scope!scopeVars
<1>6. CASE PassDeclaration
  <2> DEFINE t == [Top EXCEPT !.i = @ + 1]
  <2>1. Top.loop = "call" /\ More /\ stack' = Append(Pop, t) /\ Child.kind # "call"
    BY <1>6 DEF PassDeclaration, InExec, Advance
  <2>2. t \in Activations /\ t.kind = "exec" /\ t.file = Top.file /\ t.loop = "call" /\ t.i = Top.i + 1
    BY <1>1, <2>1, AdvanceEffect
  <2> HIDE DEF t
  <2>3. Calls(Top.file, Top.i + 1) = Calls(Top.file, Top.i)
    BY <1>2, <2>1, CallsFacts DEF Child
  <2>4. CallsAhead(t) = CallsAhead(Top)
    BY <2>1, <2>2, <2>3 DEF CallsAhead
  <2>5. AbstractActivity' = AbstractActivity
    BY <1>1, <1>3, <2>1, <2>2, <2>4, ActivityReplaced
  <2>6. Top' = t
    BY <1>1, <2>1, <2>2, ReplaceEffect
  <2>7. AbstractScope = ScopeSoFar /\ AbstractScope' = ScopeSoFar'
    BY <2>1, <2>2, <2>6 DEF AbstractScope, Declaring
  <2> QED BY <1>4, <2>5, <2>7, OutcomeStays DEF Scope!scopeVars
<1> QED BY <1>5, <1>6

\* What code does with globals
LEMMA TakeMaps ==
    ASSUME RunningStep, NEW n \in Names, TakeGlobal(n)
    PROVE  Scope!Take(n)
<1> DEFINE t == [Top EXCEPT !.local = globals[n]]
<1>1. /\ ExecInv /\ Types /\ InCode /\ stack # <<>> /\ Top.kind = "run" /\ Top \in Activations
      /\ stack' = Append(Pop, t) /\ TreesStay /\ UNCHANGED <<globals, functions>>
  BY TopActivation DEF RunningStep, ScopeInv, ExecInv, TakeGlobal, Native, InCode, TreesStay
<1>2. globals[n] \in GlobalValues /\ globals[n] \in [tag : {"BOXED_UNDEFINED", "FUNCTION"}, n : Nat]
  <2>1. globals[n] \in GlobalValues /\ DOMAIN functions \subseteq Nat
    BY <1>1 DEF Types
  <2> QED BY <2>1 DEF GlobalValues, BoxFunc, Undefined
<1>3. t \in Activations /\ t.kind = "run" /\ t.fun = Top.fun /\ t.local = globals[n]
  BY <1>1, <1>2 DEF Activations
<1> HIDE DEF t
<1>4. Top' = t
  BY <1>1, <1>3, ReplaceEffect
<1>5. AbstractScope' = AbstractScope /\ AbstractScope[n] = ValueAmong(functions, globals[n])
  BY <1>1, <1>3, <1>4, ScopeSame DEF Declaring, AbstractScope, ScopeSoFar, AbstractValue, ValueAmong
<1>6. /\ AbstractActivity' = Append(Scope!Pop, AbstractActivity'[Len(stack)])
      /\ AbstractActivity'[Len(stack)]
           = Scope!Function(functions'[t.fun].ast, ValueAmong(functions', t.local))
  BY <1>1, <1>3, ActivityReplaced
<1>7. /\ Scope!Top = Scope!Function(functions[Top.fun].ast, AbstractValue(Top.local))
      /\ Scope!InFunction
  BY <1>1, AbstractTop DEF RunningStep
<1>8. Scope!Function(functions'[t.fun].ast, ValueAmong(functions', t.local))
        = [Scope!Top EXCEPT !.local = AbstractScope[n]]
  <2>1. functions'[t.fun].ast = functions[Top.fun].ast
    BY <1>1, <1>3
  <2>2. ValueAmong(functions', t.local) = AbstractScope[n]
    BY <1>1, <1>3, <1>5
  <2>3. \A body, v, w : Scope!Function(body, w) = [Scope!Function(body, v) EXCEPT !.local = w]
    BY DEF Scope!Function
  <2> QED BY <1>7, <2>1, <2>2, <2>3
<1> QED BY <1>5, <1>6, <1>7, <1>8, OutcomeStays DEF Scope!Take

LEMMA GiveMaps ==
    ASSUME RunningStep, NEW n \in Names, GiveGlobal(n)
    PROVE  Scope!Give(n)
<1>1. /\ ExecInv /\ Types /\ InCode /\ stack # <<>> /\ Top.kind = "run"
      /\ UNCHANGED <<functions, stack>> /\ globals' = [globals EXCEPT ![n] = Top.local]
      /\ globals \in [Names -> GlobalValues]
  BY DEF RunningStep, ScopeInv, ExecInv, Types, GiveGlobal, Native, InCode
<1>2. AbstractActivity' = AbstractActivity
  BY <1>1 DEF AbstractActivity, ActivityOf, AbstractValue
<1>3. AbstractScope = ScopeSoFar /\ AbstractScope' = ScopeSoFar'
  BY <1>1 DEF AbstractScope, Declaring, Top
<1>4. Scope!InFunction /\ Scope!Top.local = ValueAmong(functions, Top.local)
  BY <1>1, AbstractTop DEF RunningStep, Scope!Function, AbstractValue, ValueAmong
<1>5. ScopeSoFar' = [ScopeSoFar EXCEPT ![n] = ValueAmong(functions, Top.local)]
  <2>1. \A m \in Names : globals'[m] = IF m = n THEN Top.local ELSE globals[m]
    BY <1>1
  <2>2. /\ ScopeSoFar = [m \in Names |-> ValueAmong(functions, globals[m])]
        /\ ScopeSoFar' = [m \in Names |-> ValueAmong(functions', globals'[m])]
    BY DEF ScopeSoFar, AbstractValue, ValueAmong
  <2> QED BY <1>1, <2>1, <2>2
<1> QED BY <1>2, <1>3, <1>4, <1>5, OutcomeStays DEF Scope!Give

\* Files and functions end alike.
LEMMA EndMaps ==
    ASSUME RunningStep, ExecEnds \/ Return
    PROVE  Scope!End
<1>1. /\ ExecInv /\ Types /\ CallersAreCalling /\ stack # <<>> /\ stack' = Pop
      /\ UNCHANGED <<globals, functions>> /\ TreesStay /\ stack \in Seq(Activations)
      /\ ExecInv' /\ AbstractState /\ AbstractState'
  BY DEF RunningStep, ScopeInv, ExecInv, Types, ExecEnds, Return, InExec, InCode, TreesStay
<1>2. /\ Len(stack') = Len(stack) - 1 /\ DOMAIN stack' = 1 .. Len(stack) - 1
      /\ \A k \in DOMAIN stack' : stack'[k] = stack[k]
      /\ Len(stack) \in Nat /\ Len(stack) >= 1 /\ DOMAIN stack = 1 .. Len(stack)
  BY <1>1, Popped
<1>3. \A k \in DOMAIN stack' : k \in DOMAIN stack /\ AbstractActivity'[k] = AbstractActivity[k]
  BY <1>1, <1>2, SameActivity
<1>4. AbstractActivity' = Scope!Pop
  <2>1. /\ AbstractActivity \in Seq(AbstractActivities) /\ AbstractActivity' \in Seq(AbstractActivities)
        /\ Len(AbstractActivity) = Len(stack) /\ Len(AbstractActivity') = Len(stack')
        /\ AbstractActivity # <<>>
    BY <1>1, AbstractTop DEF AbstractState, RunningStep
  <2> QED BY <1>2, <1>3, <2>1, OnePopped DEF Scope!Pop
<1>5. ~Declaring
  BY DEF ExecEnds, Return, InExec, InCode, Declaring
<1>6. ~Declaring'
  <2>1. stack' # <<>> => Top' = stack[Len(stack) - 1] /\ Len(stack) - 1 \in DOMAIN stack
    BY <1>2 DEF Top
  <2> QED BY <1>1, <1>2, <2>1 DEF CallersAreCalling, Declaring
<1>7. Scope!InFunction \/ (Scope!InFile /\ Scope!Top.calls = {})
  <2>1. CASE Return
    BY <1>1, <2>1, AbstractTop DEF RunningStep, Return
  <2>2. CASE ExecEnds
    <3>1. Top.kind = "exec" /\ Top.loop = "call" /\ ~More /\ status = "running"
      BY <2>2 DEF ExecEnds, InExec
    <3>2. CallsAhead(Top) = {}
      BY <1>1, <3>1, FileOnTop, CallsFacts DEF CallsAhead
    <3> QED BY <1>1, <3>1, <3>2, AbstractTop DEF RunningStep, Scope!File
  <2> QED BY <2>1, <2>2
<1> QED BY <1>1, <1>4, <1>5, <1>6, <1>7, ScopeSame, OutcomeStays DEF Scope!End
------------------------------------------------------------------------------
\* sdyn_exec starts above what is at work: its declarations count at once.
LEMMA EvaluateMaps ==
    ASSUME RunningStep, NEW file \in Files, file \notin Broken,
           stack = <<>> \/ InCode,
           stack' = Append(stack, ExecOf(file)), UNCHANGED <<globals, functions>>
    PROVE  Scope!Evaluate(file)
<1>1. /\ ExecInv /\ ExecInv' /\ AbstractState /\ AbstractState' /\ TreesStay
      /\ stack \in Seq(Activations)
  BY DEF RunningStep, ScopeInv, ExecInv, Types, TreesStay
<1>2. ExecOf(file) \in Activations
  BY <1>1, ActivationTypes DEF ExecInv
<1>3. /\ Len(stack') = Len(stack) + 1 /\ DOMAIN stack' = 1 .. Len(stack) + 1
      /\ stack'[Len(stack) + 1] = ExecOf(file)
      /\ \A k \in DOMAIN stack : stack'[k] = stack[k]
      /\ Len(stack) \in Nat /\ DOMAIN stack = 1 .. Len(stack)
  BY <1>1, <1>2, Pushed
<1>4. \A k \in 1 .. Len(stack) : AbstractActivity'[k] = AbstractActivity[k]
  BY <1>1, <1>3, SameActivity
<1>5. AbstractActivity'[Len(stack) + 1] = Scope!File(file, Calls(file, 1))
  BY <1>1, <1>3 DEF AbstractState, CallsAhead, ExecOf
<1>6. AbstractActivity' = Append(AbstractActivity, Scope!File(file, Calls(file, 1)))
  <2>1. /\ AbstractActivity \in Seq(AbstractActivities) /\ AbstractActivity' \in Seq(AbstractActivities)
        /\ Len(AbstractActivity) = Len(stack) /\ Len(AbstractActivity') = Len(stack')
    BY <1>1 DEF AbstractState
  <2> QED BY <1>3, <1>4, <1>5, <2>1, OnePushed
<1>7. AbstractScope = ScopeSoFar /\ ScopeSoFar' = ScopeSoFar
  BY DEF AbstractScope, Declaring, InCode, ScopeSoFar, AbstractValue
<1>8. AbstractScope' = AfterDeclarations(ScopeSoFar', file, 1)
  <2>1. stack' # <<>> /\ Top' = ExecOf(file)
    BY <1>3 DEF Top
  <2> QED BY <2>1 DEF AbstractScope, Declaring, ExecOf
<1>9. AbstractActivity = <<>> \/ Scope!InFunction
  <2>1. CASE stack = <<>>
    BY <1>1, <2>1 DEF AbstractState
  <2>2. CASE InCode
    BY <2>2, AbstractTop DEF RunningStep, InCode
  <2> QED BY <2>1, <2>2
<1> QED BY <1>6, <1>7, <1>8, <1>9, SameOperators, OutcomeStays DEF Scope!Evaluate

LEMMA StartFileMaps ==
    ASSUME ScopeInv, AbstractState, ScopeInv', AbstractState', StartFile
    PROVE  \E file \in Files : Scope!Evaluate(file)
<1> DEFINE file == Head(arguments)
<1>1. stack = <<>> /\ status = "running" /\ arguments # <<>> /\ arguments \in Seq(Files)
  BY DEF ScopeInv, ExecInv, Types, StartFile
<1>2. file \in Files
  BY <1>1
<1>3. CASE file \in Broken
  <2>1. Scope!Terminate
    BY <1>1, <1>3, AbortMaps DEF StartFile
  <2>2. AbstractActivity = <<>> /\ AbstractOutcome = "running"
    BY <1>1 DEF AbstractState, AbstractOutcome
  <2>3. Scope!Evaluate(file)
    BY <1>3, <2>1, <2>2 DEF Scope!Evaluate
  <2> HIDE DEF file
  <2> QED BY <1>2, <2>3
<1>4. CASE file \notin Broken
  <2>1. stack' = <<ExecOf(file)>> /\ UNCHANGED <<globals, functions, status>>
    BY <1>4 DEF StartFile
  <2> HIDE DEF file
  <2>2. <<ExecOf(file)>> = Append(stack, ExecOf(file))
    BY <1>1
  <2>3. RunningStep
    BY <1>1, <2>1 DEF RunningStep
  <2>4. Scope!Evaluate(file)
    BY <1>1, <1>2, <1>4, <2>1, <2>2, <2>3, EvaluateMaps
  <2> QED BY <1>2, <2>4
<1> QED BY <1>3, <1>4

LEMMA EvalMaps ==
    ASSUME ScopeInv, AbstractState, ScopeInv', AbstractState', NEW file \in Files, Eval(file)
    PROVE  Scope!Evaluate(file)
<1>1. InCode /\ stack # <<>> /\ status = "running"
  BY DEF Eval, InCode
<1>2. Scope!InFunction /\ AbstractOutcome = "running"
  BY <1>1, AbstractTop DEF AbstractOutcome
<1>3. CASE file \in Broken
  <2>1. Scope!Terminate
    BY <1>1, <1>3, AbortMaps DEF Eval
  <2> QED BY <1>2, <1>3, <2>1 DEF Scope!Evaluate
<1>4. CASE file \notin Broken /\ StackIsFull
  <2>1. Scope!RunOut
    BY <1>1, <1>4, AbortMaps DEF Eval
  <2> QED BY <1>2, <1>4, <2>1 DEF Scope!Evaluate
<1>5. CASE file \notin Broken /\ ~StackIsFull
  <2>1. stack' = Append(stack, ExecOf(file)) /\ UNCHANGED <<globals, functions, status>>
    BY <1>5 DEF Eval
  <2>2. RunningStep
    BY <1>1, <2>1 DEF RunningStep
  <2> QED BY <1>1, <1>5, <2>1, <2>2, EvaluateMaps
<1> QED BY <1>3, <1>4, <1>5
------------------------------------------------------------------------------
\* A call ends the program where GlobalScope lets it.
LEMMA CallEndsMaps ==
    ASSUME ScopeInv, status = "running", NEW v \in GlobalValues, NEW d, NEW below,
           \/ ~Callable(v) /\ Abort("aborted")
           \/ Callable(v) /\ (Abort("crashed") \/ Abort("overrun"))
    PROVE  IF AbstractValue(v) \in Bodies \ Invalid
           THEN Scope!RunOut
           ELSE Scope!Terminate
<1>1. ExecInv /\ CompiledAreValid
  BY DEF ScopeInv
<1>2. AbstractValue(v) \in Bodies <=> IsFunc(v)
  BY <1>1, ValuesAreAbstract
<1>3. IsFunc(v) => v.n \in DOMAIN functions /\ AbstractValue(v) = functions[v.n].ast
  BY <1>1, ValuesAreAbstract DEF AbstractValue
<1>4. Callable(v) <=> AbstractValue(v) \in Bodies \ Invalid
  BY <1>1, <1>2, <1>3 DEF Callable, Compiles, CompiledAreValid
<1> QED BY <1>4, AbortMaps

\* A call that enters a function puts it on top.
LEMMA EnterMaps ==
    ASSUME RunningStep, NEW v \in GlobalValues, NEW d \in Nat, NEW below \in Seq(Activations),
           EnterFunction(v, d, below), stack # <<>>, ~Declaring,
           Len(below) = Len(stack),
           \A k \in DOMAIN stack : k # Len(stack) => below[k] = stack[k],
           NEW under \in AbstractActivities,
           IF Top.kind = "exec"
           THEN under = Scope!File(below[Len(stack)].file, CallsAhead(below[Len(stack)]))
                /\ below[Len(stack)].kind = "exec"
           ELSE below[Len(stack)] = Top /\ under = Scope!Top
    PROVE  /\ AbstractActivity' = Append(Append(Scope!Pop, under),
                                         Scope!Function(AbstractValue(v), Scope!Undefined))
           /\ AbstractScope' = AbstractScope
           /\ AbstractValue(v) \in Bodies \ Invalid
<1>1. /\ ScopeInv /\ ExecInv /\ ExecInv' /\ AbstractState /\ AbstractState'
      /\ stack \in Seq(Activations)
  BY DEF RunningStep, ScopeInv, ExecInv, Types
<1>2. /\ v.n \in DOMAIN functions /\ IsFunc(v)
      /\ functions[v.n].ast \in Bodies \ Invalid
      /\ DOMAIN functions' = DOMAIN functions
      /\ \A f \in DOMAIN functions : functions'[f].ast = functions[f].ast
      /\ stack' \in Seq(Activations) /\ stack' # <<>>
      /\ Len(stack') = Len(below) + 1 /\ DOMAIN stack' = 1 .. Len(below) + 1
      /\ \A k \in DOMAIN below : stack'[k] = below[k]
      /\ Top' = stack'[Len(below) + 1]
      /\ Top'.kind = "run" /\ Top'.fun = v.n /\ Top'.local = Undefined
  BY <1>1, EnterEffect
<1>3. TreesStay
  BY <1>2 DEF TreesStay
<1>4. /\ Len(stack) \in Nat /\ Len(stack) >= 1 /\ DOMAIN stack = 1 .. Len(stack)
      /\ DOMAIN below = 1 .. Len(stack) /\ Top = stack[Len(stack)]
  BY <1>1 DEF Top
<1>5. \A k \in 1 .. Len(stack) - 1 : AbstractActivity'[k] = AbstractActivity[k]
  <2> TAKE k \in 1 .. Len(stack) - 1
  <2>0. k \in DOMAIN stack /\ k \in DOMAIN below /\ k # Len(stack) /\ k \in 1 .. Len(below) + 1
    BY <1>4
  <2>1. k \in DOMAIN stack /\ k \in DOMAIN stack' /\ stack'[k] = stack[k]
    BY <1>2, <2>0
  <2>2. CallsAhead(stack'[k]) = CallsAhead(stack[k])
    BY <2>1
  <2> QED BY <1>1, <1>3, <2>1, <2>2, SameActivity
<1>6. AbstractActivity'[Len(stack)] = under
  <2>1. Len(stack) \in DOMAIN stack /\ Len(stack) \in DOMAIN stack' /\ stack'[Len(stack)] = below[Len(stack)]
    BY <1>2, <1>4
  <2>2. CASE Top.kind = "exec"
    BY <1>1, <2>1, <2>2 DEF AbstractState
  <2>3. CASE Top.kind # "exec"
    BY <1>1, <1>3, <1>4, <2>1, <2>3, SameActivity, AbstractTop
  <2> QED BY <2>2, <2>3
<1>7. AbstractActivity'[Len(stack) + 1] = Scope!Function(AbstractValue(v), Scope!Undefined)
  <2>1. Len(stack) + 1 \in DOMAIN stack' /\ Top' = stack'[Len(stack) + 1]
    BY <1>2, <1>4
  <2>2. AbstractActivity'[Len(stack) + 1]
          = Scope!Function(functions'[v.n].ast, ValueAmong(functions', Undefined))
    BY <1>2, <2>1 DEF AbstractActivity, ActivityOf, AbstractValue, ValueAmong, Scope!Function
  <2>3. functions'[v.n].ast = AbstractValue(v) /\ ValueAmong(functions', Undefined) = Scope!Undefined
    BY <1>2 DEF AbstractValue, ValueAmong, IsFunc, Undefined, Scope!Undefined
  <2> QED BY <2>2, <2>3
<1>8. AbstractActivity' = Append(Append(Scope!Pop, under),
                                 Scope!Function(AbstractValue(v), Scope!Undefined))
  <2> DEFINE s == Append(Scope!Pop, under)
  <2>1. /\ AbstractActivity \in Seq(AbstractActivities) /\ AbstractActivity' \in Seq(AbstractActivities)
        /\ Len(AbstractActivity) = Len(stack) /\ Len(AbstractActivity') = Len(stack) + 1
    BY <1>1, <1>2 DEF AbstractState
  <2>2. /\ Scope!Pop \in Seq(AbstractActivities) /\ Len(Scope!Pop) = Len(stack) - 1
        /\ \A k \in 1 .. Len(stack) - 1 : Scope!Pop[k] = AbstractActivity[k]
    <3>1. AbstractActivity # <<>>
      BY <1>4, <2>1
    <3> QED BY <2>1, <3>1, WithoutLast DEF Scope!Pop
  <2>3. /\ s \in Seq(AbstractActivities) /\ Len(s) = Len(stack)
        /\ s[Len(stack)] = under
        /\ \A k \in 1 .. Len(stack) - 1 : s[k] = Scope!Pop[k]
    <3>1. /\ s \in Seq(AbstractActivities) /\ Len(s) = Len(Scope!Pop) + 1
          /\ s[Len(Scope!Pop) + 1] = under
          /\ \A k \in 1 .. Len(Scope!Pop) : s[k] = Scope!Pop[k]
      BY <2>2, AppendProperties
    <3>2. Len(Scope!Pop) + 1 = Len(stack)
      BY <1>4, <2>2
    <3> HIDE DEF s
    <3> QED BY <2>2, <3>1, <3>2
  <2> HIDE DEF s
  <2>4. \A k \in 1 .. Len(s) : AbstractActivity'[k] = s[k]
    BY <1>4, <1>5, <1>6, <2>2, <2>3
  <2>5. AbstractActivity' = Append(s, AbstractActivity'[Len(s) + 1])
    BY <2>1, <2>3, <2>4, OnePushed
  <2> QED BY <1>7, <2>3, <2>5 DEF s
<1>9. AbstractScope' = AbstractScope
  <2>1. AbstractScope = ScopeSoFar /\ AbstractScope' = ScopeSoFar'
    BY <1>2 DEF AbstractScope, Declaring
  <2>2. \A n \in Names : ValueAmong(functions', globals[n]) = ValueAmong(functions, globals[n])
    <3>1. \A n \in Names : globals[n] \in GlobalValues
      BY <1>1 DEF ExecInv, Types
    <3> QED BY <1>1, <1>3, <3>1, SameValue
  <2>3. /\ ScopeSoFar = [n \in Names |-> ValueAmong(functions, globals[n])]
        /\ ScopeSoFar' = [n \in Names |-> ValueAmong(functions', globals[n])]
    BY DEF ScopeSoFar, AbstractValue, ValueAmong, EnterFunction
  <2> QED BY <2>1, <2>2, <2>3
<1>10. AbstractValue(v) \in Bodies \ Invalid
  BY <1>2 DEF AbstractValue
<1> QED BY <1>8, <1>9, <1>10

\* A call at the top of a file is the next one that GlobalScope has the file make.
LEMMA CallGlobalMaps ==
    ASSUME ScopeInv, AbstractState, ScopeInv', AbstractState', CallGlobal
    PROVE  Scope!CallGlobal
<1> DEFINE t     == [Top EXCEPT !.i = @ + 1]
           below == Append(Pop, t)
           v     == globals[Child.name]
           next  == CHOOSE i \in Scope!Top.calls : \A j \in Scope!Top.calls : i <= j
           under == [Scope!Top EXCEPT !.calls = @ \ {next}]
<1>1. /\ ExecInv /\ stack # <<>> /\ Top.kind = "exec" /\ Top.loop = "call" /\ More
      /\ Child.kind = "call" /\ status = "running" /\ Enter(v, depth, below)
  BY DEF ScopeInv, CallGlobal, InExec
<1>2. /\ Top.file \in Files /\ Top.i \in Nat \ {0} /\ Top.i \in DOMAIN Declarations[Top.file]
      /\ Child.name \in Names
  BY <1>1, FileOnTop
<1>3. /\ t \in Activations /\ t.kind = "exec" /\ t.file = Top.file /\ t.loop = "call"
      /\ t.i = Top.i + 1
  BY <1>1, AdvanceEffect
<1>4. /\ v \in GlobalValues /\ depth \in Nat /\ below \in Seq(Activations)
      /\ Len(below) = Len(stack) /\ below[Len(stack)] = t
      /\ \A k \in DOMAIN stack : k # Len(stack) => below[k] = stack[k]
  BY CallEffect
<1>5. /\ Scope!InFile /\ Scope!Top \in AbstractActivities
      /\ Scope!Top = Scope!File(Top.file, Calls(Top.file, Top.i))
  BY <1>1, AbstractTop DEF CallsAhead
<1> HIDE DEF t, below, v
<1>6. /\ Calls(Top.file, Top.i) \subseteq Nat
      /\ \A j \in Calls(Top.file, Top.i) : j >= Top.i
      /\ Top.i \in Calls(Top.file, Top.i)
      /\ Calls(Top.file, Top.i + 1) = Calls(Top.file, Top.i) \ {Top.i}
  BY <1>1, <1>2, CallsFacts DEF Child
<1>7. Scope!Top.calls = Calls(Top.file, Top.i) /\ Scope!Top.body = Top.file
  BY <1>5 DEF Scope!File
<1>8. next = Top.i
  <2>1. Top.i \in Scope!Top.calls /\ \A j \in Scope!Top.calls : Top.i <= j
    BY <1>2, <1>6, <1>7
  <2>2. next \in Scope!Top.calls /\ \A j \in Scope!Top.calls : next <= j
    BY <2>1
  <2> HIDE DEF next
  <2>3. next <= Top.i /\ Top.i <= next /\ next \in Nat
    BY <1>6, <1>7, <2>1, <2>2
  <2> QED BY <1>2, <2>3
<1> HIDE DEF next
<1>9. under = Scope!File(t.file, CallsAhead(t)) /\ under \in AbstractActivities
  <2>1. CallsAhead(t) = Calls(Top.file, Top.i) \ {Top.i}
    BY <1>3, <1>6 DEF CallsAhead
  <2>2. \A file, calls, fewer : Scope!File(file, fewer) = [Scope!File(file, calls) EXCEPT !.calls = fewer]
    BY DEF Scope!File
  <2>3. under = Scope!File(Top.file, Calls(Top.file, Top.i) \ {Top.i})
    BY <1>5, <1>7, <1>8, <2>2
  <2>4. Calls(Top.file, Top.i) \ {Top.i} \in SUBSET Nat
    BY <1>6
  <2>5. Scope!File(Top.file, Calls(Top.file, Top.i) \ {Top.i}) \in AbstractActivities
    BY <1>2, <2>4 DEF AbstractActivities, Scope!File, Scope!Undefined
  <2> QED BY <1>3, <2>1, <2>3, <2>5
<1> HIDE DEF under
<1>10. AbstractScope[Declarations[Scope!Top.body][next].name] = AbstractValue(v)
  BY <1>1, <1>2, <1>7, <1>8 DEF AbstractScope, Declaring, ScopeSoFar, Child, v
<1>11. Scope!Call(AbstractValue(v), Append(Scope!Pop, under))
  <2>1. CASE EnterFunction(v, depth, below)
    <3>1. RunningStep
      BY <1>1, <2>1 DEF RunningStep, EnterFunction
    <3>2. ~Declaring
      BY <1>1 DEF Declaring
    <3>3. /\ AbstractActivity' = Append(Append(Scope!Pop, under),
                                        Scope!Function(AbstractValue(v), Scope!Undefined))
          /\ AbstractScope' = AbstractScope
          /\ AbstractValue(v) \in Bodies \ Invalid
      BY <1>1, <1>3, <1>4, <1>9, <2>1, <3>1, <3>2, EnterMaps
    <3> QED BY <3>1, <3>3, OutcomeStays DEF Scope!Call
  <2>2. CASE \/ ~Callable(v) /\ Abort("aborted")
             \/ Callable(v) /\ (Abort("crashed") \/ Abort("overrun"))
    <3>1. IF AbstractValue(v) \in Bodies \ Invalid THEN Scope!RunOut ELSE Scope!Terminate
      BY <1>1, <1>4, <2>2, CallEndsMaps
    <3> QED BY <3>1 DEF Scope!Call
  <2> QED BY <1>1, <2>1, <2>2 DEF Enter, EnterFunction
<1>12. Scope!Top.calls # {}
  BY <1>6, <1>7
<1> QED BY <1>5, <1>10, <1>11, <1>12 DEF Scope!CallGlobal, next, under

\* A call in code is one of what the code got from a global.
LEMMA CallLocalMaps ==
    ASSUME ScopeInv, AbstractState, ScopeInv', AbstractState', CallLocal
    PROVE  Scope!CallLocal
<1> DEFINE v == Top.local
           d == FrameEnd(Top)
<1>1. /\ ExecInv /\ InCode /\ stack # <<>> /\ Top.kind = "run" /\ status = "running"
      /\ Enter(v, d, stack) /\ Top = stack[Len(stack)]
  BY DEF ScopeInv, CallLocal, InCode, Top
<1>2. v \in GlobalValues /\ d \in Nat /\ stack \in Seq(Activations)
  BY CallEffect
<1>3. /\ Scope!InFunction /\ Scope!Top \in AbstractActivities
      /\ Scope!Top = Scope!Function(functions[Top.fun].ast, AbstractValue(v))
      /\ AbstractActivity # <<>> /\ Scope!Top = AbstractActivity[Len(stack)]
  BY <1>1, AbstractTop
<1> HIDE DEF v, d
<1>4. Scope!Top.local = AbstractValue(v)
  BY <1>3 DEF Scope!Function
<1>5. Append(Scope!Pop, Scope!Top) = AbstractActivity
  <2>1. AbstractActivity \in Seq(AbstractActivities) /\ Len(AbstractActivity) = Len(stack)
    BY DEF AbstractState
  <2>2. AbstractActivity = Append(SubSeq(AbstractActivity, 1, Len(AbstractActivity) - 1),
                                  AbstractActivity[Len(AbstractActivity)])
    BY <1>3, <2>1, OneReplaced
  <2> QED BY <2>2 DEF Scope!Pop, Scope!Top
<1>6. Scope!Call(AbstractValue(v), AbstractActivity)
  <2>1. CASE EnterFunction(v, d, stack)
    <3>1. RunningStep
      BY <1>1, <2>1 DEF RunningStep, EnterFunction
    <3>2. ~Declaring
      BY <1>1 DEF Declaring
    <3>3. /\ AbstractActivity' = Append(Append(Scope!Pop, Scope!Top),
                                        Scope!Function(AbstractValue(v), Scope!Undefined))
          /\ AbstractScope' = AbstractScope
          /\ AbstractValue(v) \in Bodies \ Invalid
      BY <1>1, <1>2, <1>3, <2>1, <3>1, <3>2, EnterMaps
    <3> QED BY <1>5, <3>1, <3>3, OutcomeStays DEF Scope!Call
  <2>2. CASE \/ ~Callable(v) /\ Abort("aborted")
             \/ Callable(v) /\ (Abort("crashed") \/ Abort("overrun"))
    <3>1. IF AbstractValue(v) \in Bodies \ Invalid THEN Scope!RunOut ELSE Scope!Terminate
      BY <1>1, <1>2, <2>2, CallEndsMaps
    <3> QED BY <3>1 DEF Scope!Call
  <2> QED BY <1>1, <2>1, <2>2 DEF Enter, EnterFunction
<1> QED BY <1>3, <1>4, <1>6 DEF Scope!CallLocal
------------------------------------------------------------------------------
LEMMA InitImplementsScope == Init => Scope!ScopeInit
<1> SUFFICES ASSUME Init PROVE Scope!ScopeInit
  OBVIOUS
<1>1. stack = <<>> /\ status = "running" /\ globals = [n \in Names |-> Undefined]
  BY DEF Init
<1>2. AbstractScope = [n \in Names |-> Scope!Undefined]
  BY <1>1 DEF AbstractScope, Declaring, ScopeSoFar, AbstractValue, IsFunc, Undefined, Scope!Undefined
<1>3. AbstractActivity = <<>>
  BY <1>1, InitInv, StateIsAbstract DEF AbstractState
<1> QED BY <1>1, <1>2, <1>3 DEF Scope!ScopeInit, AbstractOutcome

LEMMA StepImplementsScope ==
    /\ ScopeInv /\ AbstractState /\ ScopeInv' /\ AbstractState'
    /\ [Next]_vars
    => [Scope!ScopeNext]_(Scope!scopeVars)
<1> SUFFICES ASSUME ScopeInv, AbstractState, ScopeInv', AbstractState', [Next]_vars
             PROVE  [Scope!ScopeNext]_(Scope!scopeVars)
  OBVIOUS
<1>1. ASSUME UNCHANGED <<globals, functions, stack, status>>
      PROVE  UNCHANGED Scope!scopeVars
  BY <1>1, SameState DEF Scope!scopeVars, AbstractOutcome
<1>2. CASE UNCHANGED vars \/ CallNative
  BY <1>1, <1>2 DEF vars, CallNative
<1>3. CASE Exit
  BY <1>3, AbortMaps DEF Exit
<1>4. CASE StartFile
  BY <1>4, StartFileMaps DEF Scope!ScopeNext
<1>5. CASE Declare \/ DeclarationsEnd \/ PassDeclaration
  <2>1. RunningStep
    BY <1>5 DEF RunningStep, Declare, DeclarationsEnd, PassDeclaration, InExec
  <2> QED BY <1>5, <2>1, DeclareMaps, LoopMaps
<1>6. CASE CallGlobal
  BY <1>6, CallGlobalMaps DEF Scope!ScopeNext
<1>7. CASE CallLocal
  BY <1>7, CallLocalMaps DEF Scope!ScopeNext
<1>8. CASE ExecEnds \/ Return
  <2>1. RunningStep
    BY <1>8 DEF RunningStep, ExecEnds, Return, InExec, InCode
  <2> QED BY <1>8, <2>1, EndMaps DEF Scope!ScopeNext
<1>9. ASSUME NEW n \in Names, TakeGlobal(n) \/ GiveGlobal(n)
      PROVE  Scope!ScopeNext
  <2>1. RunningStep
    BY <1>9 DEF RunningStep, TakeGlobal, GiveGlobal, Native, InCode
  <2> QED BY <1>9, <2>1, TakeMaps, GiveMaps DEF Scope!ScopeNext
<1>10. ASSUME NEW file \in Files, Eval(file)
       PROVE  Scope!ScopeNext
  BY <1>10, EvalMaps DEF Scope!ScopeNext
<1> QED BY <1>2, <1>3, <1>4, <1>5, <1>6, <1>7, <1>8, <1>9, <1>10 DEF Next

\* sdyn_exec, with its two loops, function objects, lazy compilation and pointer stack,
\* keeps the promises of GlobalScope: a file's declarations count together and before its
\* calls, its calls are made in their order, each of what its name stands for by then,
\* and a function that a file evaluated by itself replaces goes on as it was.
THEOREM ExecImplementsScope == Spec => ImplementsScope
<1>1. ScopeInv => AbstractState
  BY StateIsAbstract DEF ScopeInv
<1> QED
  BY <1>1, ScopeInvariant, InitImplementsScope, StepImplementsScope, PTL
     DEF Spec, ImplementsScope, Scope!ScopeSpec
============================================================================
