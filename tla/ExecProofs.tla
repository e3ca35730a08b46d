------------------------------ MODULE ExecProofs ------------------------------
(***************************************************************************)
(* Proofs about Exec, for any files, functions, frames and stack sizes.    *)
(* The frames of functions at work are in the order of their activations,  *)
(* and ggc_jitPointerStack is never before the first word of one of them,  *)
(* though returns do not set it back: that is why sdyn_exec, which does    *)
(* not set it either, finds it beyond all of them.                         *)
(***************************************************************************)
EXTENDS Exec, SequenceTheorems, TLAPS

GlobalValues == {Undefined} \cup {BoxFunc(f) : f \in DOMAIN functions}

FunctionObjects == [ast : Bodies, value : Bodies \cup {"none"}]

Activations ==
    [kind : {"exec", "run"}, file : Files \cup {"none"}, loop : {"declare", "call", "none"},
     i : Nat, fun : Nat, code : Bodies \cup {"none"}, base : Nat,
     local : [tag : {"BOXED_UNDEFINED", "FUNCTION"}, n : Nat]]

Types ==
    /\ globals \in [Names -> GlobalValues]
    /\ functions \in Seq(FunctionObjects)
    /\ stack \in Seq(Activations)
    /\ arguments \in Seq(Files)
    /\ depth \in 0 .. StackWords
    /\ current \subseteq Words
    /\ status \in {"running", "aborted", "crashed", "overrun", "exited"}

CompiledFromOwnTree ==
    \A f \in DOMAIN functions : functions[f].value \in {"none", functions[f].ast}

\* An activation of sdyn_exec has a file; one of a function has a function object that
\* is compiled, its code, and a value from a global.
ActivationsAreSound ==
    \A k \in DOMAIN stack :
        IF stack[k].kind = "exec"
        THEN stack[k].file \in Files \ Broken /\ stack[k].loop \in {"declare", "call"} /\ stack[k].i > 0
        ELSE /\ stack[k].fun \in DOMAIN functions
             /\ stack[k].code = functions[stack[k].fun].ast
             /\ stack[k].code = functions[stack[k].fun].value
             /\ stack[k].local \in GlobalValues

FramesInOrder ==
    /\ \A j, k \in Live : j < k => FrameEnd(stack[j]) <= stack[k].base
    /\ \A k \in Live : k + 1 \in Live => stack[k + 1].base = FrameEnd(stack[k])

FramesFit == \A k \in Live : FrameEnd(stack[k]) <= StackWords /\ stack[k].base <= depth

ExecIsBeyond ==
    stack # <<>> /\ Top.kind = "exec" => \A k \in Live : FrameEnd(stack[k]) <= depth

WordsAreCurrent ==
    status = "running" =>
        \A w \in Words : w < depth \/ (InCode /\ w < FrameEnd(Top)) => w \in current

ExecInv ==
    /\ Types
    /\ CompiledFromOwnTree
    /\ ActivationsAreSound
    /\ FramesInOrder
    /\ FramesFit
    /\ ExecIsBeyond
    /\ WordsAreCurrent
------------------------------------------------------------------------------
\* What the three changes to the stack of activations leave of it.
LEMMA Replaced ==
    ASSUME stack \in Seq(Activations), stack # <<>>, NEW t \in Activations
    PROVE  /\ Append(Pop, t) \in Seq(Activations)
           /\ Len(Append(Pop, t)) = Len(stack)
           /\ DOMAIN Append(Pop, t) = DOMAIN stack
           /\ Append(Pop, t)[Len(stack)] = t
           /\ \A k \in DOMAIN stack : k # Len(stack) => Append(Pop, t)[k] = stack[k]
<1>1. Len(stack) \in Nat /\ Len(stack) >= 1 /\ DOMAIN stack = 1 .. Len(stack)
  OBVIOUS
<1>2. /\ Pop \in Seq(Activations)
      /\ Len(Pop) = Len(stack) - 1
      /\ \A k \in 1 .. Len(stack) - 1 : Pop[k] = stack[k]
  BY <1>1 DEF Pop
<1>3. /\ Append(Pop, t) \in Seq(Activations)
      /\ Len(Append(Pop, t)) = Len(Pop) + 1
      /\ \A k \in 1 .. Len(Pop) : Append(Pop, t)[k] = Pop[k]
      /\ Append(Pop, t)[Len(Pop) + 1] = t
  BY <1>2, AppendProperties
<1>4. DOMAIN Append(Pop, t) = 1 .. Len(Append(Pop, t))
  BY <1>3
<1>5. \A k \in DOMAIN stack : k # Len(stack) => k \in 1 .. Len(Pop)
  BY <1>1, <1>2
<1>6. \A k \in DOMAIN stack : k # Len(stack) => Append(Pop, t)[k] = stack[k]
  BY <1>2, <1>3, <1>5
<1>7. Len(Append(Pop, t)) = Len(stack) /\ Append(Pop, t)[Len(stack)] = t
  BY <1>1, <1>2, <1>3
<1>8. DOMAIN Append(Pop, t) = DOMAIN stack
  BY <1>1, <1>4, <1>7
<1> QED BY <1>3, <1>6, <1>7, <1>8

\* What is left when the activation on top goes
LEMMA Popped ==
    ASSUME stack \in Seq(Activations), stack # <<>>
    PROVE  /\ Pop \in Seq(Activations)
           /\ Len(Pop) = Len(stack) - 1
           /\ DOMAIN Pop = 1 .. Len(stack) - 1
           /\ \A k \in DOMAIN Pop : Pop[k] = stack[k]
<1>1. Len(stack) \in Nat /\ Len(stack) >= 1 /\ DOMAIN stack = 1 .. Len(stack)
  OBVIOUS
<1> QED BY <1>1 DEF Pop

\* What there is when an activation is put on top
LEMMA Pushed ==
    ASSUME NEW s \in Seq(Activations), NEW t \in Activations
    PROVE  /\ Append(s, t) \in Seq(Activations)
           /\ Len(Append(s, t)) = Len(s) + 1
           /\ DOMAIN Append(s, t) = 1 .. Len(s) + 1
           /\ Append(s, t)[Len(s) + 1] = t
           /\ \A k \in DOMAIN s : Append(s, t)[k] = s[k]
BY AppendProperties

\* The activation on top, and its frame
LEMMA TopActivation ==
    ASSUME Types, stack # <<>>
    PROVE  /\ Len(stack) \in DOMAIN stack
           /\ Top = stack[Len(stack)]
           /\ Top \in Activations
           /\ \A k \in DOMAIN stack : k <= Len(stack) /\ k \in Nat
<1>1. stack \in Seq(Activations)
  BY DEF Types
<1> QED BY <1>1 DEF Top

\* The words of the frames of functions at work, and their code
LEMMA FrameEnds ==
    ASSUME Types, ActivationsAreSound
    PROVE  \A k \in Live : /\ stack[k].code \in Bodies
                           /\ stack[k].base \in Nat
                           /\ FrameEnd(stack[k]) \in Nat
                           /\ FrameEnd(stack[k]) > stack[k].base
<1> SUFFICES ASSUME NEW k \in Live
             PROVE  /\ stack[k].code \in Bodies
                    /\ stack[k].base \in Nat
                    /\ FrameEnd(stack[k]) \in Nat
                    /\ FrameEnd(stack[k]) > stack[k].base
  OBVIOUS
<1>1. k \in DOMAIN stack /\ stack[k].kind = "run" /\ stack[k] \in Activations
  BY DEF Live, Types
<1>2. stack[k].fun \in DOMAIN functions /\ stack[k].code = functions[stack[k].fun].ast
  BY <1>1 DEF ActivationsAreSound
<1>3. functions[stack[k].fun] \in FunctionObjects
  BY <1>2 DEF Types
<1>4. stack[k].code \in Bodies
  BY <1>2, <1>3 DEF FunctionObjects
<1>5. Frame[stack[k].code] \in Nat \ {0}
  BY <1>4, ExecAssumption
<1>6. stack[k].base \in Nat
  BY <1>1 DEF Activations
<1> QED BY <1>4, <1>5, <1>6 DEF FrameEnd

\* The invariant holds before the first file.
LEMMA InitInv == Init => ExecInv
<1> SUFFICES ASSUME Init PROVE ExecInv
  OBVIOUS
<1>1. functions = <<>> /\ stack = <<>> /\ depth = 0 /\ current = Words /\ status = "running"
  BY DEF Init
<1>2. Types
  BY <1>1, ExecAssumption DEF Init, Types, GlobalValues
<1>3. DOMAIN functions = {} /\ DOMAIN stack = {} /\ Live = {}
  BY <1>1 DEF Live
<1> QED
  BY <1>1, <1>2, <1>3
     DEF ExecInv, CompiledFromOwnTree, ActivationsAreSound, FramesInOrder, FramesFit,
         ExecIsBeyond, WordsAreCurrent
------------------------------------------------------------------------------
FrameInv == FramesInOrder /\ FramesFit /\ ExecIsBeyond

\* The frames stay, and ggc_jitPointerStack does or becomes the end of the one on top.
LEMMA SameFrames ==
    ASSUME Types, ActivationsAreSound, FrameInv, stack # <<>>,
           stack' \in Seq(Activations),
           DOMAIN stack' = DOMAIN stack, Len(stack') = Len(stack),
           \A k \in DOMAIN stack : /\ stack'[k].kind = stack[k].kind
                                   /\ stack'[k].code = stack[k].code
                                   /\ stack'[k].base = stack[k].base,
           \/ depth' = depth
           \/ Top.kind = "run" /\ depth' = FrameEnd(Top)
    PROVE  FrameInv'
<1>1. /\ Len(stack) \in DOMAIN stack
      /\ Top = stack[Len(stack)]
      /\ Top' = stack'[Len(stack)]
      /\ stack' # <<>>
  BY TopActivation DEF Top
<1>2. Live' = Live /\ \A k \in Live : FrameEnd(stack[k])' = FrameEnd(stack[k])
  BY DEF Live, FrameEnd
<1>3. FramesInOrder'
  BY <1>2 DEF FrameInv, FramesInOrder, Live
<1>4. \A k \in Live : stack[k].base <= depth'
  <2>1. CASE depth' = depth
    BY <2>1 DEF FrameInv, FramesFit
  <2>2. CASE Top.kind = "run" /\ depth' = FrameEnd(Top)
    <3>1. Len(stack) \in Live
      BY <1>1, <2>2 DEF Live
    <3>2. \A k \in Live : k = Len(stack) \/ k < Len(stack)
      BY TopActivation DEF Live
    <3>3. \A k \in Live : k < Len(stack) => FrameEnd(stack[k]) <= stack[Len(stack)].base
      BY <3>1 DEF FrameInv, FramesInOrder
    <3> QED BY <1>1, <2>2, <3>1, <3>2, <3>3, FrameEnds
  <2> QED BY <2>1, <2>2
<1>5. FramesFit'
  BY <1>2, <1>4 DEF FrameInv, FramesFit, Live
<1>6. ExecIsBeyond'
  BY <1>1, <1>2 DEF FrameInv, ExecIsBeyond
<1> QED BY <1>3, <1>5, <1>6 DEF FrameInv

\* What a native function leaves valid
LEMMA NativeWords ==
    ASSUME Types, ActivationsAreSound, FrameInv, WordsAreCurrent, Native
    PROVE  /\ depth' = FrameEnd(Top) /\ depth' \in 0 .. StackWords
           /\ current' \subseteq Words
           /\ \A w \in Words : w < FrameEnd(Top) => w \in current'
<1>1. Len(stack) \in Live /\ Top = stack[Len(stack)]
  BY TopActivation DEF Native, InCode, Live
<1>2. FrameEnd(Top) \in Nat /\ FrameEnd(Top) <= StackWords
  BY <1>1, FrameEnds DEF FrameInv, FramesFit
<1>3. \A w \in Words : w < FrameEnd(Top) => w \in current
  BY DEF WordsAreCurrent, Native, InCode
<1> QED
  BY <1>2, <1>3, ExecAssumption DEF Native, MayCollect, Collected, Types
------------------------------------------------------------------------------
\* The values of globals stay values when function objects are made or compiled.
LEMMA ValuesStay ==
    ASSUME DOMAIN functions \subseteq DOMAIN functions', NEW v \in GlobalValues
    PROVE  v \in GlobalValues'
BY DEF GlobalValues

\* The activations that start are activations.
LEMMA ActivationTypes ==
    ASSUME Types
    PROVE  /\ \A file \in Files : ExecOf(file) \in Activations
           /\ \A f \in Nat, code \in Bodies, base \in Nat : RunOf(f, code, base) \in Activations
BY DEF ExecOf, RunOf, Activations, Undefined

\* sdyn_assertCompiled gives a function its own code, for good.
LEMMA CompiledObjects ==
    ASSUME Types, CompiledFromOwnTree, NEW f \in DOMAIN functions,
           functions' = AssertCompiled(f)
    PROVE  /\ functions' \in Seq(FunctionObjects)
           /\ DOMAIN functions' = DOMAIN functions
           /\ CompiledFromOwnTree'
           /\ functions'[f].value = functions[f].ast
           /\ functions[f].ast \in Bodies
           /\ \A g \in DOMAIN functions :
                /\ functions'[g].ast = functions[g].ast
                /\ functions[g].value # "none" => functions'[g].value = functions[g].value
<1>1. functions \in Seq(FunctionObjects) /\ functions[f] \in FunctionObjects
  BY DEF Types
<1>2. functions[f].ast \in Bodies
  BY <1>1 DEF FunctionObjects
<1>3. CASE functions[f].value = "none"
  <2>1. functions' = [functions EXCEPT ![f].value = functions[f].ast]
    BY <1>3 DEF AssertCompiled
  <2>2. [functions[f] EXCEPT !.value = functions[f].ast] \in FunctionObjects
    BY <1>1, <1>2 DEF FunctionObjects
  <2>3. /\ functions' \in Seq(FunctionObjects)
        /\ DOMAIN functions' = DOMAIN functions
    BY <1>1, <2>1, <2>2
  <2>4. /\ functions'[f].value = functions[f].ast
        /\ functions'[f].ast = functions[f].ast
        /\ \A g \in DOMAIN functions : g # f => functions'[g] = functions[g]
    BY <1>1, <2>1 DEF FunctionObjects
  <2> QED
    BY <1>2, <1>3, <2>3, <2>4 DEF CompiledFromOwnTree
<1>4. CASE functions[f].value # "none"
  BY <1>1, <1>2, <1>4 DEF AssertCompiled, CompiledFromOwnTree
<1> QED BY <1>3, <1>4

\* The end of the program changes nothing but the status.
LEMMA AbortInv ==
    ASSUME ExecInv, NEW outcome \in {"aborted", "crashed", "overrun", "exited"}, Abort(outcome)
    PROVE  ExecInv'
BY DEF ExecInv, Abort, Types, GlobalValues, CompiledFromOwnTree, ActivationsAreSound, FramesInOrder,
       FramesFit, ExecIsBeyond, WordsAreCurrent, Live, FrameEnd, Top

\* A function is entered above the activations below, which are those at work but for
\* the place in its file that sdyn_exec is at.
LEMMA EnterInv ==
    ASSUME ExecInv, stack # <<>>, status = "running",
           NEW v \in GlobalValues, NEW d \in 0 .. StackWords, NEW below \in Seq(Activations),
           Len(below) = Len(stack), DOMAIN below = DOMAIN stack,
           \A k \in DOMAIN stack :
               /\ below[k].kind = stack[k].kind /\ below[k].code = stack[k].code
               /\ below[k].base = stack[k].base /\ below[k].fun = stack[k].fun
               /\ below[k].local = stack[k].local /\ below[k].file = stack[k].file
               /\ below[k].loop = stack[k].loop
               /\ stack[k].kind = "exec" => below[k].i > 0,
           \A k \in Live : FrameEnd(stack[k]) <= d,
           Top.kind = "run" => d = FrameEnd(Top),
           \A w \in Words : w < d => w \in current,
           Enter(v, d, below)
    PROVE  ExecInv'
<1> USE DEF ExecInv
<1>1. CASE ~Callable(v) /\ Abort("aborted")
  BY <1>1, AbortInv
<1>2. CASE Abort("crashed") \/ Abort("overrun")
  BY <1>2, AbortInv
<1>3. CASE /\ Callable(v) /\ ~StackIsFull /\ Fits(v, d)
           /\ functions' = AssertCompiled(v.n)
           /\ stack' = Append(below, RunOf(v.n, functions'[v.n].value, d))
           /\ depth' = d
           /\ \E kept \in {current, Collected(d)} :
                current' = kept \cup {w \in Words : d <= w /\ w < d + Frame[functions'[v.n].value]}
           /\ UNCHANGED <<globals, arguments, status>>
  <2> DEFINE n   == Len(stack)
             run == RunOf(v.n, functions'[v.n].value, d)
  <2>1. v.n \in DOMAIN functions /\ v.n \in Nat
    BY <1>3 DEF Callable, IsFunc, GlobalValues, BoxFunc, Undefined, Types
  <2>2. /\ functions' \in Seq(FunctionObjects)
        /\ DOMAIN functions' = DOMAIN functions
        /\ CompiledFromOwnTree'
        /\ functions'[v.n].value = functions[v.n].ast
        /\ functions[v.n].ast \in Bodies
        /\ \A g \in DOMAIN functions :
             /\ functions'[g].ast = functions[g].ast
             /\ functions[g].value # "none" => functions'[g].value = functions[g].value
    BY <1>3, <2>1, CompiledObjects
  <2>3. GlobalValues' = GlobalValues
    BY <2>2 DEF GlobalValues
  <2>4. run \in Activations /\ d \in Nat
    BY <2>1, <2>2, ActivationTypes, ExecAssumption
  <2>5. n \in Nat /\ n >= 1 /\ DOMAIN stack = 1 .. n
    BY DEF Types
  <2>6. /\ stack' \in Seq(Activations)
        /\ Len(stack') = n + 1
        /\ DOMAIN stack' = 1 .. n + 1
        /\ stack'[n + 1] = run
        /\ \A k \in DOMAIN stack : stack'[k] = below[k]
    BY <1>3, <2>4, Pushed
  <2>7. /\ run.kind = "run" /\ run.fun = v.n /\ run.base = d
        /\ run.code = functions[v.n].ast /\ run.local = Undefined
    BY <2>2 DEF RunOf
  <2>8. FrameEnd(run) = d + Frame[functions[v.n].ast] /\ FrameEnd(run) \in 0 .. StackWords
        /\ FrameEnd(run) > d
    <3>1. FrameEnd(run) = d + Frame[functions[v.n].ast]
      BY <2>7 DEF FrameEnd
    <3>2. Frame[functions[v.n].ast] \in Nat /\ Frame[functions[v.n].ast] > 0 /\ StackWords \in Nat
      BY <2>2, ExecAssumption
    <3>3. d + Frame[functions[v.n].ast] <= StackWords
      BY <1>3, <2>2 DEF Fits
    <3> QED BY <2>4, <3>1, <3>2, <3>3
  <2> HIDE DEF n, run
  <2>9. /\ Live' = Live \cup {n + 1}
        /\ \A k \in Live : FrameEnd(stack'[k]) = FrameEnd(stack[k]) /\ stack'[k].base = stack[k].base
        /\ stack' # <<>> /\ Top' = run
        /\ \A k \in Live : k \in 1 .. n
    BY <2>5, <2>6, <2>7 DEF Live, FrameEnd, Top
  <2>10. Types'
    <3>1. globals' \in [Names -> GlobalValues']
      BY <1>3, <2>3 DEF Types
    <3>2. current' \subseteq Words
      BY <1>3 DEF Types, Collected
    <3> QED BY <1>3, <2>2, <2>6, <3>1, <3>2 DEF Types
  <2>11. ActivationsAreSound'
    <3>1. SUFFICES ASSUME NEW k \in 1 .. n + 1
                   PROVE  IF stack'[k].kind = "exec"
                          THEN /\ stack'[k].file \in Files \ Broken
                               /\ stack'[k].loop \in {"declare", "call"} /\ stack'[k].i > 0
                          ELSE /\ stack'[k].fun \in DOMAIN functions'
                               /\ stack'[k].code = functions'[stack'[k].fun].ast
                               /\ stack'[k].code = functions'[stack'[k].fun].value
                               /\ stack'[k].local \in GlobalValues'
      BY <2>6 DEF ActivationsAreSound
    <3>2. CASE k = n + 1
      BY <2>1, <2>2, <2>3, <2>6, <2>7, <3>2 DEF GlobalValues
    <3>3. CASE k # n + 1 /\ stack[k].kind = "exec"
      BY <2>5, <2>6, <3>3 DEF ActivationsAreSound
    <3>4. CASE k # n + 1 /\ stack[k].kind # "exec"
      <4>1. k \in DOMAIN stack /\ stack'[k] = below[k]
        BY <2>5, <2>6, <3>4
      <4>2. /\ stack[k].fun \in DOMAIN functions /\ stack[k].local \in GlobalValues
            /\ stack[k].code = functions[stack[k].fun].ast
            /\ stack[k].code = functions[stack[k].fun].value
        BY <3>4, <4>1 DEF ActivationsAreSound
      <4>3. functions[stack[k].fun].value # "none"
        <5>1. functions[stack[k].fun] \in FunctionObjects
          BY <4>2 DEF Types
        <5> QED BY <4>2, <5>1, FilesAssumption DEF FunctionObjects
      <4>4. /\ functions'[stack[k].fun].ast = functions[stack[k].fun].ast
            /\ functions'[stack[k].fun].value = functions[stack[k].fun].value
        BY <2>2, <4>2, <4>3
      <4>5. /\ stack'[k].kind = stack[k].kind /\ stack'[k].fun = stack[k].fun
            /\ stack'[k].code = stack[k].code /\ stack'[k].local = stack[k].local
        BY <4>1
      <4> QED BY <2>2, <2>3, <3>4, <4>2, <4>4, <4>5
    <3> QED BY <3>2, <3>3, <3>4
  <2>12. FramesInOrder'
    <3>1. \A j, k \in Live' : j < k => FrameEnd(stack'[j]) <= stack'[k].base
      BY <2>5, <2>6, <2>7, <2>9 DEF FramesInOrder
    <3>2. \A k \in Live' : k + 1 \in Live' => stack'[k + 1].base = FrameEnd(stack'[k])
      <4>1. SUFFICES ASSUME NEW k \in Live', k + 1 \in Live'
                     PROVE  stack'[k + 1].base = FrameEnd(stack'[k])
        OBVIOUS
      <4>2. CASE k + 1 = n + 1
        <5>1. k = n /\ k \in Live /\ Top = stack[k]
          BY <2>5, <2>9, <4>1, <4>2 DEF Top, n
        <5> QED BY <2>6, <2>7, <2>9, <4>2, <5>1 DEF Live
      <4>3. CASE k + 1 # n + 1
        <5>1. k \in Live /\ k + 1 \in Live
          BY <2>5, <2>9, <4>1, <4>3
        <5> QED BY <2>9, <5>1 DEF FramesInOrder
      <4> QED BY <4>2, <4>3
    <3> QED BY <3>1, <3>2, <2>9 DEF FramesInOrder, FrameEnd
  <2>13. FramesFit'
    <3>1. \A k \in Live : stack[k].base <= d
      BY FrameEnds
    <3>2. \A k \in Live : FrameEnd(stack'[k]) <= StackWords /\ stack'[k].base <= d
      BY <2>9, <3>1 DEF FramesFit
    <3>3. FrameEnd(stack'[n + 1]) <= StackWords /\ stack'[n + 1].base <= d
      BY <2>4, <2>6, <2>7, <2>8
    <3> QED BY <1>3, <2>9, <3>2, <3>3 DEF FramesFit, FrameEnd
  <2>14. ExecIsBeyond'
    BY <2>7, <2>9 DEF ExecIsBeyond
  <2>15. WordsAreCurrent'
    <3>1. /\ depth' = d /\ Top' = run /\ FrameEnd(Top)' = FrameEnd(run)
          /\ FrameEnd(run) = d + Frame[functions'[v.n].value] /\ FrameEnd(run) \in Nat
      BY <1>3, <2>2, <2>8, <2>9 DEF FrameEnd
    <3>2. \A w \in Words : w \in Nat /\ (w < d => w \in current')
      BY <1>3, <2>4, ExecAssumption DEF Collected, Words
    <3>3. \A w \in Words : d <= w /\ w < FrameEnd(run) => w \in current'
      BY <1>3, <3>1
    <3>4. \A w \in Words : w < FrameEnd(run) => w \in current'
      BY <2>4, <3>2, <3>3
    <3> QED BY <2>4, <2>8, <3>1, <3>2, <3>4 DEF WordsAreCurrent, Words
  <2> QED BY <2>2, <2>10, <2>11, <2>12, <2>13, <2>14, <2>15
<1> QED BY <1>1, <1>2, <1>3 DEF Enter

\* sdyn_exec starts above the functions at work, when the pointer stack is beyond them.
LEMMA PushExecInv ==
    ASSUME ExecInv, status = "running",
           NEW file \in Files \ Broken,
           stack' = Append(stack, ExecOf(file)),
           arguments' \in Seq(Files),
           depth' \in 0 .. StackWords,
           \A k \in Live : FrameEnd(stack[k]) <= depth',
           \A w \in Words : w < depth' => w \in current',
           current' \subseteq Words,
           UNCHANGED <<globals, functions, status>>
    PROVE  ExecInv'
<1> USE DEF ExecInv
<1> DEFINE n == Len(stack)
<1>1. n \in Nat /\ DOMAIN stack = 1 .. n
  BY DEF Types
<1>2. ExecOf(file) \in Activations
  BY ActivationTypes
<1>3. /\ ExecOf(file).kind = "exec" /\ ExecOf(file).file = file
      /\ ExecOf(file).loop = "declare" /\ ExecOf(file).i = 1
  BY DEF ExecOf
<1>4. /\ stack' \in Seq(Activations)
      /\ Len(stack') = n + 1
      /\ DOMAIN stack' = 1 .. n + 1
      /\ stack'[n + 1] = ExecOf(file)
      /\ \A k \in DOMAIN stack : stack'[k] = stack[k]
  BY <1>2, Pushed DEF Types
<1> HIDE DEF n
<1>5. /\ Live' = Live
      /\ stack' # <<>> /\ Top' = ExecOf(file)
      /\ \A k \in Live : k \in 1 .. n /\ stack'[k] = stack[k]
  BY <1>1, <1>3, <1>4 DEF Live, Top
<1>6. GlobalValues' = GlobalValues
  BY DEF GlobalValues
<1>7. Types'
  BY <1>4, <1>6 DEF Types
<1>8. CompiledFromOwnTree'
  BY DEF CompiledFromOwnTree
<1>9. ActivationsAreSound'
  BY <1>1, <1>3, <1>4, <1>6 DEF ActivationsAreSound
<1>10. FramesInOrder' /\ FramesFit'
  <2>1. \A k \in Live : stack[k].base <= depth'
    BY FrameEnds DEF Types
  <2> QED BY <1>5, <2>1 DEF FramesInOrder, FramesFit, FrameEnd
<1>11. ExecIsBeyond' /\ WordsAreCurrent'
  BY <1>3, <1>5 DEF ExecIsBeyond, WordsAreCurrent, InCode, FrameEnd
<1> QED BY <1>7, <1>8, <1>9, <1>10, <1>11

\* What is on top goes; the pointer stack stays where it was.
LEMMA PopInv ==
    ASSUME ExecInv, stack # <<>>, status = "running", stack' = Pop,
           UNCHANGED <<globals, functions, arguments, depth, current, status>>
    PROVE  ExecInv'
<1> USE DEF ExecInv
<1> DEFINE n == Len(stack)
<1>1. n \in Nat /\ n >= 1 /\ DOMAIN stack = 1 .. n /\ Top = stack[n]
  BY DEF Types, Top
<1>2. /\ stack' \in Seq(Activations)
      /\ Len(stack') = n - 1
      /\ DOMAIN stack' = 1 .. n - 1
      /\ \A k \in 1 .. n - 1 : stack'[k] = stack[k]
  BY Popped DEF Types
<1> HIDE DEF n
<1>3. /\ Live' = {k \in Live : k < n}
      /\ \A k \in Live' : k \in Live /\ stack'[k] = stack[k]
  BY <1>1, <1>2 DEF Live
<1>4. stack' # <<>> => n - 1 \in 1 .. n - 1 /\ Top' = stack[n - 1]
  BY <1>1, <1>2 DEF Top
<1>5. GlobalValues' = GlobalValues
  BY DEF GlobalValues
<1>6. Types'
  BY <1>2, <1>5 DEF Types
<1>7. CompiledFromOwnTree'
  BY DEF CompiledFromOwnTree
<1>8. ActivationsAreSound'
  BY <1>1, <1>2, <1>5 DEF ActivationsAreSound
<1>9. FramesInOrder'
  <2>1. \A k \in Live' : k + 1 \in Live' => k \in Live /\ k + 1 \in Live
    BY <1>3
  <2> QED BY <1>3, <2>1 DEF FramesInOrder, FrameEnd
<1>10. FramesFit'
  BY <1>3 DEF FramesFit, FrameEnd
<1>11. \A k \in Live' : FrameEnd(stack[k]) <= depth
  <2>1. CASE Top.kind = "exec"
    BY <1>3, <2>1 DEF ExecIsBeyond
  <2>2. CASE Top.kind # "exec"
    <3>1. n \in Live
      BY <1>1, <2>2, TopActivation DEF Live, Activations
    <3>2. \A k \in Live' : FrameEnd(stack[k]) <= stack[n].base
      BY <1>3, <3>1 DEF FramesInOrder
    <3>3. stack[n].base <= depth /\ stack[n].base \in Nat
      BY <3>1, FrameEnds DEF FramesFit
    <3> QED BY <1>3, <3>2, <3>3, FrameEnds DEF Types
  <2> QED BY <2>1, <2>2
<1>12. ExecIsBeyond'
  BY <1>3, <1>11 DEF ExecIsBeyond, FrameEnd
<1>13. WordsAreCurrent'
  <2>1. InCode' => n - 1 \in Live' /\ Top' = stack[n - 1]
    BY <1>1, <1>2, <1>4 DEF InCode, Live
  <2>2. InCode' => FrameEnd(Top') <= depth
    BY <1>11, <2>1
  <2>3. InCode' => FrameEnd(Top') \in Nat
    BY <1>3, <2>1, FrameEnds
  <2> QED BY <2>2, <2>3 DEF WordsAreCurrent, Types, Words
<1> QED BY <1>6, <1>7, <1>8, <1>9, <1>10, <1>12, <1>13

\* What is on top stays there with its frame, while functions may be made, globals
\* written, and the collector may run.
LEMMA StayInv ==
    ASSUME ExecInv, stack # <<>>, status = "running",
           stack' \in Seq(Activations), Len(stack') = Len(stack), DOMAIN stack' = DOMAIN stack,
           \A k \in DOMAIN stack : k # Len(stack) => stack'[k] = stack[k],
           stack'[Len(stack)].kind = Top.kind, stack'[Len(stack)].code = Top.code,
           stack'[Len(stack)].base = Top.base, stack'[Len(stack)].fun = Top.fun,
           stack'[Len(stack)].file = Top.file,
           Top.kind = "exec" => /\ stack'[Len(stack)].loop \in {"declare", "call"}
                                /\ stack'[Len(stack)].i > 0,
           Top.kind # "exec" => stack'[Len(stack)].local \in GlobalValues',
           functions' \in Seq(FunctionObjects), CompiledFromOwnTree',
           DOMAIN functions \subseteq DOMAIN functions',
           \A f \in DOMAIN functions : functions'[f] = functions[f],
           globals' \in [Names -> GlobalValues'],
           UNCHANGED <<arguments, status>>,
           (depth' = depth /\ Top.kind = "exec" /\ MayCollect(depth)) \/ Native
    PROVE  ExecInv'
<1> USE DEF ExecInv
<1> DEFINE n == Len(stack)
<1>1. n \in DOMAIN stack /\ Top = stack[n]
  BY TopActivation
<1>2. /\ depth' \in 0 .. StackWords
      /\ current' \subseteq Words
      /\ \A w \in Words : w < depth' => w \in current'
      /\ Top.kind = "run" => depth' = FrameEnd(Top)
  <2>1. CASE depth' = depth /\ Top.kind = "exec" /\ MayCollect(depth)
    BY <2>1 DEF Types, MayCollect, Collected, WordsAreCurrent
  <2>2. CASE Native
    BY <2>2, NativeWords DEF FrameInv
  <2> QED BY <2>1, <2>2
<1>3. \A k \in DOMAIN stack : /\ stack'[k].kind = stack[k].kind
                             /\ stack'[k].code = stack[k].code
                             /\ stack'[k].base = stack[k].base
                             /\ stack'[k].fun = stack[k].fun
                             /\ stack'[k].file = stack[k].file
  BY <1>1
<1>4. FrameInv'
  <2>1. depth' = depth \/ (Top.kind = "run" /\ depth' = FrameEnd(Top))
    BY DEF Native, InCode
  <2> QED BY <1>3, <2>1, SameFrames DEF FrameInv
<1>5. GlobalValues \subseteq GlobalValues'
  BY ValuesStay
<1>6. Types'
  BY <1>2 DEF Types
<1>7. ActivationsAreSound'
  <2>1. SUFFICES ASSUME NEW k \in DOMAIN stack
                 PROVE  IF stack'[k].kind = "exec"
                        THEN /\ stack'[k].file \in Files \ Broken
                             /\ stack'[k].loop \in {"declare", "call"} /\ stack'[k].i > 0
                        ELSE /\ stack'[k].fun \in DOMAIN functions'
                             /\ stack'[k].code = functions'[stack'[k].fun].ast
                             /\ stack'[k].code = functions'[stack'[k].fun].value
                             /\ stack'[k].local \in GlobalValues'
    BY DEF ActivationsAreSound
  <2>2. CASE stack[k].kind = "exec"
    BY <1>1, <1>3, <2>2 DEF ActivationsAreSound
  <2>3. CASE stack[k].kind # "exec"
    <3>1. /\ stack[k].fun \in DOMAIN functions /\ stack[k].local \in GlobalValues
          /\ stack[k].code = functions[stack[k].fun].ast
          /\ stack[k].code = functions[stack[k].fun].value
      BY <2>3 DEF ActivationsAreSound
    <3>2. stack'[k].local \in GlobalValues'
      BY <1>1, <1>5, <2>3, <3>1
    <3> QED BY <1>3, <2>3, <3>1, <3>2
  <2> QED BY <2>2, <2>3
<1>8. WordsAreCurrent'
  <2>1. Top' = stack'[n]
    BY DEF Top
  <2>2. InCode' => FrameEnd(Top') = depth'
    BY <1>1, <1>2, <1>3, <2>1 DEF InCode, FrameEnd
  <2> QED BY <1>2, <2>2 DEF WordsAreCurrent
<1> QED BY <1>4, <1>6, <1>7, <1>8 DEF FrameInv
------------------------------------------------------------------------------
\* What the values of a function's frame can be
LEMMA TopIsSound ==
    ASSUME ExecInv, InCode
    PROVE  /\ Top.local \in GlobalValues
           /\ FrameEnd(Top) \in 0 .. StackWords
           /\ \A k \in Live : FrameEnd(stack[k]) <= FrameEnd(Top)
           /\ \A w \in Words : w < FrameEnd(Top) => w \in current
<1> USE DEF ExecInv
<1>1. Len(stack) \in DOMAIN stack /\ Top = stack[Len(stack)] /\ Len(stack) \in Live
  BY TopActivation DEF InCode, Live
<1>2. Top.local \in GlobalValues
  BY <1>1 DEF ActivationsAreSound, InCode
<1>3. FrameEnd(Top) \in 0 .. StackWords
  BY <1>1, FrameEnds, ExecAssumption DEF FramesFit
<1>4. \A k \in Live : FrameEnd(stack[k]) <= FrameEnd(Top)
  <2>1. SUFFICES ASSUME NEW k \in Live PROVE FrameEnd(stack[k]) <= FrameEnd(Top)
    OBVIOUS
  <2>2. k = Len(stack) \/ k < Len(stack)
    BY TopActivation DEF Live
  <2>3. k < Len(stack) => FrameEnd(stack[k]) <= stack[Len(stack)].base
    BY <1>1 DEF FramesInOrder
  <2> QED BY <1>1, <1>3, <2>2, <2>3, FrameEnds
<1>5. \A w \in Words : w < FrameEnd(Top) => w \in current
  BY DEF WordsAreCurrent, InCode
<1> QED BY <1>2, <1>3, <1>4, <1>5

\* A declared function is a new object, not compiled yet.
LEMMA NewFunction ==
    ASSUME Types, CompiledFromOwnTree, NEW body \in Bodies,
           functions' = Append(functions, [ast |-> body, value |-> "none"])
    PROVE  /\ functions' \in Seq(FunctionObjects)
           /\ DOMAIN functions' = 1 .. Len(functions) + 1
           /\ CompiledFromOwnTree'
           /\ DOMAIN functions \subseteq DOMAIN functions'
           /\ \A f \in DOMAIN functions : functions'[f] = functions[f]
           /\ functions'[Len(functions) + 1] = [ast |-> body, value |-> "none"]
           /\ BoxFunc(Len(functions) + 1) \in GlobalValues'
<1>1. functions \in Seq(FunctionObjects) /\ [ast |-> body, value |-> "none"] \in FunctionObjects
  BY DEF Types, FunctionObjects
<1>2. DOMAIN functions = 1 .. Len(functions) /\ Len(functions) \in Nat
  BY <1>1
<1>3. /\ functions' \in Seq(FunctionObjects)
      /\ Len(functions') = Len(functions) + 1
      /\ functions'[Len(functions) + 1] = [ast |-> body, value |-> "none"]
      /\ \A f \in DOMAIN functions : functions'[f] = functions[f]
  BY <1>1, <1>2, AppendProperties
<1>4. DOMAIN functions' = 1 .. Len(functions) + 1
  BY <1>3
<1>5. BoxFunc(Len(functions) + 1) \in GlobalValues'
  BY <1>2, <1>4 DEF GlobalValues
<1>6. CompiledFromOwnTree'
  BY <1>2, <1>3, <1>4 DEF CompiledFromOwnTree
<1> QED BY <1>2, <1>3, <1>4, <1>5, <1>6

\* A declaration of a function or a variable keeps the invariant.
LEMMA DeclareInv == ASSUME ExecInv, Declare PROVE ExecInv'
<1> USE DEF ExecInv
<1>1. /\ stack # <<>> /\ status = "running" /\ Top.kind = "exec" /\ Top.loop = "declare"
      /\ More /\ MayCollect(depth) /\ UNCHANGED <<arguments, depth, status>>
      /\ stack' = Append(Pop, [Top EXCEPT !.i = @ + 1])
  BY DEF Declare, InExec, Advance
<1>2. Top \in Activations /\ Top = stack[Len(stack)] /\ Len(stack) \in DOMAIN stack
  BY <1>1, TopActivation
<1>3. Top.file \in Files \ Broken /\ Top.i \in Nat /\ Top.i > 0
  BY <1>1, <1>2 DEF ActivationsAreSound, Activations
<1>4. [Top EXCEPT !.i = @ + 1] \in Activations
  BY <1>2, <1>3 DEF Activations
<1>5. /\ stack' \in Seq(Activations) /\ Len(stack') = Len(stack) /\ DOMAIN stack' = DOMAIN stack
      /\ stack'[Len(stack)] = [Top EXCEPT !.i = @ + 1]
      /\ \A k \in DOMAIN stack : k # Len(stack) => stack'[k] = stack[k]
  BY <1>1, <1>4, Replaced DEF Types
<1>6. LET t == stack'[Len(stack)]
      IN  /\ t.kind = Top.kind /\ t.code = Top.code /\ t.base = Top.base /\ t.fun = Top.fun
          /\ t.file = Top.file /\ t.loop = "declare" /\ t.i > 0
  BY <1>1, <1>2, <1>3, <1>5 DEF Activations
<1>7. /\ functions' \in Seq(FunctionObjects)
      /\ CompiledFromOwnTree'
      /\ DOMAIN functions \subseteq DOMAIN functions'
      /\ \A f \in DOMAIN functions : functions'[f] = functions[f]
      /\ globals' \in [Names -> GlobalValues']
  <2>1. CASE Child.kind = "function"
    <3>1. /\ functions' = Append(functions, [ast |-> Child.body, value |-> "none"])
          /\ globals' = [globals EXCEPT ![Child.name] = BoxFunc(Len(functions) + 1)]
      BY <2>1 DEF Declare
    <3>2. Top.i \in DOMAIN Declarations[Top.file]
      BY <1>1, <1>3, FilesAssumption DEF More
    <3>3. Child.body \in Bodies
      BY <1>3, <2>1, <3>2, FilesAssumption DEF Child
    <3>4. \A v \in GlobalValues : v \in GlobalValues'
      BY <3>1, <3>3, NewFunction, ValuesStay
    <3>5. BoxFunc(Len(functions) + 1) \in GlobalValues'
      BY <3>1, <3>3, NewFunction
    <3>6. globals' \in [Names -> GlobalValues']
      BY <3>1, <3>4, <3>5 DEF Types
    <3> QED BY <3>1, <3>3, <3>6, NewFunction
  <2>2. CASE Child.kind # "function"
    <3>1. UNCHANGED <<functions, globals>>
      BY <2>2 DEF Declare
    <3> QED BY <3>1 DEF Types, CompiledFromOwnTree, GlobalValues
  <2> QED BY <2>1, <2>2
<1> QED BY <1>1, <1>5, <1>6, <1>7, StayInv

\* The steps of the loops of sdyn_exec that do nothing keep it.
LEMMA LoopInv ==
    ASSUME ExecInv, DeclarationsEnd \/ PassDeclaration
    PROVE  ExecInv'
<1> USE DEF ExecInv
<1>1. PICK t \in {[Top EXCEPT !.loop = "call", !.i = 1], [Top EXCEPT !.i = @ + 1]} :
        /\ stack' = Append(Pop, t)
        /\ stack # <<>> /\ status = "running" /\ Top.kind = "exec" /\ MayCollect(depth)
        /\ UNCHANGED <<globals, functions, arguments, depth, status>>
  BY DEF DeclarationsEnd, PassDeclaration, InExec, Advance, MayCollect
<1>2. Top \in Activations /\ Top = stack[Len(stack)] /\ Len(stack) \in DOMAIN stack
  BY <1>1, TopActivation
<1>3. Top.loop \in {"declare", "call"} /\ Top.i \in Nat /\ Top.i > 0
  BY <1>1, <1>2 DEF ActivationsAreSound, Activations
<1>4. /\ t \in Activations
      /\ t.kind = Top.kind /\ t.code = Top.code /\ t.base = Top.base /\ t.fun = Top.fun
      /\ t.file = Top.file /\ t.loop \in {"declare", "call"} /\ t.i > 0
  <2>1. CASE t = [Top EXCEPT !.loop = "call", !.i = 1]
    <3>1. t \in Activations
      BY <1>2, <2>1 DEF Activations
    <3> QED BY <1>2, <2>1, <3>1 DEF Activations
  <2>2. CASE t = [Top EXCEPT !.i = @ + 1]
    <3>1. Top.i + 1 \in Nat /\ Top.i + 1 > 0
      BY <1>3
    <3>2. t \in Activations
      BY <1>2, <2>2, <3>1 DEF Activations
    <3>3. t.i = Top.i + 1
      BY <1>2, <2>2 DEF Activations
    <3> QED BY <1>2, <1>3, <2>2, <3>1, <3>2, <3>3 DEF Activations
  <2> QED BY <1>1, <2>1, <2>2
<1>5. /\ stack' \in Seq(Activations) /\ Len(stack') = Len(stack) /\ DOMAIN stack' = DOMAIN stack
      /\ stack'[Len(stack)] = t
      /\ \A k \in DOMAIN stack : k # Len(stack) => stack'[k] = stack[k]
  BY <1>1, <1>4, Replaced DEF Types
<1>6. /\ functions' \in Seq(FunctionObjects)
      /\ CompiledFromOwnTree'
      /\ DOMAIN functions \subseteq DOMAIN functions'
      /\ \A f \in DOMAIN functions : functions'[f] = functions[f]
      /\ globals' \in [Names -> GlobalValues']
  BY <1>1 DEF Types, CompiledFromOwnTree, GlobalValues
<1> QED BY <1>1, <1>4, <1>5, <1>6, StayInv

\* A call at the top of a file keeps it, though sdyn_exec does not set the pointer stack.
LEMMA CallGlobalInv == ASSUME ExecInv, CallGlobal PROVE ExecInv'
<1> USE DEF ExecInv
<1> DEFINE t     == [Top EXCEPT !.i = @ + 1]
           below == Append(Pop, t)
<1>1. /\ stack # <<>> /\ status = "running" /\ Top.kind = "exec" /\ More
      /\ Enter(globals[Child.name], depth, below)
  BY DEF CallGlobal, InExec
<1>2. Top \in Activations /\ Top = stack[Len(stack)] /\ Len(stack) \in DOMAIN stack
  BY <1>1, TopActivation
<1>3. Top.file \in Files /\ Top.i \in Nat /\ Top.i > 0
  BY <1>1, <1>2 DEF ActivationsAreSound, Activations
<1>4. t \in Activations /\ t.i > 0
  BY <1>2, <1>3 DEF Activations
<1>5. /\ t.kind = Top.kind /\ t.code = Top.code /\ t.base = Top.base /\ t.fun = Top.fun
      /\ t.local = Top.local /\ t.file = Top.file /\ t.loop = Top.loop
  BY <1>2 DEF Activations
<1>6. /\ below \in Seq(Activations) /\ Len(below) = Len(stack) /\ DOMAIN below = DOMAIN stack
      /\ below[Len(stack)] = t
      /\ \A k \in DOMAIN stack : k # Len(stack) => below[k] = stack[k]
  BY <1>1, <1>4, Replaced DEF Types
<1> HIDE DEF t, below
<1>7. \A k \in DOMAIN stack :
        /\ below[k].kind = stack[k].kind /\ below[k].code = stack[k].code
        /\ below[k].base = stack[k].base /\ below[k].fun = stack[k].fun
        /\ below[k].local = stack[k].local /\ below[k].file = stack[k].file
        /\ below[k].loop = stack[k].loop
        /\ stack[k].kind = "exec" => below[k].i > 0
  <2>1. SUFFICES ASSUME NEW k \in DOMAIN stack
                 PROVE  /\ below[k].kind = stack[k].kind /\ below[k].code = stack[k].code
                        /\ below[k].base = stack[k].base /\ below[k].fun = stack[k].fun
                        /\ below[k].local = stack[k].local /\ below[k].file = stack[k].file
                        /\ below[k].loop = stack[k].loop
                        /\ stack[k].kind = "exec" => below[k].i > 0
    OBVIOUS
  <2>2. CASE k = Len(stack)
    BY <1>2, <1>4, <1>5, <1>6, <2>2
  <2>3. CASE k # Len(stack)
    <3>1. below[k] = stack[k]
      BY <1>6, <2>3
    <3>2. stack[k].kind = "exec" => stack[k].i > 0
      BY DEF ActivationsAreSound
    <3> QED BY <3>1, <3>2
  <2> QED BY <2>2, <2>3
<1>8. globals[Child.name] \in GlobalValues
  <2>1. Top.i \in DOMAIN Declarations[Top.file]
    BY <1>1, <1>3, FilesAssumption DEF More
  <2>2. Declarations[Top.file] \in Seq([kind : {"function", "var", "call"}, name : Names, body : Bodies \cup {"none"}])
    BY <1>3, FilesAssumption
  <2>3. Child \in [kind : {"function", "var", "call"}, name : Names, body : Bodies \cup {"none"}]
    <3> DEFINE Sort == [kind : {"function", "var", "call"}, name : Names, body : Bodies \cup {"none"}]
    <3>1. Declarations[Top.file] \in Seq(Sort)
      BY <2>2
    <3> HIDE DEF Sort
    <3>2. Declarations[Top.file][Top.i] \in Sort
      BY <2>1, <3>1
    <3> QED BY <3>2 DEF Child, Sort
  <2>4. Child.name \in Names
    BY <2>3
  <2> QED BY <2>4 DEF Types
<1>9. \A k \in Live : FrameEnd(stack[k]) <= depth
  BY <1>1 DEF ExecIsBeyond
<1>10. \A w \in Words : w < depth => w \in current
  BY <1>1 DEF WordsAreCurrent
<1>11. depth \in 0 .. StackWords /\ Top.kind # "run"
  BY <1>1 DEF Types
<1> QED BY <1>1, <1>6, <1>7, <1>8, <1>9, <1>10, <1>11, EnterInv

\* A call in a function keeps it: sdyn_call starts at the end of the caller's frame.
LEMMA CallLocalInv == ASSUME ExecInv, CallLocal PROVE ExecInv'
<1> USE DEF ExecInv
<1>1. InCode /\ Enter(Top.local, FrameEnd(Top), stack)
  BY DEF CallLocal
<1>2. stack # <<>> /\ status = "running" /\ stack \in Seq(Activations)
  BY <1>1 DEF InCode, Types
<1>3. \A k \in DOMAIN stack : stack[k].kind = "exec" => stack[k].i > 0
  BY DEF ActivationsAreSound
<1> QED BY <1>1, <1>2, <1>3, TopIsSound, EnterInv

\* The start of a file keeps it.
LEMMA StartFileInv == ASSUME ExecInv, StartFile PROVE ExecInv'
<1> USE DEF ExecInv
<1>1. stack = <<>> /\ arguments # <<>> /\ status = "running"
  BY DEF StartFile
<1>2. Head(arguments) \in Files /\ Tail(arguments) \in Seq(Files)
  BY <1>1 DEF Types
<1>3. Live = {}
  BY <1>1 DEF Live
<1>4. CASE Head(arguments) \in Broken
  BY <1>4, AbortInv DEF StartFile
<1>5. CASE Head(arguments) \notin Broken
  <2>1. /\ stack' = Append(stack, ExecOf(Head(arguments)))
        /\ arguments' = Tail(arguments) /\ MayCollect(depth)
        /\ UNCHANGED <<globals, functions, depth, status>>
    <3>1. /\ stack' = <<ExecOf(Head(arguments))>>
          /\ arguments' = Tail(arguments) /\ MayCollect(depth)
          /\ UNCHANGED <<globals, functions, depth, status>>
      BY <1>5 DEF StartFile
    <3>2. Append(stack, ExecOf(Head(arguments))) = <<ExecOf(Head(arguments))>>
      BY <1>1
    <3> QED BY <3>1, <3>2
  <2>2. /\ \A w \in Words : w < depth' => w \in current'
        /\ current' \subseteq Words /\ depth' \in 0 .. StackWords
    BY <1>1, <2>1 DEF MayCollect, Collected, WordsAreCurrent, Types
  <2> QED BY <1>1, <1>2, <1>3, <1>5, <2>1, <2>2, PushExecInv
<1> QED BY <1>4, <1>5

\* $eval keeps it: sdyn_exec starts in the middle of a function.
LEMMA EvalInv == ASSUME ExecInv, NEW file \in Files, Eval(file) PROVE ExecInv'
<1> USE DEF ExecInv
<1>1. InCode /\ stack # <<>> /\ status = "running"
  BY DEF Eval, InCode
<1>2. CASE Abort("aborted") \/ Abort("crashed")
  BY <1>2, AbortInv
<1>3. CASE /\ file \notin Broken
           /\ stack' = Append(stack, ExecOf(file))
           /\ depth' = FrameEnd(Top)
           /\ MayCollect(depth')
           /\ UNCHANGED <<globals, functions, arguments, status>>
  <2>1. depth' \in 0 .. StackWords /\ \A k \in Live : FrameEnd(stack[k]) <= depth'
    BY <1>1, <1>3, TopIsSound
  <2>2. /\ \A w \in Words : w < depth' => w \in current'
        /\ current' \subseteq Words
    BY <1>1, <1>3, TopIsSound DEF MayCollect, Collected, Types
  <2>3. arguments' \in Seq(Files)
    BY <1>3 DEF Types
  <2> QED BY <1>1, <1>3, <2>1, <2>2, <2>3, PushExecInv
<1> QED BY <1>2, <1>3 DEF Eval

\* Reading and writing globals and native calls keep it.
LEMMA NativeInv ==
    ASSUME ExecInv,
           CallNative \/ \E n \in Names : TakeGlobal(n) \/ GiveGlobal(n)
    PROVE  ExecInv'
<1> USE DEF ExecInv
<1>1. /\ Native /\ stack # <<>> /\ status = "running" /\ Top.kind = "run"
      /\ UNCHANGED <<functions, arguments, status>>
  BY DEF CallNative, TakeGlobal, GiveGlobal, Native, InCode
<1>2. Top.local \in GlobalValues
  BY <1>1, TopIsSound DEF Native
<1>3. /\ functions' \in Seq(FunctionObjects) /\ CompiledFromOwnTree'
      /\ GlobalValues' = GlobalValues
  BY <1>1 DEF Types, CompiledFromOwnTree, GlobalValues
<1>4. Top \in Activations /\ Top = stack[Len(stack)] /\ Len(stack) \in DOMAIN stack
  BY <1>1, TopActivation
<1>5. CASE stack' = stack /\ globals' \in [Names -> GlobalValues]
  <2>1. stack' \in Seq(Activations)
    BY <1>5 DEF Types
  <2> QED BY <1>1, <1>2, <1>3, <1>4, <1>5, <2>1, StayInv
<1>6. CASE \E n \in Names : TakeGlobal(n)
  <2>1. PICK n \in Names : TakeGlobal(n)
    BY <1>6
  <2> DEFINE t == [Top EXCEPT !.local = globals[n]]
  <2>2. stack' = Append(Pop, t) /\ globals' = globals
    BY <2>1 DEF TakeGlobal
  <2>3. globals[n] \in GlobalValues
    BY DEF Types
  <2>4. globals[n] \in [tag : {"BOXED_UNDEFINED", "FUNCTION"}, n : Nat]
    <3>1. DOMAIN functions \subseteq Nat
      BY DEF Types
    <3> QED BY <2>3, <3>1 DEF GlobalValues, BoxFunc, Undefined
  <2>5. /\ t \in Activations /\ t.local = globals[n]
        /\ t.kind = Top.kind /\ t.code = Top.code /\ t.base = Top.base
        /\ t.fun = Top.fun /\ t.file = Top.file
    BY <1>4, <2>4 DEF Activations
  <2> HIDE DEF t
  <2>6. /\ stack' \in Seq(Activations) /\ Len(stack') = Len(stack) /\ DOMAIN stack' = DOMAIN stack
        /\ stack'[Len(stack)] = t
        /\ \A k \in DOMAIN stack : k # Len(stack) => stack'[k] = stack[k]
    BY <1>1, <2>2, <2>5, Replaced DEF Types
  <2>7. globals' \in [Names -> GlobalValues']
    BY <1>3, <2>2 DEF Types
  <2> QED BY <1>1, <1>3, <2>3, <2>5, <2>6, <2>7, StayInv
<1>7. CASE CallNative
  BY <1>5, <1>7 DEF CallNative, Types
<1>8. CASE \E n \in Names : GiveGlobal(n)
  <2>1. PICK n \in Names : GiveGlobal(n)
    BY <1>8
  <2>2. stack' = stack /\ globals' = [globals EXCEPT ![n] = Top.local]
    BY <2>1 DEF GiveGlobal
  <2> QED BY <1>2, <1>5, <2>2 DEF Types
<1> QED BY <1>6, <1>7, <1>8

\* The invariant is inductive.
LEMMA StepInv == ExecInv /\ [Next]_vars => ExecInv'
<1> SUFFICES ASSUME ExecInv, [Next]_vars PROVE ExecInv'
  OBVIOUS
<1>1. CASE UNCHANGED vars
  BY <1>1
     DEF vars, ExecInv, Types, GlobalValues, CompiledFromOwnTree, ActivationsAreSound, FramesInOrder,
         FramesFit, ExecIsBeyond, WordsAreCurrent, InCode, Live, FrameEnd, Top
<1>2. CASE Exit
  BY <1>2, AbortInv DEF Exit
<1>3. CASE ExecEnds \/ Return
  BY <1>3, PopInv DEF ExecEnds, Return, InExec, InCode
<1> QED
  BY <1>1, <1>2, <1>3, StartFileInv, DeclareInv, LoopInv, CallGlobalInv, CallLocalInv, NativeInv, EvalInv
     DEF Next

\* The inductive invariant holds of every reachable state.
THEOREM ExecInvariant == Spec => []ExecInv
<1> QED BY InitInv, StepInv, PTL DEF Spec

\* Frames of functions at work have words of their own, in their order, within the stack.
THEOREM AlwaysFramesAreStacked == Spec => []FramesAreStacked
<1>1. ExecInv => FramesAreStacked
  BY DEF ExecInv, FramesInOrder, FramesFit, ExecIsBeyond, FramesAreStacked
<1> QED BY <1>1, ExecInvariant, PTL

\* Every word that a collection goes through holds a pointer that is valid.
THEOREM AlwaysCollectorFindsValidWords == Spec => []CollectorFindsValidWords
<1>1. ExecInv => CollectorFindsValidWords
  BY DEF ExecInv, WordsAreCurrent, CollectorFindsValidWords
<1> QED BY <1>1, ExecInvariant, PTL

\* A function runs its own code, which is compiled from its own tree, once.
THEOREM AlwaysRunsItsOwnCode == Spec => []RunsItsOwnCode
<1>1. ASSUME ExecInv PROVE RunsItsOwnCode
  <2>1. \A k \in Live : /\ stack[k].code = functions[stack[k].fun].ast
                        /\ stack[k].code = functions[stack[k].fun].value
    BY <1>1 DEF ExecInv, ActivationsAreSound, Live
  <2>2. \A k \in Live : stack[k].code # "none"
    BY <1>1, FrameEnds, FilesAssumption DEF ExecInv
  <2> QED BY <1>1, <2>1, <2>2 DEF ExecInv, CompiledFromOwnTree, RunsItsOwnCode
<1> QED BY <1>1, ExecInvariant, PTL

\* Activations and function objects are what the code declares.
THEOREM AlwaysExecTypeOK == Spec => []ExecTypeOK
<1>1. ASSUME ExecInv PROVE ExecTypeOK
  <2>1. functions \in Seq([ast : Bodies, value : Bodies \cup {"none"}])
    BY <1>1 DEF ExecInv, Types, FunctionObjects
  <2>2. \A k \in DOMAIN stack :
          \/ stack[k].kind = "exec" /\ stack[k].file \in Files \ Broken
          \/ stack[k].kind = "run" /\ stack[k].fun \in DOMAIN functions
    <3>1. \A k \in DOMAIN stack : stack[k].kind \in {"exec", "run"}
      <4>1. \A k \in DOMAIN stack : stack[k] \in Activations
        BY <1>1 DEF ExecInv, Types
      <4> QED BY <4>1 DEF Activations
    <3> QED BY <1>1, <3>1 DEF ExecInv, ActivationsAreSound
  <2> QED BY <1>1, <2>1, <2>2 DEF ExecInv, Types, GlobalValues, ExecTypeOK
<1> QED BY <1>1, ExecInvariant, PTL
==============================================================================
