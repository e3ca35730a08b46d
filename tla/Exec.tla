--------------------------------- MODULE Exec --------------------------------
(***************************************************************************)
(* Files and functions at work: main, sdyn_exec and $eval, function        *)
(* objects that are compiled when they are first called, and the pointer   *)
(* stack that all of them share.                                           *)
(*                                                                         *)
(* The pointer stack is a number of words; depth counts those in use, so   *)
(* that it grows where the code's pointers shrink.  Code of a function has *)
(* its frame in RDI, and hands it to every native function it calls, which *)
(* stores it in ggc_jitPointerStack: that is what the collector goes by.   *)
(* sdyn_exec has no frame and leaves ggc_jitPointerStack as it finds it.   *)
(*                                                                         *)
(* A collection moves objects and corrects the words in use; a word beyond *)
(* them that still holds a pointer is stale from then on.                  *)
(***************************************************************************)
EXTENDS SourceFiles

CONSTANTS
    Arguments,      \* the files that main is given
    Frame,          \* the words that the code of each function takes for its frame
    StackWords,     \* POINTER_STACK_SZ, the words that sdyn_initValues maps
    MaxDepth,       \* functions and files that fit on the conventional stack
    MaxFunctions    \* function objects that $eval may bring them to

ASSUME ExecAssumption ==
    /\ Arguments \in Seq(Files)
    /\ Frame \in [Bodies -> Nat \ {0}]
    /\ StackWords \in Nat
    /\ MaxDepth \in Nat \ {0}

VARIABLES
    globals,    \* the global object
    functions,  \* the function objects, in the order they were made
    stack,      \* sdyn_exec and functions at work, the last one on top
    arguments,  \* what is left of Arguments
    depth,      \* ggc_jitPointerStack: the words in use
    current,    \* the words that hold no stale pointer
    status      \* running, aborted, crashed, overrun or exited

vars == <<globals, functions, stack, arguments, depth, current, status>>

\* Values: a function is its object's place in functions.
Undefined   == [tag |-> "BOXED_UNDEFINED", n |-> 0]
BoxFunc(f)  == [tag |-> "FUNCTION", n |-> f]
IsFunc(v)   == v.tag = "FUNCTION"

\* Activations: sdyn_exec with its loop and its index, or a function's code, with the first
\* word of its frame and the value in its frame that it got from a global
ExecOf(file) == [kind |-> "exec", file |-> file, loop |-> "declare", i |-> 1,
                 fun |-> 0, code |-> "none", base |-> 0, local |-> Undefined]
RunOf(f, code, base) == [kind |-> "run", file |-> "none", loop |-> "none", i |-> 0,
                         fun |-> f, code |-> code, base |-> base, local |-> Undefined]

Top == stack[Len(stack)]
Pop == SubSeq(stack, 1, Len(stack) - 1)

FrameEnd(a)  == a.base + Frame[a.code]
Words        == 0 .. StackWords - 1
Live         == {k \in DOMAIN stack : stack[k].kind = "run"}

InExec(loop) == status = "running" /\ stack # <<>> /\ Top.kind = "exec" /\ Top.loop = loop
InCode       == status = "running" /\ stack # <<>> /\ Top.kind = "run"
------------------------------------------------------------------------------
Init ==
    /\ globals = [n \in Names |-> Undefined]
    /\ functions = <<>>
    /\ stack = <<>>
    /\ arguments = Arguments
    /\ depth = 0
    /\ current = Words
    /\ status = "running"

Abort(outcome) ==
    /\ status' = outcome
    /\ UNCHANGED <<globals, functions, stack, arguments, depth, current>>

\* The collector corrects the words up to d; no other is current then.
Collected(d) == {w \in Words : w < d}

\* It runs in some native functions, at some of their allocations.
MayCollect(d) == current' \in {current, Collected(d)}

\* main: the next file, or the end
StartFile ==
    /\ status = "running"
    /\ stack = <<>>
    /\ arguments # <<>>
    /\ IF Head(arguments) \in Broken
       THEN Abort("aborted")
       ELSE /\ stack' = <<ExecOf(Head(arguments))>>
            /\ arguments' = Tail(arguments)
            /\ MayCollect(depth)
            /\ UNCHANGED <<globals, functions, depth, status>>

Exit ==
    /\ status = "running"
    /\ stack = <<>>
    /\ arguments = <<>>
    /\ Abort("exited")

\* The running declaration or call of sdyn_exec
Child == Declarations[Top.file][Top.i]
More  == Top.i <= Len(Declarations[Top.file])

Advance == stack' = Append(Pop, [Top EXCEPT !.i = @ + 1])

\* mutant: the first function of a name is kept
DeclareOnce ==
    /\ InExec("declare")
    /\ More
    /\ IF Child.kind = "function" /\ ~IsFunc(globals[Child.name])
       THEN /\ functions' = Append(functions, [ast |-> Child.body, value |-> "none"])
            /\ globals' = [globals EXCEPT ![Child.name] = BoxFunc(Len(functions) + 1)]
       ELSE UNCHANGED <<functions, globals>>
    /\ Advance
    /\ MayCollect(depth)
    /\ UNCHANGED <<arguments, depth, status>>

\* mutant: a function object is used again for its global's next function
DeclareInPlace ==
    /\ InExec("declare")
    /\ More
    /\ CASE Child.kind # "function" -> UNCHANGED <<functions, globals>>
         [] Child.kind = "function" /\ IsFunc(globals[Child.name]) ->
              /\ functions' = [functions EXCEPT ![globals[Child.name].n].ast = Child.body]
              /\ UNCHANGED globals
         [] OTHER ->
              /\ functions' = Append(functions, [ast |-> Child.body, value |-> "none"])
              /\ globals' = [globals EXCEPT ![Child.name] = BoxFunc(Len(functions) + 1)]
    /\ Advance
    /\ MayCollect(depth)
    /\ UNCHANGED <<arguments, depth, status>>

\* The first loop of sdyn_exec: a function gets an object and is written to its global; a
\* variable gets its place in the global object, which leaves its value alone.
Declare ==
    /\ InExec("declare")
    /\ More
    /\ IF Child.kind = "function"
       THEN /\ functions' = Append(functions, [ast |-> Child.body, value |-> "none"])
            /\ globals' = [globals EXCEPT ![Child.name] = BoxFunc(Len(functions) + 1)]
       ELSE UNCHANGED <<functions, globals>>
    /\ Advance
    /\ MayCollect(depth)
    /\ UNCHANGED <<arguments, depth, status>>

DeclarationsEnd ==
    /\ InExec("declare")
    /\ ~More
    /\ stack' = Append(Pop, [Top EXCEPT !.loop = "call", !.i = 1])
    /\ UNCHANGED <<globals, functions, arguments, depth, current, status>>

\* The second loop has nothing to do for a declaration.
PassDeclaration ==
    /\ InExec("call")
    /\ More
    /\ Child.kind # "call"
    /\ Advance
    /\ MayCollect(depth)
    /\ UNCHANGED <<globals, functions, arguments, depth, status>>

\* sdyn_assertCompiled: the function objects when f has machine code, for good
AssertCompiled(f) ==
    IF functions[f].value = "none" THEN [functions EXCEPT ![f].value = functions[f].ast]
                                   ELSE functions

\* An intrinsic that does not exist is found when the function is compiled.
Compiles(body) == body \notin Invalid

\* What sdyn_assertFunction and the compiler accept
Callable(v) == IsFunc(v) /\ (functions[v.n].value # "none" \/ Compiles(functions[v.n].ast))

\* The conventional stack has no room for another activation, and ends at a guard page.
StackIsFull == Len(stack) = MaxDepth

\* The frame of the function is within the pointer stack.
Fits(v, d) == d + Frame[functions[v.n].ast] <= StackWords

\* sdyn_assertFunction and sdyn_call, while d words are in use; below is what the callee
\* returns to.  Compiling may collect; PALLOCA then writes all words of the frame.  No code
\* looks where the pointer stack ends: a frame that does not fit is written all the same, to
\* memory of someone else's, and what the process does from then on nobody knows.
Enter(v, d, below) ==
    \/ ~Callable(v) /\ Abort("aborted")
    \/ Callable(v) /\ StackIsFull /\ Abort("crashed")
    \/ Callable(v) /\ ~StackIsFull /\ ~Fits(v, d) /\ Abort("overrun")
    \/ /\ Callable(v) /\ ~StackIsFull /\ Fits(v, d)
       /\ functions' = AssertCompiled(v.n)
       /\ stack' = Append(below, RunOf(v.n, functions'[v.n].value, d))
       /\ depth' = d
       /\ \E kept \in {current, Collected(d)} :
            current' = kept \cup {w \in Words : d <= w /\ w < d + Frame[functions'[v.n].value]}
       /\ UNCHANGED <<globals, arguments, status>>

\* A global call: sdyn_call gets no pointer stack, and takes the one that is there.
CallGlobal ==
    /\ InExec("call")
    /\ More
    /\ Child.kind = "call"
    /\ Enter(globals[Child.name], depth, Append(Pop, [Top EXCEPT !.i = @ + 1]))

\* sdyn_exec returns, to main or, by way of $eval, to code.
ExecEnds ==
    /\ InExec("call")
    /\ ~More
    /\ stack' = Pop
    /\ UNCHANGED <<globals, functions, arguments, depth, current, status>>
------------------------------------------------------------------------------
\* Code.

\* mutant: a native function leaves the collector the pointer stack it had
NativeUnset ==
    /\ InCode
    /\ depth' = depth
    /\ MayCollect(depth')

\* A call of a native function that returns to the code: all of the frame is in use.
Native ==
    /\ InCode
    /\ depth' = FrameEnd(Top)
    /\ MayCollect(depth')

\* sdyn_getObjectMember and sdyn_setObjectMember of the global object
TakeGlobal(n) ==
    /\ Native
    /\ stack' = Append(Pop, [Top EXCEPT !.local = globals[n]])
    /\ UNCHANGED <<globals, functions, arguments, status>>

GiveGlobal(n) ==
    /\ Native
    /\ globals' = [globals EXCEPT ![n] = Top.local]
    /\ UNCHANGED <<functions, stack, arguments, status>>

CallNative ==
    /\ Native
    /\ UNCHANGED <<globals, functions, stack, arguments, status>>

\* CALL of a function that the code has in its frame
CallLocal ==
    /\ InCode
    /\ Enter(Top.local, FrameEnd(Top), stack)

\* mutant: $eval leaves the pointer stack as it finds it
EvalUnset(file) ==
    /\ InCode
    /\ Len(functions) + FunctionsIn(file) <= MaxFunctions
    /\ CASE file \in Broken -> Abort("aborted")
         [] file \notin Broken /\ StackIsFull -> Abort("crashed")
         [] OTHER -> /\ stack' = Append(stack, ExecOf(file))
                     /\ depth' = depth
                     /\ MayCollect(depth')
                     /\ UNCHANGED <<globals, functions, arguments, status>>

\* mutant: $eval evaluates what the parser has rejected
EvalUnparsed(file) ==
    /\ InCode
    /\ Len(functions) + FunctionsIn(file) <= MaxFunctions
    /\ IF StackIsFull
       THEN Abort("crashed")
       ELSE /\ stack' = Append(stack, ExecOf(file))
            /\ depth' = FrameEnd(Top)
            /\ MayCollect(depth')
            /\ UNCHANGED <<globals, functions, arguments, status>>

\* $eval
Eval(file) ==
    /\ InCode
    /\ Len(functions) + FunctionsIn(file) <= MaxFunctions
    /\ CASE file \in Broken -> Abort("aborted")
         [] file \notin Broken /\ StackIsFull -> Abort("crashed")
         [] OTHER -> /\ stack' = Append(stack, ExecOf(file))
                     /\ depth' = FrameEnd(Top)
                     /\ MayCollect(depth')
                     /\ UNCHANGED <<globals, functions, arguments, status>>

\* The code gives its words back, and tells nobody.
Return ==
    /\ InCode
    /\ stack' = Pop
    /\ UNCHANGED <<globals, functions, arguments, depth, current, status>>

Next ==
    \/ StartFile
    \/ Exit
    \/ Declare
    \/ DeclarationsEnd
    \/ PassDeclaration
    \/ CallGlobal
    \/ ExecEnds
    \/ CallNative
    \/ CallLocal
    \/ Return
    \/ \E n \in Names : TakeGlobal(n) \/ GiveGlobal(n)
    \/ \E file \in Files : Eval(file)

Spec == Init /\ [][Next]_vars
------------------------------------------------------------------------------
\* Activations and function objects are what exec.c and value.h declare: globals and code
\* refer to functions that were made, and no file is at work that the parser has rejected.
ExecTypeOK ==
    /\ globals \in [Names -> {Undefined} \cup {BoxFunc(f) : f \in DOMAIN functions}]
    /\ functions \in Seq([ast : Bodies, value : Bodies \cup {"none"}])
    /\ depth \in Nat
    /\ current \subseteq Words
    /\ status \in {"running", "aborted", "crashed", "overrun", "exited"}
    /\ \A k \in DOMAIN stack :
         \/ stack[k].kind = "exec" /\ stack[k].file \in Files \ Broken
         \/ stack[k].kind = "run" /\ stack[k].fun \in DOMAIN functions

\* The frames of functions at work have words of their own, those of a callee right after
\* its caller's; and while sdyn_exec runs ggc_jitPointerStack, which it does not set,
\* is beyond all of them.
FramesAreStacked ==
    /\ \A j, k \in Live : j < k => FrameEnd(stack[j]) <= stack[k].base
    /\ \A k \in Live : k + 1 \in Live => stack[k + 1].base = FrameEnd(stack[k])
    /\ stack # <<>> /\ Top.kind = "exec" => \A k \in Live : FrameEnd(stack[k]) <= depth

\* Whenever a collection can start, the words that it goes through are pointers that
\* the last one has left valid or that were written since: "so all pointers are valid"
\* (jit-x8664.c 233), also those that functions left behind that returned.
CollectorFindsValidWords ==
    status = "running" =>
        \A w \in Words : w < (IF InCode THEN FrameEnd(Top) ELSE depth) => w \in current

\* A function at work runs the code of its own declaration, whatever its global holds by
\* now; and what is compiled is compiled from there.
RunsItsOwnCode ==
    /\ \A k \in Live : stack[k].code = functions[stack[k].fun].ast
    /\ \A f \in DOMAIN functions : functions[f].value \in {"none", functions[f].ast}
    /\ \A k \in Live : functions[stack[k].fun].value # "none"
------------------------------------------------------------------------------
\* The refinement of GlobalScope: a function value is its code; declarations that the
\* running sdyn_exec has still to make are in effect already.
AbstractValue(v) == IF IsFunc(v) THEN functions[v.n].ast ELSE "undefined"

Declaring == stack # <<>> /\ Top.kind = "exec" /\ Top.loop = "declare"

ScopeSoFar == [n \in Names |-> AbstractValue(globals[n])]

AbstractScope ==
    IF Declaring THEN AfterDeclarations(ScopeSoFar, Top.file, Top.i) ELSE ScopeSoFar

ActivityOf(a) ==
    IF a.kind = "exec"
    THEN [kind |-> "file", body |-> a.file, local |-> "undefined",
          calls |-> Calls(a.file, IF a.loop = "declare" THEN 1 ELSE a.i)]
    ELSE [kind |-> "function", body |-> functions[a.fun].ast, calls |-> {},
          local |-> AbstractValue(a.local)]

AbstractActivity == [k \in DOMAIN stack |-> ActivityOf(stack[k])]

AbstractOutcome ==
    CASE status = "aborted"                -> "terminated"
      [] status \in {"crashed", "overrun"} -> "out of room"
      [] OTHER                             -> "running"

Scope == INSTANCE GlobalScope WITH
           scope <- AbstractScope, activity <- AbstractActivity, outcome <- AbstractOutcome

\* sdyn_exec, with its two loops, function objects and lazy compilation, keeps the
\* promises of docs/SEMANTICS about files, declarations and calls, also where files are
\* evaluated by functions that they replace.
ImplementsScope == Scope!ScopeSpec
==============================================================================
