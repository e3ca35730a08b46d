----------------------------- MODULE GlobalScope -----------------------------
(***************************************************************************)
(* The global scope as docs/SEMANTICS (34-42) has it: the declarations of  *)
(* a file take effect together, before its calls, the latest function of a *)
(* name being the one that counts; the calls are then made in their order, *)
(* each of what its name stands for at that time.  On one point this is    *)
(* the code's rule and not the document's: a file's `var` of a name that   *)
(* has a value keeps the value, where the document makes it undefined.     *)
(* Functions are pieces of code: nothing is compiled here, nothing has an  *)
(* address.                                                                *)
(*                                                                         *)
(* What a function does is left open: it may take the value of a global    *)
(* variable, write it to one, call it, evaluate a file, and return.        *)
(***************************************************************************)
EXTENDS SourceFiles

VARIABLES
    scope,      \* the value of each global
    activity,   \* the files and functions at work, the last one on top
    outcome     \* running, terminated by an error, or out of room

scopeVars == <<scope, activity, outcome>>

Undefined == "undefined"

\* What is at work: a file with the positions of the calls it has still to make, or a
\* function with the value it has last taken from a global.
File(file, calls) == [kind |-> "file", calls |-> calls, body |-> file, local |-> Undefined]
Function(body, v) == [kind |-> "function", calls |-> {}, body |-> body, local |-> v]

Top        == activity[Len(activity)]
Pop        == SubSeq(activity, 1, Len(activity) - 1)
InFunction == outcome = "running" /\ activity # <<>> /\ Top.kind = "function"
InFile     == outcome = "running" /\ activity # <<>> /\ Top.kind = "file"

------------------------------------------------------------------------------
ScopeInit ==
    /\ scope = [n \in Names |-> Undefined]
    /\ activity = <<>>
    /\ outcome = "running"

Terminate ==
    /\ outcome' = "terminated"
    /\ UNCHANGED <<scope, activity>>

\* An implementation may run out of room at a call, and then nothing is promised.
RunOut ==
    /\ outcome' = "out of room"
    /\ UNCHANGED <<scope, activity>>

\* A file is evaluated, by the user or by $eval.
Evaluate(file) ==
    /\ outcome = "running"
    /\ activity = <<>> \/ InFunction
    /\ IF file \in Broken
       THEN Terminate
       ELSE \/ /\ scope' = AfterDeclarations(scope, file, 1)
               /\ activity' = Append(activity, File(file, Calls(file, 1)))
               /\ UNCHANGED outcome
            \/ RunOut

\* v is called, with these at work below it.
Call(v, below) ==
    \/ IF v \in Bodies \ Invalid
       THEN /\ activity' = Append(below, Function(v, Undefined))
            /\ UNCHANGED <<scope, outcome>>
       ELSE Terminate
    \/ v \in Bodies \ Invalid /\ RunOut

\* The next call of a file
CallGlobal ==
    /\ InFile
    /\ Top.calls # {}
    /\ LET next == CHOOSE i \in Top.calls : \A j \in Top.calls : i <= j
       IN  Call(scope[Declarations[Top.body][next].name],
                Append(Pop, [Top EXCEPT !.calls = @ \ {next}]))

Take(n) ==
    /\ InFunction
    /\ activity' = Append(Pop, [Top EXCEPT !.local = scope[n]])
    /\ UNCHANGED <<scope, outcome>>

Give(n) ==
    /\ InFunction
    /\ scope' = [scope EXCEPT ![n] = Top.local]
    /\ UNCHANGED <<activity, outcome>>

CallLocal ==
    /\ InFunction
    /\ Call(Top.local, activity)

\* A function returns, or a file has made its calls.
End ==
    /\ InFunction \/ (InFile /\ Top.calls = {})
    /\ activity' = Pop
    /\ UNCHANGED <<scope, outcome>>

ScopeNext ==
    \/ CallGlobal
    \/ CallLocal
    \/ End
    \/ \E file \in Files : Evaluate(file)
    \/ \E n \in Names : Take(n) \/ Give(n)

ScopeSpec == ScopeInit /\ [][ScopeNext]_scopeVars
==============================================================================
