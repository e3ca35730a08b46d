----------------------------- MODULE SourceFiles -----------------------------
(***************************************************************************)
(* Files as sdyn_exec goes through them: sequences of declarations of      *)
(* functions and variables, and of calls.                                  *)
(***************************************************************************)
EXTENDS Integers, Sequences, FiniteSets

CONSTANTS
    Names,          \* names of globals
    Bodies,         \* the code of functions
    Files,          \* texts to evaluate
    Declarations,   \* what is in each file: a kind, a name, and the code of a function
    Broken,         \* the files that are no programs
    Invalid         \* the functions that name an intrinsic that does not exist

ASSUME FilesAssumption ==
    /\ Broken \subseteq Files
    /\ Invalid \subseteq Bodies
    /\ Declarations \in [Files -> Seq([kind : {"function", "var", "call"}, name : Names,
                                       body : Bodies \cup {"none"}])]
    /\ \A file \in Files : \A i \in DOMAIN Declarations[file] :
         Declarations[file][i].kind = "function" => Declarations[file][i].body \in Bodies
    /\ "none" \notin Bodies
    /\ "undefined" \notin Bodies

Positions(file, kind, n, start) ==
    {i \in DOMAIN Declarations[file] :
       i >= start /\ Declarations[file][i].kind = kind /\ Declarations[file][i].name = n}

Latest(positions) == CHOOSE i \in positions : \A j \in positions : j <= i

\* The values of globals after a file's declarations from a position on: the latest function
\* of a name is used, and a variable keeps its value, undefined if it was never given one.
AfterDeclarations(values, file, start) ==
    [n \in Names |->
       LET functions == Positions(file, "function", n, start)
       IN  IF functions = {} THEN values[n] ELSE Declarations[file][Latest(functions)].body]

\* How many functions a file declares
FunctionsIn(file) == Cardinality({i \in DOMAIN Declarations[file] : Declarations[file][i].kind = "function"})

\* Where the calls of a file are, from a position on
Calls(file, start) == UNION {Positions(file, "call", n, start) : n \in Names}
==============================================================================
