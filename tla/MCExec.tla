------------------------------- MODULE MCExec --------------------------------
\* Two globals, and files that declare and call them in ways that matter.
EXTENDS Exec

Fun(n, b) == [kind |-> "function", name |-> n, body |-> b]
VarOf(n)  == [kind |-> "var", name |-> n, body |-> "none"]
Run(n)    == [kind |-> "call", name |-> n, body |-> "none"]

TwoNames  == {"f", "g"}
AllBodies == {"f1", "f2", "g1", "bad"}

\* A program with two functions of one name, and calls among its declarations; files for
\* $eval: f anew, a variable f, a call of f, a function that names no intrinsic, no program.
Sources ==
    [main    |-> <<Run("f"), Fun("f", "g1"), Fun("f", "f1"), VarOf("g"), Run("f"), Run("g")>>,
     replace |-> <<Fun("f", "f2"), Run("f")>>,
     again   |-> <<VarOf("f"), Run("f"), Run("f")>>,
     wrong   |-> <<Fun("g", "bad")>>,
     broken  |-> <<>>]

AllFiles   == DOMAIN Sources
NoPrograms == {"broken"}
BadBodies  == {"bad"}
TwoFiles   == <<"main", "again">>
Frames     == [b \in AllBodies |-> CASE b = "f1" -> 2 [] b = "f2" -> 1 [] b = "g1" -> 1 [] b = "bad" -> 1]
==============================================================================
