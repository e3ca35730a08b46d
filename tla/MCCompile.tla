------------------------------ MODULE MCCompile ------------------------------
\* The compiler's passes over the codes of Programs' functions, without running them.
EXTENDS RegAlloc, Programs

CodesOf(bodies) == {IRCompileFunction(Fun(b)) : b \in bodies}

\* all families of functions that compile to what they mean, and those whose code mixes
\* words and pointers
AllCodes == CodesOf(Straight \cup IfBodies \cup WhileBodies \cup MixedBodies)
==============================================================================
