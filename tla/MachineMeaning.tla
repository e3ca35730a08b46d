---------------------------- MODULE MachineMeaning ---------------------------
(***************************************************************************)
(* The compiled function compared with what docs/SEMANTICS says its tree   *)
(* means.                                                                  *)
(***************************************************************************)
EXTENDS Machine, Reference

\* A function that its caller sees end gave the result that the language says it gives,
\* for these arguments, and did to the world what the language says it does.
ComputesTheMeaning ==
    Over => Outcome(status, result, world) = Meaning(task.fun, task.args, task.fuel)
==============================================================================
