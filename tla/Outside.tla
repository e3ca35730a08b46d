-------------------------------- MODULE Outside ------------------------------
(***************************************************************************)
(* The world outside of a function is the global object (object 0), with   *)
(* one function g in it, and the intrinsic $print.  Calling either leaves  *)
(* a record of the arguments in the trace; g returns a number that tells   *)
(* its calls apart, $print returns undefined.                              *)
(***************************************************************************)
EXTENDS Values

GlobalObject == 0
Globals      == <<GlobalObject, "g">> :> BoxFunc(1)
World        == [heap |-> Globals, objects |-> 1, trace |-> <<>>]

Lookup(w, o, m) == IF <<o, m>> \in DOMAIN w.heap THEN w.heap[<<o, m>>] ELSE Undefined

PutMember(w, o, m, v) == [w EXCEPT !.heap = (<<o, m>> :> v) @@ @]

NewObjectIn(w) == [w EXCEPT !.objects = @ + 1]

\* The result of the call that the trace ends with
Answer(w) == BoxInt(10 * Len(w.trace))

Record(w, what, args) == [w EXCEPT !.trace = Append(@, <<what, args>>)]
==============================================================================
