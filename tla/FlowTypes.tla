------------------------------ MODULE FlowTypes ------------------------------
(***************************************************************************)
(* irFlowTypes of ir.c, the second pass: refine the type of each node from *)
(* the types of its operands, round after round until a round changes      *)
(* nothing.  What this pass says about a value decides whether the JIT     *)
(* keeps it as a raw machine word or as a pointer.                         *)
(***************************************************************************)
EXTENDS Unify

VARIABLES
    rtype,      \* the type of each node
    changed     \* this round chose a more precise type

flowVars == <<rtype, changed>>

\* mutant: the type of the value itself
OwnType(v) == rtype[v]

\* The type of the location of v
LocationType(v) == rtype[uidx[v]]

IsInt(t) == t \in {"INT", "BOXED_INT"}
------------------------------------------------------------------------------
FlowInit ==
    /\ UnifyInit
    /\ rtype = [i \in Indices |-> code[i].rtype]
    /\ changed = FALSE

\* (number, number) -> number; anything else with a known type -> string
AddType(l, r, t) ==
    CASE IsInt(l) /\ IsInt(r)                              -> "INT"
      [] l # "BOXED" /\ r # "BOXED" /\ ~(IsInt(l) /\ IsInt(r)) -> "STRING"
      [] l = "BOXED" /\ r # "BOXED" /\ ~IsInt(r)           -> "STRING"
      [] r = "BOXED" /\ l # "BOXED" /\ l # "INT"           -> "STRING"
      [] OTHER                                             -> t

UnifyType(l, r, t) ==
    CASE l = r                           -> l
      [] {l, r} = {"BOOL", "BOXED_BOOL"} -> "BOXED_BOOL"
      [] {l, r} = {"INT", "BOXED_INT"}   -> "BOXED_INT"
      [] OTHER                           -> t

\* The type a node gets from its operands' types.
FlowedType(i) ==
    LET l == LocationType(code[i].left)
        r == LocationType(code[i].right)
        t == LocationType(code[i].third)
    IN  CASE code[i].op = "ASSIGN"       -> l
          [] code[i].op = "ASSIGNMEMBER" -> r
          [] code[i].op = "ASSIGNINDEX"  -> t
          [] code[i].op = "ADD"          -> AddType(l, r, rtype[i])
          [] code[i].op = "UNIFY"        -> UnifyType(l, r, rtype[i])
          [] OTHER                       -> rtype[i]

\* mutant: every round counts as one that changed something
AlwaysChanged ==
    /\ pass = "flow"
    /\ at \in Indices
    /\ rtype' = [rtype EXCEPT ![at] = FlowedType(at)]
    /\ changed' = TRUE
    /\ at' = at + 1
    /\ UNCHANGED <<code, pass, uidx>>

FlowNode ==
    /\ pass = "flow"
    /\ at \in Indices
    /\ rtype' = [rtype EXCEPT ![at] = FlowedType(at)]
    /\ changed' = (changed \/ FlowedType(at) # rtype[at])
    /\ at' = at + 1
    /\ UNCHANGED <<code, pass, uidx>>

FlowAgain ==
    /\ pass = "flow"
    /\ at \notin Indices
    /\ changed
    /\ changed' = FALSE
    /\ at' = 0
    /\ UNCHANGED <<code, pass, uidx, rtype>>

FlowEnds ==
    /\ pass = "flow"
    /\ at \notin Indices
    /\ ~changed
    /\ pass' = "lastUse"
    /\ at' = LastIndex
    /\ UNCHANGED <<code, uidx, rtype, changed>>

FlowNext ==
    \/ UnifyNext /\ UNCHANGED flowVars
    \/ FlowNode
    \/ FlowAgain
    \/ FlowEnds

FlowSpec == FlowInit /\ [][FlowNext]_<<unifyVars, flowVars>>
------------------------------------------------------------------------------
\* The type of a node, as the types of its operands' locations say it
Refined(i) ==
    CASE code[i].op = "ASSIGN"       -> LocationType(code[i].left)
      [] code[i].op = "ASSIGNMEMBER" -> LocationType(code[i].right)
      [] code[i].op = "ASSIGNINDEX"  -> LocationType(code[i].third)
      [] code[i].op = "ADD" -> AddType(LocationType(code[i].left), LocationType(code[i].right), "BOXED")
      [] OTHER                       -> code[i].rtype

\* A round has changed a type, or will.
TakesAnotherRound == changed \/ \E i \in Indices : rtype[i] # Refined(i)

\* irFlowTypes gives types to nodes, whatever their operands' types are.
FlowTypeOK ==
    /\ UnifyTypeOK
    /\ rtype \in [Indices -> Types]
    /\ changed \in BOOLEAN

\* A location that several values share is boxed: whichever of them is stored there,
\* whoever reads it finds a pointer.
SharedLocationsAreBoxed ==
    Unified => \A i \in Indices : uidx[i] # i => rtype[uidx[i]] = "BOXED"
==============================================================================
