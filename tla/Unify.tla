-------------------------------- MODULE Unify --------------------------------
(***************************************************************************)
(* irUidx of ir.c, the first pass over a compiled function.  An UNIFY node *)
(* is the phi function of this IR: it says that its two operands are to    *)
(* live in one location.  The pass gives every node a uidx, the index of   *)
(* the node that stands for its location, in two loops from the last node  *)
(* to the first.                                                           *)
(***************************************************************************)
EXTENDS IR

CONSTANT Codes      \* the functions that may be compiled

ASSUME CodesAssumption == \A c \in Codes : WellFormed(c)

VARIABLES
    code,       \* the IR array
    pass,       \* the loop that is running
    at,         \* the node it is at
    uidx        \* the unification target of each node

unifyVars == <<code, pass, at, uidx>>

Indices   == DOMAIN code
LastIndex == CHOOSE i \in Indices : i + 1 \notin Indices

IsUnify(i) == code[i].op = "UNIFY"
------------------------------------------------------------------------------
UnifyInit ==
    /\ code \in Codes
    /\ pass = "default"
    /\ at = LastIndex
    /\ uidx = [i \in Indices |-> 0]

\* first off, default uidxs
DefaultUidx ==
    /\ pass = "default"
    /\ at >= 0
    /\ uidx' = [uidx EXCEPT ![at] = at]
    /\ at' = at - 1
    /\ UNCHANGED <<code, pass>>

DefaultEnds ==
    /\ pass = "default"
    /\ at < 0
    /\ pass' = "unify"
    /\ at' = LastIndex
    /\ UNCHANGED <<code, uidx>>

\* mutants: operands get the UNIFY node itself and not its target; every node's operands
\* move; only the left operand moves
MoveOperands(nodes, target, right) ==
    /\ pass = "unify"
    /\ at >= 0
    /\ uidx' = IF at \in nodes
               THEN [uidx EXCEPT ![code[at].left] = target,
                                 ![right]         = target]
               ELSE uidx
    /\ at' = at - 1
    /\ UNCHANGED <<code, pass>>

Unifies == {i \in Indices : IsUnify(i)}
OperandsToNode    == MoveOperands(Unifies, at, code[at].right)
EveryOperandMoves == MoveOperands(Indices, uidx[at], code[at].right)
OnlyLeftMoves     == MoveOperands(Unifies, uidx[at], code[at].left)

\* then unify: the operands move to the node's own target.  (The node becomes BOXED, which
\* irCompileNode made it already.)
UnifyOperands ==
    /\ pass = "unify"
    /\ at >= 0
    /\ uidx' = IF IsUnify(at)
               THEN [uidx EXCEPT ![code[at].left]  = uidx[at],
                                 ![code[at].right] = uidx[at]]
               ELSE uidx
    /\ at' = at - 1
    /\ UNCHANGED <<code, pass>>

UnifyEnds ==
    /\ pass = "unify"
    /\ at < 0
    /\ pass' = "flow"
    /\ at' = 0
    /\ UNCHANGED <<code, uidx>>

UnifyNext == DefaultUidx \/ DefaultEnds \/ UnifyOperands \/ UnifyEnds

UnifySpec == UnifyInit /\ [][UnifyNext]_unifyVars
------------------------------------------------------------------------------
\* The loops of the compilation of a function, in order; the later ones are in
\* FlowTypes and RegAlloc.
Passes == {"default", "unify", "flow", "lastUse", "assign", "fix", "compiled"}

\* The targets irUidx writes are indices of nodes, in a function as irCompileNode
\* leaves it.
UnifyTypeOK ==
    /\ WellFormed(code)
    /\ pass \in Passes
    /\ at \in Int
    /\ uidx \in [Indices -> Indices]

\* Both loops are over.
Unified == pass \notin {"default", "unify"}

\* Every later pass, and the JIT, follow uidx in a loop to the node that is its own
\* target.  The loop ends, after one link: the target of a target is itself.
ChainsHaveOneLink ==
    Unified => \A i \in Indices : uidx[uidx[i]] = uidx[i]

\* A node shares a location only because an UNIFY node says so, and the location is
\* that of a later node.
TargetsAreUnifies ==
    Unified => \A i \in Indices : uidx[i] # i => uidx[i] > i /\ IsUnify(uidx[i])

\* No value is the operand of two UNIFY nodes.
UnifiedOnce ==
    \A u, v \in Indices :
        /\ IsUnify(u)
        /\ IsUnify(v)
        /\ {code[u].left, code[u].right} \cap {code[v].left, code[v].right} # {}
        => u = v

SharesLocation(u) ==
    /\ uidx[code[u].left] = uidx[u]
    /\ uidx[code[u].right] = uidx[u]

\* The operands of an UNIFY node share its location, which is what UNIFY is for
\* ("two values are to be assigned to the same location", ir.c 38-42) ...
OperandsShareLocation ==
    Unified => \A u \in Indices : IsUnify(u) => SharesLocation(u)

\* ... and they do as long as no value is an operand twice.
OperandsShareLocationIfUnifiedOnce == UnifiedOnce => OperandsShareLocation
==============================================================================
