--------------------------- MODULE FlowTypesProofs ---------------------------
(***************************************************************************)
(* Proofs about Unify and FlowTypes, for every set of well-formed          *)
(* functions.                                                              *)
(*                                                                         *)
(* The second loop of irUidx goes down, and an UNIFY node is after its     *)
(* operands, so when the loop is at a node nothing can still change the    *)
(* node's own target: it is handed to the operands in its final form.      *)
(*                                                                         *)
(* A location that is shared belongs to an UNIFY node, and an UNIFY node   *)
(* stays BOXED in irFlowTypes: its operands' location is that of an UNIFY  *)
(* node too, so none of the cases that would make it more precise can give *)
(* another type.                                                           *)
(***************************************************************************)
EXTENDS FlowTypes, TLAPS

\* The loop of irUidx has handed down the target of u.
Processed(u) == Unified \/ (pass = "unify" /\ u > at)

DefaultDone ==
    pass = "default" => \A i \in Indices : i > at => uidx[i] = i

AtInRange == ~Unified => at \in Indices \cup {-1}

\* Every target is final: the node itself, or an UNIFY node already handed down.
TargetsAreFinal ==
    pass # "default" =>
        \A i \in Indices :
            /\ uidx[uidx[i]] = uidx[i]
            /\ uidx[i] # i => uidx[i] > i /\ IsUnify(uidx[i]) /\ Processed(uidx[i])

OperandsMoved ==
    \A u \in Indices : IsUnify(u) /\ Processed(u) =>
        /\ uidx[code[u].left] # code[u].left
        /\ uidx[code[u].right] # code[u].right

OperandsShareAbove ==
    UnifiedOnce => \A u \in Indices : IsUnify(u) /\ Processed(u) => SharesLocation(u)

UnifyInv ==
    /\ UnifyTypeOK
    /\ AtInRange
    /\ DefaultDone
    /\ TargetsAreFinal
    /\ OperandsMoved
    /\ OperandsShareAbove
------------------------------------------------------------------------------
\* The indices of a well-formed function are 0 .. LastIndex, and the operands of
\* an UNIFY node are indices below its own.
LEMMA CodeShape ==
    ASSUME WellFormed(code)
    PROVE  /\ LastIndex \in Nat
           /\ Indices = 0 .. LastIndex
           /\ \A u \in Indices : IsUnify(u) =>
                /\ code[u].left \in 0 .. u - 1
                /\ code[u].right \in 0 .. u - 1
<1>2. PICK last \in DOMAIN code :
        /\ last \in Nat
        /\ DOMAIN code = 0 .. last
        /\ \A i \in 0 .. last :
             /\ code[i].left \in Nat /\ (code[i].left < i \/ code[i].left = NoOperand)
             /\ code[i].right \in Nat /\ (code[i].right < i \/ code[i].right = NoOperand)
             /\ code[i].op = "UNIFY" => i # 0
  BY DEF WellFormed
<1>3. last \in Indices /\ last + 1 \notin Indices
  BY <1>2 DEF Indices
<1>4. \A i \in Indices : i + 1 \notin Indices => i = last
  BY <1>2 DEF Indices
<1>5. LastIndex = last
  BY <1>3, <1>4 DEF LastIndex
<1> QED
  BY <1>2, <1>5 DEF Indices, IsUnify, NoOperand

LEMMA UnifyInitInv == UnifyInit => UnifyInv
<1> SUFFICES ASSUME UnifyInit PROVE UnifyInv
  OBVIOUS
<1>1. /\ LastIndex \in Nat
      /\ Indices = 0 .. LastIndex
  BY CodesAssumption, CodeShape DEF UnifyInit
<1>2. pass = "default" /\ at = LastIndex /\ uidx = [i \in Indices |-> 0] /\ WellFormed(code)
  BY CodesAssumption DEF UnifyInit
<1> QED
  BY <1>1, <1>2
     DEF UnifyInv, UnifyTypeOK, Passes, AtInRange, Unified, DefaultDone, TargetsAreFinal,
         OperandsMoved, OperandsShareAbove, Processed
------------------------------------------------------------------------------
LEMMA DefaultUidxInv ==
    ASSUME UnifyInv, DefaultUidx
    PROVE  UnifyInv'
<1> USE DEF DefaultUidx, UnifyInv
<1>1. /\ LastIndex \in Nat
      /\ Indices = 0 .. LastIndex
      /\ Indices' = Indices
  BY CodeShape DEF UnifyTypeOK, Indices
<1>2. at \in Indices /\ ~Unified
  BY <1>1 DEF AtInRange, Unified
<1>3. UnifyTypeOK'
  BY <1>1, <1>2 DEF UnifyTypeOK
<1>4. AtInRange'
  BY <1>1, <1>2 DEF AtInRange, Unified
<1>5. DefaultDone'
  <2>1. /\ DOMAIN uidx = Indices /\ at \in Int
        /\ uidx' = [uidx EXCEPT ![at] = at] /\ at' = at - 1 /\ pass = "default"
        /\ \A i \in Indices : i > at => uidx[i] = i
    BY <1>1, <1>2 DEF DefaultDone, UnifyTypeOK
  <2> HIDE DEF DefaultUidx, UnifyInv
  <2>2. \A i \in Indices : i > at' => uidx'[i] = i
    BY <1>1, <2>1
  <2> QED BY <1>1, <2>2 DEF DefaultDone
<1>6. TargetsAreFinal' /\ OperandsMoved' /\ OperandsShareAbove'
  BY DEF TargetsAreFinal, OperandsMoved, OperandsShareAbove, Processed, Unified
<1> QED
  BY <1>3, <1>4, <1>5, <1>6

LEMMA DefaultEndsInv ==
    ASSUME UnifyInv, DefaultEnds
    PROVE  UnifyInv'
<1> USE DEF DefaultEnds, UnifyInv
<1>1. /\ LastIndex \in Nat
      /\ Indices = 0 .. LastIndex
      /\ Indices' = Indices
      /\ LastIndex' = LastIndex
  BY CodeShape DEF UnifyTypeOK, Indices, LastIndex
<1>2. \A i \in Indices : uidx'[i] = i
  BY <1>1 DEF DefaultDone, UnifyTypeOK
<1>3. UnifyTypeOK' /\ AtInRange' /\ DefaultDone'
  BY <1>1 DEF UnifyTypeOK, Passes, AtInRange, DefaultDone, Unified
<1>4. TargetsAreFinal'
  BY <1>1, <1>2 DEF TargetsAreFinal
<1>5. OperandsMoved' /\ OperandsShareAbove'
  BY <1>1 DEF OperandsMoved, OperandsShareAbove, Processed, Unified
<1> QED
  BY <1>3, <1>4, <1>5

LEMMA UnifyEndsInv ==
    ASSUME UnifyInv, UnifyEnds
    PROVE  UnifyInv'
<1> USE DEF UnifyEnds, UnifyInv
<1>1. /\ LastIndex \in Nat
      /\ Indices = 0 .. LastIndex
      /\ Indices' = Indices
  BY CodeShape DEF UnifyTypeOK, Indices
<1>2. at < 0 /\ ~Unified /\ Unified'
  BY DEF Unified
<1>3. \A u \in Indices : Processed(u)
  BY <1>1, <1>2 DEF Processed, AtInRange
<1>4. UnifyTypeOK' /\ AtInRange' /\ DefaultDone'
  BY <1>1, <1>2 DEF UnifyTypeOK, Passes, AtInRange, DefaultDone
<1>5. TargetsAreFinal'
  BY <1>1, <1>2, <1>3 DEF TargetsAreFinal, UnifyTypeOK, IsUnify, Processed
<1>6. OperandsMoved'
  BY <1>1, <1>2, <1>3 DEF OperandsMoved, IsUnify
<1>7. OperandsShareAbove'
  BY <1>1, <1>2, <1>3 DEF OperandsShareAbove, SharesLocation, UnifiedOnce, IsUnify
<1> QED
  BY <1>4, <1>5, <1>6, <1>7

\* The interesting step: an UNIFY node hands its target to its operands.
LEMMA UnifyOperandsInv ==
    ASSUME UnifyInv, UnifyOperands
    PROVE  UnifyInv'
<1>1. /\ LastIndex \in Nat
      /\ Indices = 0 .. LastIndex
      /\ \A u \in Indices : IsUnify(u) =>
           code[u].left \in 0 .. u - 1 /\ code[u].right \in 0 .. u - 1
  BY CodeShape DEF UnifyInv, UnifyTypeOK
<1>2. /\ code' = code
      /\ Indices' = Indices
      /\ pass = "unify" /\ pass' = "unify"
      /\ at' = at - 1
  BY DEF UnifyOperands, Indices
<1>3. at \in Indices /\ at \in Int /\ ~Unified /\ ~Unified'
  BY <1>1, <1>2 DEF UnifyInv, AtInRange, Unified, UnifyOperands
<1>4. uidx \in [Indices -> Indices]
  BY DEF UnifyInv, UnifyTypeOK
<1>5. \A u \in Indices : /\ Processed(u) <=> u > at
                         /\ Processed(u)' <=> u >= at
                         /\ IsUnify(u)' <=> IsUnify(u)
  BY <1>1, <1>2, <1>3 DEF Processed, IsUnify
<1>6. \A i \in Indices :
        /\ uidx[i] \in Indices
        /\ uidx[uidx[i]] = uidx[i]
        /\ uidx[i] # i => uidx[i] > i /\ IsUnify(uidx[i]) /\ uidx[i] > at
  BY <1>2, <1>4, <1>5 DEF UnifyInv, TargetsAreFinal
<1>7. \A u \in Indices : IsUnify(u) /\ u > at =>
        uidx[code[u].left] # code[u].left /\ uidx[code[u].right] # code[u].right
  BY <1>5 DEF UnifyInv, OperandsMoved
<1>8. UnifiedOnce => \A u \in Indices : IsUnify(u) /\ u > at => SharesLocation(u)
  BY <1>5 DEF UnifyInv, OperandsShareAbove
<1>9. UnifiedOnce' <=> UnifiedOnce
  BY <1>2 DEF UnifiedOnce, IsUnify, Indices
<1>10. AtInRange' /\ DefaultDone'
  BY <1>1, <1>2, <1>3 DEF AtInRange, DefaultDone
<1>11. /\ UnifyTypeOK'
       /\ \A i \in Indices :
            /\ uidx'[uidx'[i]] = uidx'[i]
            /\ uidx'[i] # i => uidx'[i] > i /\ IsUnify(uidx'[i]) /\ uidx'[i] >= at
       /\ \A u \in Indices : IsUnify(u) /\ u >= at =>
            uidx'[code[u].left] # code[u].left /\ uidx'[code[u].right] # code[u].right
       /\ UnifiedOnce => \A u \in Indices : IsUnify(u) /\ u >= at =>
            uidx'[code[u].left] = uidx'[u] /\ uidx'[code[u].right] = uidx'[u]
  <2>1. CASE ~IsUnify(at)
    <3>1. uidx' = uidx
      BY <2>1 DEF UnifyOperands
    <3>2. UnifyTypeOK'
      BY <1>2, <1>3, <3>1 DEF UnifyInv, UnifyTypeOK
    <3>3. \A u \in Indices : IsUnify(u) /\ u >= at => u > at
      BY <1>1, <1>3, <2>1
    <3> QED
      BY <1>1, <1>3, <1>6, <1>7, <1>8, <3>1, <3>2, <3>3 DEF SharesLocation
  <2>2. CASE IsUnify(at)
    <3> DEFINE l == code[at].left
               r == code[at].right
               t == uidx[at]
    <3>1. l \in Indices /\ l < at /\ r \in Indices /\ r < at /\ t \in Indices /\ t >= at
      BY <1>1, <1>3, <1>6, <2>2
    <3>2. uidx' = [uidx EXCEPT ![l] = t, ![r] = t]
      BY <2>2 DEF UnifyOperands
    <3>3. \A i \in Indices : uidx'[i] = IF i = l \/ i = r THEN t ELSE uidx[i]
      BY <1>4, <3>1, <3>2
    <3>4. uidx' \in [Indices -> Indices]
      BY <1>4, <3>1, <3>2
    <3>5. t # l /\ t # r /\ uidx[t] = t /\ IsUnify(t)
      BY <1>1, <1>3, <1>6, <2>2, <3>1
    <3>6. \A i \in Indices : uidx[i] # i => uidx[i] # l /\ uidx[i] # r
      BY <1>1, <1>3, <1>6, <3>1
    <3> HIDE DEF l, r, t
    <3>7. UnifyTypeOK'
      BY <1>2, <1>3, <3>4 DEF UnifyInv, UnifyTypeOK
    <3>8. ASSUME NEW i \in Indices
          PROVE  /\ uidx'[uidx'[i]] = uidx'[i]
                 /\ uidx'[i] # i => uidx'[i] > i /\ IsUnify(uidx'[i]) /\ uidx'[i] >= at
      <4>1. CASE i = l \/ i = r
        BY <1>1, <1>3, <3>1, <3>3, <3>5, <4>1
      <4>2. CASE ~(i = l \/ i = r)
        <5>1. uidx'[i] = uidx[i]
          BY <3>3, <4>2
        <5>2. uidx'[uidx[i]] = uidx[i]
          BY <1>6, <3>3, <3>6, <4>2
        <5>3. uidx[i] > at => uidx[i] >= at
          BY <1>1, <1>3, <1>6
        <5> QED
          BY <1>6, <5>1, <5>2, <5>3
      <4> QED
        BY <4>1, <4>2
    <3>9. ASSUME NEW u \in Indices, IsUnify(u), u >= at
          PROVE  uidx'[code[u].left] # code[u].left /\ uidx'[code[u].right] # code[u].right
      <4>1. code[u].left \in Indices /\ code[u].right \in Indices
        BY <1>1, <3>9
      <4>2. CASE u = at
        BY <3>1, <3>3, <3>5, <4>2 DEF l, r
      <4>3. CASE u > at
        BY <1>7, <3>3, <3>5, <3>9, <4>1, <4>3
      <4> QED
        BY <1>1, <1>3, <3>9, <4>2, <4>3
    <3>10. ASSUME UnifiedOnce, NEW u \in Indices, IsUnify(u), u >= at
           PROVE  uidx'[code[u].left] = uidx'[u] /\ uidx'[code[u].right] = uidx'[u]
      <4>1. u # l /\ u # r
        BY <1>1, <1>3, <3>1, <3>10
      <4>2. uidx'[u] = uidx[u]
        BY <3>3, <4>1
      <4>3. CASE u = at
        BY <3>1, <3>3, <4>2, <4>3 DEF l, r, t
      <4>4. CASE u > at
        <5>1. {code[u].left, code[u].right} \cap {l, r} = {}
          BY <1>3, <2>2, <3>10, <4>4 DEF UnifiedOnce, l, r
        <5>2. uidx[code[u].left] = uidx[u] /\ uidx[code[u].right] = uidx[u]
          BY <1>8, <3>10, <4>4 DEF SharesLocation
        <5>3. code[u].left \in Indices /\ code[u].right \in Indices
          BY <1>1, <3>10
        <5> QED
          BY <3>3, <4>2, <5>1, <5>2, <5>3
      <4> QED
        BY <1>1, <1>3, <3>10, <4>3, <4>4
    <3> QED
      BY <3>7, <3>8, <3>9, <3>10
  <2> QED
    BY <2>1, <2>2
<1>12. TargetsAreFinal'
  <2>1. \A i \in Indices : uidx'[i] \in Indices
    BY <1>2, <1>11 DEF UnifyTypeOK
  <2> QED
    BY <1>2, <1>5, <1>11, <2>1 DEF TargetsAreFinal
<1>13. OperandsMoved'
  BY <1>2, <1>5, <1>11 DEF OperandsMoved
<1>14. OperandsShareAbove'
  BY <1>2, <1>5, <1>9, <1>11 DEF OperandsShareAbove, SharesLocation
<1> QED
  BY <1>10, <1>11, <1>12, <1>13, <1>14 DEF UnifyInv

\* Every step of the pass keeps the invariant.
LEMMA UnifyNextInv ==
    ASSUME UnifyInv, [UnifyNext]_unifyVars
    PROVE  UnifyInv'
<1>1. CASE UnifyNext
  BY <1>1, DefaultUidxInv, DefaultEndsInv, UnifyOperandsInv, UnifyEndsInv DEF UnifyNext
<1>2. CASE UNCHANGED unifyVars
  BY <1>2
     DEF unifyVars, UnifyInv, UnifyTypeOK, AtInRange, DefaultDone, TargetsAreFinal,
         OperandsMoved, OperandsShareAbove, Processed, Unified, Indices, IsUnify,
         UnifiedOnce, SharesLocation
<1> QED
  BY <1>1, <1>2

\* What the invariant says once the pass is over.
LEMMA UnifyInvImplies ==
    ASSUME UnifyInv
    PROVE  ChainsHaveOneLink /\ TargetsAreUnifies /\ OperandsShareLocationIfUnifiedOnce
BY DEF UnifyInv, Unified, TargetsAreFinal, OperandsShareAbove, Processed,
       ChainsHaveOneLink, TargetsAreUnifies, OperandsShareLocationIfUnifiedOnce,
       OperandsShareLocation
------------------------------------------------------------------------------
\* In every function the pass can be given, the chain that the later passes and the
\* JIT follow from a node to the node of its location ends, after one link.
THEOREM AlwaysChainsHaveOneLink == UnifySpec => []ChainsHaveOneLink
<1>1. UnifySpec => []UnifyInv
  BY UnifyInitInv, UnifyNextInv, PTL DEF UnifySpec
<1>2. UnifyInv => ChainsHaveOneLink
  BY UnifyInvImplies
<1> QED
  BY <1>1, <1>2, PTL

\* Nodes come to share a location only through UNIFY nodes.
THEOREM AlwaysTargetsAreUnifies == UnifySpec => []TargetsAreUnifies
<1>1. UnifySpec => []UnifyInv
  BY UnifyInitInv, UnifyNextInv, PTL DEF UnifySpec
<1>2. UnifyInv => TargetsAreUnifies
  BY UnifyInvImplies
<1> QED
  BY <1>1, <1>2, PTL

\* In a function where no value is the operand of two UNIFY nodes, every UNIFY node
\* and its operands share one location.  Without that premise they may not: see the
\* run two_conditionals.
THEOREM AlwaysOperandsShareLocationIfUnifiedOnce ==
    UnifySpec => []OperandsShareLocationIfUnifiedOnce
<1>1. UnifySpec => []UnifyInv
  BY UnifyInitInv, UnifyNextInv, PTL DEF UnifySpec
<1>2. UnifyInv => OperandsShareLocationIfUnifiedOnce
  BY UnifyInvImplies
<1> QED
  BY <1>1, <1>2, PTL
------------------------------------------------------------------------------
UnifiesAreBoxed == \A u \in Indices : IsUnify(u) => rtype[u] = "BOXED"

FlowInv ==
    /\ UnifyInv
    /\ FlowTypeOK
    /\ UnifiesAreBoxed
------------------------------------------------------------------------------
\* Every operand is the index of a node, and no function is empty.
LEMMA OperandsInRange ==
    ASSUME WellFormed(code)
    PROVE  /\ NoOperand \in Indices
           /\ \A i \in Indices :
                /\ code[i].left \in Indices
                /\ code[i].right \in Indices
                /\ code[i].third \in Indices
                /\ code[i].rtype \in Types
                /\ IsUnify(i) => code[i].rtype = "BOXED"
<1>1. PICK last \in DOMAIN code :
        /\ last \in Nat
        /\ DOMAIN code = 0 .. last
        /\ \A i \in 0 .. last :
             /\ \A v \in {code[i].left, code[i].right, code[i].third} :
                  v \in Nat /\ (v < i \/ v = NoOperand)
             /\ code[i].rtype \in Types
             /\ code[i].op = "UNIFY" => i # 0 /\ code[i].rtype = "BOXED"
  BY DEF WellFormed
<1>2. NoOperand \in Indices
  BY <1>1 DEF Indices, NoOperand
<1>3. ASSUME NEW i \in Indices, NEW v \in {code[i].left, code[i].right, code[i].third}
      PROVE  v \in Indices
  BY <1>1, <1>3 DEF Indices, NoOperand
<1> QED
  BY <1>1, <1>2, <1>3 DEF Indices, IsUnify

\* The pass gives types to types.
LEMMA FlowedTypeIsType ==
    ASSUME FlowInv, NEW i \in Indices
    PROVE  FlowedType(i) \in Types
<1> DEFINE l == LocationType(code[i].left)
           r == LocationType(code[i].right)
           t == LocationType(code[i].third)
<1>1. WellFormed(code)
  BY DEF FlowInv, UnifyInv, UnifyTypeOK
<1>2. uidx \in [Indices -> Indices] /\ rtype \in [Indices -> Types]
  BY DEF FlowInv, FlowTypeOK, UnifyTypeOK
<1>3. l \in Types /\ r \in Types /\ t \in Types /\ rtype[i] \in Types
  BY <1>1, <1>2, OperandsInRange DEF LocationType
<1>4. "INT" \in Types /\ "STRING" \in Types /\ "BOXED_BOOL" \in Types /\ "BOXED_INT" \in Types
  BY DEF Types, UnboxedTypes, BoxedTypes
<1>5. AddType(l, r, rtype[i]) \in Types
  BY <1>3, <1>4 DEF AddType
<1>6. UnifyType(l, r, rtype[i]) \in Types
  BY <1>3, <1>4 DEF UnifyType
<1> QED
  BY <1>3, <1>5, <1>6 DEF FlowedType

\* An UNIFY node's operands are in the location of an UNIFY node, which is boxed.
LEMMA FlowedUnifyIsBoxed ==
    ASSUME FlowInv, Unified, NEW u \in Indices, IsUnify(u)
    PROVE  FlowedType(u) = "BOXED"
<1>1. code[u].left \in Indices /\ code[u].right \in Indices
  BY OperandsInRange DEF FlowInv, UnifyInv, UnifyTypeOK
<1>2. uidx[code[u].left] # code[u].left /\ uidx[code[u].right] # code[u].right
  BY DEF FlowInv, UnifyInv, OperandsMoved, Processed
<1>3. IsUnify(uidx[code[u].left]) /\ IsUnify(uidx[code[u].right])
  BY <1>1, <1>2 DEF FlowInv, UnifyInv, TargetsAreFinal, Unified
<1>4. uidx[code[u].left] \in Indices /\ uidx[code[u].right] \in Indices
  BY <1>1 DEF FlowInv, UnifyInv, UnifyTypeOK
<1>5. LocationType(code[u].left) = "BOXED" /\ LocationType(code[u].right) = "BOXED"
  BY <1>3, <1>4 DEF FlowInv, UnifiesAreBoxed, LocationType
<1> QED
  BY <1>5 DEF FlowedType, UnifyType, IsUnify
------------------------------------------------------------------------------
\* Only this pass is left to disturb the types; what irUidx established stays.
LEMMA KeepsUnifyInv ==
    ASSUME UnifyInv, Unified, Unified', UNCHANGED <<code, uidx>>, at' \in Int, pass' \in Passes
    PROVE  UnifyInv'
<1>1. /\ Indices' = Indices
      /\ \A i : IsUnify(i)' <=> IsUnify(i)
      /\ \A u : Processed(u) /\ Processed(u)'
      /\ pass # "default" /\ pass' # "default"
  BY DEF Indices, IsUnify, Processed, Unified
<1>2. UnifyTypeOK' /\ AtInRange' /\ DefaultDone'
  BY <1>1 DEF UnifyInv, UnifyTypeOK, AtInRange, DefaultDone
<1>3. TargetsAreFinal'
  BY <1>1 DEF UnifyInv, TargetsAreFinal
<1>4. OperandsMoved'
  BY <1>1 DEF UnifyInv, OperandsMoved
<1>5. OperandsShareAbove'
  BY <1>1 DEF UnifyInv, OperandsShareAbove, UnifiedOnce, SharesLocation
<1> QED
  BY <1>2, <1>3, <1>4, <1>5 DEF UnifyInv

LEMMA FlowInitInv == FlowInit => FlowInv
<1> SUFFICES ASSUME FlowInit PROVE FlowInv
  OBVIOUS
<1>1. UnifyInv
  BY UnifyInitInv DEF FlowInit
<1>2. WellFormed(code)
  BY <1>1 DEF UnifyInv, UnifyTypeOK
<1> QED
  BY <1>1, <1>2, OperandsInRange DEF FlowInit, FlowInv, FlowTypeOK, UnifyInv, UnifiesAreBoxed

LEMMA UnifyStepInv ==
    ASSUME FlowInv, UnifyNext, UNCHANGED flowVars
    PROVE  FlowInv'
<1>1. UnifyInv'
  BY UnifyNextInv DEF FlowInv
<1>2. code' = code /\ rtype' = rtype /\ changed' = changed
  BY DEF UnifyNext, DefaultUidx, DefaultEnds, UnifyOperands, UnifyEnds, flowVars
<1> QED
  BY <1>1, <1>2 DEF FlowInv, FlowTypeOK, UnifyInv, UnifiesAreBoxed, Indices, IsUnify

LEMMA FlowNodeInv ==
    ASSUME FlowInv, FlowNode
    PROVE  FlowInv'
<1>1. Unified /\ Unified' /\ at \in Indices /\ UNCHANGED <<code, pass, uidx>> /\ at' = at + 1
  BY DEF FlowNode, Unified
<1>2. UnifyInv'
  BY <1>1, KeepsUnifyInv DEF FlowInv, UnifyInv, UnifyTypeOK, Passes
<1>3. FlowedType(at) \in Types
  BY <1>1, FlowedTypeIsType
<1>4. rtype' \in [Indices -> Types] /\ changed' \in BOOLEAN
  BY <1>3 DEF FlowNode, FlowInv, FlowTypeOK
<1>5. IsUnify(at) => FlowedType(at) = "BOXED"
  BY <1>1, FlowedUnifyIsBoxed
<1>6. \A u \in Indices : rtype'[u] = IF u = at THEN FlowedType(at) ELSE rtype[u]
  BY DEF FlowNode, FlowInv, FlowTypeOK
<1>7. UnifiesAreBoxed'
  BY <1>1, <1>5, <1>6 DEF FlowInv, UnifiesAreBoxed, Indices, IsUnify
<1> QED
  BY <1>1, <1>2, <1>4, <1>7 DEF FlowInv, FlowTypeOK, UnifyInv, Indices

\* The steps from one round to the next and to the next pass.
LEMMA RoundInv ==
    ASSUME FlowInv, FlowAgain \/ FlowEnds
    PROVE  FlowInv'
<1>1. /\ Unified /\ Unified'
      /\ UNCHANGED <<code, uidx, rtype>>
      /\ pass' \in Passes
      /\ changed' \in BOOLEAN
  BY DEF FlowAgain, FlowEnds, Unified, Passes, FlowInv, FlowTypeOK
<1>2. LastIndex \in Nat
  BY CodeShape DEF FlowInv, UnifyInv, UnifyTypeOK
<1>3. at' \in Int
  BY <1>2 DEF FlowAgain, FlowEnds
<1>4. UnifyInv'
  BY <1>1, <1>3, KeepsUnifyInv DEF FlowInv
<1> QED
  BY <1>1, <1>4 DEF FlowInv, FlowTypeOK, UnifyInv, UnifiesAreBoxed, Indices, IsUnify

LEMMA FlowNextInv ==
    ASSUME FlowInv, [FlowNext]_<<unifyVars, flowVars>>
    PROVE  FlowInv'
<1>1. CASE FlowNext
  BY <1>1, UnifyStepInv, FlowNodeInv, RoundInv DEF FlowNext
<1>2. CASE UNCHANGED <<unifyVars, flowVars>>
  <2>1. UnifyInv'
    BY <1>2, UnifyNextInv DEF FlowInv
  <2> QED
    BY <1>2, <2>1
       DEF FlowInv, FlowTypeOK, UnifyInv, UnifiesAreBoxed, Indices, IsUnify, unifyVars, flowVars
<1> QED
  BY <1>1, <1>2
------------------------------------------------------------------------------
\* Whatever function is compiled, indices stay indices and types stay types while its
\* values are unified and their types refined.
THEOREM AlwaysFlowTypeOK == FlowSpec => []FlowTypeOK
<1>1. FlowSpec => []FlowInv
  BY FlowInitInv, FlowNextInv, PTL DEF FlowSpec
<1>2. FlowInv => FlowTypeOK
  BY DEF FlowInv
<1> QED
  BY <1>1, <1>2, PTL

\* Whatever function is compiled, a location that several of its values share is boxed
\* in every round of irFlowTypes, and so it is when the slots are handed out.
THEOREM AlwaysSharedLocationsAreBoxed == FlowSpec => []SharedLocationsAreBoxed
<1>1. FlowSpec => []FlowInv
  BY FlowInitInv, FlowNextInv, PTL DEF FlowSpec
<1>2. ASSUME FlowInv PROVE SharedLocationsAreBoxed
  <2>1. \A i \in Indices : uidx[i] \in Indices
    BY <1>2 DEF FlowInv, UnifyInv, UnifyTypeOK
  <2>2. \A i \in Indices : Unified /\ uidx[i] # i => IsUnify(uidx[i])
    BY <1>2 DEF FlowInv, UnifyInv, TargetsAreFinal, Unified
  <2> QED
    BY <1>2, <2>1, <2>2 DEF FlowInv, UnifiesAreBoxed, SharedLocationsAreBoxed
<1> QED
  BY <1>1, <1>2, PTL
==============================================================================
