---------------------------- MODULE CompiledProofs ---------------------------
(***************************************************************************)
(* What the passes leave to the machine code, for every function that is   *)
(* structured as irCompileNode makes it: the types that irFlowTypes ends   *)
(* with are those that the operands' locations say, and after a value was  *)
(* put into its slot, no node before its last use puts another there.      *)
(***************************************************************************)
EXTENDS AllocProofs

\* The first round of irFlowTypes finds all types; the second finds that nothing changes.
TypesRefined ==
    /\ ~Unified => \A i \in Indices : rtype[i] = code[i].rtype
    /\ pass = "flow" =>
         /\ at \in Nat
         /\ \A i \in Indices : i < at => rtype[i] = Refined(i)
         /\ \/ \A i \in Indices : i >= at => rtype[i] = code[i].rtype
            \/ \A i \in Indices : rtype[i] = Refined(i)
    /\ Unified /\ pass # "flow" => \A i \in Indices : rtype[i] = Refined(i)

\* The types there are: no boxed number and no boxed boolean.  What has a value has a type.
ArisingTypes == {"NIL", "UNDEFINED", "BOOL", "INT", "BOXED", "STRING", "OBJECT"}

TypesArise ==
    \A i \in Indices :
        /\ rtype[i] \in ArisingTypes
        /\ Unified /\ (pass = "flow" => i < at) /\ IsValue(code[i].op) => rtype[i] # "NIL"

\* Only an UNIFY node has a place before its turn, which is its location's.
NotYetPlaced ==
    pass = "assign" => \A i \in Indices : i >= at /\ ~IsUnify(i) => place[i] = Nowhere

\* An argument's place is an argument slot.
ArgumentsPlaced ==
    Placing => \A i \in Indices : Done(i) /\ IsArg(i) => place[i].stype = "ASTK"

SameSlot(i, j) ==
    /\ place[i].stype \in Stacks
    /\ place[j].stype = place[i].stype
    /\ place[j].addr - Offset(j) = place[i].addr - Offset(i)

\* A node after j uses the location of i.
LocationUsedAfter(i, j) == \E k \in Indices : k > j /\ uidx[i] \in Locations(k)

\* No node of another location stores into a value's slot before the last use of its location.
SlotsApart ==
    Placing /\ CallsGiveBackTheDead =>
        \A i, j \in Indices :
            uidx[i] # uidx[j] /\ i < j /\ Done(j) /\ ~IsUnify(j) /\ LocationUsedAfter(i, j) => ~SameSlot(i, j)

CompiledInv ==
    /\ AllocInv
    /\ Structured(code)
    /\ TypesRefined
    /\ TypesArise
    /\ NotYetPlaced
    /\ ArgumentsPlaced
    /\ SlotsApart
------------------------------------------------------------------------------
\* What a structured function's nodes are and use
LEMMA StructureFacts ==
    ASSUME WellFormed(code), Structured(code), NEW i \in Indices
    PROVE  /\ code[i].op = "ALLOCA" <=> i = 0
           /\ code[i].op = "PALLOCA" <=> i = 1
           /\ i + 1 \notin Indices => code[i].op = "POPA"
           /\ code[i].rtype \in InitialTypes(code[i].op)
           /\ \A v \in Used(i) : IsValue(code[v].op) <=> code[i].op \notin {"IFELSE", "IFEND", "WEND"}
           /\ code[i].op = "ASSIGN" => code[i].left \in Used(i)
           /\ code[i].op = "ASSIGNMEMBER" => code[i].right \in Used(i)
           /\ code[i].op = "ASSIGNINDEX" => code[i].third \in Used(i)
           /\ code[i].op = "WEND" => code[code[i].left].op = "WHILE"
<1>1. Used(i) = {code[i].left, code[i].right, code[i].third} \ {NoOperand}
  BY UsedOperands
<1>2. i \in DOMAIN code
  BY DEF Indices
<1>3. /\ code[i].op = "ALLOCA" <=> i = 0
      /\ code[i].op = "PALLOCA" <=> i = 1
      /\ i + 1 \notin DOMAIN code => code[i].op = "POPA"
      /\ code[i].rtype \in InitialTypes(code[i].op)
      /\ \A v \in {code[i].left, code[i].right, code[i].third} \ {NoOperand} :
           IsValue(code[v].op) <=> code[i].op \notin {"IFELSE", "IFEND", "WEND"}
      /\ code[i].op = "WEND" => code[code[i].left].op = "WHILE"
  BY <1>2 DEF Structured
<1>4. /\ code[i].op = "ASSIGN" => code[i].left # NoOperand \/ i = NoOperand
      /\ code[i].op = "ASSIGNMEMBER" => code[i].right # NoOperand \/ i = NoOperand
      /\ code[i].op = "ASSIGNINDEX" => code[i].third # NoOperand \/ i = NoOperand
  BY <1>2 DEF Structured
<1>5. code[i].op \in {"ASSIGN", "ASSIGNMEMBER", "ASSIGNINDEX"} => i # NoOperand
  BY <1>3 DEF NoOperand
<1> QED BY <1>1, <1>3, <1>4, <1>5 DEF Indices

\* Operands come before their nodes.
LEMMA UsedBefore ==
    ASSUME WellFormed(code), NEW i \in Indices, NEW v \in Used(i)
    PROVE  v \in Indices /\ v \in Nat /\ i \in Nat /\ v < i /\ v # NoOperand
<1>1. Used(i) = {code[i].left, code[i].right, code[i].third} \ {NoOperand}
  BY UsedOperands
<1>2. v \in Nat /\ v < i
  BY <1>1 DEF WellFormed, Indices
<1> QED BY <1>1, <1>2, CodeFacts

\* The initial types are among those that arise; that of an operation with a value is no
\* type only for an assignment to a member.
LEMMA InitialFacts ==
    ASSUME NEW op, NEW t \in InitialTypes(op)
    PROVE  /\ t \in ArisingTypes
           /\ IsValue(op) /\ op # "ASSIGNMEMBER" => t # "NIL"
           /\ ~IsValue(op) => t = "NIL"
           /\ op \in {"ASSIGN", "ADD", "UNIFY"} => t = "BOXED"
           /\ t = "OBJECT" => op \in {"TOP", "OBJ"}
           /\ t = "BOOL" => op \in Comparison \cup {"NOT", "FALSE", "TRUE"}
           /\ t = "INT" => op \in Arithmetic \cup {"NUM"}
           /\ t = "UNDEFINED" => op = "NIL"
<1> USE DEF InitialTypes, ArisingTypes, Arithmetic, Comparison
<1>1. /\ t \in ArisingTypes
      /\ op \in {"ASSIGN", "ADD", "UNIFY"} => t = "BOXED"
      /\ t = "OBJECT" => op \in {"TOP", "OBJ"}
      /\ t = "BOOL" => op \in Comparison \cup {"NOT", "FALSE", "TRUE"}
      /\ t = "INT" => op \in Arithmetic \cup {"NUM"}
      /\ t = "UNDEFINED" => op = "NIL"
  OBVIOUS
<1>2. IsValue(op) /\ op # "ASSIGNMEMBER" => t # "NIL"
  BY DEF IsValue
<1>3. ~IsValue(op) => t = "NIL"
  BY DEF IsValue
<1> QED BY <1>1, <1>2, <1>3
------------------------------------------------------------------------------
\* The type of a location, once values are unified: that of its node, or BOXED.
LEMMA TypeOfLocation ==
    ASSUME FlowInv, Unified, NEW v \in Indices
    PROVE  /\ uidx[v] \in Indices
           /\ uidx[v] = v => LocationType(v) = rtype[v]
           /\ uidx[v] # v => LocationType(v) = "BOXED" /\ IsUnify(uidx[v])
<1>1. uidx[v] \in Indices
  BY DEF FlowInv, UnifyInv, UnifyTypeOK
<1>2. uidx[v] # v => IsUnify(uidx[v])
  BY DEF FlowInv, UnifyInv, TargetsAreFinal, Unified
<1> QED BY <1>1, <1>2 DEF LocationType, FlowInv, UnifiesAreBoxed

\* An operand of an UNIFY node is elsewhere.
LEMMA JoinedMoves ==
    ASSUME FlowInv, Unified, NEW v \in Indices, Joined(code, v)
    PROVE  uidx[v] # v
BY DEF FlowInv, UnifyInv, OperandsMoved, Processed, Joined, Indices, IsUnify

LEMMA AddTypeFacts ==
    ASSUME NEW l \in ArisingTypes, NEW r \in ArisingTypes
    PROVE  /\ AddType(l, r, "BOXED") \in {"INT", "STRING", "BOXED"}
           /\ AddType(l, r, AddType(l, r, "BOXED")) = AddType(l, r, "BOXED")
           /\ AddType(l, r, "BOXED") = "INT" => l = "INT" /\ r = "INT"
           /\ l = "BOOL" /\ r = "BOOL" => AddType(l, r, "BOXED") = "STRING"
BY DEF AddType, IsInt, ArisingTypes
------------------------------------------------------------------------------
\* An operand's location keeps its type while a later node gets one.
LEMMA EarlierTypesStay ==
    ASSUME FlowInv, FlowInv', UNCHANGED <<code, uidx>>, Unified, Unified', NEW n \in Indices,
           \A i \in Indices : i # n => rtype'[i] = rtype[i],
           NEW v \in Indices, v # n
    PROVE  LocationType(v)' = LocationType(v)
<1>1. Indices' = Indices /\ \A i : IsUnify(i)' = IsUnify(i)
  BY DEF Indices, IsUnify
<1>2. uidx[v] \in Indices /\ (uidx[v] # v => LocationType(v) = "BOXED" /\ IsUnify(uidx[v]))
  BY TypeOfLocation
<1>3. CASE uidx[v] = v
  BY <1>3 DEF LocationType
<1>4. CASE uidx[v] # v
  <2>1. rtype'[uidx[v]] = "BOXED"
    BY <1>1, <1>2, <1>4 DEF FlowInv, UnifiesAreBoxed
  <2> QED BY <1>2, <1>4, <2>1 DEF LocationType
<1> QED BY <1>3, <1>4

\* A round gives a node the type that its operands' locations say.
LEMMA FlowedIsRefined ==
    ASSUME FlowInv, Structured(code), TypesRefined, TypesArise, pass = "flow", at \in Indices
    PROVE  FlowedType(at) = Refined(at)
<1>1. Unified /\ WellFormed(code)
  BY DEF Unified, FlowInv, UnifyInv, UnifyTypeOK
<1>2. rtype[at] = code[at].rtype \/ rtype[at] = Refined(at)
  <2>1. at >= at
    BY CodeFacts, <1>1
  <2> QED BY <2>1 DEF TypesRefined
<1>3. CASE code[at].op = "UNIFY"
  <2>1. FlowedType(at) = "BOXED" /\ code[at].rtype = "BOXED"
    BY <1>1, <1>3, FlowedUnifyIsBoxed, OperandsInRange DEF IsUnify
  <2> QED BY <1>3, <2>1 DEF Refined
<1>4. CASE code[at].op = "ADD"
  <2> DEFINE l == LocationType(code[at].left)
             r == LocationType(code[at].right)
  <2>1. l \in ArisingTypes /\ r \in ArisingTypes
    BY <1>1, CodeFacts, TypeOfLocation DEF LocationType, TypesArise
  <2>2. code[at].rtype = "BOXED"
    BY <1>1, <1>4, StructureFacts, InitialFacts
  <2>3. rtype[at] = "BOXED" \/ rtype[at] = AddType(l, r, "BOXED")
    BY <1>2, <1>4, <2>2 DEF Refined
  <2>4. AddType(l, r, AddType(l, r, "BOXED")) = AddType(l, r, "BOXED")
    BY <2>1, AddTypeFacts
  <2>5. FlowedType(at) = AddType(l, r, rtype[at]) /\ Refined(at) = AddType(l, r, "BOXED")
    BY <1>4 DEF FlowedType, Refined
  <2> HIDE DEF l, r
  <2> QED BY <2>3, <2>4, <2>5
<1>5. CASE code[at].op \in {"ASSIGN", "ASSIGNMEMBER", "ASSIGNINDEX"}
  BY <1>5 DEF FlowedType, Refined
<1>6. CASE code[at].op \notin {"ASSIGN", "ASSIGNMEMBER", "ASSIGNINDEX", "ADD", "UNIFY"}
  BY <1>2, <1>6 DEF FlowedType, Refined
<1> QED BY <1>3, <1>4, <1>5, <1>6

\* The type a node is given arises, and is one if the node has a value.
LEMMA RefinedArises ==
    ASSUME FlowInv, Unified, Structured(code), TypesArise, NEW i \in Indices, pass = "flow" => i <= at
    PROVE  Refined(i) \in ArisingTypes /\ (IsValue(code[i].op) => Refined(i) # "NIL")
<1>1. WellFormed(code) /\ LastIndex \in Nat /\ Indices = 0 .. LastIndex
  BY CodeFacts DEF FlowInv, UnifyInv, UnifyTypeOK
<1>2. \A v \in Indices : LocationType(v) \in ArisingTypes
  BY TypeOfLocation DEF LocationType, TypesArise
<1>3. ASSUME NEW v \in Used(i), code[i].op \in {"ASSIGN", "ASSIGNMEMBER", "ASSIGNINDEX"}
      PROVE  LocationType(v) \in ArisingTypes /\ LocationType(v) # "NIL"
  <2>1. v \in Indices /\ v < i
    BY <1>1, UsedBefore
  <2>2. IsValue(code[v].op)
    BY <1>1, <1>3, StructureFacts
  <2>3. pass = "flow" => v < at
    <3> SUFFICES ASSUME pass = "flow" PROVE v < at
      OBVIOUS
    <3>1. at \in Int /\ i <= at /\ v \in Int /\ i \in Int
      BY <1>1, <2>1 DEF FlowInv, UnifyInv, UnifyTypeOK
    <3> QED BY <2>1, <3>1
  <2>4. rtype[v] # "NIL"
    BY <2>1, <2>2, <2>3 DEF TypesArise
  <2>5. LocationType(v) = rtype[v] \/ LocationType(v) = "BOXED"
    BY <2>1, TypeOfLocation
  <2> QED BY <1>2, <2>1, <2>4, <2>5
<1>4. CASE code[i].op \in {"ASSIGN", "ASSIGNMEMBER", "ASSIGNINDEX"}
  <2>1. PICK v \in Used(i) : Refined(i) = LocationType(v)
    BY <1>1, <1>4, StructureFacts DEF Refined
  <2> QED BY <1>3, <1>4, <2>1
<1>5. CASE code[i].op = "ADD"
  <2>1. LocationType(code[i].left) \in ArisingTypes /\ LocationType(code[i].right) \in ArisingTypes
    BY <1>1, <1>2, CodeFacts
  <2>2. Refined(i) \in {"INT", "STRING", "BOXED"}
    BY <1>5, <2>1, AddTypeFacts DEF Refined
  <2> QED BY <2>2 DEF ArisingTypes
<1>6. CASE code[i].op \notin {"ASSIGN", "ASSIGNMEMBER", "ASSIGNINDEX", "ADD"}
  <2>1. Refined(i) = code[i].rtype
    BY <1>6 DEF Refined
  <2>2. code[i].rtype \in InitialTypes(code[i].op)
    BY <1>1, StructureFacts
  <2> QED BY <1>6, <2>1, <2>2, InitialFacts
<1> QED BY <1>4, <1>5, <1>6

LEMMA FlowNodeTypes ==
    ASSUME FlowInv, FlowInv', Structured(code), TypesRefined, TypesArise, FlowNode
    PROVE  TypesRefined' /\ TypesArise'
<1>1. /\ pass = "flow" /\ pass' = "flow" /\ Unified /\ Unified' /\ at \in Indices /\ at' = at + 1
      /\ UNCHANGED <<code, uidx>> /\ Indices' = Indices
  BY DEF FlowNode, Unified, Indices
<1>2. WellFormed(code) /\ LastIndex \in Nat /\ Indices = 0 .. LastIndex
  BY CodeFacts DEF FlowInv, UnifyInv, UnifyTypeOK
<1>3. FlowedType(at) = Refined(at)
  BY <1>1, FlowedIsRefined
<1>4. /\ rtype \in [Indices -> Types]
      /\ rtype' = [rtype EXCEPT ![at] = Refined(at)]
  BY <1>3 DEF FlowNode, FlowInv, FlowTypeOK
<1>5. \A i \in Indices : rtype'[i] = IF i = at THEN Refined(at) ELSE rtype[i]
  BY <1>4
<1>6. ASSUME NEW i \in Indices, i <= at
      PROVE  Refined(i)' = Refined(i)
  <2>1. CASE i = 0
    <3>1. code[i].op = "ALLOCA" /\ code'[i].op = "ALLOCA"
      BY <1>1, <1>2, <2>1, StructureFacts
    <3> QED BY <1>1, <3>1 DEF Refined
  <2>2. CASE i # 0
    <3>1. ASSUME NEW v \in {code[i].left, code[i].right, code[i].third}
          PROVE  LocationType(v)' = LocationType(v)
      <4>1. v \in Indices
        BY <1>2, CodeFacts
      <4>2. v < i
        BY <1>2, <2>2, <3>1 DEF WellFormed, Indices, NoOperand
      <4>3. v # at
        BY <1>1, <1>2, <1>6, <4>1, <4>2
      <4> QED BY <1>1, <1>5, <4>1, <4>3, EarlierTypesStay
    <3> QED BY <1>1, <3>1 DEF Refined
  <2> QED BY <2>1, <2>2
<1>7. TypesRefined'
  <2>1. \A i \in Indices : i < at' => rtype'[i] = Refined(i)'
    <3> SUFFICES ASSUME NEW i \in Indices, i < at' PROVE rtype'[i] = Refined(i)'
      OBVIOUS
    <3>1. i <= at /\ (i # at => i < at)
      BY <1>1, <1>2
    <3>2. i < at => rtype[i] = Refined(i)
      BY <1>1 DEF TypesRefined
    <3> QED BY <1>5, <1>6, <3>1, <3>2
  <2>2. \/ \A i \in Indices : i >= at' => rtype'[i] = code'[i].rtype
        \/ \A i \in Indices : rtype'[i] = Refined(i)'
    <3>1. CASE \A i \in Indices : i >= at => rtype[i] = code[i].rtype
      <4>1. \A i \in Indices : i >= at' => i >= at /\ i # at
        BY <1>1, <1>2
      <4> QED BY <1>1, <1>5, <3>1, <4>1
    <3>2. CASE \A i \in Indices : rtype[i] = Refined(i)
      <4>1. rtype' = rtype
        BY <1>1, <1>4, <3>2
      <4>2. \A i \in Indices : Refined(i)' = Refined(i)
        BY <1>1, <4>1 DEF Refined, LocationType
      <4> QED BY <3>2, <4>1, <4>2
    <3> QED BY <1>1, <3>1, <3>2 DEF TypesRefined
  <2>3. at' \in Nat
    BY <1>1, <1>2
  <2> QED BY <1>1, <2>1, <2>2, <2>3 DEF TypesRefined
<1>8. TypesArise'
  <2>1. Refined(at) \in ArisingTypes /\ (IsValue(code[at].op) => Refined(at) # "NIL")
    BY <1>1, <1>2, RefinedArises
  <2>2. \A i \in Indices : i < at' => i = at \/ i < at
    BY <1>1, <1>2
  <2> QED BY <1>1, <1>5, <2>1, <2>2 DEF TypesArise
<1> QED BY <1>7, <1>8

\* irUidx leaves the types as they are, and a round's end does.
LEMMA FlowTypesStep ==
    ASSUME FlowInv, Structured(code), TypesRefined, TypesArise, FlowNext
    PROVE  TypesRefined' /\ TypesArise'
<1>0. FlowInv'
  BY FlowNextInv
<1>1. WellFormed(code) /\ LastIndex \in Nat /\ Indices = 0 .. LastIndex
  BY CodeFacts DEF FlowInv, UnifyInv, UnifyTypeOK
<1>2. CASE UnifyNext /\ UNCHANGED flowVars
  <2>1. /\ UNCHANGED <<code, rtype>> /\ ~Unified /\ pass' \in {"default", "unify", "flow"}
        /\ pass' = "flow" => at' = 0
    BY <1>2 DEF UnifyNext, DefaultUidx, DefaultEnds, UnifyOperands, UnifyEnds, Unified, flowVars
  <2>2. Indices' = Indices /\ \A i \in Indices : ~(i < 0)
    BY <1>1, <2>1 DEF Indices
  <2>3. \A i \in Indices : rtype[i] = code[i].rtype /\ rtype[i] \in ArisingTypes
    BY <2>1 DEF TypesRefined, TypesArise
  <2> QED BY <2>1, <2>2, <2>3 DEF TypesRefined, TypesArise, Unified
<1>3. CASE FlowNode
  BY <1>0, <1>3, FlowNodeTypes
<1>4. CASE FlowAgain \/ FlowEnds
  <2>1. /\ pass = "flow" /\ at \notin Indices /\ UNCHANGED <<code, uidx, rtype>>
        /\ (pass' = "flow" /\ at' = 0) \/ pass' = "lastUse"
    BY <1>4 DEF FlowAgain, FlowEnds
  <2>2. at \in Nat /\ \A i \in Indices : i < at
    BY <1>1, <2>1 DEF TypesRefined
  <2>3. \A i \in Indices : /\ rtype[i] = Refined(i) /\ rtype[i] \in ArisingTypes
                           /\ IsValue(code[i].op) => rtype[i] # "NIL"
    BY <2>1, <2>2 DEF TypesRefined, TypesArise, Unified
  <2>4. Indices' = Indices /\ \A i \in Indices : Refined(i)' = Refined(i) /\ ~(i < 0)
    BY <1>1, <2>1 DEF Indices, Refined, LocationType
  <2> QED BY <2>1, <2>3, <2>4 DEF TypesRefined, TypesArise, Unified
<1> QED BY <1>2, <1>3, <1>4 DEF FlowNext
------------------------------------------------------------------------------
\* The steps that hand out slots give places to the node and its location's node only.
LEMMA AssignPlaces ==
    ASSUME AllocInv, AssignArg \/ NeedsNoSlot \/ ShareSlot \/ TakeSlot
    PROVE  /\ AssignStep
           /\ place' \in [Indices -> Places]
           /\ \A i \in Indices : i # at /\ i # uidx[at] => place'[i] = place[i]
<1>1. AssignStep /\ at \in Indices
  BY DEF AssignArg, NeedsNoSlot, ShareSlot, TakeSlot, AssignStep
<1>2. \/ place' = place
      \/ \E p : place' = Occupy(p)
  BY DEF AssignArg, NeedsNoSlot, ShareSlot, TakeSlot
<1>3. place \in [Indices -> Places] /\ uidx \in [Indices -> Indices]
  BY DEF AllocInv, AllocTypeOK, FlowTypeOK, UnifyTypeOK
<1>4. \A i \in Indices : i # at /\ i # uidx[at] => place'[i] = place[i]
  BY <1>2, <1>3 DEF Occupy
<1>5. place' \in [Indices -> Places]
  <2>1. AllocInv'
    BY AllocNextInv DEF AllocNext
  <2>2. Indices' = Indices
    BY <1>1 DEF AssignStep, Indices
  <2> QED BY <2>1, <2>2 DEF AllocInv, AllocTypeOK
<1> QED BY <1>1, <1>4, <1>5

\* What is not an operand of an UNIFY node, and not one itself, gets its place at its turn.
LEMMA NotYetPlacedStep ==
    ASSUME AllocInv, NotYetPlaced, AllocNext
    PROVE  NotYetPlaced'
<1>1. CASE AssignArg \/ NeedsNoSlot \/ ShareSlot \/ TakeSlot
  <2>1. AssignStep /\ \A i \in Indices : i # at /\ i # uidx[at] => place'[i] = place[i]
    BY <1>1, AssignPlaces
  <2>2. /\ pass = "assign" /\ at \in Indices /\ at' = at + 1 /\ LastIndex \in Nat /\ Indices = 0 .. LastIndex
        /\ UNCHANGED <<code, uidx>> /\ Indices' = Indices
    BY <2>1, AssignFacts
  <2>3. uidx[at] # at => IsUnify(uidx[at])
    BY <2>2, LocationFacts DEF AllocInv, Unified
  <2>4. \A i \in Indices : i >= at' => i >= at /\ i # at
    BY <2>2
  <2> QED BY <2>1, <2>2, <2>3, <2>4 DEF NotYetPlaced, IsUnify
<1>2. CASE LastUseEnds
  <2>1. place' = [i \in Indices |-> Nowhere] /\ Indices' = Indices
    BY <1>2 DEF LastUseEnds, allocVars, AllocInv, NothingPlaced, Placing, Indices
  <2> QED BY <2>1 DEF NotYetPlaced
<1>3. CASE ~(AssignArg \/ NeedsNoSlot \/ ShareSlot \/ TakeSlot \/ LastUseEnds)
  <2>1. pass' # "assign"
    BY <1>3 DEF AllocNext, FlowNext, UnifyNext, DefaultUidx, DefaultEnds, UnifyOperands, UnifyEnds,
                FlowNode, FlowAgain, FlowEnds, LastUse, AssignEnds, FixAddress, FixEnds
  <2> QED BY <2>1 DEF NotYetPlaced
<1> QED BY <1>1, <1>2, <1>3

\* The slot that a node takes is not that of a value used later.
LEMMA TakesAnother ==
    ASSUME AllocInv, AllocInv', NotYetPlaced, CallsGiveBackTheDead,
           AssignArg \/ NeedsNoSlot \/ ShareSlot \/ TakeSlot,
           NEW i \in Indices, uidx[i] # uidx[at], i < at, ~IsUnify(at), LocationUsedAfter(i, at),
           place'[i].stype \in Stacks
    PROVE  place'[at] # place'[i]
<1>1. AssignStep /\ place' \in [Indices -> Places]
      /\ \A j \in Indices : j # at /\ j # uidx[at] => place'[j] = place[j]
  BY AssignPlaces
<1>2. /\ pass = "assign" /\ pass' = "assign" /\ at \in Indices /\ at' = at + 1
      /\ WellFormed(code) /\ LastIndex \in Nat /\ Indices = 0 .. LastIndex
      /\ UNCHANGED <<code, uidx, rtype>> /\ Indices' = Indices
      /\ \A l : l \in Awaited' <=> \E j \in Indices : j > at /\ l \in Locations(j)
      /\ Awaited' \subseteq Awaited
      /\ Live' = {j \in Indices : place'[j].stype \in Stacks /\ uidx[j] \in Awaited'}
  BY <1>1, AssignFacts
<1>3. i # at /\ i # uidx[at] /\ uidx[at] \in Indices
  BY <1>2, LocationFacts DEF AllocInv, Unified
<1>4. uidx[i] \in Awaited' /\ i \in Live'
  BY <1>2 DEF LocationUsedAfter
<1>5. place'[i] = place[i]
  BY <1>1, <1>3
<1>6. CASE uidx[at] # at
  <2>1. PICK u \in Indices : IsUnify(u) /\ at \in {code[u].left, code[u].right}
    BY <1>2, <1>6 DEF AllocInv, LocationMoved
  <2>2. at \in Used(u) /\ at < u
    BY <1>2, <2>1, CodeFacts
  <2>3. uidx[at] \in Awaited'
    BY <1>2, <2>2 DEF Locations
  <2>4. CASE place'[at].stype \in Stacks
    <3>1. at \in Live'
      BY <1>2, <2>3, <2>4
    <3>2. CallsGaveBackTheDead'
      BY <1>2, SameCode DEF CallsGiveBackTheDead, CallsGaveBackTheDead
    <3>3. \A x, y \in Live' : uidx'[x] # uidx'[y] => place'[x] # place'[y]
      BY <1>2, <3>2 DEF AllocInv, SlotsKept
    <3> QED BY <1>2, <1>4, <3>1, <3>3
  <2>5. CASE place'[at].stype \notin Stacks
    BY <2>5
  <2> QED BY <2>4, <2>5
<1>7. CASE uidx[at] = at
  <2>1. place[at] = Nowhere
    <3>1. at >= at
      BY <1>2
    <3> QED BY <1>2, <3>1 DEF NotYetPlaced
  <2>2. CASE AssignArg \/ NeedsNoSlot \/ ShareSlot
    <3>1. ~ShareSlot
      BY <1>7, <2>1 DEF ShareSlot
    <3>2. CASE NeedsNoSlot
      BY <2>1, <3>2 DEF NeedsNoSlot, Nowhere, Stacks
    <3>3. CASE AssignArg
      <4>1. place'[at] = [stype |-> "ASTK", addr |-> code[at].imm]
        BY <1>2, <1>7, <3>3 DEF AssignArg, Occupy, AllocInv, AllocTypeOK
      <4> QED BY <4>1 DEF Stacks
    <3> QED BY <2>2, <3>1, <3>2, <3>3
  <2>3. CASE TakeSlot
    <3> DEFINE s == IF rtype[at] \in BoxedTypes THEN "PSTK" ELSE "STK"
               a == Min(Indices \ inUse[s])
    <3>1. place' = Occupy([stype |-> s, addr |-> a])
      BY <1>7, <2>3 DEF TakeSlot
    <3>2. place'[at] = [stype |-> s, addr |-> a]
      BY <1>2, <1>7, <3>1 DEF Occupy, AllocInv, AllocTypeOK
    <3>3. a \notin inUse[s]
      <4>1. inUse[s] \subseteq 0 .. at - 1
        BY <1>2 DEF AllocInv, SlotsInUse, Stacks
      <4>2. at \in Indices \ inUse[s] /\ Indices \ inUse[s] \in SUBSET Nat
        BY <1>2, <4>1
      <4> HIDE DEF s
      <4> QED BY <4>2, SmallestIsMin
    <3>4. Holds(i)
      <4>1. i \in Live
        BY <1>2, <1>4, <1>5 DEF Live
      <4>2. CallsGaveBackTheDead
        BY DEF CallsGiveBackTheDead, CallsGaveBackTheDead
      <4> QED BY <1>2, <4>1, <4>2 DEF AllocInv, SlotsKept
    <3> HIDE DEF s, a
    <3> QED BY <1>5, <3>2, <3>3, <3>4 DEF Holds
  <2> QED BY <2>2, <2>3
<1> QED BY <1>6, <1>7

LEMMA SlotsApartStep ==
    ASSUME AllocInv, AllocInv', NotYetPlaced, SlotsApart, AllocNext
    PROVE  SlotsApart'
<1>1. WellFormed(code) /\ LastIndex \in Nat /\ Indices = 0 .. LastIndex
  BY CodeFacts DEF AllocInv, FlowInv, UnifyInv, UnifyTypeOK
<1>2. CASE AssignArg \/ NeedsNoSlot \/ ShareSlot \/ TakeSlot
  <2>1. AssignStep /\ place' \in [Indices -> Places]
        /\ \A i \in Indices : i # at /\ i # uidx[at] => place'[i] = place[i]
    BY <1>2, AssignPlaces
  <2>2. /\ pass = "assign" /\ pass' = "assign" /\ at \in Indices /\ at' = at + 1
        /\ UNCHANGED <<code, uidx>> /\ Indices' = Indices
    BY <2>1, AssignFacts
  <2>3. \A i : /\ Locations(i)' = Locations(i) /\ IsUnify(i)' = IsUnify(i)
               /\ CallsGiveBackTheDead' = CallsGiveBackTheDead
               /\ Offset(i) = 0 /\ Offset(i)' = 0
    BY <2>2, SameCode DEF Offset, Fixed
  <2>4. SUFFICES ASSUME CallsGiveBackTheDead, NEW i \in Indices, NEW j \in Indices, uidx[i] # uidx[j], i < j, j < at',
                        ~IsUnify(j), LocationUsedAfter(i, j), place'[i].stype \in Stacks
                 PROVE  ~(place'[j].stype = place'[i].stype /\ place'[j].addr = place'[i].addr)
    <3>1. \A i, j : LocationUsedAfter(i, j)' = LocationUsedAfter(i, j)
      BY <2>2, <2>3 DEF LocationUsedAfter
    <3>2. \A i \in Indices : place'[i].addr - 0 = place'[i].addr
      BY <2>1 DEF Places
    <3>3. \A i, j \in Indices : SameSlot(i, j)' <=> /\ place'[i].stype \in Stacks
                                                    /\ place'[j].stype = place'[i].stype
                                                    /\ place'[j].addr = place'[i].addr
      <4> TAKE i, j \in Indices
      <4>1. place'[i].addr - Offset(i)' = place'[i].addr /\ place'[j].addr - Offset(j)' = place'[j].addr
        <5>1. Offset(i)' = 0 /\ Offset(j)' = 0
          BY <2>3
        <5> QED BY <3>2, <5>1
      <4> QED BY <4>1 DEF SameSlot
    <3>4. \A j : Done(j)' <=> j < at'
      BY <2>2 DEF Done
    <3>5. \A i, j \in Indices :
            uidx[i] # uidx[j] /\ i < j /\ j < at' /\ ~IsUnify(j) /\ LocationUsedAfter(i, j) /\ CallsGiveBackTheDead => ~SameSlot(i, j)'
      BY <2>4, <3>3
    <3>6. \A i, j \in Indices' :
            uidx'[i] # uidx'[j] /\ i < j /\ Done(j)' /\ ~IsUnify(j)' /\ LocationUsedAfter(i, j)' /\ CallsGiveBackTheDead'
              => ~SameSlot(i, j)'
      BY <2>2, <2>3, <3>1, <3>4, <3>5
    <3> QED BY <3>6 DEF SlotsApart
  <2>5. i < at /\ (j = at \/ j < at)
    BY <1>1, <2>2, <2>4
  <2>6. CASE j = at
    <3>1. place'[at] # place'[i]
      BY <1>2, <2>4, <2>5, <2>6, TakesAnother
    <3>2. place'[at] \in Places /\ place'[i] \in Places
      BY <2>1, <2>2
    <3> QED BY <2>6, <3>1, <3>2 DEF Places
  <2>7. CASE j < at
    <3>1. uidx[at] = at \/ (uidx[at] \in Indices /\ uidx[at] > at)
      BY <2>2, LocationFacts DEF AllocInv, Unified
    <3>2. i # at /\ i # uidx[at] /\ j # at /\ j # uidx[at]
      BY <1>1, <2>2, <2>5, <2>7, <3>1
    <3>3. place'[i] = place[i] /\ place'[j] = place[j]
      BY <2>1, <3>2
    <3>4. ~SameSlot(i, j)
      BY <2>2, <2>4, <2>7 DEF SlotsApart, Placing, Done
    <3>5. place[i].addr - 0 = place[i].addr /\ place[j].addr - 0 = place[j].addr
      BY DEF AllocInv, AllocTypeOK, Places
    <3> QED BY <2>3, <2>4, <3>3, <3>4, <3>5 DEF SameSlot
  <2> QED BY <2>5, <2>6, <2>7
<1>3. CASE AssignEnds \/ FixAddress \/ FixEnds
  <2>1. \A i \in Indices : Moves(i)
    BY <1>3, AssignEndsMoves, FixAddressMoves, FixEndsMoves
  <2>2. UNCHANGED <<code, uidx>> /\ Placing
    BY <1>3 DEF AssignEnds, FixAddress, FixEnds, Placing
  <2>3. \A i : /\ Locations(i)' = Locations(i) /\ IsUnify(i)' = IsUnify(i)
               /\ CallsGiveBackTheDead' = CallsGiveBackTheDead /\ Indices' = Indices
    BY <2>2, SameCode
  <2>4. \A i, j : LocationUsedAfter(i, j)' = LocationUsedAfter(i, j)
    BY <2>2, <2>3 DEF LocationUsedAfter
  <2>5. ASSUME NEW i \in Indices, NEW j \in Indices, SameSlot(i, j)'
        PROVE  SameSlot(i, j)
    BY <2>1, <2>5 DEF SameSlot, Moves
  <2>6. \A j \in Indices : Done(j)
    BY <2>1 DEF Moves
  <2> QED BY <2>2, <2>3, <2>4, <2>5, <2>6 DEF SlotsApart
<1>4. CASE LastUseEnds
  <2>1. pass' = "assign" /\ at' = 0 /\ Indices' = Indices
    BY <1>4 DEF LastUseEnds, Indices
  <2>2. \A j \in Indices' : ~Done(j)'
    BY <1>1, <2>1 DEF Done
  <2> QED BY <2>2 DEF SlotsApart
<1>5. CASE (FlowNext /\ UNCHANGED allocVars) \/ LastUse
  <2>1. ~Placing'
    BY <1>5 DEF FlowNext, UnifyNext, DefaultUidx, DefaultEnds, UnifyOperands, UnifyEnds,
                FlowNode, FlowAgain, FlowEnds, LastUse, Placing
  <2> QED BY <2>1 DEF SlotsApart
<1> QED BY <1>2, <1>3, <1>4, <1>5 DEF AllocNext
LEMMA ArgumentsPlacedStep ==
    ASSUME AllocInv, ArgumentsPlaced, AllocNext
    PROVE  ArgumentsPlaced'
<1>1. WellFormed(code) /\ LastIndex \in Nat /\ Indices = 0 .. LastIndex
  BY CodeFacts DEF AllocInv, FlowInv, UnifyInv, UnifyTypeOK
<1>2. CASE AssignArg \/ NeedsNoSlot \/ ShareSlot \/ TakeSlot
  <2>1. AssignStep /\ \A i \in Indices : i # at /\ i # uidx[at] => place'[i] = place[i]
    BY <1>2, AssignPlaces
  <2>2. /\ pass = "assign" /\ pass' = "assign" /\ at \in Indices /\ at' = at + 1
        /\ UNCHANGED <<code, uidx>> /\ Indices' = Indices
        /\ \A i, j \in Indices : IsArg(i) /\ uidx[j] = uidx[i] => j = i /\ uidx[i] = i
        /\ \A i \in Indices : uidx[i] \in Indices /\ uidx[uidx[i]] = uidx[i]
    BY <2>1, AssignFacts
  <2>3. SUFFICES ASSUME NEW i \in Indices, i < at', IsArg(i)
                 PROVE  place'[i].stype = "ASTK"
    <3>1. \A i : IsArg(i)' = IsArg(i) /\ (Done(i)' <=> i < at')
      BY <2>2 DEF IsArg, Done
    <3> QED BY <2>2, <2>3, <3>1 DEF ArgumentsPlaced
  <2>4. CASE i = at
    <3>1. AssignArg /\ uidx[at] = at
      BY <1>2, <2>2, <2>3, <2>4 DEF NeedsNoSlot, ShareSlot, TakeSlot
    <3>2. place'[at] = [stype |-> "ASTK", addr |-> code[at].imm]
      BY <2>2, <3>1 DEF AssignArg, Occupy, AllocInv, AllocTypeOK
    <3> QED BY <2>4, <3>2
  <2>5. CASE i # at
    <3>1. i # uidx[at]
      BY <2>2, <2>3, <2>5
    <3>2. i < at
      BY <1>1, <2>2, <2>3, <2>5
    <3> QED BY <2>1, <2>2, <2>3, <2>5, <3>1, <3>2 DEF ArgumentsPlaced, Placing, Done
  <2> QED BY <2>4, <2>5
<1>3. CASE AssignEnds \/ FixAddress \/ FixEnds
  <2>1. \A i \in Indices : Moves(i)
    BY <1>3, AssignEndsMoves, FixAddressMoves, FixEndsMoves
  <2>2. code' = code /\ Placing
    BY <1>3 DEF AssignEnds, FixAddress, FixEnds, Placing
  <2>3. Indices' = Indices /\ \A i : IsArg(i)' = IsArg(i)
    BY <2>2 DEF Indices, IsArg
  <2> QED BY <2>1, <2>2, <2>3 DEF ArgumentsPlaced, Moves
<1>4. CASE LastUseEnds
  <2>1. pass' = "assign" /\ at' = 0 /\ Indices' = Indices
    BY <1>4 DEF LastUseEnds, Indices
  <2>2. \A j \in Indices' : ~Done(j)'
    BY <1>1, <2>1 DEF Done
  <2> QED BY <2>2 DEF ArgumentsPlaced
<1>5. CASE (FlowNext /\ UNCHANGED allocVars) \/ LastUse
  <2>1. ~Placing'
    BY <1>5 DEF FlowNext, UnifyNext, DefaultUidx, DefaultEnds, UnifyOperands, UnifyEnds,
                FlowNode, FlowAgain, FlowEnds, LastUse, Placing
  <2> QED BY <2>1 DEF ArgumentsPlaced
<1> QED BY <1>2, <1>3, <1>4, <1>5 DEF AllocNext
------------------------------------------------------------------------------
LEMMA CompiledInitInv ==
    ASSUME AllocInit, Structured(code)
    PROVE  CompiledInv
<1>1. AllocInv
  BY AllocInitInv
<1>2. WellFormed(code)
  BY <1>1 DEF AllocInv, FlowInv, UnifyInv, UnifyTypeOK
<1>3. pass = "default" /\ rtype = [i \in Indices |-> code[i].rtype]
  BY DEF AllocInit, FlowInit, UnifyInit
<1>4. TypesRefined
  BY <1>3 DEF TypesRefined, Unified
<1>5. TypesArise
  <2>1. \A i \in Indices : code[i].rtype \in InitialTypes(code[i].op)
    BY <1>2, StructureFacts
  <2>2. \A i \in Indices : code[i].rtype \in ArisingTypes
    BY <2>1, InitialFacts
  <2> QED BY <1>3, <2>2 DEF TypesArise, Unified
<1> QED BY <1>1, <1>3, <1>4, <1>5 DEF CompiledInv, NotYetPlaced, ArgumentsPlaced, SlotsApart, Placing

\* No pass changes the function.
LEMMA SameFunction == AllocNext => code' = code
BY DEF AllocNext, FlowNext, UnifyNext, DefaultUidx, DefaultEnds, UnifyOperands, UnifyEnds, FlowNode,
       FlowAgain, FlowEnds, LastUse, LastUseEnds, AssignArg, NeedsNoSlot, ShareSlot, TakeSlot,
       AssignStep, AssignEnds, FixAddress, FixEnds

\* After the last pass there is none.
LEMMA CompiledIsLast == AllocNext => pass # "compiled"
BY DEF AllocNext, FlowNext, UnifyNext, DefaultUidx, DefaultEnds, UnifyOperands, UnifyEnds, FlowNode,
       FlowAgain, FlowEnds, LastUse, LastUseEnds, AssignArg, NeedsNoSlot, ShareSlot, TakeSlot,
       AssignStep, AssignEnds, FixAddress, FixEnds

\* Nor does anything change when no variable of the compiler does.
LEMMA CompiledStutterInv ==
    ASSUME CompiledInv, UNCHANGED compileVars
    PROVE  CompiledInv'
<1>1. UNCHANGED <<code, pass, at, uidx, rtype, place, frame>>
  BY DEF compileVars, unifyVars, flowVars, allocVars
<1>2. AllocInv'
  BY AllocNextInv DEF CompiledInv
<1>3. /\ Indices' = Indices
      /\ \A i : /\ IsUnify(i)' = IsUnify(i) /\ IsArg(i)' = IsArg(i) /\ Locations(i)' = Locations(i)
                /\ Done(i)' = Done(i) /\ Offset(i)' = Offset(i) /\ Refined(i)' = Refined(i)
      /\ CallsGiveBackTheDead' = CallsGiveBackTheDead
  BY <1>1, SameCode DEF Indices, Done, Offset, Fixed, Refined, LocationType
<1>4. \A i, j : LocationUsedAfter(i, j)' = LocationUsedAfter(i, j) /\ SameSlot(i, j)' = SameSlot(i, j)
  BY <1>1, <1>3 DEF LocationUsedAfter, SameSlot
<1>5. TypesRefined' /\ TypesArise' /\ NotYetPlaced' /\ ArgumentsPlaced'
  BY <1>1, <1>3 DEF CompiledInv, TypesRefined, TypesArise, NotYetPlaced, ArgumentsPlaced, Unified, Placing
<1>6. SlotsApart'
  BY <1>1, <1>3, <1>4 DEF CompiledInv, SlotsApart, Placing
<1> QED BY <1>1, <1>2, <1>5, <1>6 DEF CompiledInv

LEMMA CompiledNextInv ==
    ASSUME CompiledInv, AllocNext
    PROVE  CompiledInv'
<1> USE DEF CompiledInv
<1>1. AllocInv'
  BY AllocNextInv
<1>2. Structured(code)'
  BY SameFunction
<1>3. TypesRefined' /\ TypesArise'
  <2>1. CASE FlowNext /\ UNCHANGED allocVars
    BY <2>1, FlowTypesStep DEF AllocInv
  <2>2. CASE ~(FlowNext /\ UNCHANGED allocVars)
    <3>1. /\ UNCHANGED <<code, uidx, rtype>>
          /\ pass \in {"lastUse", "assign", "fix"} /\ pass' \in {"lastUse", "assign", "fix", "compiled"}
      BY <2>2 DEF AllocNext, LastUse, LastUseEnds, AssignArg, NeedsNoSlot, ShareSlot, TakeSlot,
                  AssignStep, AssignEnds, FixAddress, FixEnds, flowVars
    <3>2. Indices' = Indices /\ \A i : Refined(i)' = Refined(i)
      BY <3>1 DEF Indices, Refined, LocationType
    <3> QED BY <3>1, <3>2 DEF TypesRefined, TypesArise, Unified
  <2> QED BY <2>1, <2>2
<1>4. NotYetPlaced' /\ ArgumentsPlaced'
  BY NotYetPlacedStep, ArgumentsPlacedStep
<1>5. SlotsApart'
  BY <1>1, SlotsApartStep
<1> QED BY <1>1, <1>2, <1>3, <1>4, <1>5
------------------------------------------------------------------------------
\* In every function that irCompileNode structures, irFlowTypes ends with the types that the
\* operands' locations say, none of them a boxed number or boolean, and sdyn_irRegAlloc puts
\* nothing into the slot of a value that is used later, unless a call gives that slot back.
THEOREM CompiledInvariant == AllocSpec /\ Structured(code) => []CompiledInv
<1>1. AllocInit /\ Structured(code) => CompiledInv
  BY CompiledInitInv
<1>2. CompiledInv /\ [AllocNext]_compileVars => CompiledInv'
  BY CompiledNextInv, CompiledStutterInv
<1> QED BY <1>1, <1>2, PTL DEF AllocSpec
------------------------------------------------------------------------------
\* How many steps the compilation takes

\* The loops that go up end one after the last node.
LoopsUpInRange == pass \in {"flow", "assign", "fix"} => at \in 0 .. LastIndex + 1

LEMMA RangeFacts ==
    ASSUME CompiledInv, LoopsUpInRange
    PROVE  /\ WellFormed(code) /\ LastIndex \in Nat /\ Indices = 0 .. LastIndex
           /\ pass \in Passes /\ Round \in Nat /\ Round = LastIndex + 2
           /\ pass \in {"default", "unify", "lastUse"} => at \in -1 .. LastIndex
           /\ pass \in {"flow", "assign", "fix"} => at \in 0 .. LastIndex + 1
<1>1. /\ WellFormed(code) /\ LastIndex \in Nat /\ Indices = 0 .. LastIndex
      /\ pass \in Passes
  BY CodeFacts DEF CompiledInv, AllocInv, FlowInv, UnifyInv, UnifyTypeOK
<1>2. pass \in {"default", "unify", "lastUse"} => at \in Indices \cup {-1}
  BY DEF CompiledInv, AllocInv, FlowInv, UnifyInv, AtInRange, AtIsPlace, Unified
<1>3. Indices \cup {-1} \subseteq -1 .. LastIndex
  BY <1>1
<1> QED BY <1>1, <1>2, <1>3 DEF Round, LoopsUpInRange

LEMMA SameLength ==
    ASSUME AllocNext
    PROVE  Indices' = Indices /\ LastIndex' = LastIndex /\ Round' = Round
<1>1. code' = code
  BY SameFunction
<1>2. Indices' = Indices
  BY <1>1 DEF Indices
<1>3. LastIndex' = LastIndex
  BY <1>2 DEF LastIndex
<1> QED BY <1>2, <1>3 DEF Round

LEMMA LoopsUpStep ==
    ASSUME CompiledInv, LoopsUpInRange, AllocNext
    PROVE  LoopsUpInRange'
<1>1. LastIndex \in Nat /\ Indices = 0 .. LastIndex /\ LastIndex' = LastIndex
  BY RangeFacts, SameLength
<1>2. \/ pass' \notin {"flow", "assign", "fix"}
      \/ at' = 0
      \/ at \in Indices /\ at' = at + 1
  <2>1. CASE UnifyNext
    BY <2>1 DEF UnifyNext, DefaultUidx, DefaultEnds, UnifyOperands, UnifyEnds
  <2>2. CASE FlowNode \/ FlowAgain \/ FlowEnds
    BY <2>2 DEF FlowNode, FlowAgain, FlowEnds
  <2>3. CASE LastUse \/ LastUseEnds
    BY <2>3 DEF LastUse, LastUseEnds
  <2>4. CASE AssignArg \/ NeedsNoSlot \/ ShareSlot \/ TakeSlot
    BY <2>4 DEF AssignArg, NeedsNoSlot, ShareSlot, TakeSlot, AssignStep
  <2>5. CASE AssignEnds \/ FixAddress \/ FixEnds
    BY <2>5 DEF AssignEnds, FixAddress, FixEnds
  <2> QED BY <2>1, <2>2, <2>3, <2>4, <2>5 DEF AllocNext, FlowNext
<1>3. 0 \in 0 .. LastIndex + 1 /\ \A k \in 0 .. LastIndex : k + 1 \in 0 .. LastIndex + 1
  BY <1>1
<1> QED BY <1>1, <1>2, <1>3 DEF LoopsUpInRange

\* In a round of irFlowTypes that changes no type, none changes any more.
LEMMA NoMoreRounds ==
    ASSUME CompiledInv, FlowNode, ~TakesAnotherRound
    PROVE  ~TakesAnotherRound'
<1>1. FlowedType(at) = Refined(at) /\ rtype[at] = Refined(at) /\ at \in Indices /\ pass = "flow"
  BY FlowedIsRefined DEF CompiledInv, AllocInv, FlowNode, TakesAnotherRound
<1>2. rtype \in [Indices -> Types]
  BY DEF CompiledInv, AllocInv, FlowInv, FlowTypeOK
<1>3. /\ rtype' = [rtype EXCEPT ![at] = rtype[at]]
      /\ ~changed' /\ UNCHANGED <<code, uidx>>
  <2>1. /\ rtype' = [rtype EXCEPT ![at] = FlowedType(at)]
        /\ changed' = (changed \/ FlowedType(at) # rtype[at])
        /\ UNCHANGED <<code, uidx>>
    BY DEF FlowNode
  <2> QED BY <1>1, <2>1 DEF TakesAnotherRound
<1>5. rtype' = rtype
  BY <1>2, <1>3
<1>6. Indices' = Indices /\ \A i : Refined(i)' = Refined(i)
  BY <1>3, <1>5 DEF Indices, Refined, LocationType
<1> QED BY <1>3, <1>5, <1>6 DEF TakesAnotherRound

\* One round finds every type, so that the next one is the last.
LEMMA LastRound ==
    ASSUME CompiledInv, FlowAgain
    PROVE  TakesAnotherRound /\ ~TakesAnotherRound'
<1>1. pass = "flow" /\ at \notin Indices /\ changed /\ ~changed' /\ UNCHANGED <<code, uidx, rtype>>
  BY DEF FlowAgain
<1>2. LastIndex \in Nat /\ Indices = 0 .. LastIndex /\ at \in Nat
  BY <1>1, CodeFacts DEF CompiledInv, TypesRefined, AllocInv, FlowInv, UnifyInv, UnifyTypeOK
<1>3. \A i \in Indices : i < at
  BY <1>1, <1>2
<1>4. \A i \in Indices : rtype[i] = Refined(i)
  BY <1>1, <1>3 DEF CompiledInv, TypesRefined
<1>5. Indices' = Indices /\ \A i : Refined(i)' = Refined(i)
  BY <1>1 DEF Indices, Refined, LocationType
<1> QED BY <1>1, <1>4, <1>5 DEF TakesAnotherRound

\* Within a loop a step is one node less.
LEMMA NodeStepAdvances ==
    ASSUME CompiledInv, LoopsUpInRange,
           \/ DefaultUidx \/ UnifyOperands \/ LastUse
           \/ AssignArg \/ NeedsNoSlot \/ ShareSlot \/ TakeSlot \/ FixAddress,
           UNCHANGED code
    PROVE  StepsLeft' \in Nat /\ StepsLeft' < StepsLeft
<1>1. /\ LastIndex \in Nat /\ Indices = 0 .. LastIndex /\ Round \in Nat /\ Round = LastIndex + 2
      /\ pass \in {"default", "unify", "lastUse"} => at \in -1 .. LastIndex
      /\ pass \in {"assign", "fix"} => at \in 0 .. LastIndex + 1
  BY RangeFacts
<1>2. Round' = Round
  BY DEF Round, LastIndex, Indices
<1>3. CASE DefaultUidx \/ UnifyOperands \/ LastUse
  <2>1. /\ pass \in {"default", "unify", "lastUse"} /\ pass' = pass
        /\ at \in 0 .. LastIndex /\ at' = at - 1
    BY <1>1, <1>3 DEF DefaultUidx, UnifyOperands, LastUse
  <2>2. CASE pass = "default"
    <3>1. StepsLeft = at + 2 + 6 * Round /\ StepsLeft' = at' + 2 + 6 * Round
      BY <1>2, <2>1, <2>2 DEF StepsLeft
    <3> QED BY <1>1, <2>1, <3>1
  <2>3. CASE pass = "unify"
    <3>1. StepsLeft = at + 2 + 5 * Round /\ StepsLeft' = at' + 2 + 5 * Round
      BY <1>2, <2>1, <2>3 DEF StepsLeft
    <3> QED BY <1>1, <2>1, <3>1
  <2>4. CASE pass = "lastUse"
    <3>1. StepsLeft = at + 2 + 2 * Round /\ StepsLeft' = at' + 2 + 2 * Round
      BY <1>2, <2>1, <2>4 DEF StepsLeft
    <3> QED BY <1>1, <2>1, <3>1
  <2> QED BY <2>1, <2>2, <2>3, <2>4
<1>4. CASE AssignArg \/ NeedsNoSlot \/ ShareSlot \/ TakeSlot \/ FixAddress
  <2>1. /\ pass \in {"assign", "fix"} /\ pass' = pass
        /\ at \in 0 .. LastIndex /\ at' = at + 1
    BY <1>1, <1>4 DEF AssignArg, NeedsNoSlot, ShareSlot, TakeSlot, AssignStep, FixAddress
  <2>2. CASE pass = "assign"
    <3>1. StepsLeft = Round - at + Round /\ StepsLeft' = Round - at' + Round
      BY <1>2, <2>1, <2>2 DEF StepsLeft
    <3> QED BY <1>1, <2>1, <3>1
  <2>3. CASE pass = "fix"
    <3>1. StepsLeft = Round - at /\ StepsLeft' = Round - at'
      BY <1>2, <2>1, <2>3 DEF StepsLeft
    <3> QED BY <1>1, <2>1, <3>1
  <2> QED BY <2>1, <2>2, <2>3
<1> QED BY <1>3, <1>4

\* A loop's end is one less too, when the next loop starts with a round.
LEMMA LoopEndAdvances ==
    ASSUME CompiledInv, LoopsUpInRange,
           DefaultEnds \/ UnifyEnds \/ FlowEnds \/ LastUseEnds \/ AssignEnds \/ FixEnds,
           UNCHANGED code
    PROVE  StepsLeft' \in Nat /\ StepsLeft' < StepsLeft
<1>1. /\ LastIndex \in Nat /\ Indices = 0 .. LastIndex /\ Round \in Nat /\ Round = LastIndex + 2
      /\ pass \in {"default", "unify", "lastUse"} => at \in -1 .. LastIndex
      /\ pass \in {"flow", "assign", "fix"} => at \in 0 .. LastIndex + 1
  BY RangeFacts
<1>2. Round' = Round
  BY DEF Round, LastIndex, Indices
<1>3. CASE DefaultEnds
  <2>1. pass = "default" /\ pass' = "unify" /\ at = -1 /\ at' = LastIndex
    BY <1>1, <1>3 DEF DefaultEnds
  <2>2. StepsLeft = at + 2 + 6 * Round /\ StepsLeft' = at' + 2 + 5 * Round
    BY <1>2, <2>1 DEF StepsLeft
  <2> QED BY <1>1, <2>1, <2>2
<1>4. CASE UnifyEnds
  <2>1. pass = "unify" /\ pass' = "flow" /\ at = -1 /\ at' = 0
    BY <1>1, <1>4 DEF UnifyEnds
  <2>2. StepsLeft = at + 2 + 5 * Round
    BY <2>1 DEF StepsLeft
  <2>3. StepsLeft' = Round - at' + Round + 3 * Round \/ StepsLeft' = Round - at' + 0 + 3 * Round
    BY <1>2, <2>1 DEF StepsLeft
  <2> QED BY <1>1, <2>1, <2>2, <2>3
<1>5. CASE FlowEnds
  <2>1. pass = "flow" /\ pass' = "lastUse" /\ at = LastIndex + 1 /\ at' = LastIndex
    BY <1>1, <1>5 DEF FlowEnds
  <2>2. StepsLeft = Round - at + Round + 3 * Round \/ StepsLeft = Round - at + 0 + 3 * Round
    BY <2>1 DEF StepsLeft
  <2>3. StepsLeft' = at' + 2 + 2 * Round
    BY <1>2, <2>1 DEF StepsLeft
  <2> QED BY <1>1, <2>1, <2>2, <2>3
<1>6. CASE LastUseEnds
  <2>1. pass = "lastUse" /\ pass' = "assign" /\ at = -1 /\ at' = 0
    BY <1>1, <1>6 DEF LastUseEnds
  <2>2. StepsLeft = at + 2 + 2 * Round /\ StepsLeft' = Round - at' + Round
    BY <1>2, <2>1 DEF StepsLeft
  <2> QED BY <1>1, <2>1, <2>2
<1>7. CASE AssignEnds
  <2>1. pass = "assign" /\ pass' = "fix" /\ at = LastIndex + 1 /\ at' = 0
    BY <1>1, <1>7 DEF AssignEnds
  <2>2. StepsLeft = Round - at + Round /\ StepsLeft' = Round - at'
    BY <1>2, <2>1 DEF StepsLeft
  <2> QED BY <1>1, <2>1, <2>2
<1>8. CASE FixEnds
  <2>1. pass = "fix" /\ pass' = "compiled" /\ at = LastIndex + 1
    BY <1>1, <1>8 DEF FixEnds
  <2>2. StepsLeft = Round - at /\ StepsLeft' = 0
    BY <2>1 DEF StepsLeft
  <2> QED BY <1>1, <2>1, <2>2
<1> QED BY <1>3, <1>4, <1>5, <1>6, <1>7, <1>8

LEMMA OneNodeLess ==
    ASSUME NEW r \in Nat, NEW a \in 0 .. r - 2, NEW m \in Nat, NEW n \in Nat, n <= m
    PROVE  r - (a + 1) + n + 3 * r \in Nat /\ r - (a + 1) + n + 3 * r < r - a + m + 3 * r
OBVIOUS

\* A round of irFlowTypes is a round less, unless it is the last.
LEMMA FlowAdvances ==
    ASSUME CompiledInv, LoopsUpInRange, FlowNode \/ FlowAgain
    PROVE  StepsLeft' \in Nat /\ StepsLeft' < StepsLeft
<1>1. /\ LastIndex \in Nat /\ Indices = 0 .. LastIndex /\ Round \in Nat /\ Round = LastIndex + 2
      /\ pass \in {"flow"} => at \in 0 .. LastIndex + 1
  BY RangeFacts
<1>2. pass = "flow" /\ pass' = "flow" /\ code' = code
  BY DEF FlowNode, FlowAgain
<1>3. Round' = Round
  BY <1>2 DEF Round, LastIndex, Indices
<1> DEFINE more == IF TakesAnotherRound THEN Round ELSE 0
<1>4. StepsLeft = Round - at + more + 3 * Round
  BY <1>2 DEF StepsLeft
<1>5. StepsLeft' = Round - at' + more' + 3 * Round
  BY <1>2, <1>3 DEF StepsLeft
<1>6. more \in {0, Round} /\ more' \in {0, Round}
  BY <1>3
<1>7. CASE FlowNode
  <2>1. at \in 0 .. LastIndex /\ at' = at + 1
    BY <1>1, <1>7 DEF FlowNode
  <2>2. TakesAnotherRound' => TakesAnotherRound
    BY <1>7, NoMoreRounds
  <2>3. more' = more \/ more' = 0
    BY <1>3, <2>2
  <2>4. /\ more \in Nat /\ more' \in Nat /\ more' <= more
        /\ StepsLeft' = Round - (at + 1) + more' + 3 * Round
    BY <1>1, <1>5, <1>6, <2>1, <2>3
  <2>5. at \in 0 .. Round - 2
    BY <1>1, <2>1
  <2> HIDE DEF more
  <2> QED BY <1>1, <1>4, <2>4, <2>5, OneNodeLess
<1>8. CASE FlowAgain
  <2>1. at = LastIndex + 1 /\ at' = 0
    BY <1>1, <1>2, <1>8 DEF FlowAgain
  <2>2. more = Round /\ more' = 0
    BY <1>8, LastRound
  <2> HIDE DEF more
  <2> QED BY <1>1, <1>4, <1>5, <2>1, <2>2
<1> QED BY <1>7, <1>8

LEMMA StepAdvances ==
    ASSUME CompiledInv, LoopsUpInRange, AllocNext
    PROVE  StepsLeft' \in Nat /\ StepsLeft' < StepsLeft
BY SameFunction, NodeStepAdvances, LoopEndAdvances, FlowAdvances DEF AllocNext, FlowNext, UnifyNext

LEMMA StepsLeftBound ==
    ASSUME CompiledInv, LoopsUpInRange
    PROVE  StepsLeft \in 0 .. 7 * Round
<1>1. /\ LastIndex \in Nat /\ Round \in Nat /\ Round = LastIndex + 2 /\ pass \in Passes
      /\ pass \in {"default", "unify", "lastUse"} => at \in -1 .. LastIndex
      /\ pass \in {"flow", "assign", "fix"} => at \in 0 .. LastIndex + 1
  BY RangeFacts
<1>2. pass = "default" => StepsLeft = at + 2 + 6 * Round
  BY DEF StepsLeft
<1>3. pass = "unify" => StepsLeft = at + 2 + 5 * Round
  BY DEF StepsLeft
<1>4. pass = "flow" => StepsLeft = Round - at + Round + 3 * Round \/ StepsLeft = Round - at + 0 + 3 * Round
  BY DEF StepsLeft
<1>5. pass = "lastUse" => StepsLeft = at + 2 + 2 * Round
  BY DEF StepsLeft
<1>6. pass = "assign" => StepsLeft = Round - at + Round
  BY DEF StepsLeft
<1>7. pass = "fix" => StepsLeft = Round - at
  BY DEF StepsLeft
<1>8. pass = "compiled" => StepsLeft = 0
  BY DEF StepsLeft
<1> QED BY <1>1, <1>2, <1>3, <1>4, <1>5, <1>6, <1>7, <1>8 DEF Passes

LEMMA RangeInvariant == AllocSpec /\ Structured(code) => [](CompiledInv /\ LoopsUpInRange)
<1>1. AllocInit /\ Structured(code) => CompiledInv /\ LoopsUpInRange
  BY CompiledInitInv DEF AllocInit, FlowInit, UnifyInit, LoopsUpInRange
<1>2. CompiledInv /\ LoopsUpInRange /\ [AllocNext]_compileVars => (CompiledInv /\ LoopsUpInRange)'
  <2>1. ASSUME CompiledInv, LoopsUpInRange, UNCHANGED compileVars PROVE LoopsUpInRange'
    BY <2>1 DEF LoopsUpInRange, LastIndex, Indices, compileVars, unifyVars
  <2> QED BY <2>1, CompiledNextInv, CompiledStutterInv, LoopsUpStep
<1> QED BY <1>1, <1>2, PTL DEF AllocSpec

\* No step of the compilation of a function that irCompileNode structures is in vain: each takes
\* one from what is left, whatever types irFlowTypes refines.
THEOREM CompilationAdvancesIfStructured == AllocSpec /\ Structured(code) => CompilationAdvances
<1>1. CompiledInv /\ LoopsUpInRange /\ [AllocNext]_compileVars
        => [StepsLeft' \in Nat /\ StepsLeft' < StepsLeft]_compileVars
  BY StepAdvances
<1> QED BY <1>1, RangeInvariant, PTL DEF AllocSpec, CompilationAdvances

\* What is left never is more than seven times the nodes and two, the two rounds of irFlowTypes
\* counted: so many steps the compilation has, whoever schedules them.
THEOREM CompilationIsBounded == AllocSpec /\ Structured(code) => [](StepsLeft \in 0 .. 7 * Round)
BY RangeInvariant, StepsLeftBound, PTL
=============================================================================
