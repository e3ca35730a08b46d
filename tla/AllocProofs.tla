----------------------------- MODULE AllocProofs -----------------------------
(***************************************************************************)
(* Proofs about RegAlloc, for every set of well-formed functions.  The     *)
(* loop down leaves at each node only values whose location no later node  *)
(* uses, or what a call gives back.  So the loop up, when it hands out     *)
(* slots and takes them back, keeps the slots of those locations that a    *)
(* node not yet reached uses.  An invariant of each node's place carries   *)
(* over the two steps that put the argument slots before the others.       *)
(***************************************************************************)
EXTENDS RegAlloc, FlowTypesProofs, SequenceTheorems, WellFoundedInduction

\* The loop up that hands out slots, and what comes after it
Placing == pass \in {"assign", "fix", "compiled"}

\* The loops down and up are at nodes of the code or just past them.
AtIsPlace ==
    /\ pass = "lastUse" => at \in Indices \cup {-1}
    /\ Placing => at \in Nat

\* Each loop starts from nothing.
NothingUsed ==
    pass \in {"default", "unify", "flow"} =>
        irUsed = {} /\ callNode = NoOperand /\ lastUsed = [i \in Indices |-> <<>>]

NothingPlaced ==
    ~Placing =>
        /\ place = [i \in Indices |-> Nowhere]
        /\ inUse = [s \in Stacks |-> {}]
        /\ frame = [s \in Stacks \cup {"ASTK"} |-> 0]

CallIsCall == callNode # NoOperand => IsCall(callNode)

UsesAreSeen ==
    pass = "lastUse" => \A j \in Indices : j > at => Locations(j) \subseteq irUsed

\* What a node gives back
GivenBackLast ==
    \A k \in Indices : \A v \in Range(lastUsed[k]) :
        IF IsCall(k)
        THEN v = uidx[k] \/ IsArg(v) \/ (code[k].op = "CALL" /\ v = uidx[code[k].left])
        ELSE /\ v \in {uidx[k]} \cup Used(k)
             /\ \A j \in Indices : j > k => uidx[v] \notin Locations(j)

\* A node that is not its own location is an operand of an UNIFY node of that location.
LocationMoved ==
    pass # "default" =>
        \A i \in Indices : uidx[i] # i =>
            \E u \in Indices : /\ IsUnify(u) /\ Processed(u)
                               /\ i \in {code[u].left, code[u].right}
                               /\ uidx[u] = uidx[i]

\* The loop up has passed i; the third loop has; by how much it has moved i; and the
\* slots of a stack, without those before them
Done(i)   == pass # "assign" \/ i < at
Fixed(i)  == pass = "compiled" \/ (pass = "fix" /\ i < at)
Offset(i) == IF Fixed(i) /\ place[i].stype = "PSTK" THEN frame["ASTK"] ELSE 0
Slots(s)  == IF pass # "assign" /\ s = "PSTK" THEN frame[s] - frame["ASTK"] ELSE frame[s]

PlaceInv(i) ==
    /\ place[i].stype = "NIL" => place[i] = Nowhere /\ (Done(i) => rtype[i] = "NIL")
    /\ place[i].stype = "ASTK" => IsArg(i) /\ place[i].addr < frame["ASTK"]
    /\ IsArg(i) => place[i].stype \notin Stacks
    /\ place[i].stype \in Stacks =>
         /\ place[uidx[i]].stype = place[i].stype
         /\ place[uidx[i]].addr - Offset(uidx[i]) = place[i].addr - Offset(i)
         /\ place[i].addr - Offset(i) \in 0 .. Slots(place[i].stype) - 1
         /\ rtype[uidx[i]] \in IF place[i].stype = "PSTK" THEN BoxedTypes ELSE UnboxedTypes

PlacesInv == Placing => \A i \in Indices : PlaceInv(i)

\* No more slots are in use than nodes have been passed.
SlotsInUse == pass = "assign" => \A s \in Stacks : inUse[s] \subseteq 0 .. at - 1

\* What is live has its slot, and has it to itself.
SlotsKept ==
    pass = "assign" /\ CallsGaveBackTheDead =>
        /\ \A i \in Live : Holds(i)
        /\ \A i, j \in Live : uidx[i] # uidx[j] => place[i] # place[j]

AllocInv ==
    /\ FlowInv
    /\ AllocTypeOK
    /\ AtIsPlace
    /\ NothingUsed
    /\ NothingPlaced
    /\ CallIsCall
    /\ UsesAreSeen
    /\ GivenBackLast
    /\ LocationMoved
    /\ PlacesInv
    /\ SlotsInUse
    /\ SlotsKept
------------------------------------------------------------------------------
\* The operands of a node are up to three.
LEMMA UsedOperands == \A j : Used(j) = {code[j].left, code[j].right, code[j].third} \ {NoOperand}
<1> TAKE j
<1>1. DOMAIN Operands(j) = {1, 2, 3}
  BY DEF Operands
<1>2. Operands(j)[1] = code[j].left /\ Operands(j)[2] = code[j].right /\ Operands(j)[3] = code[j].third
  BY DEF Operands
<1>3. Range(Operands(j)) = {code[j].left, code[j].right, code[j].third}
  BY <1>1, <1>2 DEF Range
<1> QED BY <1>3 DEF Used

\* The indices, and the operands that a well-formed function gives its nodes
LEMMA CodeFacts ==
    ASSUME WellFormed(code)
    PROVE  /\ LastIndex \in Nat /\ Indices = 0 .. LastIndex
           /\ \A i \in Indices :
                /\ Used(i) \subseteq Indices \ {NoOperand}
                /\ code[i].left \in Indices /\ code[i].right \in Indices /\ code[i].third \in Indices
                /\ IsUnify(i) => /\ code[i].left \in 0 .. i - 1 /\ code[i].right \in 0 .. i - 1
                                 /\ code[i].left \in Used(i) /\ code[i].right \in Used(i)
                                 /\ ~IsArg(code[i].left) /\ ~IsArg(code[i].right)
                /\ IsArg(i) => code[i].imm \in Nat /\ ~IsUnify(i) /\ ~IsCall(i)
                /\ code[i].op = "CALL" => code[i].left \in Used(i)
<1>1. LastIndex \in Nat /\ Indices = 0 .. LastIndex
  BY CodeShape
<1>2. \A u \in Indices : IsUnify(u) => code[u].left \in 0 .. u - 1 /\ code[u].right \in 0 .. u - 1
  BY CodeShape
<1>3. \A i \in Indices : code[i].left \in Indices /\ code[i].right \in Indices /\ code[i].third \in Indices
  BY OperandsInRange
<1>4. \A i \in Indices : Used(i) \subseteq Indices \ {NoOperand}
  BY <1>3, UsedOperands
<1>5. \A i \in Indices :
        /\ IsUnify(i) => /\ ~IsArg(code[i].left) /\ ~IsArg(code[i].right)
                         /\ NoOperand \notin {code[i].left, code[i].right}
        /\ IsArg(i) => code[i].imm \in Nat
        /\ code[i].op = "CALL" => code[i].left # NoOperand
  BY DEF WellFormed, Indices, IsUnify, IsArg
<1>6. \A i : IsArg(i) => ~IsUnify(i) /\ ~IsCall(i)
  BY DEF IsArg, IsUnify, IsCall
<1>7. \A i \in Indices : /\ code[i].op = "CALL" => code[i].left \in Used(i)
                         /\ IsUnify(i) => code[i].left \in Used(i) /\ code[i].right \in Used(i)
  BY <1>5, UsedOperands
<1> QED BY <1>1, <1>2, <1>3, <1>4, <1>5, <1>6, <1>7

\* A set of numbers has a least one.
LEMMA SmallestIsMin ==
    ASSUME NEW S \in SUBSET Nat, S # {}
    PROVE  Min(S) \in S /\ \A n \in S : Min(S) <= n
<1> DEFINE R == OpToRel(<, Nat)
<1>1. IsWellFoundedOn(R, Nat)
  BY NatLessThanWellFounded
<1>2. \A m, n \in Nat : m < n => <<m, n>> \in R
  BY DEF OpToRel
<1> HIDE DEF R
<1>3. PICK m \in S : \A n \in S : <<n, m>> \notin R
  BY <1>1, WFMin
<1>4. \A n \in S : ~(n < m)
  BY <1>2, <1>3
<1>5. \A n \in S : m <= n
  BY <1>4
<1> QED BY <1>5 DEF Min

\* A location is awaited when a node at or after the current one uses it.
LEMMA AwaitedLocations ==
    \A l : l \in Awaited <=> \E j \in Indices : j >= at /\ l \in Locations(j)
BY DEF Awaited
------------------------------------------------------------------------------
\* The uses of the nodes in S have been seen, on top of those that were before.
Seen(u, S) ==
    /\ u.last \in Seq(Indices)
    /\ u.used \subseteq Indices
    /\ irUsed \subseteq u.used
    /\ \A v \in S \ {NoOperand} : uidx[v] \in u.used
    /\ \A v \in Range(u.last) : v \in S \ {NoOperand} /\ uidx[v] \notin irUsed

\* What Append adds to a sequence is its last argument.
LEMMA RangeOfAppend ==
    ASSUME NEW T, NEW s \in Seq(T), NEW v \in T
    PROVE  /\ Append(s, v) \in Seq(T)
           /\ \A w \in Range(Append(s, v)) : w \in Range(s) \/ w = v
<1>1. /\ Append(s, v) \in Seq(T)
      /\ Len(Append(s, v)) = Len(s) + 1
      /\ \A k \in 1 .. Len(s) : Append(s, v)[k] = s[k]
      /\ Append(s, v)[Len(s) + 1] = v
  BY AppendProperties
<1>2. DOMAIN s = 1 .. Len(s) /\ DOMAIN Append(s, v) = 1 .. Len(s) + 1 /\ Len(s) \in Nat
  BY <1>1
<1>3. \A k \in DOMAIN Append(s, v) : k \in DOMAIN s \/ k = Len(s) + 1
  BY <1>2
<1> QED BY <1>1, <1>2, <1>3 DEF Range

\* One more use is one more that has been seen.
LEMMA UseIsSeen ==
    ASSUME uidx \in [Indices -> Indices], NEW S, NEW u, Seen(u, S), NEW v \in Indices
    PROVE  Seen(Use(u, v), S \cup {v})
<1>1. CASE v = NoOperand \/ uidx[v] \in u.used
  BY <1>1 DEF Use, Seen
<1>2. CASE ~(v = NoOperand \/ uidx[v] \in u.used)
  <2>1. Use(u, v).last = Append(u.last, v) /\ Use(u, v).used = u.used \cup {uidx[v]}
    BY <1>2 DEF Use
  <2>2. /\ Append(u.last, v) \in Seq(Indices)
        /\ \A w \in Range(Append(u.last, v)) : w \in Range(u.last) \/ w = v
    BY RangeOfAppend DEF Seen
  <2>3. uidx[v] \notin irUsed
    BY <1>2 DEF Seen
  <2> QED BY <1>2, <2>1, <2>2, <2>3 DEF Seen
<1> QED BY <1>1, <1>2

\* What sdyn_irRegAlloc finds at a node: uses of its operands, last ones where no later
\* node has used the location.
LEMMA UsesAreFound ==
    ASSUME WellFormed(code), uidx \in [Indices -> Indices], irUsed \subseteq Indices, NEW i \in Indices
    PROVE  /\ Uses(i).last \in Seq(Indices)
           /\ Uses(i).used \subseteq Indices
           /\ irUsed \subseteq Uses(i).used
           /\ Locations(i) \subseteq Uses(i).used
           /\ \A v \in Range(Uses(i).last) : v \in {uidx[i]} \cup Used(i) /\ uidx[v] \notin irUsed
                                             /\ v # NoOperand
<1> DEFINE none  == [last |-> <<>>, used |-> irUsed]
           own   == Use(none, uidx[i])
           left  == Use(own, code[i].left)
           right == Use(left, code[i].right)
           all   == {uidx[i]} \cup {code[i].left} \cup {code[i].right} \cup {code[i].third}
<1>1. code[i].left \in Indices /\ code[i].right \in Indices /\ code[i].third \in Indices /\ uidx[i] \in Indices
  BY OperandsInRange
<1>2. Seen(none, {})
  BY DEF Seen, Range
<1>3. Seen(own, {} \cup {uidx[i]})
  BY <1>1, <1>2, UseIsSeen
<1>4. Seen(left, ({} \cup {uidx[i]}) \cup {code[i].left})
  BY <1>1, <1>3, UseIsSeen
<1>5. Seen(right, (({} \cup {uidx[i]}) \cup {code[i].left}) \cup {code[i].right})
  BY <1>1, <1>4, UseIsSeen
<1>6. Seen(Uses(i), ((({} \cup {uidx[i]}) \cup {code[i].left}) \cup {code[i].right}) \cup {code[i].third})
  BY <1>1, <1>5, UseIsSeen DEF Uses
<1> HIDE DEF none, own, left, right
<1>7. Seen(Uses(i), all)
  <2>1. ((({} \cup {uidx[i]}) \cup {code[i].left}) \cup {code[i].right}) \cup {code[i].third} = all
    OBVIOUS
  <2> HIDE DEF all
  <2> QED BY <1>6, <2>1
<1>9. Used(i) \subseteq all \ {NoOperand}
  BY UsedOperands
<1>10. Locations(i) \subseteq Uses(i).used
  BY <1>7, <1>9 DEF Seen, Locations
<1>11. \A v \in Range(Uses(i).last) : v \in {uidx[i]} \cup Used(i) /\ uidx[v] \notin irUsed /\ v # NoOperand
  BY <1>7, UsedOperands DEF Seen
<1> QED BY <1>7, <1>10, <1>11 DEF Seen
------------------------------------------------------------------------------
\* What stays when neither the function nor its locations change
LEMMA SameCode ==
    ASSUME code' = code, uidx' = uidx
    PROVE  /\ Indices' = Indices
           /\ \A i : /\ IsArg(i)' = IsArg(i) /\ IsCall(i)' = IsCall(i) /\ IsUnify(i)' = IsUnify(i)
                     /\ Used(i)' = Used(i) /\ Locations(i)' = Locations(i)
           /\ \A c \in Indices : GivesBackTheDead(c)' = GivesBackTheDead(c)
           /\ CallsGiveBackTheDead' = CallsGiveBackTheDead
<1>1. Indices' = Indices
  BY DEF Indices
<1>2. \A i : /\ IsArg(i)' = IsArg(i) /\ IsCall(i)' = IsCall(i) /\ IsUnify(i)' = IsUnify(i)
             /\ Used(i)' = Used(i) /\ Locations(i)' = Locations(i)
  BY DEF IsArg, IsCall, IsUnify, Used, Operands, Locations
<1>3. \A c \in Indices : GivesBackTheDead(c)' = GivesBackTheDead(c)
  BY <1>1, <1>2 DEF GivesBackTheDead
<1> QED BY <1>1, <1>2, <1>3 DEF CallsGiveBackTheDead

\* What of the invariant is about earlier passes stays true.
LEMMA KeepsFlowInv ==
    ASSUME FlowInv, LocationMoved, Unified, Unified', UNCHANGED <<code, uidx, flowVars>>,
           at' \in Int, pass' \in Passes
    PROVE  FlowInv' /\ LocationMoved'
<1>1. UnifyInv'
  BY KeepsUnifyInv DEF FlowInv
<1>2. FlowTypeOK' /\ UnifiesAreBoxed'
  BY <1>1 DEF FlowInv, FlowTypeOK, UnifyInv, UnifiesAreBoxed, Indices, IsUnify, flowVars
<1>3. LocationMoved'
  BY SameCode DEF LocationMoved, Processed, Unified
<1> QED BY <1>1, <1>2, <1>3 DEF FlowInv

\* A node is in the location of an UNIFY that it is an operand of.
LEMMA UnifyMoves ==
    ASSUME UnifyInv, LocationMoved, UnifyNext
    PROVE  LocationMoved'
<1> USE DEF UnifyInv, UnifyTypeOK
<1>1. CASE DefaultUidx
  BY <1>1 DEF DefaultUidx, LocationMoved
<1>2. CASE DefaultEnds
  <2>1. at \in Indices \cup {-1}
    BY <1>2 DEF DefaultEnds, AtInRange, Unified
  <2>2. \A i \in Indices : uidx[i] = i
    BY <1>2, <2>1, CodeFacts DEF DefaultEnds, DefaultDone
  <2> QED BY <1>2, <2>2 DEF DefaultEnds, LocationMoved, Indices
<1>3. CASE UnifyOperands
  <2>1. /\ pass = "unify" /\ pass' = "unify" /\ at \in Indices /\ at' = at - 1 /\ code' = code
    BY <1>3, CodeFacts DEF UnifyOperands, AtInRange, Unified
  <2>2. /\ Indices' = Indices
        /\ \A u \in Indices : IsUnify(u)' = IsUnify(u) /\ (Processed(u) \/ u = at <=> Processed(u)')
    BY <2>1, CodeFacts DEF Indices, IsUnify, Processed, Unified
  <2>3. CASE ~IsUnify(at)
    BY <1>3, <2>1, <2>2, <2>3 DEF UnifyOperands, LocationMoved
  <2>4. CASE IsUnify(at)
    <3>1. code[at].left \in 0 .. at - 1 /\ code[at].right \in 0 .. at - 1
      BY <2>1, <2>4, CodeFacts
    <3>2. \A i \in Indices : uidx'[i] = IF i \in {code[at].left, code[at].right} THEN uidx[at] ELSE uidx[i]
      BY <1>3, <2>4, CodeFacts DEF UnifyOperands
    <3>3. \A u \in Indices : Processed(u) \/ u = at => uidx'[u] = uidx[u]
      <4>1. \A u \in Indices : u \in Int
        BY CodeFacts
      <4>2. \A u \in Indices : Processed(u) \/ u = at => u >= at
        BY <2>1, <4>1 DEF Processed, Unified
      <4>3. at \in Int /\ \A v \in {code[at].left, code[at].right} : v \in Int /\ v < at
        BY <2>1, <3>1, <4>1
      <4>4. \A u \in Indices : Processed(u) \/ u = at => u \notin {code[at].left, code[at].right}
        BY <4>1, <4>2, <4>3
      <4> QED BY <3>2, <4>4
    <3>4. SUFFICES ASSUME NEW i \in Indices, uidx'[i] # i
                   PROVE  \E u \in Indices : /\ IsUnify(u) /\ Processed(u)'
                                             /\ i \in {code[u].left, code[u].right}
                                             /\ uidx'[u] = uidx'[i]
      BY <2>1, <2>2 DEF LocationMoved
    <3>5. CASE i \in {code[at].left, code[at].right}
      BY <2>1, <2>2, <2>4, <3>2, <3>3, <3>5
    <3>6. CASE i \notin {code[at].left, code[at].right}
      <4>1. uidx'[i] = uidx[i] /\ uidx[i] # i
        BY <3>2, <3>4, <3>6
      <4>2. PICK u \in Indices : /\ IsUnify(u) /\ Processed(u)
                                 /\ i \in {code[u].left, code[u].right}
                                 /\ uidx[u] = uidx[i]
        BY <2>1, <4>1 DEF LocationMoved
      <4> QED BY <2>2, <3>3, <4>1, <4>2
    <3> QED BY <3>5, <3>6
  <2> QED BY <2>3, <2>4
<1>4. CASE UnifyEnds
  <2>1. pass = "unify" /\ code' = code /\ uidx' = uidx /\ pass' = "flow"
    BY <1>4 DEF UnifyEnds
  <2>2. \A u : Processed(u)'
    BY <2>1 DEF Processed, Unified
  <2> QED BY <2>1, <2>2, SameCode DEF LocationMoved
<1> QED BY <1>1, <1>2, <1>3, <1>4 DEF UnifyNext

\* Arguments have a location of their own, and links to a location end there.
LEMMA LocationFacts ==
    ASSUME FlowInv, LocationMoved, Unified
    PROVE  /\ \A i \in Indices : /\ uidx[i] \in Indices /\ uidx[uidx[i]] = uidx[i]
                                 /\ uidx[i] # i => IsUnify(uidx[i]) /\ rtype[uidx[i]] = "BOXED" /\ uidx[i] > i
           /\ \A i, j \in Indices : IsArg(i) /\ uidx[j] = uidx[i] => j = i /\ uidx[i] = i
<1>1. WellFormed(code) /\ uidx \in [Indices -> Indices]
  BY DEF FlowInv, UnifyInv, UnifyTypeOK
<1>2. \A i \in Indices : /\ uidx[i] \in Indices /\ uidx[uidx[i]] = uidx[i]
                         /\ uidx[i] # i => IsUnify(uidx[i]) /\ rtype[uidx[i]] = "BOXED" /\ uidx[i] > i
  BY <1>1 DEF FlowInv, UnifyInv, TargetsAreFinal, Unified, UnifiesAreBoxed
<1>3. \A i \in Indices : IsArg(i) => uidx[i] = i
  BY <1>1, CodeFacts DEF LocationMoved, Unified
<1>4. \A i \in Indices : IsArg(i) => ~IsUnify(i)
  BY <1>1, CodeFacts
<1> QED BY <1>2, <1>3, <1>4
------------------------------------------------------------------------------
\* Nothing is used or placed at first.
LEMMA AllocInitInv == AllocInit => AllocInv
<1> SUFFICES ASSUME AllocInit PROVE AllocInv
  OBVIOUS
<1>1. FlowInv
  BY FlowInitInv DEF AllocInit
<1>2. pass = "default" /\ FlowTypeOK /\ WellFormed(code)
  BY <1>1 DEF AllocInit, FlowInit, UnifyInit, FlowInv, UnifyInv, UnifyTypeOK
<1>3. NoOperand \in Indices
  BY <1>2, OperandsInRange
<1>4. AllocTypeOK
  BY <1>2, <1>3 DEF AllocInit, AllocTypeOK, Nowhere, Places
<1>5. \A k \in Indices : Range(lastUsed[k]) = {}
  BY DEF AllocInit, Range
<1> QED
  BY <1>1, <1>2, <1>4, <1>5
     DEF AllocInit, AllocInv, AtIsPlace, NothingUsed, NothingPlaced, CallIsCall, UsesAreSeen, GivenBackLast,
         LocationMoved, PlacesInv, SlotsInUse, SlotsKept, Placing, NoOperand

\* irUidx and irFlowTypes leave the allocation to come.
LEMMA FlowStepInv ==
    ASSUME AllocInv, FlowNext, UNCHANGED allocVars
    PROVE  AllocInv'
<1> USE DEF AllocInv
<1>1. FlowInv'
  BY FlowNextInv
<1>2. WellFormed(code) /\ LastIndex \in Nat /\ Indices = 0 .. LastIndex
  BY CodeFacts DEF FlowInv, UnifyInv, UnifyTypeOK
<1>3. /\ pass \in {"default", "unify", "flow"}
      /\ pass' \in {"default", "unify", "flow", "lastUse"}
      /\ pass' = "lastUse" => at' = LastIndex
      /\ code' = code
  BY DEF FlowNext, UnifyNext, DefaultUidx, DefaultEnds, UnifyOperands, UnifyEnds, FlowNode, FlowAgain,
         FlowEnds
<1>4. Indices' = Indices /\ \A i : IsCall(i)' = IsCall(i)
  BY <1>3 DEF Indices, IsCall
<1>5. /\ irUsed = {} /\ callNode = NoOperand /\ lastUsed = [i \in Indices |-> <<>>]
      /\ UNCHANGED <<irUsed, callNode, lastUsed, place, inUse, frame>>
  BY <1>3 DEF NothingUsed, allocVars
<1>6. AllocTypeOK'
  BY <1>1, <1>4, <1>5 DEF FlowInv, AllocTypeOK
<1>7. LocationMoved'
  <2>1. CASE UnifyNext
    BY <2>1, UnifyMoves DEF FlowInv
  <2>2. CASE ~UnifyNext
    <3>1. Unified /\ Unified' /\ code' = code /\ uidx' = uidx
      BY <2>2 DEF FlowNext, FlowNode, FlowAgain, FlowEnds, Unified
    <3> QED BY <3>1, SameCode DEF LocationMoved, Processed, Unified
  <2> QED BY <2>1, <2>2
<1>8. AtIsPlace' /\ NothingUsed' /\ NothingPlaced' /\ CallIsCall'
  BY <1>2, <1>3, <1>4, <1>5 DEF AtIsPlace, NothingUsed, NothingPlaced, CallIsCall, Placing
<1>9. UsesAreSeen'
  BY <1>2, <1>3, <1>4 DEF UsesAreSeen
<1>10. GivenBackLast'
  <2>1. \A k \in Indices : Range(lastUsed[k]) = {}
    BY <1>5 DEF Range
  <2>2. \A k \in Indices' : Range(lastUsed'[k]) = {}
    BY <1>4, <1>5, <2>1
  <2> QED BY <2>2 DEF GivenBackLast
<1>11. PlacesInv' /\ SlotsInUse' /\ SlotsKept'
  BY <1>3 DEF PlacesInv, SlotsInUse, SlotsKept, Placing
<1> QED BY <1>1, <1>6, <1>7, <1>8, <1>9, <1>10, <1>11
------------------------------------------------------------------------------
\* What a concatenation has, one of its parts has.
LEMMA RangeOfConcat ==
    ASSUME NEW T, NEW s \in Seq(T), NEW t \in Seq(T)
    PROVE  /\ s \o t \in Seq(T)
           /\ \A w \in Range(s \o t) : w \in Range(s) \/ w \in Range(t)
<1>1. /\ s \o t \in Seq(T)
      /\ Len(s \o t) = Len(s) + Len(t)
      /\ \A k \in 1 .. Len(s) + Len(t) : (s \o t)[k] = IF k <= Len(s) THEN s[k] ELSE t[k - Len(s)]
  BY ConcatProperties
<1>2. DOMAIN s = 1 .. Len(s) /\ DOMAIN t = 1 .. Len(t) /\ DOMAIN (s \o t) = 1 .. Len(s) + Len(t)
      /\ Len(s) \in Nat /\ Len(t) \in Nat
  BY <1>1
<1>3. SUFFICES ASSUME NEW k \in 1 .. Len(s) + Len(t)
               PROVE  (s \o t)[k] \in Range(s) \/ (s \o t)[k] \in Range(t)
  BY <1>1, <1>2 DEF Range
<1>4. CASE k <= Len(s)
  BY <1>1, <1>2, <1>4 DEF Range
<1>5. CASE ~(k <= Len(s))
  <2>1. k - Len(s) \in DOMAIN t
    BY <1>2, <1>5
  <2> QED BY <1>1, <1>5, <2>1 DEF Range
<1> QED BY <1>4, <1>5

\* A sequence of one value has that one.
LEMMA RangeOfOne ==
    ASSUME NEW T, NEW v \in T
    PROVE  <<v>> \in Seq(T) /\ \A w \in Range(<<v>>) : w = v
BY DEF Range

\* A call is given its own location, its function's and its last argument's.
LEMMA CallUsesFound ==
    ASSUME WellFormed(code), uidx \in [Indices -> Indices], NEW c \in Indices, NEW a \in Indices
    PROVE  /\ CallUses(c, a) \in Seq(Indices)
           /\ \A v \in Range(CallUses(c, a)) :
                v = uidx[c] \/ v = uidx[a] \/ (code[c].op = "CALL" /\ v = uidx[code[c].left])
<1> DEFINE fun == IF code[c].op = "CALL" THEN <<uidx[code[c].left]>> ELSE <<>>
<1>1. uidx[c] \in Indices /\ uidx[a] \in Indices /\ uidx[code[c].left] \in Indices
  BY OperandsInRange
<1>2. fun \in Seq(Indices) /\ \A v \in Range(fun) : code[c].op = "CALL" /\ v = uidx[code[c].left]
  BY <1>1, RangeOfOne DEF Range
<1>3. <<uidx[c]>> \in Seq(Indices) /\ <<uidx[a]>> \in Seq(Indices)
      /\ (\A w \in Range(<<uidx[c]>>) : w = uidx[c]) /\ (\A w \in Range(<<uidx[a]>>) : w = uidx[a])
  BY <1>1, RangeOfOne
<1>4. CallUses(c, a) = (<<uidx[c]>> \o fun) \o <<uidx[a]>>
  BY DEF CallUses
<1> HIDE DEF fun
<1>5. /\ <<uidx[c]>> \o fun \in Seq(Indices)
      /\ \A w \in Range(<<uidx[c]>> \o fun) : w \in Range(<<uidx[c]>>) \/ w \in Range(fun)
  BY <1>2, <1>3, RangeOfConcat
<1>6. /\ (<<uidx[c]>> \o fun) \o <<uidx[a]>> \in Seq(Indices)
      /\ \A w \in Range((<<uidx[c]>> \o fun) \o <<uidx[a]>>) :
            w \in Range(<<uidx[c]>> \o fun) \/ w \in Range(<<uidx[a]>>)
  BY <1>3, <1>5, RangeOfConcat
<1> QED BY <1>2, <1>3, <1>4, <1>5, <1>6

\* The loop down leaves only last uses, or what calls give back.
LEMMA LastUseInv ==
    ASSUME AllocInv, LastUse
    PROVE  AllocInv'
<1> USE DEF AllocInv
<1>1. /\ pass = "lastUse" /\ pass' = "lastUse" /\ at \in Indices /\ at' = at - 1
      /\ UNCHANGED <<code, uidx, flowVars>> /\ UNCHANGED <<place, inUse, frame>>
  BY DEF LastUse, AtIsPlace
<1>2. /\ WellFormed(code) /\ uidx \in [Indices -> Indices] /\ irUsed \subseteq Indices
      /\ callNode \in Indices /\ lastUsed \in [Indices -> Seq(Indices)]
  BY DEF FlowInv, UnifyInv, UnifyTypeOK, AllocTypeOK
<1>3. LastIndex \in Nat /\ Indices = 0 .. LastIndex
  BY <1>2, CodeFacts
<1>4. Unified /\ Unified' /\ pass' \in Passes /\ at' \in Int
  BY <1>1, <1>3 DEF Unified, Passes
<1>5. FlowInv' /\ LocationMoved'
  BY <1>1, <1>4, KeepsFlowInv
<1>6. /\ Indices' = Indices
      /\ \A i : /\ IsArg(i)' = IsArg(i) /\ IsCall(i)' = IsCall(i)
                /\ Used(i)' = Used(i) /\ Locations(i)' = Locations(i)
  BY <1>1, SameCode
<1>7. /\ Uses(at).last \in Seq(Indices)
      /\ Uses(at).used \subseteq Indices
      /\ irUsed \subseteq Uses(at).used
      /\ Locations(at) \subseteq Uses(at).used
      /\ \A v \in Range(Uses(at).last) : v \in {uidx[at]} \cup Used(at) /\ uidx[v] \notin irUsed
  BY <1>1, <1>2, UsesAreFound
<1>8. /\ irUsed' = Uses(at).used
      /\ callNode' = IF IsCall(at) THEN at ELSE callNode
      /\ \A i \in Indices : lastUsed'[i] =
           IF i = at /\ ~IsCall(at) THEN Uses(at).last
           ELSE IF IsArg(at) /\ callNode # NoOperand /\ i = callNode /\ lastUsed[i] = <<>>
                THEN CallUses(i, at)
           ELSE lastUsed[i]
      /\ DOMAIN lastUsed' = Indices
      /\ lastUsed' = [i \in Indices |-> lastUsed'[i]]
  BY DEF LastUse
<1>9. /\ CallUses(callNode, at) \in Seq(Indices)
      /\ \A v \in Range(CallUses(callNode, at)) :
           v = uidx[callNode] \/ v = uidx[at]
           \/ (code[callNode].op = "CALL" /\ v = uidx[code[callNode].left])
  BY <1>1, <1>2, CallUsesFound
<1>10. AllocTypeOK'
  <2>1. callNode' \in Indices
    BY <1>1, <1>2, <1>8
  <2>2. \A i \in Indices : lastUsed'[i] \in Seq(Indices)
    BY <1>2, <1>7, <1>8, <1>9
  <2>3. lastUsed' \in [Indices -> Seq(Indices)]
    BY <1>8, <2>2
  <2>4. place' \in [Indices -> Places] /\ inUse' \in [Stacks -> SUBSET Indices]
        /\ frame' \in [Stacks \cup {"ASTK"} -> Nat]
    BY <1>1 DEF AllocTypeOK
  <2> QED BY <1>5, <1>6, <1>7, <1>8, <2>1, <2>3, <2>4 DEF AllocTypeOK, FlowInv
<1>11. AtIsPlace' /\ NothingUsed' /\ NothingPlaced'
  BY <1>1, <1>3, <1>6 DEF AtIsPlace, NothingUsed, NothingPlaced, Placing
<1>12. CallIsCall'
  BY <1>6, <1>8 DEF CallIsCall
<1>13. UsesAreSeen'
  <2>1. \A j \in Indices : j > at => Locations(j) \subseteq irUsed
    BY <1>1 DEF UsesAreSeen
  <2>2. \A j \in Indices : j > at - 1 => j = at \/ j > at
    BY <1>1, <1>3
  <2>3. \A j \in Indices : j > at - 1 => Locations(j) \subseteq irUsed'
    BY <1>7, <1>8, <2>1, <2>2
  <2> QED BY <1>1, <1>6, <2>3 DEF UsesAreSeen
<1>14. GivenBackLast'
  <2>1. SUFFICES ASSUME NEW k \in Indices, NEW v \in Range(lastUsed'[k])
                 PROVE  IF IsCall(k)
                        THEN v = uidx[k] \/ IsArg(v) \/ (code[k].op = "CALL" /\ v = uidx[code[k].left])
                        ELSE /\ v \in {uidx[k]} \cup Used(k)
                             /\ \A j \in Indices : j > k => uidx[v] \notin Locations(j)
    BY <1>1, <1>6 DEF GivenBackLast
  <2>2. CASE k = at /\ ~IsCall(at)
    <3>1. v \in Range(Uses(at).last)
      BY <1>8, <2>1, <2>2
    <3> QED BY <1>1, <1>7, <2>2, <3>1 DEF UsesAreSeen
  <2>3. CASE IsArg(at) /\ callNode # NoOperand /\ k = callNode /\ lastUsed[k] = <<>>
    <3>1. CASE k = at /\ ~IsCall(at)
      BY <2>2, <3>1
    <3>2. CASE ~(k = at /\ ~IsCall(at))
      <4>1. v \in Range(CallUses(callNode, at))
        BY <1>8, <2>1, <2>3, <3>2
      <4>2. uidx[at] = at
        BY <1>1, <1>4, <2>3, LocationFacts
      <4>3. IsCall(k)
        BY <2>3 DEF CallIsCall
      <4> QED BY <1>9, <2>3, <4>1, <4>2, <4>3
    <3> QED BY <3>1, <3>2
  <2>4. CASE ~(k = at /\ ~IsCall(at)) /\ ~(IsArg(at) /\ callNode # NoOperand /\ k = callNode /\ lastUsed[k] = <<>>)
    <3>1. v \in Range(lastUsed[k])
      BY <1>8, <2>1, <2>4
    <3> QED BY <3>1 DEF GivenBackLast
  <2> QED BY <2>2, <2>3, <2>4
<1>15. PlacesInv' /\ SlotsInUse' /\ SlotsKept'
  BY <1>1 DEF PlacesInv, SlotsInUse, SlotsKept, Placing
<1> QED BY <1>5, <1>10, <1>11, <1>12, <1>13, <1>14, <1>15

\* The loop up starts with no places.
LEMMA LastUseEndsInv ==
    ASSUME AllocInv, LastUseEnds
    PROVE  AllocInv'
<1> USE DEF AllocInv
<1>1. /\ pass = "lastUse" /\ pass' = "assign" /\ at' = 0
      /\ UNCHANGED <<code, uidx, flowVars>>
      /\ UNCHANGED <<irUsed, callNode, lastUsed, place, inUse, frame>>
  BY DEF LastUseEnds, allocVars
<1>2. WellFormed(code) /\ LastIndex \in Nat /\ Indices = 0 .. LastIndex
  BY CodeFacts DEF FlowInv, UnifyInv, UnifyTypeOK
<1>3. FlowInv' /\ LocationMoved'
  BY <1>1, KeepsFlowInv DEF Unified, Passes
<1>4. /\ Indices' = Indices
      /\ \A i : /\ IsArg(i)' = IsArg(i) /\ IsCall(i)' = IsCall(i)
                /\ Used(i)' = Used(i) /\ Locations(i)' = Locations(i)
  BY <1>1, SameCode
<1>5. /\ \A i \in Indices : place'[i] = Nowhere
      /\ \A s \in Stacks : inUse'[s] = {}
  BY <1>1 DEF NothingPlaced, Placing
<1>6. AllocTypeOK'
  BY <1>1, <1>3, <1>4 DEF AllocTypeOK, FlowInv
<1>7. AtIsPlace' /\ NothingUsed' /\ NothingPlaced' /\ CallIsCall' /\ UsesAreSeen'
  BY <1>1, <1>4 DEF AtIsPlace, NothingUsed, NothingPlaced, CallIsCall, UsesAreSeen, Placing
<1>8. GivenBackLast'
  BY <1>1, <1>4 DEF GivenBackLast
<1>9. PlacesInv'
  BY <1>1, <1>2, <1>4, <1>5 DEF PlacesInv, PlaceInv, Done, Nowhere, Stacks
<1>10. SlotsInUse' /\ SlotsKept'
  BY <1>4, <1>5 DEF SlotsInUse, SlotsKept, Live, Nowhere, Stacks
<1> QED BY <1>3, <1>6, <1>7, <1>8, <1>9, <1>10
------------------------------------------------------------------------------
\* PlaceInv while slots are handed out: p gives the nodes their places and f the frame its
\* sizes.
SlotOK(p, f, i) ==
    /\ p[i].stype = "NIL" => p[i] = Nowhere
    /\ p[i].stype = "ASTK" => IsArg(i) /\ p[i].addr < f["ASTK"]
    /\ IsArg(i) => p[i].stype \notin Stacks
    /\ p[i].stype \in Stacks =>
         /\ p[uidx[i]] = p[i]
         /\ p[i].addr < f[p[i].stype]
         /\ rtype[uidx[i]] \in IF p[i].stype = "PSTK" THEN BoxedTypes ELSE UnboxedTypes

\* It is, and a node that has been passed has a place if it has a value.
LEMMA SlotIsPlace ==
    ASSUME AllocTypeOK, pass = "assign", NEW i \in Indices
    PROVE  PlaceInv(i) <=> SlotOK(place, frame, i)
                           /\ (i < at /\ place[i].stype = "NIL" => rtype[i] = "NIL")
<1>1. uidx[i] \in Indices
  BY DEF AllocTypeOK, FlowTypeOK, UnifyTypeOK
<1>2. \A k \in Indices : place[k].addr \in Nat /\ place[k] = [stype |-> place[k].stype, addr |-> place[k].addr]
                         /\ Offset(k) = 0
  BY DEF AllocTypeOK, Places, Offset, Fixed
<1>3. \A s : Slots(s) = frame[s]
  BY DEF Slots
<1>4. Done(i) <=> i < at
  BY DEF Done
<1>5. place[i].stype \in Stacks => frame[place[i].stype] \in Nat
  BY DEF AllocTypeOK
<1>6. /\ place[uidx[i]].addr - Offset(uidx[i]) = place[i].addr - Offset(i) <=> place[uidx[i]].addr = place[i].addr
      /\ place[i].stype \in Stacks =>
           (place[i].addr - Offset(i) \in 0 .. Slots(place[i].stype) - 1 <=> place[i].addr < frame[place[i].stype])
  <2>1. \A m, n \in Nat : (m - 0 = n - 0 <=> m = n) /\ (m - 0 \in 0 .. n - 1 <=> m < n)
    OBVIOUS
  <2> QED BY <1>1, <1>2, <1>3, <1>5, <2>1
<1>7. place[uidx[i]] = place[i] <=> place[uidx[i]].stype = place[i].stype /\ place[uidx[i]].addr = place[i].addr
  BY <1>1, <1>2
<1> QED BY <1>4, <1>6, <1>7 DEF PlaceInv, SlotOK

\* The same of the next state
LEMMA SlotIsPlaceNext ==
    ASSUME AllocTypeOK', pass' = "assign", UNCHANGED <<code, uidx, rtype>>, NEW i \in Indices
    PROVE  PlaceInv(i)' <=> SlotOK(place', frame', i)
                           /\ (i < at' /\ place'[i].stype = "NIL" => rtype[i] = "NIL")
<1>0. Indices' = Indices /\ \A k : IsArg(k)' = IsArg(k)
  BY DEF Indices, IsArg
<1>1. uidx[i] \in Indices
  BY <1>0 DEF AllocTypeOK, FlowTypeOK, UnifyTypeOK
<1>2. \A k \in Indices : place'[k].addr \in Nat /\ place'[k] = [stype |-> place'[k].stype, addr |-> place'[k].addr]
                         /\ Offset(k)' = 0
  BY <1>0 DEF AllocTypeOK, Places, Offset, Fixed
<1>3. \A s : Slots(s)' = frame'[s]
  BY DEF Slots
<1>4. Done(i)' <=> i < at'
  BY DEF Done
<1>5. place'[i].stype \in Stacks => frame'[place'[i].stype] \in Nat
  BY DEF AllocTypeOK
<1>6. /\ place'[uidx[i]].addr - Offset(uidx[i])' = place'[i].addr - Offset(i)' <=> place'[uidx[i]].addr = place'[i].addr
      /\ place'[i].stype \in Stacks =>
           (place'[i].addr - Offset(i)' \in 0 .. frame'[place'[i].stype] - 1 <=> place'[i].addr < frame'[place'[i].stype])
  <2>1. \A m, n \in Nat : (m - 0 = n - 0 <=> m = n) /\ (m - 0 \in 0 .. n - 1 <=> m < n)
    OBVIOUS
  <2> QED BY <1>1, <1>2, <1>5, <2>1
<1>7. place'[uidx[i]] = place'[i] <=> place'[uidx[i]].stype = place'[i].stype /\ place'[uidx[i]].addr = place'[i].addr
  BY <1>1, <1>2
<1> QED BY <1>0, <1>3, <1>4, <1>6, <1>7 DEF PlaceInv, SlotOK

\* What every step of the loop that hands out slots leaves alone
LEMMA AssignFacts ==
    ASSUME AllocInv, AssignStep
    PROVE  /\ pass = "assign" /\ pass' = "assign" /\ at \in Indices /\ at' = at + 1
           /\ WellFormed(code) /\ LastIndex \in Nat /\ Indices = 0 .. LastIndex
           /\ UNCHANGED <<code, uidx, rtype>> /\ Indices' = Indices
           /\ \A i \in Indices : SlotOK(place, frame, i) /\ (i < at /\ place[i].stype = "NIL" => rtype[i] = "NIL")
           /\ \A i \in Indices : /\ uidx[i] \in Indices /\ uidx[uidx[i]] = uidx[i] /\ rtype[i] \in Types
                                 /\ place[i] \in Places
                                 /\ uidx[i] # i => rtype[uidx[i]] = "BOXED"
           /\ \A i, j \in Indices : IsArg(i) /\ uidx[j] = uidx[i] => j = i /\ uidx[i] = i
           /\ \A l : l \in Awaited' <=> \E j \in Indices : j > at /\ l \in Locations(j)
           /\ Awaited' \cup Locations(at) \subseteq Awaited
           /\ Live' = {i \in Indices : place'[i].stype \in Stacks /\ uidx[i] \in Awaited'}
<1> USE DEF AllocInv
<1>1. pass = "assign" /\ pass' = "assign" /\ at \in Indices /\ at' = at + 1 /\ UNCHANGED <<code, uidx, rtype>>
  BY DEF AssignStep, flowVars
<1>2. WellFormed(code) /\ LastIndex \in Nat /\ Indices = 0 .. LastIndex
  BY CodeFacts DEF FlowInv, UnifyInv, UnifyTypeOK
<1>3. Indices' = Indices /\ \A i : Locations(i)' = Locations(i)
  BY <1>1, SameCode
<1>4. \A i \in Indices : SlotOK(place, frame, i) /\ (i < at /\ place[i].stype = "NIL" => rtype[i] = "NIL")
  BY <1>1, SlotIsPlace DEF PlacesInv, Placing
<1>5. Unified
  BY <1>1 DEF Unified
<1>6. /\ \A i \in Indices : /\ uidx[i] \in Indices /\ uidx[uidx[i]] = uidx[i]
                            /\ uidx[i] # i => rtype[uidx[i]] = "BOXED"
      /\ \A i, j \in Indices : IsArg(i) /\ uidx[j] = uidx[i] => j = i /\ uidx[i] = i
  BY <1>5, LocationFacts
<1>7. \A i \in Indices : rtype[i] \in Types /\ place[i] \in Places
  BY DEF AllocTypeOK, FlowTypeOK
<1>8. \A l : l \in Awaited' <=> \E j \in Indices : j >= at' /\ l \in Locations(j)
  BY <1>1, <1>3 DEF Awaited
<1>9. \A l : l \in Awaited' <=> \E j \in Indices : j > at /\ l \in Locations(j)
  <2>1. \A j \in Indices : j >= at' <=> j > at
    BY <1>1, <1>2
  <2> QED BY <1>3, <1>8, <2>1
<1>10. Awaited' \cup Locations(at) \subseteq Awaited
  <2>1. \A j \in Indices : j > at => j >= at
    BY <1>1, <1>2
  <2>2. at >= at
    BY <1>1, <1>2
  <2> QED BY <1>1, <1>9, <2>1, <2>2, AwaitedLocations
<1>11. Live' = {i \in Indices : place'[i].stype \in Stacks /\ uidx[i] \in Awaited'}
  BY <1>1, <1>3 DEF Live
<1> HIDE DEF AllocInv
<1> QED BY <1>1, <1>2, <1>3, <1>4, <1>6, <1>7, <1>9, <1>10, <1>11

\* The calls up to the node gave back only the dead, then those before it did.
LEMMA CallsBefore ==
    ASSUME AllocInv, AssignStep, CallsGaveBackTheDead'
    PROVE  CallsGaveBackTheDead /\ (IsCall(at) => GivesBackTheDead(at))
<1>1. /\ at \in Indices /\ at' = at + 1 /\ UNCHANGED <<code, uidx>>
      /\ LastIndex \in Nat /\ Indices = 0 .. LastIndex
  BY AssignFacts
<1>2. /\ Indices' = Indices
      /\ \A c \in Indices : IsCall(c)' = IsCall(c) /\ GivesBackTheDead(c)' = GivesBackTheDead(c)
  BY <1>1, SameCode
<1>3. \A c \in Indices : IsCall(c) /\ c < at + 1 => GivesBackTheDead(c)
  BY <1>1, <1>2 DEF CallsGaveBackTheDead
<1>4. \A c \in Indices : c < at \/ c = at => c < at + 1
  BY <1>1
<1> QED BY <1>1, <1>3, <1>4 DEF CallsGaveBackTheDead

\* It leaves the invariant of the other passes alone, and what a step does to the places,
\* the slots in use and the frame makes the rest.
LEMMA AssignKeeps ==
    ASSUME AllocInv, AssignStep,
           place' \in [Indices -> Places],
           inUse' \in [Stacks -> SUBSET (0 .. at)],
           frame' \in [Stacks \cup {"ASTK"} -> Nat],
           \A i \in Indices : SlotOK(place', frame', i),
           place'[at].stype = "NIL" => rtype[at] = "NIL",
           \A i \in Indices : i # at /\ place'[i].stype = "NIL" => place[i].stype = "NIL",
           CallsGaveBackTheDead' =>
              /\ \A i \in Live' : place'[i].addr \in inUse'[place'[i].stype]
              /\ \A i, j \in Live' : uidx[i] # uidx[j] => place'[i] # place'[j]
    PROVE  AllocInv'
<1> USE DEF AllocInv
<1>1. /\ pass = "assign" /\ pass' = "assign" /\ at \in Indices /\ at' = at + 1
      /\ LastIndex \in Nat /\ Indices = 0 .. LastIndex /\ UNCHANGED <<code, uidx, rtype>>
      /\ \A i \in Indices : i < at /\ place[i].stype = "NIL" => rtype[i] = "NIL"
  BY AssignFacts
<1>2. UNCHANGED <<irUsed, callNode, lastUsed, code, uidx, flowVars>>
  BY DEF AssignStep
<1>3. /\ Indices' = Indices
      /\ \A i : /\ IsArg(i)' = IsArg(i) /\ IsCall(i)' = IsCall(i)
                /\ Used(i)' = Used(i) /\ Locations(i)' = Locations(i)
  BY <1>1, SameCode
<1>4. FlowInv' /\ LocationMoved'
  BY <1>1, <1>2, KeepsFlowInv DEF Unified, Passes
<1>5. AllocTypeOK'
  <2>1. \A s \in Stacks : inUse'[s] \subseteq Indices
    BY <1>1
  <2> QED BY <1>2, <1>3, <1>4, <2>1 DEF AllocTypeOK, FlowInv
<1>6. AtIsPlace' /\ NothingUsed' /\ NothingPlaced' /\ CallIsCall' /\ UsesAreSeen'
  BY <1>1, <1>2, <1>3 DEF AtIsPlace, NothingUsed, NothingPlaced, CallIsCall, UsesAreSeen, Placing
<1>7. GivenBackLast'
  BY <1>2, <1>3 DEF GivenBackLast
<1>8. PlacesInv'
  <2>1. \A i \in Indices : i < at' /\ place'[i].stype = "NIL" => rtype[i] = "NIL"
    <3>1. \A i \in Indices : i < at + 1 => i < at \/ i = at
      BY <1>1
    <3>2. \A i \in Indices : i < at => i # at
      BY <1>1
    <3> QED BY <1>1, <3>1, <3>2
  <2>2. \A i \in Indices : PlaceInv(i)'
    BY <1>1, <1>5, <2>1, SlotIsPlaceNext
  <2> QED BY <1>3, <2>2 DEF PlacesInv
<1>9. SlotsInUse'
  BY <1>1 DEF SlotsInUse
<1>10. SlotsKept'
  BY <1>2, <1>3 DEF SlotsKept, Holds
<1> QED BY <1>4, <1>5, <1>6, <1>7, <1>8, <1>9, <1>10

\* The current node and the node of its location get a place.
LEMMA OccupyEffect ==
    ASSUME NEW p \in Places, place \in [Indices -> Places], at \in Indices, uidx[at] \in Indices, place' = Occupy(p)
    PROVE  /\ place' \in [Indices -> Places]
           /\ \A i \in Indices : place'[i] = IF i \in {at, uidx[at]} THEN p ELSE place[i]
BY DEF Occupy

\* An argument's place is its own, and is on no stack of slots.
LEMMA AssignArgInv ==
    ASSUME AllocInv, AssignArg
    PROVE  AllocInv'
<1> DEFINE p == [stype |-> "ASTK", addr |-> code[at].imm]
<1>1. AssignStep /\ IsArg(at) /\ place' = Occupy(p) /\ inUse' = inUse
      /\ frame' = [frame EXCEPT !["ASTK"] = Larger(@, code[at].imm + 1)]
  BY DEF AssignArg
<1>2. /\ pass = "assign" /\ at \in Indices /\ WellFormed(code) /\ uidx[at] = at
      /\ LastIndex \in Nat /\ Indices = 0 .. LastIndex
      /\ \A i \in Indices : SlotOK(place, frame, i)
      /\ \A i \in Indices : uidx[i] = at => i = at
      /\ Awaited' \subseteq Awaited
      /\ Live' = {i \in Indices : place'[i].stype \in Stacks /\ uidx[i] \in Awaited'}
  BY <1>1, AssignFacts
<1>3. code[at].imm \in Nat /\ p \in Places
  BY <1>1, <1>2, CodeFacts DEF Places
<1>4. place \in [Indices -> Places] /\ inUse \in [Stacks -> SUBSET (0 .. at - 1)]
      /\ frame \in [Stacks \cup {"ASTK"} -> Nat]
  BY <1>2 DEF AllocInv, AllocTypeOK, SlotsInUse
<1>5. /\ place' \in [Indices -> Places]
      /\ \A i \in Indices : place'[i] = IF i = at THEN p ELSE place[i]
  <2> HIDE DEF p
  <2> QED BY <1>1, <1>2, <1>3, <1>4, OccupyEffect
<1>6. inUse' \in [Stacks -> SUBSET (0 .. at)]
  <2>1. 0 .. at - 1 \subseteq 0 .. at
    BY <1>2
  <2> QED BY <1>1, <1>4, <2>1
<1>7. /\ frame' \in [Stacks \cup {"ASTK"} -> Nat]
      /\ \A s \in Stacks : frame'[s] = frame[s]
      /\ frame'["ASTK"] >= frame["ASTK"] /\ p.addr < frame'["ASTK"]
  BY <1>1, <1>3, <1>4 DEF Larger, Stacks
<1>8. \A i \in Indices : SlotOK(place', frame', i)
  <2>1. SUFFICES ASSUME NEW i \in Indices PROVE SlotOK(place', frame', i)
    OBVIOUS
  <2>2. CASE i = at
    BY <1>1, <1>5, <1>7, <2>2 DEF SlotOK, Stacks
  <2>3. CASE i # at
    <3>1. place[i].addr \in Nat /\ frame["ASTK"] \in Nat /\ frame'["ASTK"] \in Nat /\ uidx[i] \in Indices
      BY <1>1, <1>4, <1>7, AssignFacts DEF Places
    <3> HIDE DEF p
    <3>2. place'[i] = place[i] /\ place'[uidx[i]] = place[uidx[i]]
      BY <1>2, <1>5, <2>3, <3>1
    <3>3. SlotOK(place, frame, i)
      BY <1>2
    <3>4. place[i].stype = "ASTK" => place[i].addr < frame'["ASTK"]
      BY <1>7, <3>1, <3>3 DEF SlotOK
    <3>5. place[i].stype \in Stacks => frame'[place[i].stype] = frame[place[i].stype]
      BY <1>7
    <3> QED BY <3>2, <3>3, <3>4, <3>5 DEF SlotOK
  <2> QED BY <2>2, <2>3
<1>9. Live' \subseteq Live /\ \A i \in Live' : place'[i] = place[i]
  BY <1>2, <1>5 DEF Live, Stacks
<1>10. CallsGaveBackTheDead' =>
              /\ \A i \in Live' : place'[i].addr \in inUse'[place'[i].stype]
              /\ \A i, j \in Live' : uidx[i] # uidx[j] => place'[i] # place'[j]
  BY <1>1, <1>2, <1>9, CallsBefore DEF AllocInv, SlotsKept, Holds
<1>11. place'[at].stype # "NIL" /\ \A i \in Indices : i # at => place'[i] = place[i]
  BY <1>2, <1>5
<1> HIDE DEF p
<1>12. frame' \in [Stacks \cup {"ASTK"} -> Nat] /\ place' \in [Indices -> Places]
  BY <1>5, <1>7
<1> QED BY <1>1, <1>6, <1>8, <1>10, <1>11, <1>12, AssignKeeps

\* A node without a value needs no place.
LEMMA NeedsNoSlotInv ==
    ASSUME AllocInv, NeedsNoSlot
    PROVE  AllocInv'
<1>1. AssignStep /\ rtype[at] = "NIL" /\ UNCHANGED <<place, inUse, frame>>
  BY DEF NeedsNoSlot
<1>2. /\ pass = "assign" /\ at \in Indices
      /\ LastIndex \in Nat /\ Indices = 0 .. LastIndex
      /\ \A i \in Indices : SlotOK(place, frame, i)
      /\ Awaited' \subseteq Awaited
      /\ Live' = {i \in Indices : place'[i].stype \in Stacks /\ uidx[i] \in Awaited'}
  BY <1>1, AssignFacts
<1>3. place \in [Indices -> Places] /\ inUse \in [Stacks -> SUBSET (0 .. at)]
      /\ frame \in [Stacks \cup {"ASTK"} -> Nat]
  <2>1. 0 .. at - 1 \subseteq 0 .. at
    BY <1>2
  <2> QED BY <1>2, <2>1 DEF AllocInv, AllocTypeOK, SlotsInUse
<1>4. Live' \subseteq Live
  BY <1>1, <1>2 DEF Live
<1>5. CallsGaveBackTheDead' =>
              /\ \A i \in Live' : place'[i].addr \in inUse'[place'[i].stype]
              /\ \A i, j \in Live' : uidx[i] # uidx[j] => place'[i] # place'[j]
  BY <1>1, <1>2, <1>4, CallsBefore DEF AllocInv, SlotsKept, Holds
<1>6. \A i \in Indices : SlotOK(place', frame', i)
  BY <1>1, <1>2
<1> QED BY <1>1, <1>3, <1>5, <1>6, AssignKeeps

\* The current node gets the slot of its location, which is in use if it is awaited.
LEMMA ShareSlotInv ==
    ASSUME AllocInv, ShareSlot
    PROVE  AllocInv'
<1> DEFINE p == place[uidx[at]]
<1>1. AssignStep /\ ~IsArg(at) /\ p # Nowhere /\ place' = Occupy(p) /\ UNCHANGED <<inUse, frame>>
  BY DEF ShareSlot
<1>2. /\ pass = "assign" /\ at \in Indices
      /\ LastIndex \in Nat /\ Indices = 0 .. LastIndex
      /\ \A i \in Indices : SlotOK(place, frame, i) /\ uidx[i] \in Indices /\ uidx[uidx[i]] = uidx[i]
                            /\ place[i] \in Places
      /\ \A i, j \in Indices : IsArg(i) /\ uidx[j] = uidx[i] => j = i /\ uidx[i] = i
      /\ Awaited' \subseteq Awaited
      /\ Live' = {i \in Indices : place'[i].stype \in Stacks /\ uidx[i] \in Awaited'}
  BY <1>1, AssignFacts
<1>3. place \in [Indices -> Places] /\ inUse \in [Stacks -> SUBSET (0 .. at)]
      /\ frame \in [Stacks \cup {"ASTK"} -> Nat]
  <2>1. 0 .. at - 1 \subseteq 0 .. at
    BY <1>2
  <2> QED BY <1>2, <2>1 DEF AllocInv, AllocTypeOK, SlotsInUse
<1>4. ~IsArg(uidx[at]) /\ p.stype \in Stacks /\ SlotOK(place, frame, uidx[at])
  <2>1. ~IsArg(uidx[at])
    BY <1>1, <1>2
  <2>2. p \in Places /\ SlotOK(place, frame, uidx[at])
    BY <1>2
  <2>3. p.stype \in {"NIL", "STK", "PSTK", "ASTK"}
    BY <2>2 DEF Places
  <2> QED BY <1>1, <2>1, <2>2, <2>3 DEF SlotOK, Stacks
<1>5. /\ place' \in [Indices -> Places]
      /\ \A i \in Indices : place'[i] = IF i = at THEN p ELSE place[i]
  BY <1>1, <1>2, <1>3, OccupyEffect
<1>6. \A i \in Indices : SlotOK(place', frame', i)
  <2>1. SUFFICES ASSUME NEW i \in Indices PROVE SlotOK(place', frame', i)
    OBVIOUS
  <2>2. CASE i = at
    <3>1. place'[at] = p /\ place'[uidx[at]] = p
      BY <1>2, <1>5
    <3> QED BY <1>1, <1>2, <1>4, <2>2, <3>1 DEF SlotOK, Stacks
  <2>3. CASE i # at
    <3>1. uidx[i] = at => uidx[at] = at
      BY <1>2
    <3>2. place'[i] = place[i] /\ place'[uidx[i]] = place[uidx[i]]
      BY <1>2, <1>5, <2>3, <3>1
    <3> QED BY <1>1, <1>2, <3>2 DEF SlotOK
  <2> QED BY <2>2, <2>3
<1>7. \A i \in Live' : \E k \in Live : place'[i] = place[k] /\ uidx[i] = uidx[k]
  <2>1. SUFFICES ASSUME NEW i \in Live' PROVE \E k \in Live : place'[i] = place[k] /\ uidx[i] = uidx[k]
    OBVIOUS
  <2>2. i \in Indices /\ place'[i].stype \in Stacks /\ uidx[i] \in Awaited
    BY <1>2
  <2>3. CASE i = at
    <3>1. uidx[at] \in Live
      BY <1>2, <1>4, <2>2, <2>3 DEF Live
    <3> QED BY <1>2, <1>5, <2>3, <3>1
  <2>4. CASE i # at
    BY <1>5, <2>2, <2>4 DEF Live
  <2> QED BY <2>3, <2>4
<1>8. CallsGaveBackTheDead' =>
              /\ \A i \in Live' : place'[i].addr \in inUse'[place'[i].stype]
              /\ \A i, j \in Live' : uidx[i] # uidx[j] => place'[i] # place'[j]
  BY <1>1, <1>2, <1>7, CallsBefore DEF AllocInv, SlotsKept, Holds
<1>9. place'[at].stype # "NIL" /\ \A i \in Indices : i # at => place'[i] = place[i]
  BY <1>2, <1>4, <1>5 DEF Stacks
<1> QED BY <1>1, <1>3, <1>5, <1>6, <1>8, <1>9, AssignKeeps

\* What a node gives back is an argument's, or is not used after it.
LEMMA GivenBackIsDead ==
    ASSUME AllocInv, AssignStep, CallsGaveBackTheDead', NEW v \in Range(lastUsed[at])
    PROVE  /\ v \in Indices
           /\ IsArg(v) \/ (uidx[v] \notin Awaited' /\ (uidx[v] = uidx[at] \/ uidx[v] \in Awaited))
<1>1. /\ pass = "assign" /\ at \in Indices /\ WellFormed(code)
      /\ LastIndex \in Nat /\ Indices = 0 .. LastIndex
      /\ \A i \in Indices : uidx[i] \in Indices /\ uidx[uidx[i]] = uidx[i]
      /\ \A l : l \in Awaited' <=> \E j \in Indices : j > at /\ l \in Locations(j)
      /\ Locations(at) \subseteq Awaited
  BY AssignFacts
<1>2. v \in Indices
  <2>1. lastUsed[at] \in Seq(Indices)
    BY <1>1 DEF AllocInv, AllocTypeOK
  <2> QED BY <2>1 DEF Range
<1>3. IF IsCall(at)
      THEN v = uidx[at] \/ IsArg(v) \/ (code[at].op = "CALL" /\ v = uidx[code[at].left])
      ELSE /\ v \in {uidx[at]} \cup Used(at)
           /\ \A j \in Indices : j > at => uidx[v] \notin Locations(j)
  BY <1>1 DEF AllocInv, GivenBackLast
<1>4. CASE ~IsCall(at)
  <2>1. uidx[v] \notin Awaited'
    BY <1>1, <1>3, <1>4
  <2>2. v \in Used(at) => uidx[v] \in Locations(at)
    BY DEF Locations
  <2> QED BY <1>1, <1>2, <1>3, <1>4, <2>1, <2>2
<1>6. IsCall(at) => GivesBackTheDead(at)
  BY CallsBefore
<1>5. CASE IsCall(at)
  <2>1. CASE v = uidx[at]
    BY <1>1, <1>2, <1>5, <1>6, <2>1 DEF GivesBackTheDead
  <2>2. CASE code[at].op = "CALL" /\ v = uidx[code[at].left]
    <3>1. code[at].left \in Indices /\ code[at].left \in Used(at)
      BY <1>1, <2>2, CodeFacts
    <3>2. uidx[v] = uidx[code[at].left] /\ uidx[v] \in Locations(at)
      BY <1>1, <2>2, <3>1 DEF Locations
    <3>3. \A j \in Indices : j > at => uidx[v] \notin Locations(j)
      BY <1>1, <1>5, <1>6, <2>2, <3>2 DEF GivesBackTheDead
    <3> QED BY <1>1, <1>2, <3>2, <3>3
  <2> QED BY <1>2, <1>3, <1>5, <2>1, <2>2
<1> QED BY <1>4, <1>5

\* A location with no slot gets one that is not in use; what is given back then is
\* nobody's who is still awaited, as it is at another slot than those.
LEMMA TakeSlotInv ==
    ASSUME AllocInv, TakeSlot
    PROVE  AllocInv'
<1> DEFINE t     == uidx[at]
           s     == IF rtype[t] \in BoxedTypes THEN "PSTK" ELSE "STK"
           a     == Min(Indices \ inUse[s])
           p     == [stype |-> s, addr |-> a]
           freed == {place'[v] : v \in Range(lastUsed[at])}
<1>1. /\ AssignStep /\ ~IsArg(at) /\ rtype[at] # "NIL" /\ place[t] = Nowhere /\ place' = Occupy(p)
      /\ frame' = [frame EXCEPT ![s] = Larger(@, a + 1)]
      /\ inUse' = [r \in Stacks |-> (inUse[r] \cup (IF r = s THEN {a} ELSE {}))
                                      \ {q.addr : q \in {z \in freed : z.stype = r}}]
  BY DEF TakeSlot
<1>2. /\ pass = "assign" /\ at \in Indices /\ t \in Indices
      /\ LastIndex \in Nat /\ Indices = 0 .. LastIndex
      /\ \A i \in Indices : SlotOK(place, frame, i) /\ uidx[i] \in Indices /\ uidx[uidx[i]] = uidx[i]
                            /\ place[i] \in Places
      /\ uidx[t] = t /\ rtype[t] \in Types
      /\ t # at => rtype[t] = "BOXED"
      /\ \A i, j \in Indices : IsArg(i) /\ uidx[j] = uidx[i] => j = i /\ uidx[i] = i
      /\ Awaited' \subseteq Awaited
      /\ Live' = {i \in Indices : place'[i].stype \in Stacks /\ uidx[i] \in Awaited'}
  BY <1>1, AssignFacts
<1>3. place \in [Indices -> Places] /\ inUse \in [Stacks -> SUBSET (0 .. at - 1)]
      /\ frame \in [Stacks \cup {"ASTK"} -> Nat]
  BY <1>2 DEF AllocInv, AllocTypeOK, SlotsInUse
<1>4. s \in Stacks /\ rtype[t] \in IF s = "PSTK" THEN BoxedTypes ELSE UnboxedTypes
  <2>1. "BOXED" # "NIL" /\ rtype[at] # "NIL"
    BY <1>1
  <2>2. rtype[t] # "NIL" /\ rtype[t] \in Types
    BY <1>2, <2>1
  <2>3. rtype[t] \in UnboxedTypes \cup BoxedTypes
    BY <2>2 DEF Types
  <2> QED BY <2>3 DEF Stacks
<1>5. a \in 0 .. at /\ a \notin inUse[s]
  <2>1. at \in Indices \ inUse[s] /\ Indices \ inUse[s] \subseteq Nat
    BY <1>2, <1>3, <1>4
  <2> HIDE DEF s
  <2>2. a \in Indices \ inUse[s] /\ a <= at
    BY <2>1, SmallestIsMin
  <2> HIDE DEF a
  <2> QED BY <1>2, <2>2
<1> HIDE DEF s, a
<1>6. p \in Places /\ p.stype = s /\ p.addr = a /\ s # "NIL" /\ s # "ASTK"
  BY <1>4, <1>5 DEF Places, Stacks
<1> HIDE DEF p
<1>7. /\ place' \in [Indices -> Places]
      /\ \A i \in Indices : place'[i] = IF i \in {at, t} THEN p ELSE place[i]
  BY <1>1, <1>2, <1>3, <1>6, OccupyEffect
<1>8. /\ frame' \in [Stacks \cup {"ASTK"} -> Nat]
      /\ \A r \in Stacks \cup {"ASTK"} : frame'[r] >= frame[r]
      /\ a < frame'[s]
  <2>1. \A m \in Nat : Larger(m, a + 1) \in Nat /\ Larger(m, a + 1) >= m /\ Larger(m, a + 1) > a
    BY <1>5 DEF Larger
  <2>2. frame[s] \in Nat
    BY <1>3, <1>4
  <2>3. /\ DOMAIN frame' = Stacks \cup {"ASTK"}
        /\ \A r \in Stacks \cup {"ASTK"} : frame'[r] = IF r = s THEN Larger(frame[s], a + 1) ELSE frame[r]
    BY <1>1, <1>3
  <2>4. \A r \in Stacks \cup {"ASTK"} : frame[r] \in Nat /\ frame'[r] \in Nat /\ frame'[r] >= frame[r]
    BY <1>3, <2>1, <2>2, <2>3
  <2> QED BY <1>1, <1>3, <1>4, <2>1, <2>2, <2>3, <2>4
\* Nothing of the location had a slot.
<1>9. \A i \in Indices : uidx[i] = t /\ i \notin {at, t} => place[i].stype \notin Stacks
  BY <1>1, <1>2 DEF SlotOK, Nowhere, Stacks
<1>10. \A i \in Indices : SlotOK(place', frame', i)
  <2>1. SUFFICES ASSUME NEW i \in Indices PROVE SlotOK(place', frame', i)
    OBVIOUS
  <2>2. CASE i \in {at, t}
    <3>1. uidx[i] = t /\ ~IsArg(i) /\ place'[i] = p /\ place'[t] = p
      BY <1>1, <1>2, <1>7, <2>2
    <3> QED BY <1>4, <1>6, <1>8, <3>1 DEF SlotOK
  <2>3. CASE i \notin {at, t}
    <3>1. place'[i] = place[i] /\ SlotOK(place, frame, i) /\ place[i].addr \in Nat
      BY <1>2, <1>7, <2>3 DEF Places
    <3>2. place[i].stype \in Stacks => uidx[i] \notin {at, t} /\ place'[uidx[i]] = place[uidx[i]]
      BY <1>2, <1>7, <1>9, <2>3
    <3>3. place[i].stype \in Stacks \cup {"ASTK"} =>
            frame'[place[i].stype] >= frame[place[i].stype]
            /\ frame[place[i].stype] \in Nat /\ frame'[place[i].stype] \in Nat
      BY <1>3, <1>8
    <3> QED BY <3>1, <3>2, <3>3 DEF SlotOK
  <2> QED BY <2>2, <2>3
<1>11. inUse' \in [Stacks -> SUBSET (0 .. at)]
  <2>1. \A r \in Stacks : inUse[r] \subseteq 0 .. at
    BY <1>2, <1>3
  <2>2. \A r \in Stacks : inUse'[r] \subseteq inUse[r] \cup {a}
    BY <1>1
  <2>3. \A r \in Stacks : inUse'[r] \in SUBSET (0 .. at)
    BY <1>5, <2>1, <2>2
  <2> QED BY <1>1, <2>3
<1>12. ASSUME CallsGaveBackTheDead'
       PROVE  /\ \A i \in Live' : place'[i].addr \in inUse'[place'[i].stype]
              /\ \A i, j \in Live' : uidx[i] # uidx[j] => place'[i] # place'[j]
  <2>1. /\ \A i \in Live : place[i].addr \in inUse[place[i].stype]
        /\ \A i, j \in Live : uidx[i] # uidx[j] => place[i] # place[j]
    BY <1>1, <1>2, <1>12, CallsBefore DEF AllocInv, SlotsKept, Holds
  <2>2. \A i \in Indices : i \notin {at, t} /\ place'[i].stype \in Stacks /\ uidx[i] \in Awaited =>
              i \in Live /\ place'[i] = place[i] /\ uidx[i] # t /\ place[i].addr \in inUse[place[i].stype]
    BY <1>7, <1>9, <2>1 DEF Live
  <2>3. \A i \in Indices : place[i].addr \in inUse[place[i].stype] => place[i] # p
    BY <1>5, <1>6
  \* Two values of different locations that are at a slot now are at different ones.
  <2>4. \A i \in Live', v \in Indices :
          /\ uidx[v] # uidx[i]
          /\ place'[v].stype \in Stacks
          /\ uidx[v] = t \/ uidx[v] \in Awaited
          => place'[v] # place'[i]
    <3>1. SUFFICES ASSUME NEW i \in Live', NEW v \in Indices, uidx[v] # uidx[i],
                          place'[v].stype \in Stacks, uidx[v] = t \/ uidx[v] \in Awaited
                   PROVE  place'[v] # place'[i]
      OBVIOUS
    <3>2. i \in Indices /\ place'[i].stype \in Stacks /\ uidx[i] \in Awaited
      BY <1>2
    <3>3. v \notin {at, t} => uidx[v] \in Awaited
      BY <1>7, <1>9, <3>1
    <3>4. CASE i \in {at, t}
      <4>1. uidx[i] = t /\ v \notin {at, t} /\ place'[i] = p
        BY <1>2, <1>7, <3>1, <3>4
      <4> QED BY <2>2, <2>3, <3>1, <3>3, <4>1
    <3>5. CASE i \notin {at, t}
      <4>1. i \in Live /\ place'[i] = place[i] /\ place[i] # p
        BY <2>2, <2>3, <3>2, <3>5
      <4>2. CASE v \in {at, t}
        BY <1>7, <4>1, <4>2
      <4>3. CASE v \notin {at, t}
        BY <2>1, <2>2, <3>1, <3>3, <4>1, <4>3
      <4> QED BY <4>2, <4>3
    <3> QED BY <3>4, <3>5
  <2>5. \A i \in Live' : place'[i] \notin freed
    <3>1. SUFFICES ASSUME NEW i \in Live', NEW v \in Range(lastUsed[at]) PROVE place'[v] # place'[i]
      OBVIOUS
    <3>2. i \in Indices /\ place'[i].stype \in Stacks /\ uidx[i] \in Awaited'
      BY <1>2
    <3>3. v \in Indices /\ (IsArg(v) \/ (uidx[v] \notin Awaited' /\ (uidx[v] = t \/ uidx[v] \in Awaited)))
      BY <1>1, <1>12, GivenBackIsDead
    <3>4. CASE IsArg(v)
      BY <1>10, <3>2, <3>3, <3>4 DEF SlotOK
    <3>5. CASE place'[v].stype \notin Stacks
      BY <3>2, <3>5
    <3> QED BY <2>4, <3>2, <3>3, <3>4, <3>5
  <2>6. \A i \in Live' : place'[i].addr \in inUse'[place'[i].stype]
    <3>1. SUFFICES ASSUME NEW i \in Live' PROVE place'[i].addr \in inUse'[place'[i].stype]
      OBVIOUS
    <3>2. i \in Indices /\ place'[i].stype \in Stacks /\ uidx[i] \in Awaited
      BY <1>2
    <3>3. place'[i].addr \in inUse[place'[i].stype] \cup (IF place'[i].stype = s THEN {a} ELSE {})
      <4>1. CASE i \in {at, t}
        BY <1>6, <1>7, <3>2, <4>1
      <4>2. CASE i \notin {at, t}
        BY <2>2, <3>2, <4>2
      <4> QED BY <4>1, <4>2
    <3>4. \A q \in freed : ~(q.stype = place'[i].stype /\ q.addr = place'[i].addr)
      <4>1. SUFFICES ASSUME NEW v \in Range(lastUsed[at])
                     PROVE  ~(place'[v].stype = place'[i].stype /\ place'[v].addr = place'[i].addr)
        OBVIOUS
      <4>2. v \in Indices
        BY <1>1, <1>12, GivenBackIsDead
      <4>3. place'[v] \in Places /\ place'[i] \in Places
        BY <1>7, <3>2, <4>2
      <4>4. place'[v] # place'[i]
        BY <2>5
      <4> QED BY <4>3, <4>4 DEF Places
    <3> HIDE DEF freed
    <3>5. place'[i].addr \notin {q.addr : q \in {z \in freed : z.stype = place'[i].stype}}
      BY <3>4
    <3> QED BY <1>1, <3>2, <3>3, <3>5
  <2>7. \A i, j \in Live' : uidx[i] # uidx[j] => place'[i] # place'[j]
    BY <1>2, <2>4
  <2> QED BY <2>6, <2>7
<1>13. place'[at].stype # "NIL" /\ \A i \in Indices : i # at /\ place'[i].stype = "NIL" => place[i].stype = "NIL"
  BY <1>2, <1>6, <1>7
<1>14. AssignStep /\ place' \in [Indices -> Places] /\ frame' \in [Stacks \cup {"ASTK"} -> Nat]
  BY <1>1, <1>7, <1>8
<1> HIDE DEF t, freed
<1> QED BY <1>10, <1>11, <1>12, <1>13, <1>14, AssignKeeps
------------------------------------------------------------------------------
\* What each step from the end of the loop up to the end does to the place of i
Moves(i) ==
    /\ Done(i)
    /\ place'[i].stype = place[i].stype
    /\ place[i].stype # "PSTK" => place'[i] = place[i]
    /\ place'[i].addr - Offset(i)' = place[i].addr - Offset(i)

\* The steps after the loop that hands out slots: they move places and the frame together.
LEMMA LaterKeeps ==
    ASSUME AllocInv, Placing, pass' \in {"fix", "compiled"}, at' \in Nat,
           UNCHANGED <<code, uidx, flowVars, irUsed, callNode, lastUsed, inUse>>,
           place' \in [Indices -> Places],
           frame' \in [Stacks \cup {"ASTK"} -> Nat],
           frame'["ASTK"] >= frame["ASTK"],
           \A s \in Stacks : Slots(s)' = Slots(s),
           \A i \in Indices : Moves(i)
    PROVE  AllocInv'
<1> USE DEF Moves, AllocInv
<1>1. /\ Indices' = Indices
      /\ \A i : /\ IsArg(i)' = IsArg(i) /\ IsCall(i)' = IsCall(i)
                /\ Used(i)' = Used(i) /\ Locations(i)' = Locations(i)
  BY SameCode
<1>2. FlowInv' /\ LocationMoved'
  BY KeepsFlowInv DEF Unified, Passes, Placing
<1>3. AllocTypeOK'
  BY <1>1, <1>2 DEF AllocTypeOK, FlowInv
<1>4. AtIsPlace' /\ NothingUsed' /\ NothingPlaced' /\ CallIsCall' /\ UsesAreSeen' /\ SlotsInUse' /\ SlotsKept'
  BY <1>1 DEF AtIsPlace, NothingUsed, NothingPlaced, CallIsCall, UsesAreSeen, SlotsInUse, SlotsKept, Placing
<1>5. GivenBackLast'
  BY <1>1 DEF GivenBackLast
<1>6. PlacesInv'
  <2>1. SUFFICES ASSUME NEW i \in Indices PROVE PlaceInv(i)'
    BY <1>1 DEF PlacesInv
  <2>2. PlaceInv(i) /\ uidx[i] \in Indices /\ uidx' = uidx /\ rtype' = rtype
    BY DEF PlacesInv, AllocTypeOK, FlowTypeOK, UnifyTypeOK, flowVars
  <2>3. (place[i].stype = "NIL" => place[i] = Nowhere /\ rtype[i] = "NIL")'
    BY <2>2 DEF PlaceInv
  <2>4. (place[i].stype = "ASTK" => IsArg(i) /\ place[i].addr < frame["ASTK"])'
    <3>1. place[i].addr \in Nat /\ frame["ASTK"] \in Nat /\ frame'["ASTK"] \in Nat
      BY DEF AllocTypeOK, Places
    <3> QED BY <1>1, <2>2, <3>1 DEF PlaceInv
  <2>5. (IsArg(i) => place[i].stype \notin Stacks)'
    BY <1>1, <2>2 DEF PlaceInv
  <2>6. (place[i].stype \in Stacks =>
           /\ place[uidx[i]].stype = place[i].stype
           /\ place[uidx[i]].addr - Offset(uidx[i]) = place[i].addr - Offset(i)
           /\ place[i].addr - Offset(i) \in 0 .. Slots(place[i].stype) - 1
           /\ rtype[uidx[i]] \in IF place[i].stype = "PSTK" THEN BoxedTypes ELSE UnboxedTypes)'
    <3>1. \A k, u \in Indices : u = uidx[k] => /\ place'[u].stype = place[u].stype
                                               /\ place'[u].addr - Offset(u)' = place[u].addr - Offset(u)
      OBVIOUS
    <3>2. \A u \in Indices : u = uidx[i] => (Offset(uidx[i]))' = Offset(u)'
      BY <2>2
    <3>3. /\ place'[i].stype = place[i].stype
          /\ place'[uidx[i]].stype = place[uidx[i]].stype
          /\ place'[i].addr - Offset(i)' = place[i].addr - Offset(i)
          /\ place'[uidx[i]].addr - (Offset(uidx[i]))' = place[uidx[i]].addr - Offset(uidx[i])
      BY <2>2, <3>1, <3>2
    <3>4. place[i].stype \in Stacks => (Slots(place[i].stype))' = Slots(place[i].stype)
      <4>1. \A r \in Stacks : r = place[i].stype => (Slots(place[i].stype))' = Slots(r)'
        OBVIOUS
      <4> QED BY <4>1
    <3> QED BY <2>2, <3>3, <3>4 DEF PlaceInv
  <2> QED BY <2>2, <2>3, <2>4, <2>5, <2>6 DEF PlaceInv
<1> QED BY <1>2, <1>3, <1>4, <1>5, <1>6

\* The frame grows by the argument slots, and no place moves yet.
LEMMA AssignEndsMoves ==
    ASSUME AllocInv, AssignEnds, NEW i \in Indices
    PROVE  Moves(i)
<1>1. pass = "assign" /\ at \notin Indices /\ pass' = "fix" /\ at' = 0 /\ UNCHANGED <<code, place>>
  BY DEF AssignEnds
<1>2. /\ LastIndex \in Nat /\ Indices = 0 .. LastIndex /\ at \in Nat
  BY <1>1, CodeFacts DEF AllocInv, FlowInv, UnifyInv, UnifyTypeOK, AtIsPlace, Placing
<1>3. Done(i) /\ Offset(i)' = 0 /\ Offset(i) = 0
  BY <1>1, <1>2 DEF Done, Offset, Fixed
<1> QED BY <1>1, <1>3 DEF Moves

LEMMA AssignEndsInv ==
    ASSUME AllocInv, AssignEnds
    PROVE  AllocInv'
<1>1. /\ pass = "assign" /\ at \notin Indices /\ pass' = "fix" /\ at' = 0
      /\ UNCHANGED <<code, uidx, flowVars, irUsed, callNode, lastUsed, place, inUse>>
      /\ frame' = [frame EXCEPT !["ASTK"] = Larger(@, 2), !["PSTK"] = @ + Larger(frame["ASTK"], 2)]
  BY DEF AssignEnds
<1>2. place \in [Indices -> Places] /\ frame \in [Stacks \cup {"ASTK"} -> Nat]
  BY DEF AllocInv, AllocTypeOK
<1>3. /\ frame["ASTK"] \in Nat /\ frame["PSTK"] \in Nat /\ frame["STK"] \in Nat
      /\ Larger(frame["ASTK"], 2) \in Nat /\ Larger(frame["ASTK"], 2) >= frame["ASTK"]
  BY <1>2 DEF Stacks, Larger
<1>4. /\ frame' \in [Stacks \cup {"ASTK"} -> Nat]
      /\ frame'["ASTK"] = Larger(frame["ASTK"], 2) /\ frame'["STK"] = frame["STK"]
      /\ frame'["PSTK"] = frame["PSTK"] + Larger(frame["ASTK"], 2)
  BY <1>1, <1>2, <1>3 DEF Stacks
<1>5. \A s \in Stacks : Slots(s)' = Slots(s)
  BY <1>1, <1>3, <1>4 DEF Slots, Stacks
<1>6. \A i \in Indices : Moves(i)
  BY AssignEndsMoves
<1> QED BY <1>1, <1>2, <1>3, <1>4, <1>5, <1>6, LaterKeeps DEF Placing

\* A place on the pointer stack moves past the argument slots.
LEMMA FixAddressMoves ==
    ASSUME AllocInv, FixAddress
    PROVE  place' \in [Indices -> Places] /\ \A i \in Indices : Moves(i)
<1>1. /\ pass = "fix" /\ at \in Indices /\ pass' = "fix" /\ at' = at + 1
      /\ UNCHANGED <<code, frame>>
      /\ place' = IF place[at].stype = "PSTK" THEN [place EXCEPT ![at].addr = @ + frame["ASTK"]] ELSE place
  BY DEF FixAddress
<1>2. /\ LastIndex \in Nat /\ Indices = 0 .. LastIndex
      /\ place \in [Indices -> Places] /\ frame \in [Stacks \cup {"ASTK"} -> Nat]
  BY CodeFacts DEF AllocInv, FlowInv, UnifyInv, UnifyTypeOK, AllocTypeOK
<1>3. frame["ASTK"] \in Nat
  BY <1>2
<1>4. /\ place' \in [Indices -> Places]
      /\ \A i \in Indices : i # at => place'[i] = place[i]
      /\ place[at].stype # "PSTK" => place'[at] = place[at]
      /\ place[at].stype = "PSTK" => place'[at] = [stype |-> "PSTK", addr |-> place[at].addr + frame["ASTK"]]
  <2>1. place[at] \in Places
    BY <1>1, <1>2
  <2>2. place[at].stype = "PSTK" =>
          /\ [place[at] EXCEPT !.addr = @ + frame["ASTK"]] = [stype |-> "PSTK", addr |-> place[at].addr + frame["ASTK"]]
          /\ [place[at] EXCEPT !.addr = @ + frame["ASTK"]] \in Places
    BY <1>3, <2>1 DEF Places
  <2>3. CASE place[at].stype # "PSTK"
    BY <1>1, <1>2, <2>3
  <2>4. CASE place[at].stype = "PSTK"
    <3>1. place' = [place EXCEPT ![at] = [place[at] EXCEPT !.addr = @ + frame["ASTK"]]]
      BY <1>1, <2>4
    <3> QED BY <1>1, <1>2, <2>2, <2>4, <3>1
  <2> QED BY <2>3, <2>4
<1>5. \A i \in Indices : /\ Fixed(i) <=> i < at
                         /\ Fixed(i)' <=> i <= at
                         /\ i < at \/ i = at \/ i > at
                         /\ Done(i)
  BY <1>1, <1>2 DEF Fixed, Done
<1>6. \A i \in Indices : Moves(i)
  <2>1. SUFFICES ASSUME NEW i \in Indices
                 PROVE  /\ place'[i].stype = place[i].stype
                        /\ place[i].stype # "PSTK" => place'[i] = place[i]
                        /\ place'[i].addr - Offset(i)' = place[i].addr - Offset(i)
    BY <1>5 DEF Moves
  <2>2. place[i].addr \in Nat
    BY <1>2 DEF Places
  <2>3. CASE i # at
    <3>1. Fixed(i)' <=> Fixed(i)
      BY <1>1, <1>2, <1>5, <2>3
    <3> QED BY <1>1, <1>4, <2>3, <3>1 DEF Offset
  <2>4. CASE i = at /\ place[at].stype = "PSTK"
    <3>1. ~Fixed(i) /\ Fixed(i)' /\ place'[i] = [stype |-> "PSTK", addr |-> place[i].addr + frame["ASTK"]]
      BY <1>1, <1>2, <1>4, <1>5, <2>4
    <3>2. Offset(i) = 0 /\ Offset(i)' = frame["ASTK"]
      BY <1>1, <3>1 DEF Offset
    <3> QED BY <1>3, <2>2, <2>4, <3>1, <3>2
  <2>5. CASE i = at /\ place[at].stype # "PSTK"
    BY <1>4, <2>5 DEF Offset
  <2> QED BY <2>3, <2>4, <2>5
<1> QED BY <1>4, <1>6

LEMMA FixAddressInv ==
    ASSUME AllocInv, FixAddress
    PROVE  AllocInv'
<1>1. /\ pass = "fix" /\ at \in Indices /\ pass' = "fix" /\ at' = at + 1
      /\ UNCHANGED <<code, uidx, flowVars, irUsed, callNode, lastUsed, inUse, frame>>
  BY DEF FixAddress
<1>2. /\ LastIndex \in Nat /\ Indices = 0 .. LastIndex /\ frame \in [Stacks \cup {"ASTK"} -> Nat]
  BY CodeFacts DEF AllocInv, FlowInv, UnifyInv, UnifyTypeOK, AllocTypeOK
<1>3. frame["ASTK"] \in Nat /\ frame'["ASTK"] >= frame["ASTK"] /\ at' \in Nat
  BY <1>1, <1>2
<1>4. place' \in [Indices -> Places] /\ \A i \in Indices : Moves(i)
  BY FixAddressMoves
<1>5. \A s \in Stacks : Slots(s)' = Slots(s)
  BY <1>1 DEF Slots
<1> QED BY <1>1, <1>2, <1>3, <1>4, <1>5, LaterKeeps DEF Placing

\* All have moved.
LEMMA FixEndsMoves ==
    ASSUME AllocInv, FixEnds, NEW i \in Indices
    PROVE  Moves(i)
<1>1. pass = "fix" /\ at \notin Indices /\ pass' = "compiled" /\ UNCHANGED <<code, at, place, frame>>
  BY DEF FixEnds, allocVars
<1>2. LastIndex \in Nat /\ Indices = 0 .. LastIndex /\ at \in Nat
  BY <1>1, CodeFacts DEF AllocInv, FlowInv, UnifyInv, UnifyTypeOK, AtIsPlace, Placing
<1>3. Fixed(i) /\ Fixed(i)' /\ Done(i)
  BY <1>1, <1>2 DEF Fixed, Done
<1> QED BY <1>1, <1>3 DEF Offset, Moves

LEMMA FixEndsInv ==
    ASSUME AllocInv, FixEnds
    PROVE  AllocInv'
<1>1. /\ pass = "fix" /\ at \notin Indices /\ pass' = "compiled" /\ at' = at
      /\ UNCHANGED <<code, uidx, flowVars, irUsed, callNode, lastUsed, place, inUse, frame>>
  BY DEF FixEnds, allocVars
<1>2. /\ at \in Nat /\ place \in [Indices -> Places] /\ frame \in [Stacks \cup {"ASTK"} -> Nat]
  BY <1>1 DEF AllocInv, AllocTypeOK, AtIsPlace, Placing
<1>3. \A s \in Stacks : Slots(s)' = Slots(s)
  BY <1>1 DEF Slots
<1>4. frame["ASTK"] \in Nat /\ frame'["ASTK"] >= frame["ASTK"]
  BY <1>1, <1>2
<1>5. \A i \in Indices : Moves(i)
  BY FixEndsMoves
<1> QED BY <1>1, <1>2, <1>3, <1>4, <1>5, LaterKeeps DEF Placing

\* Every step of the passes keeps the invariant.
LEMMA AllocNextInv ==
    ASSUME AllocInv, [AllocNext]_compileVars
    PROVE  AllocInv'
<1>1. CASE AllocNext
  BY <1>1, FlowStepInv, LastUseInv, LastUseEndsInv, AssignArgInv, NeedsNoSlotInv, ShareSlotInv, TakeSlotInv,
     AssignEndsInv, FixAddressInv, FixEndsInv DEF AllocNext
<1>2. CASE UNCHANGED compileVars
  <2>1. UNCHANGED <<code, pass, at, uidx, rtype, changed, irUsed, callNode, lastUsed, place, inUse, frame>>
    BY <1>2 DEF compileVars, unifyVars, flowVars, allocVars
  <2>2. FlowInv'
    BY <1>2, FlowNextInv DEF AllocInv, compileVars
  <2>3. AllocTypeOK'
    BY <2>1, <2>2 DEF AllocInv, AllocTypeOK, FlowInv, Indices
  <2>4. /\ Indices' = Indices
        /\ \A i : /\ IsArg(i)' = IsArg(i) /\ IsCall(i)' = IsCall(i) /\ IsUnify(i)' = IsUnify(i)
                  /\ Used(i)' = Used(i) /\ Locations(i)' = Locations(i)
        /\ CallsGaveBackTheDead' = CallsGaveBackTheDead
    BY <2>1, SameCode DEF CallsGaveBackTheDead
  <2>5. AtIsPlace' /\ NothingUsed' /\ NothingPlaced' /\ CallIsCall'
    BY <2>1, <2>4 DEF AllocInv, AtIsPlace, NothingUsed, NothingPlaced, CallIsCall, Placing
  <2>6. UsesAreSeen' /\ SlotsInUse'
    BY <2>1, <2>4 DEF AllocInv, UsesAreSeen, SlotsInUse
  <2>7. GivenBackLast'
    BY <2>1, <2>4 DEF AllocInv, GivenBackLast
  <2>8. LocationMoved'
    BY <2>1, <2>4 DEF AllocInv, LocationMoved, Processed, Unified
  <2>9. PlacesInv'
    <3>1. \A i : PlaceInv(i)' = PlaceInv(i)
      BY <2>1, <2>4 DEF PlaceInv, Done, Offset, Fixed, Slots
    <3> QED BY <2>1, <2>4, <3>1 DEF AllocInv, PlacesInv, Placing
  <2>10. SlotsKept'
    <3>1. Awaited' = Awaited
      BY <2>1, <2>4 DEF Awaited
    <3>2. Live' = Live
      BY <2>1, <2>4, <3>1 DEF Live
    <3> QED BY <2>1, <2>4, <3>2 DEF AllocInv, SlotsKept, Holds
  <2> QED BY <2>2, <2>3, <2>5, <2>6, <2>7, <2>8, <2>9, <2>10 DEF AllocInv
<1> QED BY <1>1, <1>2
------------------------------------------------------------------------------
\* When the passes are over, the addresses are those of the frame.
LEMMA InFrame ==
    ASSUME AllocInv
    PROVE  PlacesAreInFrame
<1>1. SUFFICES ASSUME pass = "compiled", NEW i \in Indices
               PROVE  CASE place[i].stype = "STK"  -> place[i].addr < frame["STK"]
                        [] place[i].stype = "PSTK" -> place[i].addr \in frame["ASTK"] .. frame["PSTK"] - 1
                        [] place[i].stype = "ASTK" -> place[i].addr < frame["ASTK"] /\ IsArg(i)
                        [] OTHER                   -> rtype[i] = "NIL"
  BY DEF PlacesAreInFrame
<1>2. PlaceInv(i) /\ Done(i) /\ Fixed(i)
  BY <1>1 DEF AllocInv, PlacesInv, Placing, Done, Fixed
<1>3. /\ place[i].stype \in {"NIL", "STK", "PSTK", "ASTK"} /\ place[i].addr \in Nat
      /\ frame["STK"] \in Nat /\ frame["PSTK"] \in Nat /\ frame["ASTK"] \in Nat
  BY DEF AllocInv, AllocTypeOK, Places, Stacks
<1>4. CASE place[i].stype = "STK"
  <2>1. Offset(i) = 0 /\ Slots("STK") = frame["STK"]
    BY <1>4 DEF Offset, Slots
  <2> QED BY <1>2, <1>3, <1>4, <2>1 DEF PlaceInv, Stacks
<1>5. CASE place[i].stype = "PSTK"
  <2>1. Offset(i) = frame["ASTK"] /\ Slots("PSTK") = frame["PSTK"] - frame["ASTK"]
    BY <1>1, <1>2, <1>5 DEF Offset, Slots
  <2>2. place[i].addr - frame["ASTK"] \in 0 .. frame["PSTK"] - frame["ASTK"] - 1
    BY <1>2, <1>5, <2>1 DEF PlaceInv, Stacks
  <2> QED BY <1>3, <1>5, <2>2
<1>6. CASE place[i].stype = "ASTK"
  BY <1>2, <1>6 DEF PlaceInv
<1>7. CASE place[i].stype = "NIL"
  BY <1>2, <1>7 DEF PlaceInv
<1> QED BY <1>3, <1>4, <1>5, <1>6, <1>7

\* The node of a location and the others have been moved alike.
LEMMA OnePlace ==
    ASSUME AllocInv
    PROVE  LocationsHaveOnePlace
<1>1. SUFFICES ASSUME pass = "compiled", NEW i \in Indices
               PROVE  /\ place[i].stype \in Stacks => place[i] = place[uidx[i]]
                      /\ place[i].stype = "PSTK" => rtype[uidx[i]] \in BoxedTypes
                      /\ place[i].stype = "STK" => rtype[uidx[i]] \in UnboxedTypes
  BY DEF LocationsHaveOnePlace
<1>2. uidx[i] \in Indices
  BY DEF AllocInv, AllocTypeOK, FlowTypeOK, UnifyTypeOK
<1>3. PlaceInv(i) /\ Fixed(i) /\ Fixed(uidx[i])
  BY <1>1 DEF AllocInv, PlacesInv, Placing, Fixed
<1>4. /\ place[i] \in Places /\ place[uidx[i]] \in Places /\ frame["ASTK"] \in Nat
  BY <1>2 DEF AllocInv, AllocTypeOK
<1>5. ASSUME place[i].stype \in Stacks
      PROVE  place[i] = place[uidx[i]]
  <2>1. place[uidx[i]].stype = place[i].stype
    BY <1>3, <1>5 DEF PlaceInv
  <2>2. Offset(i) = Offset(uidx[i]) /\ Offset(i) \in Nat
    BY <1>3, <1>4, <2>1 DEF Offset
  <2>3. place[uidx[i]].addr - Offset(i) = place[i].addr - Offset(i)
    BY <1>3, <1>5, <2>2 DEF PlaceInv
  <2>4. place[uidx[i]].addr \in Nat /\ place[i].addr \in Nat
    BY <1>4 DEF Places
  <2>5. place[uidx[i]].addr = place[i].addr
    BY <2>2, <2>3, <2>4
  <2> QED BY <1>4, <2>1, <2>5 DEF Places
<1> QED BY <1>3, <1>5 DEF PlaceInv, Stacks

\* The location of a value from before a loop that the loop uses is used behind the loop: a
\* node there names the value, or names another of the location or, as an UNIFY node, joins it.
LEMMA LoopsUseBehind ==
    ASSUME AllocInv, Unified, LoopsNameTheirValues,
           NEW w \in Indices, code[w].op = "WEND",
           NEW i \in 0 .. code[w].left - 1,
           NEW j \in code[w].left .. w - 1, uidx[i] \in Locations(j)
    PROVE  \E n \in Indices : n > w /\ uidx[i] \in Locations(n)
<1> DEFINE begin  == code[w].left
           l      == uidx[i]
           Behind == \E n \in Indices : n > w /\ l \in Locations(n)
<1>1. /\ WellFormed(code) /\ LastIndex \in Nat /\ Indices = 0 .. LastIndex
      /\ begin \in Indices /\ i \in Indices /\ j \in Indices
  <2>1. WellFormed(code)
    BY DEF AllocInv, FlowInv, UnifyInv, UnifyTypeOK
  <2> QED BY <2>1, CodeFacts
<1>2. \A k \in Indices : uidx[k] \in Indices /\ uidx[uidx[k]] = uidx[k] /\ (uidx[k] # k => uidx[k] > k)
  BY LocationFacts DEF AllocInv
<1>3. \A n \in Indices : \A v \in Used(n) : n > w /\ uidx[v] = l => Behind
  BY DEF Locations
\* What the loop itself names from before it, is named after it.
<1>4. \A n \in begin .. w - 1 : \A v \in Used(n) : v < begin /\ uidx[v] = l => Behind
  <2>1. SUFFICES ASSUME NEW n \in begin .. w - 1, NEW v \in Used(n), v < begin, uidx[v] = l
                 PROVE  Behind
    OBVIOUS
  <2>2. PICK m \in Indices : m > w /\ v \in Used(m)
    BY <2>1 DEF LoopsNameTheirValues
  <2> QED BY <1>3, <2>1, <2>2
<1>5. PICK v \in Used(j) : uidx[v] = l
  BY DEF Locations
<1>6. v \in Indices
  BY <1>1, CodeFacts
<1>7. CASE v < begin
  BY <1>4, <1>5, <1>7
\* Otherwise the location is that of a node in the loop or after it, and the last node
\* before the loop with that location got it from an UNIFY node that is not before the loop.
<1>8. CASE ~(v < begin)
  <2>1. l >= begin /\ l \in Indices
    <3>1. l \in Indices /\ (l = v \/ l > v)
      BY <1>2, <1>5, <1>6
    <3>2. v \in Int /\ l \in Int /\ begin \in Int
      BY <1>1, <1>6, <3>1
    <3> QED BY <1>8, <3>1, <3>2
  <2> DEFINE S == {n \in Nat : \E k \in 0 .. begin - 1 : uidx[k] = l /\ n = begin - k}
  <2>2. begin - i \in S
    BY <1>1
  <2>3. Min(S) \in S /\ \A n \in S : Min(S) <= n
    BY <2>2, SmallestIsMin
  <2>4. PICK k \in 0 .. begin - 1 : uidx[k] = l /\ Min(S) = begin - k
    BY <2>3
  <2>5. \A n \in 0 .. begin - 1 : uidx[n] = l => n <= k
    <3>1. \A n \in 0 .. begin - 1 : uidx[n] = l => begin - n \in S
      BY <1>1
    <3> HIDE DEF S
    <3>2. \A n \in 0 .. begin - 1 : uidx[n] = l => begin - k <= begin - n
      BY <2>3, <2>4, <3>1
    <3> QED BY <1>1, <3>2
  <2> HIDE DEF S
  <2>6. k \in Indices /\ k < begin /\ uidx[k] # k
    BY <1>1, <2>1, <2>4
  <2>7. PICK u \in Indices : IsUnify(u) /\ k \in {code[u].left, code[u].right} /\ uidx[u] = l
    BY <2>4, <2>6 DEF AllocInv, LocationMoved, Unified
  <2>8. u > k /\ k \in Used(u)
    BY <1>1, <2>7, CodeFacts
  <2>9. u >= begin /\ u # w
    BY <1>1, <2>5, <2>6, <2>7, <2>8 DEF IsUnify
  <2>10. CASE u > w
    BY <1>3, <2>4, <2>8, <2>10
  <2>11. CASE ~(u > w)
    <3>1. u \in begin .. w - 1
      BY <1>1, <2>9, <2>11
    <3> QED BY <1>4, <2>4, <2>6, <2>8, <3>1
  <2> QED BY <2>10, <2>11
<1> QED BY <1>7, <1>8
------------------------------------------------------------------------------
\* The invariant of sdyn_irRegAlloc and of the passes before it
THEOREM AllocInvariant == AllocSpec => []AllocInv
<1>1. AllocInit => AllocInv
  BY AllocInitInv
<1>2. AllocInv /\ [AllocNext]_compileVars => AllocInv'
  BY AllocNextInv
<1> QED BY <1>1, <1>2, PTL DEF AllocSpec

\* Whatever function is compiled, the slots it gets are within arrays as long as its code,
\* and what sdyn_irRegAlloc remembers are nodes of it.
THEOREM AlwaysAllocTypeOK == AllocSpec => []AllocTypeOK
<1>1. AllocInv => AllocTypeOK
  BY DEF AllocInv
<1> QED BY <1>1, AllocInvariant, PTL

\* Every slot of every function is in its frame, and the argument slots, which each call
\* overwrites, are no value's.
THEOREM AlwaysPlacesAreInFrame == AllocSpec => []PlacesAreInFrame
BY AllocInvariant, InFrame, PTL

\* In every function, all nodes of a location are at one place, which is on the stack that
\* the collector scans exactly when what is stored there is boxed.
THEOREM AlwaysLocationsHaveOnePlace == AllocSpec => []LocationsHaveOnePlace
BY AllocInvariant, OnePlace, PTL

\* In every function, up to the first call that gives back what is used again, no value's slot
\* is given back before its last use ...
THEOREM AlwaysLiveValuesHoldTheirSlot == AllocSpec => []LiveValuesHoldTheirSlot
<1>1. AllocInv => LiveValuesHoldTheirSlot
  BY DEF AllocInv, SlotsKept, LiveValuesHoldTheirSlot
<1> QED BY <1>1, AllocInvariant, PTL

\* ... two live values that no UNIFY node joins do not have the same slot ...
THEOREM AlwaysLiveValuesAreApart == AllocSpec => []LiveValuesAreApart
<1>1. AllocInv => LiveValuesAreApart
  BY DEF AllocInv, SlotsKept, LiveValuesAreApart
<1> QED BY <1>1, AllocInvariant, PTL

\* ... and what a loop uses from before it is still in its slot at the end of every round,
\* as irCompileNode has each such value named once more after the loop.
THEOREM LoopsKeepTheirValuesIfNamed ==
    AllocSpec => [](LoopsNameTheirValues => LoopsKeepTheirValues)
<1>1. ASSUME AllocInv, LoopsNameTheirValues
      PROVE  LoopsKeepTheirValues
  <2>1. SUFFICES ASSUME pass = "assign", CallsGaveBackTheDead, NEW w \in Indices, code[w].op = "WEND", at \in code[w].left .. w,
                        NEW i \in 0 .. code[w].left - 1, place[i].stype \in Stacks,
                        NEW j \in code[w].left .. w - 1, uidx[i] \in Locations(j)
                 PROVE  Holds(i)
    BY DEF LoopsKeepTheirValues
  <2>2. i \in Indices
    <3>1. WellFormed(code)
      BY <1>1 DEF AllocInv, FlowInv, UnifyInv, UnifyTypeOK
    <3> QED BY <2>1, <3>1, CodeFacts
  <2>3. uidx[i] \in Awaited
    <3>1. PICK n \in Indices : n > w /\ uidx[i] \in Locations(n)
      BY <1>1, <2>1, LoopsUseBehind DEF Unified
    <3>2. LastIndex \in Nat /\ Indices = 0 .. LastIndex
      BY <1>1, CodeFacts DEF AllocInv, FlowInv, UnifyInv, UnifyTypeOK
    <3>3. n >= at
      BY <2>1, <3>1, <3>2
    <3> QED BY <3>1, <3>3, AwaitedLocations
  <2>4. i \in Live
    BY <2>1, <2>2, <2>3 DEF Live
  <2> QED BY <1>1, <2>1, <2>4 DEF AllocInv, SlotsKept
<1>2. AllocInv => (LoopsNameTheirValues => LoopsKeepTheirValues)
  BY <1>1
<1> QED BY <1>2, AllocInvariant, PTL
==============================================================================
