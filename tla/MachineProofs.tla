----------------------------- MODULE MachineProofs ---------------------------
(***************************************************************************)
(* Proofs about Machine, for every set of functions as irCompileNode makes *)
(* them and all their arguments.  The pointer stack holds pointers unless  *)
(* a member assignment stores a word there.  And where a value is used,    *)
(* the machine code finds in its slot what the type of its location says:  *)
(* each node stores what its own type asks for, and no node stores into    *)
(* that slot before the last use, along every way the branches may take.   *)
(***************************************************************************)
EXTENDS History, CompiledProofs

\* The types that tell the code more than that a value is boxed
PreciseTypes == {"UNDEFINED", "BOOL", "INT", "OBJECT"}

\* A cell that is what its location's type says
Fits(cell, type) ==
    CASE type = "OBJECT"    -> cell.rep = "boxed" /\ cell.value.tag = "OBJECT"
      [] type = "UNDEFINED" -> cell.rep = "boxed"
      [] OTHER              -> cell.rep = "raw"

\* The last node that has stored
Stored == IF status = "boxing" THEN pc ELSE pc - 1

\* A word is at the number that is being boxed, and nowhere else.
BeingBoxed(a) == status = "boxing" /\ StackOf(place[pc]) = "PSTK" /\ a = place[pc].addr

\* The functions whose values keep their slots
SafeCode == CallsGiveBackTheDead /\ LoopsNameTheirValues

\* NOT is given no raw number and no undefined that its type tells, and only what its type
\* says is an object is indexed.
OperandsAreKnown ==
    \A i \in Indices :
        /\ code[i].op = "NOT" => Believed(code[i].left) \notin {"INT", "UNDEFINED"}
        /\ code[i].op \in {"INDEX", "ASSIGNINDEX"} => Believed(code[i].left) = "OBJECT"

MachineShape ==
    /\ MachineTypeOK
    /\ status = "ready" => pc = 0 /\ stack = [s \in Stacks |-> <<>>]
    /\ status # "ready" => pass = "compiled"
    /\ status = "boxing" => BoxesNumber(pc)
    /\ pc = 0 => stale = {}
    /\ pc > 0 => DOMAIN stack["STK"] = 0 .. frame["STK"] - 1
    /\ pc > 1 => DOMAIN stack["PSTK"] = 0 .. frame["PSTK"] - 1

WordSlot(a) == TakesWords([stype |-> "PSTK", addr |-> a])

PointersKept ==
    \A a \in DOMAIN stack["PSTK"] : stack["PSTK"][a].rep = "boxed" \/ WordSlot(a) \/ BeingBoxed(a)

\* A node after j uses i.
UsedAfter(i, j) == \E k \in Indices : k > j /\ i \in Used(k)

ValuesKept ==
    SafeCode /\ status \in {"running", "boxing"} =>
        \A v \in Indices : v < pc /\ Believed(v) \in PreciseTypes /\ UsedAfter(v, Stored) =>
            Fits(Load(v), Believed(v))

MachineInv ==
    /\ CompiledInv
    /\ MachineShape
    /\ PointersKept
    /\ ValuesKept
    /\ SafeCode => ConfusionIsConfined
------------------------------------------------------------------------------
\* A value has a slot for its location's type.
LEMMA ValueFacts ==
    ASSUME CompiledInv, pass = "compiled", NEW v \in Indices, IsValue(code[v].op)
    PROVE  /\ Believed(v) \in ArisingTypes \ {"NIL"}
           /\ place[v].stype \in Stacks /\ place[uidx[v]] = place[v]
           /\ place[v].stype = "PSTK" <=> Believed(v) \in BoxedTypes
           /\ place[v].addr \in 0 .. frame[place[v].stype] - 1
           /\ place[v].stype = "PSTK" => place[v].addr >= frame["ASTK"]
<1>1. AllocInv /\ FlowInv /\ Unified /\ PlacesAreInFrame /\ LocationsHaveOnePlace
  BY InFrame, OnePlace DEF CompiledInv, AllocInv, Unified
<1>2. rtype[v] \in ArisingTypes /\ rtype[v] # "NIL"
  BY <1>1 DEF CompiledInv, TypesArise
<1>3. Believed(v) \in ArisingTypes \ {"NIL"}
  <2>1. Believed(v) = rtype[v] \/ Believed(v) = "BOXED"
    BY <1>1, TypeOfLocation DEF LocationType, Believed
  <2> QED BY <1>2, <2>1 DEF ArisingTypes
<1>4. /\ place[v].stype \in {"NIL", "STK", "PSTK", "ASTK"} /\ place[v].addr \in Nat
      /\ frame["STK"] \in Nat /\ frame["PSTK"] \in Nat /\ frame["ASTK"] \in Nat
  BY <1>1 DEF AllocInv, AllocTypeOK, Places, Stacks
<1>5. ~IsArg(v)
  BY DEF IsArg, IsValue, InitialTypes, Comparison, Arithmetic
<1>6. place[v].stype \in Stacks
  BY <1>1, <1>2, <1>4, <1>5 DEF PlacesAreInFrame, Stacks
<1>7. place[v] = place[uidx[v]]
  BY <1>1, <1>6 DEF LocationsHaveOnePlace
<1>8. /\ place[v].stype = "PSTK" => Believed(v) \in BoxedTypes
      /\ place[v].stype = "STK" => Believed(v) \in UnboxedTypes
  BY <1>1 DEF LocationsHaveOnePlace, Believed
<1>9. UnboxedTypes \cap BoxedTypes = {}
  BY DEF UnboxedTypes, BoxedTypes
<1>10. /\ place[v].stype = "STK"  => place[v].addr < frame["STK"]
       /\ place[v].stype = "PSTK" => place[v].addr \in frame["ASTK"] .. frame["PSTK"] - 1
  BY <1>1 DEF PlacesAreInFrame
<1>11. place[v].stype = "STK" \/ place[v].stype = "PSTK"
  BY <1>6 DEF Stacks
<1>12. place[v].addr \in 0 .. frame[place[v].stype] - 1
  BY <1>4, <1>10, <1>11
<1>13. place[v].stype = "PSTK" => place[v].addr >= frame["ASTK"]
  BY <1>4, <1>10
<1>14. place[v].stype = "PSTK" <=> Believed(v) \in BoxedTypes
  BY <1>8, <1>9, <1>11
<1> QED BY <1>3, <1>6, <1>7, <1>12, <1>13, <1>14

\* An argument has a slot below the other pointers.
LEMMA ArgFacts ==
    ASSUME CompiledInv, pass = "compiled", NEW v \in Indices, place[v].stype \notin Stacks
    PROVE  /\ ~IsValue(code[v].op)
           /\ place[v].stype # "NIL" => place[v].stype = "ASTK" /\ IsArg(v) /\ place[v].addr < frame["ASTK"]
<1>1. ~IsValue(code[v].op)
  BY ValueFacts
<1>2. place[v].stype \in {"NIL", "STK", "PSTK", "ASTK"} /\ PlacesAreInFrame
  BY InFrame DEF CompiledInv, AllocInv, AllocTypeOK, Places
<1>3. place[v].stype = "ASTK" => IsArg(v) /\ place[v].addr < frame["ASTK"]
  BY <1>2 DEF PlacesAreInFrame
<1> QED BY <1>1, <1>2, <1>3 DEF Stacks

\* What a precise type says: the location is the value's own, and the type the one that its
\* operation gives it.
LEMMA PreciseFacts ==
    ASSUME CompiledInv, pass = "compiled", NEW v \in Indices, Believed(v) \in PreciseTypes
    PROVE  /\ uidx[v] = v /\ Believed(v) = Refined(v)
           /\ IsValue(code[v].op) /\ ~Joined(code, v)
<1>1. FlowInv /\ Unified /\ WellFormed(code)
  BY DEF CompiledInv, AllocInv, FlowInv, UnifyInv, UnifyTypeOK, Unified
<1>2. uidx[v] = v /\ ~Joined(code, v)
  BY <1>1, TypeOfLocation, JoinedMoves DEF Believed, LocationType, PreciseTypes
<1>3. Believed(v) = Refined(v)
  BY <1>1, <1>2 DEF CompiledInv, TypesRefined, Believed
<1>4. ASSUME ~IsValue(code[v].op)
      PROVE  FALSE
  <2>1. code[v].op \notin {"ASSIGN", "ASSIGNMEMBER", "ASSIGNINDEX", "ADD"}
    BY <1>4 DEF IsValue, InitialTypes, Comparison, Arithmetic
  <2>2. Refined(v) = code[v].rtype
    BY <2>1 DEF Refined
  <2>3. code[v].rtype = "NIL"
    BY <1>1, <1>4, StructureFacts, InitialFacts DEF CompiledInv
  <2> QED BY <1>3, <2>2, <2>3 DEF PreciseTypes
<1> QED BY <1>2, <1>3, <1>4
------------------------------------------------------------------------------
\* What the invariant says of the function and of where the machine is
LEMMA AtNode ==
    ASSUME MachineInv
    PROVE  /\ CompiledInv /\ WellFormed(code) /\ Structured(code)
           /\ LastIndex \in Nat /\ Indices = 0 .. LastIndex /\ pc \in Indices
           /\ status # "ready" => pass = "compiled"
           /\ frame["STK"] \in Nat /\ frame["PSTK"] \in Nat /\ frame["ASTK"] \in Nat
           /\ Reads(pc) = Used(pc)
<1>1. CompiledInv /\ WellFormed(code) /\ Structured(code)
  BY DEF MachineInv, CompiledInv, AllocInv, FlowInv, UnifyInv, UnifyTypeOK
<1>2. frame["STK"] \in Nat /\ frame["PSTK"] \in Nat /\ frame["ASTK"] \in Nat
  BY <1>1 DEF CompiledInv, AllocInv, AllocTypeOK, Stacks
<1>3. pc \in Indices /\ (status # "ready" => pass = "compiled")
  BY DEF MachineInv, MachineShape, MachineTypeOK
<1>4. Reads(pc) = Used(pc)
  BY DEF Reads, Used
<1> QED BY <1>1, <1>2, <1>3, <1>4, CodeFacts

\* Code that reads values runs when the frame is open, and the values are used there.
LEMMA ReadFacts ==
    ASSUME MachineInv, NEW v \in Used(pc), code[pc].op \notin {"IFELSE", "IFEND", "WEND"}
    PROVE  v \in Indices /\ v < pc /\ pc > 1 /\ IsValue(code[v].op) /\ UsedAfter(v, pc - 1)
<1>1. /\ WellFormed(code) /\ Structured(code) /\ pc \in Indices
      /\ LastIndex \in Nat /\ Indices = 0 .. LastIndex
  BY AtNode
<1>2. v \in Indices /\ v < pc /\ v # 0
  BY <1>1, UsedBefore DEF NoOperand
<1>3. IsValue(code[v].op)
  BY <1>1, StructureFacts
<1>4. pc > 1
  BY <1>1, <1>2
<1>5. pc > pc - 1
  BY <1>1
<1> QED BY <1>1, <1>2, <1>3, <1>4, <1>5 DEF UsedAfter

\* What LOADOP finds is a cell of the frame, and a pointer in a boxed location.
LEMMA LoadFacts ==
    ASSUME MachineInv, pc > 1, NEW v \in Indices, IsValue(code[v].op)
    PROVE  /\ StackOf(place[v]) = place[v].stype
           /\ place[v].addr \in DOMAIN stack[place[v].stype]
           /\ Load(v) = stack[place[v].stype][place[v].addr]
           /\ Load(v).rep \in {"boxed", "raw", "garbage"}
           /\ status = "running" /\ Believed(v) \in BoxedTypes =>
                Load(v).rep = "boxed" \/ TakesWords(place[uidx[v]])
<1>1. CompiledInv /\ pass = "compiled" /\ pc \in Nat
  BY AtNode DEF MachineInv, MachineShape
<1>2. /\ place[v].stype \in Stacks /\ place[uidx[v]] = place[v]
      /\ place[v].stype = "PSTK" <=> Believed(v) \in BoxedTypes
      /\ place[v].addr \in 0 .. frame[place[v].stype] - 1
  BY <1>1, ValueFacts
<1>3. DOMAIN stack["STK"] = 0 .. frame["STK"] - 1 /\ DOMAIN stack["PSTK"] = 0 .. frame["PSTK"] - 1
  BY <1>1 DEF MachineInv, MachineShape
<1>4. StackOf(place[v]) = place[v].stype
  BY <1>2 DEF StackOf, Stacks
<1>5. place[v].addr \in DOMAIN stack[place[v].stype]
  BY <1>2, <1>3 DEF Stacks
<1>6. Load(v) = stack[place[v].stype][place[v].addr]
  BY <1>2, <1>4 DEF Load
<1>7. Load(v).rep \in {"boxed", "raw", "garbage"}
  BY <1>2, <1>5, <1>6 DEF MachineInv, MachineShape, MachineTypeOK
<1>8. ASSUME status = "running", Believed(v) \in BoxedTypes
      PROVE  Load(v).rep = "boxed" \/ TakesWords(place[uidx[v]])
  <2>1. Load(v).rep = "boxed" \/ WordSlot(place[v].addr)
    BY <1>2, <1>5, <1>6, <1>8 DEF MachineInv, PointersKept, BeingBoxed
  <2>2. place[uidx[v]] = [stype |-> "PSTK", addr |-> place[v].addr]
    BY <1>1, <1>2, <1>8 DEF CompiledInv, AllocInv, AllocTypeOK, Places
  <2> QED BY <2>1, <2>2 DEF WordSlot
<1> QED BY <1>4, <1>5, <1>6, <1>7, <1>8

\* In safe code every operand is what it is believed to be, or in a slot that takes words.
LEMMA ReadsAreSound ==
    ASSUME MachineInv, SafeCode, status = "running", NEW v \in Used(pc),
           code[pc].op \notin {"IFELSE", "IFEND", "WEND"}
    PROVE  /\ Sound(v) \/ TakesWords(place[uidx[v]])
           /\ Believed(v) \in PreciseTypes => Fits(Load(v), Believed(v))
<1>1. v \in Indices /\ v < pc /\ pc > 1 /\ IsValue(code[v].op) /\ UsedAfter(v, pc - 1)
  BY ReadFacts
<1>2. CompiledInv /\ pass = "compiled"
  BY AtNode
<1>3. /\ Believed(v) \in ArisingTypes \ {"NIL"}
      /\ place[uidx[v]] = place[v]
      /\ place[v].stype = "PSTK" <=> Believed(v) \in BoxedTypes
  BY <1>1, <1>2, ValueFacts
<1>4. Believed(v) \in PreciseTypes => Fits(Load(v), Believed(v))
  BY <1>1 DEF MachineInv, ValuesKept, Stored
<1>5. Believed(v) \in {"BOOL", "INT"} => Load(v).rep = "raw"
  BY <1>4 DEF Fits, PreciseTypes
<1>6. Believed(v) \in BoxedTypes =>
        (Load(v).rep = "boxed" \/ TakesWords(place[uidx[v]])) /\ place[uidx[v]] # Nowhere
  BY <1>1, <1>3, LoadFacts DEF Nowhere
<1>7. Believed(v) \in {"UNDEFINED", "BOOL", "INT"} \cup BoxedTypes
  BY <1>3 DEF ArisingTypes, BoxedTypes
<1>8. Sound(v) \/ TakesWords(place[uidx[v]])
  BY <1>5, <1>6, <1>7 DEF Sound
<1> QED BY <1>4, <1>8
------------------------------------------------------------------------------
\* No node stores into the slot of a value whose location is another's and is used later.
LEMMA StoresIntoAnotherSlot ==
    ASSUME CompiledInv, pass = "compiled", CallsGiveBackTheDead,
           NEW v \in Indices, NEW j \in Indices, v < j, uidx[v] # uidx[j], LocationUsedAfter(v, j),
           place[v].stype \in Stacks, place[v].stype = "PSTK" => place[v].addr >= frame["ASTK"],
           ~IsUnify(j), place[j].stype # "NIL"
    PROVE  ~(StackOf(place[j]) = StackOf(place[v]) /\ place[j].addr = place[v].addr)
<1>3. place[j].addr \in Nat /\ place[v].addr \in Nat /\ frame["ASTK"] \in Nat
  BY DEF CompiledInv, AllocInv, AllocTypeOK, Places
<1>4. CASE place[j].stype \in Stacks
  <2>1. ~SameSlot(v, j)
    BY DEF CompiledInv, SlotsApart, Placing, Done
  <2>2. ~(place[j].stype = place[v].stype /\ place[j].addr - Offset(j) = place[v].addr - Offset(v))
    BY <2>1 DEF SameSlot
  <2>3. place[j].stype = place[v].stype => Offset(j) = Offset(v)
    BY DEF Offset, Fixed
  <2>4. ~(place[j].stype = place[v].stype /\ place[j].addr = place[v].addr)
    BY <2>2, <2>3
  <2> QED BY <1>4, <2>4 DEF StackOf, Stacks
<1>5. CASE place[j].stype \notin Stacks
  <2>1. place[j].stype = "ASTK" /\ place[j].addr < frame["ASTK"]
    BY <1>5, ArgFacts
  <2> QED BY <1>3, <2>1 DEF StackOf, Stacks
<1> QED BY <1>4, <1>5

\* So it is for a value that has a location of its own.
LEMMA StoresElsewhere ==
    ASSUME CompiledInv, pass = "compiled", CallsGiveBackTheDead,
           NEW v \in Indices, NEW j \in Indices, v < j, Believed(v) \in PreciseTypes, UsedAfter(v, j),
           ~IsUnify(j), place[j].stype # "NIL"
    PROVE  ~(StackOf(place[j]) = StackOf(place[v]) /\ place[j].addr = place[v].addr)
<1>1. uidx[v] = v /\ IsValue(code[v].op)
  BY PreciseFacts
<1>2. place[v].stype \in Stacks /\ (place[v].stype = "PSTK" => place[v].addr >= frame["ASTK"])
  BY <1>1, ValueFacts
<1>3. uidx[j] # v
  <2>1. LastIndex \in Nat /\ Indices = 0 .. LastIndex /\ (uidx[j] = j \/ uidx[j] > j)
    BY CodeFacts, LocationFacts DEF CompiledInv, AllocInv, FlowInv, UnifyInv, UnifyTypeOK, Unified
  <2> QED BY <2>1
<1>4. LocationUsedAfter(v, j)
  BY <1>1 DEF UsedAfter, LocationUsedAfter, Locations
<1> QED BY <1>1, <1>2, <1>3, <1>4, StoresIntoAnotherSlot

\* A node stores a cell, whatever is collected on the way.
Stores(i, cell) ==
    /\ stack' = [stack EXCEPT ![StackOf(place[i])][place[i].addr] = cell]
    /\ stale' \subseteq DOMAIN stack["STK"] \cup
                         (IF StackOf(place[i]) = "STK" THEN {place[i].addr} ELSE {})

LEMMA CollectionFacts ==
    ASSUME stale \subseteq DOMAIN stack["STK"], NEW i, NEW old \in Collections(i)
    PROVE  old \subseteq DOMAIN stack["STK"]
BY DEF Collections

LEMMA PutFacts ==
    ASSUME stale \subseteq DOMAIN stack["STK"], NEW i, NEW cell, NEW old \in Collections(i), NEW isOld \in BOOLEAN,
           Put(i, cell, old, isOld)
    PROVE  Stores(i, cell)
<1>1. old \subseteq DOMAIN stack["STK"]
  BY CollectionFacts
<1>2. StackOf(place[i]) \in {"STK", "PSTK"}
  BY DEF StackOf
<1>3. CASE StackOf(place[i]) = "PSTK"
  BY <1>1, <1>3 DEF Put, Stores
<1>4. CASE StackOf(place[i]) = "STK"
  BY <1>1, <1>4 DEF Put, Stores
<1> QED BY <1>2, <1>3, <1>4

LEMMA StoreStores ==
    ASSUME stale \subseteq DOMAIN stack["STK"], NEW i, NEW cell, Store(i, cell)
    PROVE  Stores(i, cell)
<1>1. PICK old \in Collections(i) : Put(i, cell, old, FALSE)
  BY DEF Store
<1> QED BY <1>1, PutFacts

\* A copy stores the cell it copies, unless that is a pointer out of date that goes from the
\* one stack to the other.
LEMMA CopyStores ==
    ASSUME stale \subseteq DOMAIN stack["STK"], NEW i, NEW v, Copy(i, v)
    PROVE  \E cell : /\ Stores(i, cell)
                     /\ \/ cell = Load(v)
                        \/ /\ cell = Garbage
                           /\ StackOf(place[uidx[v]]) = "STK" /\ StackOf(place[i]) = "PSTK"
<1> DEFINE cell(old) == IF Outdated(v, old) /\ StackOf(place[i]) = "PSTK" THEN Garbage ELSE Load(v)
<1>1. PICK old \in Collections(i) : Put(i, cell(old), old, Outdated(v, old))
  BY DEF Copy
<1>2. Outdated(v, old) \in BOOLEAN
  BY DEF Outdated
<1>3. \/ cell(old) = Load(v)
      \/ cell(old) = Garbage /\ StackOf(place[uidx[v]]) = "STK" /\ StackOf(place[i]) = "PSTK"
  BY DEF Outdated
<1> HIDE DEF cell
<1>4. Stores(i, cell(old))
  BY <1>1, <1>2, PutFacts
<1> QED BY <1>3, <1>4

\* A store changes one cell of the frame, if there is such a cell.
LEMMA StoreEffect ==
    ASSUME NEW i, NEW cell, Stores(i, cell), DOMAIN stack = Stacks
    PROVE  /\ DOMAIN stack' = Stacks
           /\ \A s \in Stacks : DOMAIN stack'[s] = DOMAIN stack[s]
           /\ \A s \in Stacks : \A a \in DOMAIN stack[s] :
                stack'[s][a] = IF s = StackOf(place[i]) /\ a = place[i].addr THEN cell ELSE stack[s][a]
BY DEF Stores

\* What stays when no variable of the compiler changes
LEMMA SameCompiled ==
    ASSUME MachineInv, UNCHANGED compileVars
    PROVE  /\ UNCHANGED <<code, pass, uidx, rtype, place, frame>>
           /\ CompiledInv' /\ Indices' = Indices
           /\ SafeCode' = SafeCode /\ \A p : TakesWords(p)' = TakesWords(p)
           /\ \A i : /\ Believed(i)' = Believed(i) /\ Used(i)' = Used(i)
                     /\ IsArg(i)' = IsArg(i) /\ BoxesNumber(i)' = BoxesNumber(i)
           /\ \A i, j : UsedAfter(i, j)' = UsedAfter(i, j)
<1>1. UNCHANGED <<code, pass, uidx, rtype, place, frame>>
  BY DEF compileVars, unifyVars, flowVars, allocVars
<1>2. CompiledInv'
  BY CompiledStutterInv DEF MachineInv
<1>3. /\ Indices' = Indices
      /\ \A i : Used(i)' = Used(i) /\ IsArg(i)' = IsArg(i)
      /\ CallsGiveBackTheDead' = CallsGiveBackTheDead
  BY <1>1, SameCode
<1>4. \A i : Believed(i)' = Believed(i) /\ BoxesNumber(i)' = BoxesNumber(i)
  BY <1>1 DEF Believed, BoxesNumber
<1>5. \A p : TakesWords(p)' = TakesWords(p)
  <2>1. \A i : StoresWord(i)' = StoresWord(i)
    BY <1>1, <1>4 DEF StoresWord
  <2> QED BY <1>1, <1>3, <2>1 DEF TakesWords
<1>6. LoopsNameTheirValues' = LoopsNameTheirValues
  BY <1>1, <1>3 DEF LoopsNameTheirValues
<1>7. \A i, j : UsedAfter(i, j)' = UsedAfter(i, j)
  BY <1>3 DEF UsedAfter
<1> QED BY <1>1, <1>2, <1>3, <1>4, <1>5, <1>6, <1>7 DEF SafeCode
------------------------------------------------------------------------------
\* The machine's invariant after a step of the machine, from what the step does
LEMMA RunsOn ==
    ASSUME MachineInv, UNCHANGED <<compileVars, task>>,
           status' \in {"running", "boxing", "returned", "aborted", "faulted"}, pass = "compiled",
           pc' \in Indices, DOMAIN stack' = Stacks, stale' \subseteq DOMAIN stack'["STK"],
           pc' = 0 => stale' = {},
           \A s \in Stacks : \A a \in DOMAIN stack'[s] : stack'[s][a].rep \in {"boxed", "raw", "garbage"},
           status' = "boxing" => BoxesNumber(pc'),
           pc' > 0 => DOMAIN stack'["STK"] = 0 .. frame["STK"] - 1,
           pc' > 1 => DOMAIN stack'["PSTK"] = 0 .. frame["PSTK"] - 1,
           PointersKept', ValuesKept'
    PROVE  MachineInv'
<1>1. /\ UNCHANGED <<code, pass, uidx, rtype, place, frame>> /\ task' = task
      /\ CompiledInv' /\ Indices' = Indices
      /\ \A i : BoxesNumber(i)' = BoxesNumber(i)
  BY SameCompiled
<1>2. BoxesNumber(pc)' = BoxesNumber(pc')
  BY <1>1 DEF BoxesNumber, Believed
<1>3. MachineTypeOK'
  BY <1>1 DEF MachineInv, MachineShape, MachineTypeOK
<1>4. MachineShape'
  BY <1>1, <1>2, <1>3 DEF MachineShape
<1>5. ConfusionIsConfined'
  BY DEF ConfusionIsConfined
<1> QED BY <1>1, <1>4, <1>5 DEF MachineInv

\* The operations that store a value
Storing == {"PARAM", "NIL", "TOP", "NUM", "STR", "FALSE", "TRUE", "OBJ", "ASSIGN", "ADD", "NOT", "TYPEOF",
            "MEMBER", "INDEX", "ASSIGNMEMBER", "ASSIGNINDEX", "CALL", "INTRINSICCALL"}
           \cup Comparison \cup Arithmetic

LEMMA StoringOps == \A op \in Storing : IsValue(op) /\ op # "UNIFY" /\ op # "ARG"
BY DEF Storing, IsValue, InitialTypes, Comparison, Arithmetic

\* Where a node stores: in a slot of the frame, which is the slot of its location.
LEMMA StoreFacts ==
    ASSUME MachineInv, status \in {"running", "boxing"}, NEW cell, Stores(pc, cell),
           IsArg(pc) \/ IsValue(code[pc].op), code[pc].op # "UNIFY",
           NEW s, s = StackOf(place[pc]), NEW a, a = place[pc].addr
    PROVE  /\ pc > 1 /\ pc + 1 \in Indices
           /\ DOMAIN stack = Stacks /\ DOMAIN stack' = Stacks
           /\ DOMAIN stack["STK"] = 0 .. frame["STK"] - 1 /\ DOMAIN stack["PSTK"] = 0 .. frame["PSTK"] - 1
           /\ \A r \in Stacks : \A b \in DOMAIN stack[r] : stack[r][b].rep \in {"boxed", "raw", "garbage"}
           /\ \A r \in Stacks : DOMAIN stack'[r] = DOMAIN stack[r]
           /\ \A r \in Stacks : \A b \in DOMAIN stack[r] :
                stack'[r][b] = IF r = s /\ b = a THEN cell ELSE stack[r][b]
           /\ s \in Stacks /\ place[pc].stype # "NIL"
           /\ s = "PSTK" => IsArg(pc) \/ Believed(pc) \in BoxedTypes
           /\ IsValue(code[pc].op) => a \in DOMAIN stack[s] /\ place[uidx[pc]] = place[pc]
<1>1. /\ CompiledInv /\ WellFormed(code) /\ Structured(code) /\ pass = "compiled"
      /\ LastIndex \in Nat /\ Indices = 0 .. LastIndex /\ pc \in Indices
      /\ frame["STK"] \in Nat /\ frame["PSTK"] \in Nat /\ frame["ASTK"] \in Nat
  BY AtNode
<1>2. pc > 1 /\ pc + 1 \in Indices
  <2>1. ~IsValue("ALLOCA") /\ ~IsValue("PALLOCA") /\ ~IsValue("POPA")
    BY DEF IsValue, InitialTypes, Comparison, Arithmetic
  <2>2. code[pc].op \notin {"ALLOCA", "PALLOCA", "POPA"}
    BY <2>1 DEF IsArg
  <2> QED BY <1>1, <2>2, StructureFacts
<1>3. /\ DOMAIN stack = Stacks
      /\ DOMAIN stack["STK"] = 0 .. frame["STK"] - 1 /\ DOMAIN stack["PSTK"] = 0 .. frame["PSTK"] - 1
      /\ \A r \in Stacks : \A b \in DOMAIN stack[r] : stack[r][b].rep \in {"boxed", "raw", "garbage"}
  BY <1>1, <1>2 DEF MachineInv, MachineShape, MachineTypeOK
<1>4. /\ DOMAIN stack' = Stacks
      /\ \A r \in Stacks : DOMAIN stack'[r] = DOMAIN stack[r]
      /\ \A r \in Stacks : \A b \in DOMAIN stack[r] :
           stack'[r][b] = IF r = s /\ b = a THEN cell ELSE stack[r][b]
  BY <1>3, StoreEffect
<1>5. CASE IsArg(pc)
  <2>1. place[pc].stype = "ASTK"
    BY <1>1, <1>5 DEF CompiledInv, ArgumentsPlaced, Placing, Done
  <2>2. ~IsValue(code[pc].op)
    BY <1>5 DEF IsArg, IsValue, InitialTypes, Comparison, Arithmetic
  <2>3. s \in Stacks /\ place[pc].stype # "NIL"
    BY <2>1 DEF StackOf, Stacks
  <2> QED BY <1>2, <1>3, <1>4, <1>5, <2>2, <2>3
<1>6. CASE IsValue(code[pc].op)
  <2>1. /\ place[pc].stype \in Stacks /\ place[uidx[pc]] = place[pc]
        /\ place[pc].stype = "PSTK" <=> Believed(pc) \in BoxedTypes
    BY <1>1, <1>6, ValueFacts
  <2>2. a \in DOMAIN stack[place[pc].stype] /\ s = place[pc].stype
    BY <1>1, <1>2, <1>6, LoadFacts
  <2>3. s \in Stacks /\ place[pc].stype # "NIL"
    BY <2>1, <2>2 DEF Stacks
  <2> QED BY <1>2, <1>3, <1>4, <2>1, <2>2, <2>3
<1> QED BY <1>5, <1>6

\* A node that stores what fits its location keeps the invariant.
LEMMA StoreKeeps ==
    ASSUME MachineInv, UNCHANGED <<compileVars, task>>, status \in {"running", "boxing"},
           NEW cell, Stores(pc, cell), cell.rep \in {"boxed", "raw", "garbage"},
           IsArg(pc) \/ IsValue(code[pc].op), code[pc].op # "UNIFY",
           \/ /\ status' = "running" /\ pc' = pc + 1
              /\ IsArg(pc) \/ Believed(pc) \in BoxedTypes => cell.rep = "boxed" \/ StoresWord(pc)
              /\ SafeCode /\ Believed(pc) \in PreciseTypes => Fits(cell, Believed(pc))
           \/ status' = "boxing" /\ pc' = pc /\ BoxesNumber(pc)
    PROVE  MachineInv'
<1> DEFINE s == StackOf(place[pc])
           a == place[pc].addr
<1>1. /\ CompiledInv /\ WellFormed(code) /\ Structured(code) /\ pass = "compiled"
      /\ LastIndex \in Nat /\ Indices = 0 .. LastIndex /\ pc \in Indices
      /\ frame["STK"] \in Nat /\ frame["PSTK"] \in Nat /\ frame["ASTK"] \in Nat
  BY AtNode
<1>2. pc > 1 /\ pc + 1 \in Indices
  BY StoreFacts
<1>3. /\ DOMAIN stack = Stacks
      /\ DOMAIN stack["STK"] = 0 .. frame["STK"] - 1 /\ DOMAIN stack["PSTK"] = 0 .. frame["PSTK"] - 1
      /\ \A r \in Stacks : \A b \in DOMAIN stack[r] : stack[r][b].rep \in {"boxed", "raw", "garbage"}
  BY StoreFacts
<1>4. /\ DOMAIN stack' = Stacks
      /\ \A r \in Stacks : DOMAIN stack'[r] = DOMAIN stack[r]
      /\ \A r \in Stacks : \A b \in DOMAIN stack[r] :
           stack'[r][b] = IF r = s /\ b = a THEN cell ELSE stack[r][b]
  BY StoreFacts
<1>5. /\ UNCHANGED <<code, pass, uidx, rtype, place, frame>> /\ Indices' = Indices
      /\ SafeCode' = SafeCode /\ \A p : TakesWords(p)' = TakesWords(p)
      /\ \A i : Believed(i)' = Believed(i)
      /\ \A i, j : UsedAfter(i, j)' = UsedAfter(i, j)
  BY SameCompiled
<1>6. pc' \in Indices /\ pc' > 1
  BY <1>1, <1>2
<1>7. s \in Stacks /\ place[pc].stype # "NIL"
      /\ (s = "PSTK" => IsArg(pc) \/ Believed(pc) \in BoxedTypes)
      /\ (IsValue(code[pc].op) => a \in DOMAIN stack[s] /\ place[uidx[pc]] = place[pc])
  BY StoreFacts
<1> HIDE DEF s, a
<1>8. PointersKept'
  <2>1. SUFFICES ASSUME NEW b \in DOMAIN stack'["PSTK"]
                 PROVE  stack'["PSTK"][b].rep = "boxed" \/ WordSlot(b) \/ BeingBoxed(b)'
    BY <1>5 DEF PointersKept, WordSlot
  <2>2. b \in DOMAIN stack["PSTK"] /\ "PSTK" \in Stacks
    BY <1>4, <2>1 DEF Stacks
  <2>3. stack'["PSTK"][b] = IF s = "PSTK" /\ b = a THEN cell ELSE stack["PSTK"][b]
    BY <1>4, <2>2
  <2>4. stack["PSTK"][b].rep = "boxed" \/ WordSlot(b) \/ (s = "PSTK" /\ b = a)
    BY <2>1, <2>2 DEF MachineInv, PointersKept, BeingBoxed, s, a
  <2>5. status' = "boxing" /\ s = "PSTK" /\ b = a => BeingBoxed(b)'
    BY <1>5 DEF BeingBoxed, s, a, StackOf
  <2>6. StoresWord(pc) /\ s = "PSTK" /\ b = a => WordSlot(b)
    <3>1. StoresWord(pc) => place[pc].stype = "PSTK"
      <4>1. StoresWord(pc) => IsValue(code[pc].op) /\ Believed(pc) \in BoxedTypes
        BY StoringOps DEF StoresWord, Storing
      <4> QED BY <1>1, <4>1, ValueFacts
    <3>2. place[pc] = [stype |-> place[pc].stype, addr |-> a]
      BY <1>1 DEF CompiledInv, AllocInv, AllocTypeOK, Places, a
    <3> QED BY <1>1, <3>1, <3>2 DEF WordSlot, TakesWords
  <2> QED BY <1>7, <2>1, <2>3, <2>4, <2>5, <2>6
<1>9. ValuesKept'
  <2>1. SUFFICES ASSUME SafeCode, NEW v \in Indices, v < pc', Believed(v) \in PreciseTypes, UsedAfter(v, Stored')
                 PROVE  Fits(Load(v)', Believed(v))
    <3>1. \A v : UsedAfter(v, Stored)' = UsedAfter(v, Stored')
      BY <1>5 DEF UsedAfter, Used, Operands
    <3> QED BY <1>5, <2>1, <3>1 DEF ValuesKept, Fits
  <2>2. Stored' = pc
    BY <1>1 DEF Stored
  <2>3. /\ place[uidx[v]] = place[v] /\ StackOf(place[v]) = place[v].stype
        /\ place[v].stype \in Stacks /\ place[v].addr \in DOMAIN stack[place[v].stype]
        /\ Load(v) = stack[place[v].stype][place[v].addr]
    BY <1>1, <1>2, <2>1, PreciseFacts, ValueFacts, LoadFacts
  <2>4. Load(v)' = stack'[place[v].stype][place[v].addr]
    BY <1>5, <2>3 DEF Load, StackOf
  <2>5. CASE v < pc
    <3>1. UsedAfter(v, Stored)
      <4>1. Stored \in {pc, pc - 1}
        BY DEF Stored
      <4>2. \A k \in Indices : k > pc => k > Stored
        BY <1>1, <4>1
      <4> QED BY <2>1, <2>2, <4>2 DEF UsedAfter
    <3>2. Fits(Load(v), Believed(v))
      BY <2>1, <2>5, <3>1 DEF MachineInv, ValuesKept
    <3>3. ~(s = StackOf(place[v]) /\ a = place[v].addr)
      BY <1>1, <1>7, <2>1, <2>2, <2>5, StoresElsewhere DEF SafeCode, s, a, IsUnify
    <3>4. Load(v)' = Load(v)
      BY <1>4, <2>3, <2>4, <3>3
    <3> QED BY <3>2, <3>4
  <2>6. CASE v = pc
    <3>1. status' = "running" /\ pc' = pc + 1
      BY <1>1, <2>1, <2>6
    <3>2. Fits(cell, Believed(v))
      BY <2>1, <2>6, <3>1
    <3>3. place[v].stype = s /\ place[v].addr = a
      BY <2>3, <2>6 DEF s, a
    <3>4. Load(v)' = stack'[s][a]
      BY <2>4, <3>3
    <3>5. Load(v)' = cell
      BY <1>4, <2>3, <3>3, <3>4
    <3> QED BY <3>2, <3>5
  <2>7. v < pc \/ v = pc
    BY <1>1, <2>1
  <2> QED BY <2>5, <2>6, <2>7
<1>10. \A r \in Stacks : \A b \in DOMAIN stack'[r] : stack'[r][b].rep \in {"boxed", "raw", "garbage"}
  BY <1>3, <1>4
<1>11. DOMAIN stack'["STK"] = 0 .. frame["STK"] - 1 /\ DOMAIN stack'["PSTK"] = 0 .. frame["PSTK"] - 1
  BY <1>3, <1>4 DEF Stacks
<1>12. status' \in {"running", "boxing"} /\ (status' = "boxing" => BoxesNumber(pc'))
  OBVIOUS
<1>13. DOMAIN stack' = Stacks
  BY <1>4
<1>14. stale' \subseteq DOMAIN stack'["STK"]
  <2>1. stale' \subseteq DOMAIN stack["STK"] \cup (IF s = "STK" THEN {a} ELSE {})
    BY DEF Stores, s, a
  <2>2. s = "STK" => a \in DOMAIN stack["STK"]
    <3>1. IsArg(pc) => s = "PSTK"
      <4>1. IsArg(pc) => place[pc].stype = "ASTK"
        BY <1>1 DEF CompiledInv, ArgumentsPlaced, Placing, Done
      <4> QED BY <4>1 DEF StackOf, s
    <3> QED BY <1>7, <3>1
  <2>3. DOMAIN stack'["STK"] = DOMAIN stack["STK"]
    BY <1>4 DEF Stacks
  <2> QED BY <2>1, <2>2, <2>3
<1> QED BY <1>1, <1>6, <1>8, <1>9, <1>10, <1>11, <1>12, <1>13, <1>14, RunsOn
------------------------------------------------------------------------------
\* Where a node's location has a precise type, its operation or its operands say which.
LEMMA PreciseNode ==
    ASSUME MachineInv, pass = "compiled", Believed(pc) \in PreciseTypes
    PROVE  /\ code[pc].op = "ASSIGN" => code[pc].left \in Used(pc) /\ Believed(pc) = Believed(code[pc].left)
           /\ code[pc].op = "ASSIGNMEMBER" => code[pc].right \in Used(pc) /\ Believed(pc) = Believed(code[pc].right)
           /\ code[pc].op = "ASSIGNINDEX" => code[pc].third \in Used(pc) /\ Believed(pc) = Believed(code[pc].third)
           /\ code[pc].op = "ADD" => /\ Believed(pc) = "INT"
                                     /\ Believed(code[pc].left) = "INT" /\ Believed(code[pc].right) = "INT"
           /\ code[pc].op \notin {"ASSIGN", "ASSIGNMEMBER", "ASSIGNINDEX", "ADD"} =>
                /\ Believed(pc) = "OBJECT" => code[pc].op \in {"TOP", "OBJ"}
                /\ Believed(pc) = "BOOL" => code[pc].op \in Comparison \cup {"NOT", "FALSE", "TRUE"}
                /\ Believed(pc) = "INT" => code[pc].op \in Arithmetic \cup {"NUM"}
                /\ Believed(pc) = "UNDEFINED" => code[pc].op = "NIL"
<1>1. /\ CompiledInv /\ WellFormed(code) /\ Structured(code) /\ pc \in Indices
      /\ FlowInv /\ Unified
  BY AtNode DEF CompiledInv, AllocInv, Unified
<1>2. Believed(pc) = Refined(pc)
  BY <1>1, PreciseFacts
<1>3. \A v \in Indices : LocationType(v) = Believed(v)
  BY DEF LocationType, Believed
<1>4. code[pc].left \in Indices /\ code[pc].right \in Indices /\ code[pc].third \in Indices
  BY <1>1, CodeFacts
<1>5. CASE code[pc].op \in {"ASSIGN", "ASSIGNMEMBER", "ASSIGNINDEX"}
  BY <1>1, <1>2, <1>3, <1>4, <1>5, StructureFacts DEF Refined
<1>6. CASE code[pc].op = "ADD"
  <2> DEFINE l == LocationType(code[pc].left)
             r == LocationType(code[pc].right)
  <2>1. l \in ArisingTypes /\ r \in ArisingTypes
    BY <1>1, <1>4, TypeOfLocation DEF LocationType, CompiledInv, TypesArise
  <2>2. Refined(pc) = AddType(l, r, "BOXED")
    BY <1>6 DEF Refined
  <2> HIDE DEF l, r
  <2>3. Believed(pc) = "INT" /\ l = "INT" /\ r = "INT"
    BY <1>2, <2>1, <2>2, AddTypeFacts DEF PreciseTypes
  <2> QED BY <1>3, <1>4, <1>6, <2>3 DEF l, r
<1>7. CASE code[pc].op \notin {"ASSIGN", "ASSIGNMEMBER", "ASSIGNINDEX", "ADD"}
  <2>1. Refined(pc) = code[pc].rtype /\ code[pc].rtype \in InitialTypes(code[pc].op)
    BY <1>1, <1>7, StructureFacts DEF Refined
  <2>2. /\ Believed(pc) = "OBJECT" => code[pc].op \in {"TOP", "OBJ"}
        /\ Believed(pc) = "BOOL" => code[pc].op \in Comparison \cup {"NOT", "FALSE", "TRUE"}
        /\ Believed(pc) = "INT" => code[pc].op \in Arithmetic \cup {"NUM"}
        /\ Believed(pc) = "UNDEFINED" => code[pc].op = "NIL"
    BY <1>2, <2>1, InitialFacts
  <2> QED BY <1>7, <2>2
<1> QED BY <1>5, <1>6, <1>7

\* A node that stores nothing and goes on, or jumps, keeps the invariant if what was used
\* after the node before it has the values that are used where the machine goes on.
LEMMA StackStays ==
    ASSUME MachineInv, UNCHANGED <<compileVars, task>>, stack' = stack, stale' \subseteq DOMAIN stack["STK"],
           status = "running", status' = "running",
           pc > 1, pc' \in Indices, pc' > 1,
           ASSUME SafeCode, NEW v \in Indices, v < pc', Believed(v) \in PreciseTypes, UsedAfter(v, pc' - 1)
           PROVE  v < pc /\ UsedAfter(v, pc - 1)
    PROVE  MachineInv'
<1>1. /\ UNCHANGED <<code, pass, uidx, rtype, place, frame>> /\ Indices' = Indices
      /\ SafeCode' = SafeCode /\ \A p : TakesWords(p)' = TakesWords(p)
      /\ \A i : Believed(i)' = Believed(i)
      /\ \A i, j : UsedAfter(i, j)' = UsedAfter(i, j)
  BY SameCompiled
<1>2. /\ pass = "compiled" /\ DOMAIN stack = Stacks
      /\ DOMAIN stack["STK"] = 0 .. frame["STK"] - 1 /\ DOMAIN stack["PSTK"] = 0 .. frame["PSTK"] - 1
      /\ \A r \in Stacks : \A b \in DOMAIN stack[r] : stack[r][b].rep \in {"boxed", "raw", "garbage"}
      /\ pc \in Nat
  BY AtNode DEF MachineInv, MachineShape, MachineTypeOK
<1>3. PointersKept'
  <2>1. \A a : ~BeingBoxed(a)
    BY DEF BeingBoxed
  <2> QED BY <1>1, <2>1 DEF MachineInv, PointersKept, WordSlot
<1>4. ValuesKept'
  <2>1. SUFFICES ASSUME SafeCode, NEW v \in Indices, v < pc', Believed(v) \in PreciseTypes, UsedAfter(v, pc' - 1)
                 PROVE  Fits(Load(v), Believed(v))
    <3>1. \A i : /\ Load(i)' = Load(i)
                 /\ UsedAfter(i, Stored)' = UsedAfter(i, pc' - 1)
      BY <1>1 DEF Load, StackOf, Stored, UsedAfter, Used, Operands
    <3> QED BY <1>1, <2>1, <3>1 DEF ValuesKept, Fits
  <2>2. v < pc /\ UsedAfter(v, pc - 1)
    BY <2>1
  <2> QED BY <2>1, <2>2 DEF MachineInv, ValuesKept, Stored
<1> QED BY <1>2, <1>3, <1>4, RunsOn

LEMMA GoOnStays ==
    ASSUME MachineInv, UNCHANGED <<compileVars, task, stack, stale>>,
           status = "running", status' = "running", pc' = pc + 1,
           code[pc].op \notin {"ALLOCA", "PALLOCA", "POPA"}, Believed(pc) \notin PreciseTypes
    PROVE  MachineInv'
<1>1. /\ pass = "compiled" /\ LastIndex \in Nat /\ Indices = 0 .. LastIndex /\ pc \in Indices
      /\ WellFormed(code) /\ Structured(code)
  BY AtNode
<1>2. pc > 1 /\ pc + 1 \in Indices
  BY <1>1, StructureFacts
<1>3. pc' - 1 = pc /\ pc' > 1 /\ pc' \in Indices
  BY <1>1, <1>2
<1>4. ASSUME SafeCode, NEW v \in Indices, v < pc', Believed(v) \in PreciseTypes, UsedAfter(v, pc' - 1)
      PROVE  v < pc /\ UsedAfter(v, pc - 1)
  <2>1. v # pc
    BY <1>4
  <2>2. \A k \in Indices : k > pc => k > pc - 1
    BY <1>1
  <2>3. v < pc
    BY <1>1, <1>4, <2>1
  <2>4. UsedAfter(v, pc)
    BY <1>3, <1>4
  <2> QED BY <2>2, <2>3, <2>4 DEF UsedAfter
<1>5. stale' \subseteq DOMAIN stack["STK"]
  BY DEF MachineInv, MachineShape, MachineTypeOK
<1> QED BY <1>2, <1>3, <1>4, <1>5, StackStays

\* Nor does a node that ends the function change anything.
LEMMA EndKeeps ==
    ASSUME MachineInv, UNCHANGED <<compileVars, task, pc, stack, stale>>,
           status = "running", status' \in {"returned", "aborted", "faulted"}
    PROVE  MachineInv'
<1>1. UNCHANGED <<place, frame>> /\ (\A p : TakesWords(p)' = TakesWords(p)) /\ pass = "compiled"
  BY SameCompiled, AtNode
<1>2. PointersKept'
  <2>1. \A a : ~BeingBoxed(a)
    BY DEF BeingBoxed
  <2> QED BY <1>1, <2>1 DEF MachineInv, PointersKept, WordSlot
<1>3. ValuesKept'
  BY DEF ValuesKept
<1> QED BY <1>1, <1>2, <1>3, RunsOn DEF MachineInv, MachineShape, MachineTypeOK
------------------------------------------------------------------------------
\* A word is not a pointer.
LEMMA WordTypes == /\ BoxedTypes \cap {"INT", "BOOL", "UNDEFINED"} = {} /\ "OBJECT" \in BoxedTypes
                   /\ UnboxedTypes \cap BoxedTypes = {}
BY DEF BoxedTypes, UnboxedTypes

\* A node that stores a pointer in a location whose type is not precise, or is UNDEFINED, or is
\* OBJECT for an object, keeps the invariant.
LEMMA PointerKeeps ==
    ASSUME MachineInv, UNCHANGED <<compileVars, task>>, status \in {"running", "boxing"},
           status' = "running", pc' = pc + 1, code[pc].op \in Storing \cup {"ARG"},
           NEW x, Store(pc, Boxed(x)),
           SafeCode /\ Believed(pc) \in PreciseTypes =>
               Believed(pc) = "UNDEFINED" \/ (Believed(pc) = "OBJECT" /\ x.tag = "OBJECT")
    PROVE  MachineInv'
<1>1. Boxed(x).rep = "boxed" /\ Boxed(x).value = x
  BY DEF Boxed
<1>2. SafeCode /\ Believed(pc) \in PreciseTypes => Fits(Boxed(x), Believed(pc))
  BY <1>1 DEF Fits
<1>3. (IsArg(pc) \/ IsValue(code[pc].op)) /\ code[pc].op # "UNIFY"
  BY StoringOps DEF IsArg
<1>4. Stores(pc, Boxed(x))
  BY StoreStores DEF MachineInv, MachineShape, MachineTypeOK
<1> HIDE DEF Boxed
<1> QED BY <1>1, <1>2, <1>3, <1>4, StoreKeeps

\* A node that stores a word where a word is asked for, a pointer where one is, keeps it.
LEMMA RepresentKeeps ==
    ASSUME MachineInv, UNCHANGED <<compileVars, task>>, status \in {"running", "boxing"},
           status' = "running", pc' = pc + 1, code[pc].op \in Storing,
           NEW x, Store(pc, Represent(pc, x)),
           Believed(pc) \notin {"OBJECT", "UNDEFINED"}
    PROVE  MachineInv'
<1>1. Represent(pc, x).rep = IF Believed(pc) \in BoxedTypes THEN "boxed" ELSE "raw"
  BY DEF Represent, Boxed, Raw
<1>2. Believed(pc) \in PreciseTypes => Fits(Represent(pc, x), Believed(pc))
  BY <1>1, WordTypes DEF Fits, PreciseTypes
<1>3. IsValue(code[pc].op) /\ code[pc].op # "UNIFY" /\ ~IsArg(pc)
  BY StoringOps DEF IsArg
<1>4. Represent(pc, x).rep \in {"boxed", "raw", "garbage"}
  BY <1>1
<1>5. Stores(pc, Represent(pc, x))
  BY StoreStores DEF MachineInv, MachineShape, MachineTypeOK
<1> HIDE DEF Represent
<1> QED BY <1>1, <1>2, <1>3, <1>4, <1>5, StoreKeeps

LEMMA ParamInv ==
    ASSUME MachineInv, Param, UNCHANGED compileVars
    PROVE  MachineInv'
<1>1. /\ status = "running" /\ code[pc].op = "PARAM" /\ status' = "running" /\ pc' = pc + 1 /\ task' = task
      /\ (\E x : Store(pc, Boxed(x))) \/ UNCHANGED <<stack, stale>>
  BY DEF Param, At, GoOn
<1>2. pass = "compiled"
  BY <1>1, AtNode
<1>3. Believed(pc) \notin PreciseTypes
  BY <1>1, <1>2, PreciseNode DEF PreciseTypes, Comparison, Arithmetic
<1>4. CASE \E x : Store(pc, Boxed(x))
  BY <1>1, <1>3, <1>4, PointerKeeps DEF Storing
<1>5. CASE UNCHANGED <<stack, stale>>
  BY <1>1, <1>3, <1>5, GoOnStays
<1> QED BY <1>1, <1>4, <1>5

LEMMA ConstantInv ==
    ASSUME MachineInv, LoadConstant \/ BoxNumber, UNCHANGED compileVars
    PROVE  MachineInv'
<1>1. /\ status \in {"running", "boxing"} /\ status' = "running" /\ pc' = pc + 1 /\ task' = task
      /\ code[pc].op \in {"NIL", "TOP", "NUM", "STR", "FALSE", "TRUE"}
      /\ Store(pc, Constant(pc)) /\ pass = "compiled"
  BY AtNode DEF LoadConstant, BoxNumber, At, GoOn, MachineInv, MachineShape, BoxesNumber
<1>2. CASE code[pc].op \in {"NIL", "STR"}
  <2>1. \E x : Store(pc, Boxed(x))
    BY <1>1, <1>2 DEF Constant
  <2>2. Believed(pc) \in PreciseTypes => Believed(pc) = "UNDEFINED"
    BY <1>1, <1>2, PreciseNode DEF PreciseTypes, Comparison, Arithmetic
  <2> QED BY <1>1, <1>2, <2>1, <2>2, PointerKeeps DEF Storing
<1>3. CASE code[pc].op = "TOP"
  <2>1. Store(pc, Boxed(BoxObject(GlobalObject)))
    BY <1>1, <1>3 DEF Constant
  <2>2. Believed(pc) \in PreciseTypes => Believed(pc) = "OBJECT"
    BY <1>1, <1>3, PreciseNode DEF PreciseTypes, Comparison, Arithmetic
  <2>3. BoxObject(GlobalObject).tag = "OBJECT"
    BY DEF BoxObject, Value
  <2> QED BY <1>1, <1>3, <2>1, <2>2, <2>3, PointerKeeps DEF Storing
<1>4. CASE code[pc].op \in {"NUM", "FALSE", "TRUE"}
  <2>1. \E x : Store(pc, Represent(pc, x))
    BY <1>1, <1>4 DEF Constant
  <2>2. Believed(pc) \notin {"OBJECT", "UNDEFINED"}
    BY <1>1, <1>4, PreciseNode DEF PreciseTypes
  <2> QED BY <1>1, <1>4, <2>1, <2>2, RepresentKeeps DEF Storing
<1> QED BY <1>1, <1>2, <1>3, <1>4

LEMMA LoadNumberInv ==
    ASSUME MachineInv, LoadNumber, UNCHANGED compileVars
    PROVE  MachineInv'
<1>1. /\ status = "running" /\ status' = "boxing" /\ pc' = pc /\ task' = task
      /\ code[pc].op = "NUM" /\ BoxesNumber(pc) /\ Store(pc, Raw(BoxInt(code[pc].imm)))
  BY DEF LoadNumber, At
<1>2. IsValue(code[pc].op) /\ code[pc].op # "UNIFY"
  BY <1>1, StoringOps DEF Storing
<1>3. Raw(BoxInt(code[pc].imm)).rep = "raw"
  BY DEF Raw
<1>4. Stores(pc, Raw(BoxInt(code[pc].imm)))
  BY <1>1, StoreStores DEF MachineInv, MachineShape, MachineTypeOK
<1> HIDE DEF Raw
<1> QED BY <1>1, <1>2, <1>3, <1>4, StoreKeeps

LEMMA NewObjectInv ==
    ASSUME MachineInv, NewObjectNode, UNCHANGED compileVars
    PROVE  MachineInv'
<1>1. /\ status = "running" /\ status' = "running" /\ pc' = pc + 1 /\ task' = task
      /\ code[pc].op = "OBJ" /\ Store(pc, Boxed(BoxObject(world.objects))) /\ pass = "compiled"
  BY AtNode DEF NewObjectNode, At, GoOn
<1>2. Believed(pc) \in PreciseTypes => Believed(pc) = "OBJECT"
  BY <1>1, PreciseNode DEF PreciseTypes, Comparison, Arithmetic
<1>3. BoxObject(world.objects).tag = "OBJECT"
  BY DEF BoxObject, Value
<1> QED BY <1>1, <1>2, <1>3, PointerKeeps DEF Storing

LEMMA MoveInv ==
    ASSUME MachineInv, Move, UNCHANGED compileVars
    PROVE  MachineInv'
<1> DEFINE l == code[pc].left
<1>1. /\ status = "running" /\ status' = "running" /\ pc' = pc + 1 /\ task' = task
      /\ code[pc].op = "ASSIGN" /\ pass = "compiled"
      /\ IF Believed(pc) \in BoxedTypes THEN Store(pc, Boxed(Operand(l))) ELSE Copy(pc, l)
  BY AtNode DEF Move, At, GoOn
<1>2. l \in Used(pc) /\ (Believed(pc) \in PreciseTypes => Believed(pc) = Believed(l))
  BY <1>1, AtNode, StructureFacts, PreciseNode
<1>3. SafeCode /\ Believed(l) \in PreciseTypes => Fits(Load(l), Believed(l))
  BY <1>1, <1>2, ReadsAreSound
<1>4. CASE Believed(pc) \in BoxedTypes
  <2>1. Store(pc, Boxed(Operand(l)))
    BY <1>1, <1>4
  <2>2. Believed(pc) \in PreciseTypes => Believed(pc) = "OBJECT"
    BY <1>4, WordTypes DEF PreciseTypes
  <2>3. Believed(l) = "OBJECT" => Operand(l) = Load(l).value
    BY DEF Operand, Wanted
  <2>4. SafeCode /\ Believed(pc) \in PreciseTypes => Operand(l).tag = "OBJECT"
    BY <1>2, <1>3, <2>2, <2>3 DEF Fits
  <2> QED BY <1>1, <2>1, <2>2, <2>4, PointerKeeps DEF Storing
<1>5. CASE Believed(pc) \notin BoxedTypes
  <2>1. Stores(pc, Load(l))
    <3>1. \E cell : Stores(pc, cell) /\ (cell = Load(l) \/ StackOf(place[pc]) = "PSTK")
      BY <1>1, <1>5, CopyStores DEF MachineInv, MachineShape, MachineTypeOK
    <3>2. pc \in Indices /\ IsValue(code[pc].op) /\ CompiledInv
      BY <1>1, AtNode, StoringOps DEF Storing
    <3>3. place[pc].stype \in Stacks /\ place[pc].stype # "PSTK"
      BY <1>1, <1>5, <3>2, ValueFacts
    <3>4. StackOf(place[pc]) # "PSTK"
      BY <3>3 DEF StackOf, Stacks
    <3> QED BY <3>1, <3>4
  <2>2. Load(l).rep \in {"boxed", "raw", "garbage"}
    BY <1>1, <1>2, ReadFacts, LoadFacts
  <2>3. IsValue(code[pc].op) /\ code[pc].op # "UNIFY" /\ ~IsArg(pc)
    BY <1>1, StoringOps DEF Storing, IsArg
  <2> HIDE DEF l
  <2> QED BY <1>1, <1>2, <1>3, <1>5, <2>1, <2>2, <2>3, StoreKeeps
<1> QED BY <1>4, <1>5

LEMMA PassArgInv ==
    ASSUME MachineInv, PassArg, UNCHANGED compileVars
    PROVE  MachineInv'
<1>1. /\ status = "running" /\ status' = "running" /\ pc' = pc + 1 /\ task' = task
      /\ code[pc].op = "ARG" /\ pass = "compiled" /\ Store(pc, Boxed(Operand(code[pc].left)))
  BY AtNode DEF PassArg, At, GoOn
<1>2. Believed(pc) \notin PreciseTypes
  BY <1>1, PreciseNode DEF PreciseTypes, Comparison, Arithmetic
<1> QED BY <1>1, <1>2, PointerKeeps

LEMMA ComputeInv ==
    ASSUME MachineInv, Compute \/ AddBooleans, UNCHANGED compileVars
    PROVE  MachineInv'
<1> DEFINE l == Believed(code[pc].left)
           r == Believed(code[pc].right)
           x == Operate(code[pc].op, Operand(code[pc].left), Operand(code[pc].right))
<1>1. /\ status = "running" /\ status' = "running" /\ pc' = pc + 1 /\ task' = task
      /\ code[pc].op \in Comparison \cup Arithmetic \cup {"ADD"} /\ pass = "compiled"
  BY AtNode DEF Compute, AddBooleans, At, GoOn
<1>2. /\ Believed(pc) \notin {"OBJECT", "UNDEFINED"}
      /\ code[pc].op = "ADD" /\ Believed(pc) \in PreciseTypes => l = "INT" /\ r = "INT"
  BY <1>1, PreciseNode DEF PreciseTypes, Comparison, Arithmetic
<1>3. CASE AddBooleans
  <2>1. /\ \E y : Store(pc, Boxed(y))
        /\ code[pc].op = "ADD" /\ {l, r} = {"BOOL"}
    BY <1>3 DEF AddBooleans, AddsBooleans
  <2>2. Believed(pc) \notin PreciseTypes
    BY <1>2, <2>1
  <2> QED BY <1>1, <2>1, <2>2, PointerKeeps DEF Storing
<1>4. CASE Compute /\ code[pc].op = "ADD" /\ {l, r} # {"INT"}
  <2>1. Store(pc, Boxed(x))
    BY <1>4 DEF Compute, BinaryResult
  <2>2. Believed(pc) \notin PreciseTypes
    BY <1>2, <1>4
  <2> HIDE DEF x
  <2> QED BY <1>1, <2>1, <2>2, PointerKeeps DEF Storing
<1>5. CASE Compute /\ ~(code[pc].op = "ADD" /\ {l, r} # {"INT"})
  <2>1. Store(pc, Represent(pc, x))
    BY <1>5 DEF Compute, BinaryResult
  <2> HIDE DEF x
  <2> QED BY <1>1, <1>2, <2>1, RepresentKeeps DEF Storing
<1> QED BY <1>3, <1>4, <1>5

LEMMA NegateInv ==
    ASSUME MachineInv, Negate, UNCHANGED compileVars
    PROVE  MachineInv'
<1>1. /\ status = "running" /\ status' = "running" /\ pc' = pc + 1 /\ task' = task
      /\ code[pc].op = "NOT" /\ pass = "compiled"
      /\ \E x : Store(pc, Represent(pc, x))
  BY AtNode DEF Negate, At, GoOn
<1>2. Believed(pc) \notin {"OBJECT", "UNDEFINED"}
  BY <1>1, PreciseNode DEF PreciseTypes
<1> QED BY <1>1, <1>2, RepresentKeeps DEF Storing

LEMMA PointerInv ==
    ASSUME MachineInv, TypeOfNode \/ GetMember \/ CallFunction \/ CallIntrinsic, UNCHANGED compileVars
    PROVE  MachineInv'
<1>1. /\ status = "running" /\ status' = "running" /\ pc' = pc + 1 /\ task' = task
      /\ code[pc].op \in {"TYPEOF", "MEMBER", "INDEX", "CALL", "INTRINSICCALL"} /\ pass = "compiled"
      /\ \E x : Store(pc, Boxed(x))
  BY AtNode DEF TypeOfNode, GetMember, CallFunction, CallIntrinsic, At, GoOn
<1>2. Believed(pc) \notin PreciseTypes
  BY <1>1, PreciseNode DEF PreciseTypes, Comparison, Arithmetic
<1> QED BY <1>1, <1>2, PointerKeeps DEF Storing

\* The value that is assigned to a member is stored as it was loaded.
LEMMA SetMemberInv ==
    ASSUME MachineInv, SetMember, UNCHANGED compileVars
    PROVE  MachineInv'
<1> DEFINE v == IF code[pc].op = "ASSIGNINDEX" THEN code[pc].third ELSE code[pc].right
<1>1. /\ status = "running" /\ status' = "running" /\ pc' = pc + 1 /\ task' = task
      /\ code[pc].op \in {"ASSIGNMEMBER", "ASSIGNINDEX"} /\ pass = "compiled" /\ pc \in Indices
      /\ Copy(pc, v)
  BY AtNode DEF SetMember, At, GoOn
<1>2. v \in Used(pc) /\ (Believed(pc) \in PreciseTypes => Believed(pc) = Believed(v))
  BY <1>1, AtNode, StructureFacts, PreciseNode
<1>3. Believed(pc) \in BoxedTypes /\ Believed(v) \in UnboxedTypes => StoresWord(pc)
  BY <1>1 DEF StoresWord
<1> HIDE DEF v
<1>4. v \in Indices /\ pc > 1 /\ IsValue(code[v].op) /\ Believed(v) \in ArisingTypes \ {"NIL"}
  BY <1>1, <1>2, ReadFacts, AtNode, ValueFacts
<1>5. Load(v).rep \in {"boxed", "raw", "garbage"}
      /\ (Believed(v) \in BoxedTypes => Load(v).rep = "boxed")
  <2>1. Load(v).rep \in {"boxed", "raw", "garbage"}
    BY <1>1, <1>4, LoadFacts
  <2>2. Sound(v)
    BY <1>1, <1>2, AtNode DEF SetMember, At
  <2> QED BY <2>1, <2>2 DEF Sound, BoxedTypes
<1>6. Believed(v) \in BoxedTypes \cup UnboxedTypes
  BY <1>4 DEF ArisingTypes, BoxedTypes, UnboxedTypes
<1>7. SafeCode /\ Believed(pc) \in PreciseTypes => Fits(Load(v), Believed(pc))
  BY <1>1, <1>2, ReadsAreSound
<1>8. IsValue(code[pc].op) /\ code[pc].op # "UNIFY" /\ ~IsArg(pc)
  BY <1>1, StoringOps DEF Storing, IsArg
<1>9. PICK cell : /\ Stores(pc, cell)
                  /\ \/ cell = Load(v)
                     \/ /\ cell = Garbage
                        /\ StackOf(place[uidx[v]]) = "STK" /\ StackOf(place[pc]) = "PSTK"
  BY <1>1, CopyStores DEF MachineInv, MachineShape, MachineTypeOK
<1>10. ASSUME cell # Load(v)
       PROVE  cell = Garbage /\ Believed(v) \notin BoxedTypes /\ Believed(pc) \in BoxedTypes
  <2>1. cell = Garbage /\ StackOf(place[uidx[v]]) = "STK" /\ StackOf(place[pc]) = "PSTK"
    BY <1>9, <1>10
  <2>2. CompiledInv /\ place[uidx[v]] = place[v] /\ (place[v].stype = "PSTK" <=> Believed(v) \in BoxedTypes)
    BY <1>1, <1>4, AtNode, ValueFacts
  <2>3. place[pc].stype \in Stacks /\ (place[pc].stype = "PSTK" <=> Believed(pc) \in BoxedTypes)
    BY <1>1, <1>8, <2>2, ValueFacts
  <2> QED BY <2>1, <2>2, <2>3 DEF StackOf, Stacks
<1>11. cell.rep \in {"boxed", "raw", "garbage"}
  BY <1>5, <1>10 DEF Garbage
<1>12. Believed(pc) \in BoxedTypes => cell.rep = "boxed" \/ StoresWord(pc)
  BY <1>3, <1>5, <1>6, <1>10
<1>13. SafeCode /\ Believed(pc) \in PreciseTypes => Fits(cell, Believed(pc))
  BY <1>2, <1>7, <1>10
<1> QED BY <1>1, <1>8, <1>9, <1>11, <1>12, <1>13, StoreKeeps

LEMMA EndInv ==
    ASSUME MachineInv, DivideFault \/ AbortCall \/ ReturnNode, UNCHANGED compileVars
    PROVE  MachineInv'
<1>1. /\ status = "running" /\ status' \in {"returned", "aborted", "faulted"} /\ UNCHANGED <<task, pc, stack, stale>>
  BY DEF DivideFault, AbortCall, ReturnNode, At
<1> QED BY <1>1, EndKeeps

LEMMA NoCodeInv ==
    ASSUME MachineInv, NoCode, UNCHANGED compileVars
    PROVE  MachineInv'
<1>1. /\ status = "running" /\ status' = "running" /\ pc' = pc + 1 /\ UNCHANGED <<task, stack, stale>>
      /\ code[pc].op \in {"NOP", "UNIFY"} /\ pass = "compiled"
  BY AtNode DEF NoCode, GoOn
<1>2. Believed(pc) \notin PreciseTypes
  BY <1>1, PreciseNode DEF PreciseTypes, Comparison, Arithmetic
<1> QED BY <1>1, <1>2, GoOnStays

\* The first two nodes have no value.
LEMMA StartInv ==
    ASSUME MachineInv, Start, UNCHANGED compileVars
    PROVE  MachineInv'
<1>1. /\ status = "ready" /\ pass = "compiled" /\ status' = "running" /\ UNCHANGED <<task, pc, stack, stale>>
      /\ pc = 0 /\ stack = [s \in Stacks |-> <<>>] /\ pc \in Indices /\ stale \subseteq DOMAIN stack["STK"]
      /\ LastIndex \in Nat /\ Indices = 0 .. LastIndex /\ UNCHANGED <<code, frame>> /\ Indices' = Indices
  BY AtNode, SameCompiled DEF Start, MachineInv, MachineShape, MachineTypeOK
<1>2. \A s \in Stacks : DOMAIN stack[s] = {}
  BY <1>1
<1>3. PointersKept'
  BY <1>1, <1>2 DEF PointersKept, Stacks
<1>4. ValuesKept'
  <2>1. \A v \in Indices : ~(v < 0)
    BY <1>1
  <2> QED BY <1>1, <2>1 DEF ValuesKept
<1>5. stale' = {} /\ DOMAIN stack' = Stacks /\ "STK" \in Stacks
  BY <1>1, <1>2 DEF Stacks
<1>6. \A s \in Stacks : \A a \in DOMAIN stack'[s] : stack'[s][a].rep \in {"boxed", "raw", "garbage"}
  BY <1>1, <1>2
<1>7. pc' = 0 /\ ~(pc' > 0) /\ ~(pc' > 1) /\ pc' \in Indices
  BY <1>1
<1> QED BY <1>1, <1>3, <1>4, <1>5, <1>6, <1>7, RunsOn

LEMMA OpenFrameInv ==
    ASSUME MachineInv, OpenFrame, UNCHANGED compileVars
    PROVE  MachineInv'
<1>1. /\ status = "running" /\ status' = "running" /\ pc' = pc + 1 /\ task' = task
      /\ code[pc].op \in {"ALLOCA", "PALLOCA"}
      /\ stack' = IF code[pc].op = "ALLOCA"
                  THEN [stack EXCEPT !["STK"] = [a \in 0 .. frame["STK"] - 1 |-> Garbage]]
                  ELSE [stack EXCEPT !["PSTK"] = [a \in 0 .. frame["PSTK"] - 1 |-> Boxed(Undefined)]]
      /\ stale' = stale
  BY DEF OpenFrame, At, GoOn
<1>2. /\ pass = "compiled" /\ LastIndex \in Nat /\ Indices = 0 .. LastIndex /\ pc \in Indices
      /\ WellFormed(code) /\ Structured(code) /\ CompiledInv
  BY <1>1, AtNode
<1>3. /\ code[pc].op = "ALLOCA" <=> pc = 0
      /\ code[pc].op = "PALLOCA" <=> pc = 1
      /\ pc + 1 \in Indices
  BY <1>1, <1>2, StructureFacts
<1>4. /\ DOMAIN stack = Stacks
      /\ pc = 1 => DOMAIN stack["STK"] = 0 .. frame["STK"] - 1
      /\ \A s \in Stacks : \A a \in DOMAIN stack[s] : stack[s][a].rep \in {"boxed", "raw", "garbage"}
  BY <1>2 DEF MachineInv, MachineShape, MachineTypeOK
<1>5. /\ UNCHANGED <<code, frame>> /\ Indices' = Indices
      /\ SafeCode' = SafeCode /\ \A p : TakesWords(p)' = TakesWords(p)
      /\ \A i : Believed(i)' = Believed(i)
  BY SameCompiled
<1>6. Garbage.rep = "garbage" /\ Boxed(Undefined).rep = "boxed"
  BY DEF Garbage, Boxed
<1>7. CASE pc = 0
  <2>0. stale' = {}
    BY <1>1, <1>7 DEF MachineInv, MachineShape
  <2>1. /\ stack' = [stack EXCEPT !["STK"] = [a \in 0 .. frame["STK"] - 1 |-> Garbage]]
        /\ pc' = 1
    BY <1>1, <1>3, <1>7
  <2>2. /\ DOMAIN stack' = Stacks /\ stack'["PSTK"] = stack["PSTK"]
        /\ stack'["STK"] = [a \in 0 .. frame["STK"] - 1 |-> Garbage]
    BY <1>4, <2>1 DEF Stacks
  <2>3. \A s \in Stacks : \A a \in DOMAIN stack'[s] : stack'[s][a].rep \in {"boxed", "raw", "garbage"}
    <3>1. \A a \in DOMAIN stack'["STK"] : stack'["STK"][a].rep \in {"boxed", "raw", "garbage"}
      BY <1>6, <2>2
    <3>2. \A a \in DOMAIN stack'["PSTK"] : stack'["PSTK"][a].rep \in {"boxed", "raw", "garbage"}
      BY <1>4, <2>2 DEF Stacks
    <3> QED BY <3>1, <3>2 DEF Stacks
  <2>4. PointersKept'
    BY <1>1, <1>5, <2>2 DEF MachineInv, PointersKept, BeingBoxed, WordSlot
  <2>5. ValuesKept'
    <3>1. \A v \in Indices : v < 1 => ~IsValue(code[v].op)
      BY <1>2, <1>3, <1>7 DEF IsValue, InitialTypes, Comparison, Arithmetic
    <3>2. \A v \in Indices : v < 1 => Believed(v) \notin PreciseTypes
      BY <1>2, <3>1, PreciseFacts
    <3> QED BY <1>5, <2>1, <3>2 DEF ValuesKept
  <2> QED BY <1>1, <1>2, <1>3, <2>0, <2>1, <2>2, <2>3, <2>4, <2>5, RunsOn
<1>8. CASE pc = 1
  <2>1. /\ stack' = [stack EXCEPT !["PSTK"] = [a \in 0 .. frame["PSTK"] - 1 |-> Boxed(Undefined)]]
        /\ pc' = 2
    BY <1>1, <1>3, <1>8
  <2>2. /\ DOMAIN stack' = Stacks /\ stack'["STK"] = stack["STK"]
        /\ stack'["PSTK"] = [a \in 0 .. frame["PSTK"] - 1 |-> Boxed(Undefined)]
    BY <1>4, <2>1 DEF Stacks
  <2>3. \A s \in Stacks : \A a \in DOMAIN stack'[s] : stack'[s][a].rep \in {"boxed", "raw", "garbage"}
    <3>1. \A a \in DOMAIN stack'["STK"] : stack'["STK"][a].rep \in {"boxed", "raw", "garbage"}
      BY <1>4, <2>2 DEF Stacks
    <3>2. \A a \in DOMAIN stack'["PSTK"] : stack'["PSTK"][a].rep \in {"boxed", "raw", "garbage"}
      BY <1>6, <2>2
    <3> QED BY <3>1, <3>2 DEF Stacks
  <2>4. PointersKept'
    BY <1>6, <2>2 DEF PointersKept
  <2>5. ValuesKept'
    <3>1. \A v \in Indices : v < 2 => code[v].op \in {"ALLOCA", "PALLOCA"}
      <4>1. \A v \in Indices : v < 2 => v = 0 \/ v = 1
        BY <1>2
      <4> QED BY <1>2, <4>1, StructureFacts
    <3>2. \A v \in Indices : v < 2 => ~IsValue(code[v].op)
      BY <3>1 DEF IsValue, InitialTypes, Comparison, Arithmetic
    <3>3. \A v \in Indices : v < 2 => Believed(v) \notin PreciseTypes
      BY <1>2, <3>2, PreciseFacts
    <3> QED BY <1>5, <2>1, <3>3 DEF ValuesKept
  <2>6. stale' \subseteq DOMAIN stack'["STK"]
    BY <1>1, <2>2 DEF MachineInv, MachineShape, MachineTypeOK
  <2> QED BY <1>1, <1>2, <1>3, <1>4, <1>8, <2>1, <2>2, <2>3, <2>4, <2>5, <2>6, RunsOn
<1> QED BY <1>1, <1>3, <1>7, <1>8
------------------------------------------------------------------------------
\* A jump forward goes to the node that closes what is jumped over, or behind it.
LEMMA JumpFacts ==
    ASSUME MachineInv, code[pc].op \in {"IF", "IFELSE", "WCOND"}, NEW t, t = NodeOf(Closing(code[pc].op), pc)
    PROVE  /\ t \in Indices /\ pc < t /\ code[t].op = Closing(code[pc].op)
           /\ \A v \in Indices : pc < v /\ v < t /\ UsedAfter(v, t) => Joined(code, v)
<1>1. /\ LastIndex \in Nat /\ Indices = 0 .. LastIndex /\ pc \in Indices
      /\ WellFormed(code) /\ Structured(code)
  BY AtNode
<1> DEFINE ends == {e \in DOMAIN code : /\ code[e].op = Closing(code[pc].op)
                                        /\ pc \in {code[e].left, code[e].right}}
<1>2. /\ ends # {}
      /\ \A e \in ends : \A v \in pc + 1 .. e - 1 : \A k \in DOMAIN code :
           k > e /\ v \in {code[k].left, code[k].right, code[k].third} \ {NoOperand} => Joined(code, v)
  BY <1>1 DEF Structured, Indices
<1>3. t \in ends
  BY <1>2 DEF NodeOf, Indices
<1>4. t \in Indices /\ code[t].op = Closing(code[pc].op) /\ pc \in {code[t].left, code[t].right}
  BY <1>3 DEF Indices
<1>5. pc # 0
  BY <1>1, StructureFacts
<1>6. pc \in Used(t)
  BY <1>4, <1>5, UsedOperands DEF NoOperand
<1>7. pc < t
  BY <1>1, <1>4, <1>6, UsedBefore
<1>8. ASSUME NEW v \in Indices, pc < v, v < t, UsedAfter(v, t)
      PROVE  Joined(code, v)
  <2>1. PICK k \in Indices : k > t /\ v \in Used(k)
    BY <1>8 DEF UsedAfter
  <2>2. v \in pc + 1 .. t - 1
    BY <1>1, <1>4, <1>8
  <2>3. v \in {code[k].left, code[k].right, code[k].third} \ {NoOperand} /\ k \in DOMAIN code
    BY <2>1, UsedOperands DEF Indices
  <2> HIDE DEF ends
  <2> QED BY <1>2, <1>3, <2>1, <2>2, <2>3
<1> QED BY <1>4, <1>7, <1>8

\* What a jump passes is not a value that is used behind it and that no UNIFY node joins.
LEMMA JumpedOver ==
    ASSUME MachineInv, status = "running", code[pc].op \in {"IF", "IFELSE", "WCOND"},
           NEW t, t = NodeOf(Closing(code[pc].op), pc),
           NEW v \in Indices, v <= t, IsValue(code[v].op), ~Joined(code, v), UsedAfter(v, t)
    PROVE  v < pc /\ UsedAfter(v, pc - 1)
<1>1. LastIndex \in Nat /\ Indices = 0 .. LastIndex /\ pc \in Indices
  BY AtNode
<1>2. /\ t \in Indices /\ pc < t /\ code[t].op = Closing(code[pc].op)
      /\ pc < v /\ v < t /\ UsedAfter(v, t) => Joined(code, v)
  BY JumpFacts
<1>3. code[t].op \in {"IFELSE", "IFEND", "WEND"}
  BY <1>2 DEF Closing
<1>4. v # t /\ v # pc
  BY <1>3 DEF IsValue, InitialTypes, Comparison, Arithmetic
<1>5. v < pc
  BY <1>1, <1>2, <1>4
<1>6. \A k \in Indices : k > t => k > pc - 1
  BY <1>1, <1>2
<1> QED BY <1>5, <1>6 DEF UsedAfter

\* The five ways that a branch may take
LEMMA BranchFacts ==
    ASSUME MachineInv, Branch, NEW t, t = NodeOf(Closing(code[pc].op), pc)
    PROVE  /\ pc > 1 /\ pc' \in Indices /\ pc' > 1
           /\ \/ pc' = pc + 1
              \/ /\ code[pc].op \in {"IF", "WCOND"} /\ pc' = t + 1
                 /\ t \in Indices /\ pc < t
              \/ /\ code[pc].op = "IFELSE" /\ pc' = t
                 /\ t \in Indices /\ pc < t /\ code[t].op = "IFEND"
              \/ /\ code[pc].op = "WEND" /\ pc' = code[pc].left
                 /\ pc' < pc
<1>1. status = "running" /\ pc' = Target(pc) /\ code[pc].op \in Branches
  BY DEF Branch
<1>2. /\ LastIndex \in Nat /\ Indices = 0 .. LastIndex /\ pc \in Indices
      /\ WellFormed(code) /\ Structured(code)
  BY <1>1, AtNode
<1>3. pc > 1 /\ pc + 1 \in Indices
  BY <1>1, <1>2, StructureFacts DEF Branches
<1>4. CASE pc' = pc + 1
  BY <1>2, <1>3, <1>4
<1>5. CASE code[pc].op \in {"IF", "WCOND"} /\ pc' # pc + 1
  <2>1. pc' = t + 1
    BY <1>1, <1>5 DEF Target, Closing
  <2>2. t \in Indices /\ pc < t /\ code[t].op \in {"IFELSE", "WEND"}
    BY <1>5, JumpFacts DEF Closing
  <2>3. t + 1 \in Indices
    BY <1>2, <2>2, StructureFacts
  <2> QED BY <1>2, <1>3, <1>5, <2>1, <2>2, <2>3
<1>6. CASE code[pc].op = "IFELSE"
  <2>1. pc' = t
    BY <1>1, <1>6 DEF Target, Closing
  <2>2. t \in Indices /\ pc < t /\ code[t].op = "IFEND"
    BY <1>6, JumpFacts DEF Closing
  <2> QED BY <1>2, <1>3, <1>6, <2>1, <2>2
<1>7. CASE code[pc].op = "WEND"
  <2> DEFINE b == code[pc].left
  <2>1. pc' = b /\ code[b].op = "WHILE"
    BY <1>1, <1>2, <1>7, StructureFacts DEF Target
  <2>2. b \in Indices
    BY <1>2, CodeFacts
  <2>3. b > 1
    BY <1>2, <2>1, <2>2, StructureFacts
  <2>4. b < pc
    <3>1. b \in Used(pc)
      BY <2>3, UsedOperands DEF NoOperand
    <3> QED BY <1>2, <3>1, UsedBefore
  <2> QED BY <1>3, <1>7, <2>1, <2>2, <2>3, <2>4
<1>8. code[pc].op \in {"IFEND", "WHILE"} => pc' = pc + 1
  BY <1>1 DEF Target
<1> QED BY <1>1, <1>4, <1>5, <1>6, <1>7, <1>8 DEF Branches

\* Behind every branch the code uses only values, of those that no UNIFY node joins, that it
\* has passed: what a jump forward passes is not used behind it, and what the next round of
\* a loop uses from before it is named after the loop.
LEMMA BranchPasses ==
    ASSUME MachineInv, Branch, LoopsNameTheirValues,
           NEW v \in Indices, v < pc', IsValue(code[v].op), ~Joined(code, v), UsedAfter(v, pc' - 1)
    PROVE  v < pc /\ UsedAfter(v, pc - 1)
<1>1. status = "running" /\ code[pc].op \in Branches
  BY DEF Branch
<1>2. /\ LastIndex \in Nat /\ Indices = 0 .. LastIndex /\ pc \in Indices
      /\ WellFormed(code) /\ Structured(code)
  BY <1>1, AtNode
<1>3. v # pc
  BY <1>1 DEF Branches, IsValue, InitialTypes, Comparison, Arithmetic
<1>4. PICK k \in Indices : k > pc' - 1 /\ v \in Used(k)
  BY DEF UsedAfter
<1> DEFINE t == NodeOf(Closing(code[pc].op), pc)
<1>5. CASE pc' = pc + 1
  <2>1. v < pc /\ k > pc - 1
    BY <1>2, <1>3, <1>4, <1>5
  <2> QED BY <1>4, <2>1 DEF UsedAfter
<1>6. CASE /\ code[pc].op \in {"IF", "WCOND"} /\ pc' = t + 1
           /\ t \in Indices /\ pc < t
  <2>1. pc' - 1 = t /\ v <= t
    <3> HIDE DEF t
    <3> QED BY <1>2, <1>6
  <2> QED BY <1>1, <1>6, <2>1, JumpedOver
<1>7. CASE /\ code[pc].op = "IFELSE" /\ pc' = t
           /\ t \in Indices /\ pc < t /\ code[t].op = "IFEND"
  <2>1. k # t
    BY <1>2, <1>4, <1>7, StructureFacts
  <2>2. k > t /\ v <= t
    <3> HIDE DEF t
    <3> QED BY <1>2, <1>4, <1>7, <2>1
  <2>3. UsedAfter(v, t)
    BY <1>4, <2>2 DEF UsedAfter
  <2> QED BY <1>1, <1>7, <2>2, <2>3, JumpedOver
<1>8. CASE code[pc].op = "WEND" /\ pc' = code[pc].left /\ pc' < pc
  <2>1. code[pc].left \in Indices
    BY <1>2, CodeFacts
  <2>2. v < pc
    BY <1>2, <1>8, <2>1
  <2>3. CASE k >= pc
    <3>1. k > pc - 1
      BY <1>2, <2>3
    <3> QED BY <1>4, <2>2, <3>1 DEF UsedAfter
  <2>4. CASE ~(k >= pc)
    <3>1. k \in code[pc].left .. pc - 1
      BY <1>2, <1>4, <1>8, <2>1, <2>4
    <3>2. PICK n \in Indices : n > pc /\ v \in Used(n)
      BY <1>2, <1>4, <1>8, <3>1 DEF LoopsNameTheirValues
    <3>3. n > pc - 1
      BY <1>2, <3>2
    <3> QED BY <2>2, <3>2, <3>3 DEF UsedAfter
  <2> QED BY <2>3, <2>4
<1> HIDE DEF t
<1>9. t = NodeOf(Closing(code[pc].op), pc)
  BY DEF t
<1> QED BY <1>5, <1>6, <1>7, <1>8, <1>9, BranchFacts

LEMMA BranchInv ==
    ASSUME MachineInv, Branch, UNCHANGED compileVars
    PROVE  MachineInv'
<1>1. status = "running" /\ status' = "running" /\ task' = task /\ stack' = stack
      /\ stale' \subseteq DOMAIN stack["STK"]
  BY CollectionFacts DEF Branch, MachineInv, MachineShape, MachineTypeOK
<1>2. pc > 1 /\ pc' \in Indices /\ pc' > 1
  BY BranchFacts
<1>3. CompiledInv /\ pass = "compiled"
  BY <1>1, AtNode
<1>4. ASSUME SafeCode, NEW v \in Indices, v < pc', Believed(v) \in PreciseTypes, UsedAfter(v, pc' - 1)
      PROVE  v < pc /\ UsedAfter(v, pc - 1)
  <2>1. IsValue(code[v].op) /\ ~Joined(code, v)
    BY <1>3, <1>4, PreciseFacts
  <2> QED BY <1>4, <2>1, BranchPasses DEF SafeCode
<1> QED BY <1>1, <1>2, <1>4, StackStays
------------------------------------------------------------------------------
\* In safe code the machine is confused by NOT, INDEX and slots that take words only.
LEMMA ConfuseInv ==
    ASSUME MachineInv, Confuse, UNCHANGED compileVars
    PROVE  MachineInv'
<1>1. /\ status = "running" /\ status' = "confused" /\ UNCHANGED <<task, pc, stack, stale>>
      /\ pass = "compiled" /\ UNCHANGED <<code, pass, uidx, rtype, place, frame>>
      /\ CompiledInv' /\ Indices' = Indices
      /\ SafeCode' = SafeCode /\ \A p : TakesWords(p)' = TakesWords(p)
      /\ \A i : Believed(i)' = Believed(i)
      /\ pc \in Indices /\ Reads(pc) = Used(pc) /\ CompiledInv /\ WellFormed(code) /\ Structured(code)
  BY SameCompiled, AtNode DEF Confuse
<1>2. MachineShape'
  BY <1>1 DEF MachineInv, MachineShape, MachineTypeOK
<1>3. PointersKept'
  <2>1. \A a : ~BeingBoxed(a)
    BY <1>1 DEF BeingBoxed
  <2> QED BY <1>1, <2>1 DEF MachineInv, PointersKept, WordSlot
<1>4. ValuesKept'
  BY <1>1 DEF ValuesKept
<1>5. ASSUME Believed(code[pc].left) \in PreciseTypes
      PROVE  code[pc].left \in Used(pc)
  <2>1. code[pc].left \in Indices
    BY <1>1, CodeFacts
  <2>2. IsValue(code[code[pc].left].op)
    BY <1>1, <1>5, <2>1, PreciseFacts
  <2>3. 0 \in Indices /\ code[0].op = "ALLOCA"
    BY <1>1, CodeFacts, StructureFacts
  <2>4. code[pc].left # NoOperand
    BY <2>2, <2>3 DEF NoOperand, IsValue, InitialTypes, Comparison, Arithmetic
  <2> QED BY <2>4, UsedOperands
<1>6. ASSUME SafeCode
      PROVE  \/ code[pc].op = "NOT" /\ Believed(code[pc].left) = "INT"
             \/ /\ code[pc].op = "NOT"
                /\ Believed(code[pc].left) = "UNDEFINED"
                /\ Outdated(code[pc].left, stale)
             \/ /\ code[pc].op \in {"INDEX", "ASSIGNINDEX"}
                /\ Believed(code[pc].left) # "OBJECT"
                /\ Operand(code[pc].left).tag # "OBJECT"
             \/ \E v \in Reads(pc) : ~Sound(v) /\ TakesWords(place[uidx[v]])
  <2>1. CASE /\ code[pc].op \notin (Branches \ {"IF", "WCOND"}) \cup {"NOP", "UNIFY"}
             /\ \E v \in Reads(pc) : ~Sound(v)
    <3>1. code[pc].op \notin {"IFELSE", "IFEND", "WEND"}
      BY <2>1 DEF Branches
    <3>2. PICK v \in Reads(pc) : ~Sound(v)
      BY <2>1
    <3> QED BY <1>1, <1>6, <3>1, <3>2, ReadsAreSound
  <2>2. CASE code[pc].op = "NOT" /\ Misleads(code[pc].left)
    <3>1. CASE Believed(code[pc].left) = "INT"
      BY <2>2, <3>1
    <3>2. CASE Believed(code[pc].left) = "UNDEFINED" /\ ~Current(code[pc].left)
      <4>1. code[pc].left \in Used(pc)
        BY <1>5, <3>2 DEF PreciseTypes
      <4>2. Fits(Load(code[pc].left), "UNDEFINED")
        BY <1>1, <1>6, <2>2, <3>2, <4>1, ReadsAreSound DEF PreciseTypes
      <4> QED BY <2>2, <3>2, <4>2 DEF Fits, Current
    <3> QED BY <2>2, <3>1, <3>2 DEF Misleads
  <2>3. CASE code[pc].op \in {"INDEX", "ASSIGNINDEX"} /\ Operand(code[pc].left).tag # "OBJECT"
    <3>1. CASE Believed(code[pc].left) # "OBJECT"
      BY <2>3, <3>1
    <3>2. CASE Believed(code[pc].left) = "OBJECT"
      <4>1. code[pc].left \in Used(pc)
        BY <1>5, <3>2 DEF PreciseTypes
      <4>2. Fits(Load(code[pc].left), "OBJECT")
        BY <1>1, <1>6, <2>3, <3>2, <4>1, ReadsAreSound DEF PreciseTypes
      <4> QED BY <2>3, <3>2, <4>2 DEF Fits, Operand, Wanted
    <3> QED BY <3>1, <3>2
  <2> QED BY <2>1, <2>2, <2>3 DEF Confuse
<1>7. SafeCode' => ConfusionIsConfined'
  <2>1. \A i : /\ Operand(i)' = Operand(i) /\ Sound(i)' = Sound(i) /\ Reads(i)' = Reads(i)
               /\ Outdated(i, stale)' = Outdated(i, stale)
    BY <1>1 DEF Operand, Wanted, Load, StackOf, Sound, Reads, Operands, Believed, Outdated
  <2> QED BY <1>1, <1>6, <2>1 DEF ConfusionIsConfined
<1> QED BY <1>1, <1>2, <1>3, <1>4, <1>7 DEF MachineInv

\* Nothing runs before the function is compiled.
LEMMA CompileStepInv ==
    ASSUME MachineInv, AllocNext, UNCHANGED machineVars
    PROVE  MachineInv'
<1>1. /\ status = "ready" /\ pc = 0 /\ stack = [s \in Stacks |-> <<>>] /\ code' = code
      /\ UNCHANGED <<task, status, pc, stack, stale>> /\ pass # "compiled"
  BY CompiledIsLast, SameFunction DEF MachineInv, MachineShape, machineVars
<1>2. CompiledInv' /\ Indices' = Indices /\ LastIndex \in Nat /\ Indices = 0 .. LastIndex
  BY <1>1, CompiledNextInv, AtNode DEF MachineInv, Indices
<1>3. MachineShape'
  BY <1>1, <1>2 DEF MachineInv, MachineShape, MachineTypeOK
<1>4. PointersKept'
  <2>1. DOMAIN stack'["PSTK"] = {}
    BY <1>1 DEF Stacks
  <2> QED BY <2>1 DEF PointersKept
<1>5. ValuesKept' /\ ConfusionIsConfined'
  BY <1>1 DEF ValuesKept, ConfusionIsConfined
<1> QED BY <1>2, <1>3, <1>4, <1>5 DEF MachineInv

LEMMA MachineInitInv == MachineInit => MachineInv
<1> SUFFICES ASSUME MachineInit PROVE MachineInv
  OBVIOUS
<1>1. /\ AllocInit /\ code = task.code /\ status = "ready" /\ pc = 0 /\ stack = [s \in Stacks |-> <<>>]
      /\ stale = {}
  BY DEF MachineInit
<1>2. code \in Codes
  BY <1>1 DEF AllocInit, FlowInit, UnifyInit
<1>3. CompiledInv
  BY <1>1, <1>2, StructureAssumption, CompiledInitInv
<1>4. pc \in Indices
  BY <1>1, <1>3, CodeFacts DEF CompiledInv, AllocInv, FlowInv, UnifyInv, UnifyTypeOK
<1>5. DOMAIN stack = Stacks /\ \A s \in Stacks : DOMAIN stack[s] = {}
  BY <1>1
<1>6. MachineShape
  BY <1>1, <1>4, <1>5 DEF MachineShape, MachineTypeOK
<1>7. PointersKept
  BY <1>5 DEF PointersKept, Stacks
<1>8. ValuesKept /\ ConfusionIsConfined
  BY <1>1 DEF ValuesKept, ConfusionIsConfined
<1> QED BY <1>3, <1>6, <1>7, <1>8 DEF MachineInv

LEMMA MachineStutterInv ==
    ASSUME MachineInv, UNCHANGED allVars
    PROVE  MachineInv'
<1>1. /\ UNCHANGED <<code, pass, uidx, rtype, place, frame>> /\ UNCHANGED <<task, status, pc, stack, stale>>
      /\ CompiledInv' /\ Indices' = Indices
      /\ SafeCode' = SafeCode /\ \A p : TakesWords(p)' = TakesWords(p)
      /\ \A i : Believed(i)' = Believed(i) /\ BoxesNumber(i)' = BoxesNumber(i)
      /\ \A i, j : UsedAfter(i, j)' = UsedAfter(i, j)
  BY SameCompiled DEF allVars, machineVars
<1>2. MachineShape'
  BY <1>1 DEF MachineInv, MachineShape, MachineTypeOK
<1>3. PointersKept'
  BY <1>1 DEF MachineInv, PointersKept, BeingBoxed, WordSlot
<1>4. ValuesKept'
  <2>1. \A i : Load(i)' = Load(i) /\ UsedAfter(i, Stored)' = UsedAfter(i, Stored)
    BY <1>1 DEF Load, Stored, UsedAfter, Used, Operands
  <2> QED BY <1>1, <2>1 DEF MachineInv, ValuesKept, Fits
<1>5. ConfusionIsConfined' = ConfusionIsConfined
  <2>1. \A i : /\ Operand(i)' = Operand(i) /\ Sound(i)' = Sound(i) /\ Reads(i)' = Reads(i)
               /\ Outdated(i, stale)' = Outdated(i, stale)
    BY <1>1 DEF Operand, Wanted, Load, Sound, Reads, Operands, Believed, Outdated
  <2>2. CallsGiveBackTheDead' = CallsGiveBackTheDead
    BY <1>1, SameCode
  <2> QED BY <1>1, <2>1, <2>2 DEF ConfusionIsConfined
<1> QED BY <1>1, <1>2, <1>3, <1>4, <1>5 DEF MachineInv

LEMMA MachineNextInv ==
    ASSUME MachineInv, [MachineNext]_allVars
    PROVE  MachineInv'
<1>1. CASE AllocNext /\ UNCHANGED machineVars
  BY <1>1, CompileStepInv
<1>2. CASE Execute /\ UNCHANGED compileVars
  BY <1>2, StartInv, OpenFrameInv, ParamInv, ConstantInv, LoadNumberInv, NewObjectInv, MoveInv, PassArgInv,
     ComputeInv, NegateInv, PointerInv, SetMemberInv, EndInv, BranchInv, NoCodeInv, ConfuseInv DEF Execute
<1>3. CASE UNCHANGED allVars
  BY <1>3, MachineStutterInv
<1> QED BY <1>1, <1>2, <1>3 DEF MachineNext

\* The invariant behind the theorems below: the machine stays in the code, cells of boxed
\* locations are pointers, and values keep to their types as long as they are used.
THEOREM MachineInvariant == MachineSpec => []MachineInv
<1>1. MachineInv /\ [MachineNext]_allVars => MachineInv'
  BY MachineNextInv
<1> QED BY <1>1, MachineInitInv, PTL DEF MachineSpec

\* The machine stays between the first and the last node of its task's function, whatever
\* its branches do, and its frame has cells of the three kinds only.
THEOREM AlwaysMachineTypeOK == MachineSpec => []MachineTypeOK
<1>1. MachineInv => MachineTypeOK
  BY DEF MachineInv, MachineShape
<1> QED BY <1>1, MachineInvariant, PTL

\* A word in the frame's part of the pointer stack is the value of a member assignment that
\* was stored without boxing it, in its slot, or the number that is being boxed.
THEOREM AlwaysWordsComeFromMembers == MachineSpec => []WordsComeFromMembers
<1>1. MachineInv => WordsComeFromMembers
  BY DEF MachineInv, PointersKept, WordSlot, WordsComeFromMembers, BeingBoxed
<1> QED BY <1>1, MachineInvariant, PTL

\* Unless a member assignment stores a word there, everything in the frame's part of the
\* pointer stack is a pointer at every step, but for the number that is being boxed.
THEOREM PointerStackHoldsPointersIfStored ==
    MachineSpec => [](NoWordsAreStored => PointerStackHoldsPointers)
<1>1. MachineInv => (NoWordsAreStored => PointerStackHoldsPointers)
  BY DEF MachineInv, PointersKept, WordSlot, TakesWords, NoWordsAreStored, PointerStackHoldsPointers, BeingBoxed
<1> QED BY <1>1, MachineInvariant, PTL

\* In a function that keeps its values in their slots, through calls and through loops, the
\* machine code takes nothing for what it is not, but for NOT of a raw number and of an undefined
\* that was moved, INDEX of what is not an object, and what is in a slot where a member
\* assignment stores words.
THEOREM ConfusionIsConfinedIfNamed ==
    MachineSpec => [](LoopsNameTheirValues => ConfusionIsConfined)
<1>1. MachineInv => (LoopsNameTheirValues => ConfusionIsConfined)
  BY DEF MachineInv, SafeCode, ConfusionIsConfined
<1> QED BY <1>1, MachineInvariant, PTL

\* Where NOT is given no raw number and no undefined by its type, only locations of type OBJECT
\* are indexed, and no member assignment stores a word, the types on which the code relies are
\* right at every step, for all arguments.
THEOREM TypesAreRightInSafeCode ==
    MachineSpec =>
      [](CallsGiveBackTheDead /\ LoopsNameTheirValues /\ NoWordsAreStored /\ OperandsAreKnown => TypesAreRight)
<1>1. ASSUME MachineInv, CallsGiveBackTheDead, LoopsNameTheirValues, NoWordsAreStored, OperandsAreKnown
      PROVE  TypesAreRight
  <2>1. SUFFICES ASSUME status = "confused" PROVE FALSE
    BY DEF TypesAreRight
  <2>2. pc \in Indices
    BY <1>1, AtNode
  <2>3. /\ code[pc].op = "NOT" => Believed(code[pc].left) \notin {"INT", "UNDEFINED"}
        /\ code[pc].op \in {"INDEX", "ASSIGNINDEX"} => Believed(code[pc].left) = "OBJECT"
    BY <1>1, <2>2 DEF OperandsAreKnown
  <2>4. PICK v \in Reads(pc) : TakesWords(place[uidx[v]])
    BY <1>1, <2>1, <2>3 DEF MachineInv, SafeCode, ConfusionIsConfined
  <2> QED BY <1>1, <2>4 DEF NoWordsAreStored, TakesWords
<1>2. MachineInv => (CallsGiveBackTheDead /\ LoopsNameTheirValues /\ NoWordsAreStored /\ OperandsAreKnown
                       => TypesAreRight)
  BY <1>1
<1> QED BY <1>2, MachineInvariant, PTL
------------------------------------------------------------------------------
(* The history of the locations *)

\* What is in the slot of a location
CellOf(l) == stack[StackOf(place[l])][place[l].addr]

\* A location that something was stored for has a node for it, among those behind the machine.
StoredBy ==
    \A l \in DOMAIN latest : \E i \in Indices : i <= Stored /\ uidx[i] = l /\ IsValue(code[i].op) /\ ~IsUnify(i)

\* What was stored last is in the slot as long as a node before the machine uses the location.
LatestKept ==
    SafeCode => \A l \in DOMAIN latest : (\E k \in Indices : k > Stored /\ l \in Locations(k)) => CellOf(l) = latest[l]

\* A value that is used before the machine, of those that no UNIFY node joins, was stored.
StoredFirst ==
    LoopsNameTheirValues =>
        \A v \in Indices : v < pc /\ uidx[v] = v /\ StoresValue(v) /\ UsedAfter(v, Stored) => v \in DOMAIN latest

HistoryInv ==
    /\ MachineInv
    /\ status = "ready" => DOMAIN latest = {}
    /\ Active => StoredBy /\ LatestKept /\ StoredFirst

\* What the steps of running code do: open the frame, store in the node's slot, nothing, or
\* branch.
LEMMA StepForms ==
    ASSUME MachineInv, Execute, Active, Active'
    PROVE  \/ OpenFrame
           \/ /\ \E cell : Stores(pc, cell)
              /\ IsArg(pc) \/ StoresValue(pc)
              /\ code[pc].op \in Storing \cup {"ARG"}
              /\ (pc' = pc /\ status' = "boxing") \/ (pc' = pc + 1 /\ status' = "running")
              /\ task' = task
           \/ /\ stack' = stack /\ task' = task /\ status = "running" /\ status' = "running" /\ pc' = pc + 1
              /\ code[pc].op \in {"PARAM", "NOP", "UNIFY"} /\ ~StoresValue(pc)
           \/ Branch
<1>1. status \in {"running", "boxing"} /\ status' \in {"running", "boxing"}
  BY DEF Active
<1>0. /\ \A cell : Store(pc, cell) => Stores(pc, cell)
      /\ \A v : Copy(pc, v) => \E cell : Stores(pc, cell)
  BY StoreStores, CopyStores DEF MachineInv, MachineShape, MachineTypeOK
<1>2. CASE Param
  <2>1. /\ code[pc].op = "PARAM" /\ status = "running" /\ status' = "running" /\ pc' = pc + 1 /\ task' = task
        /\ IF code[pc].imm < Len(task.args) THEN \E cell : Stores(pc, cell) ELSE stack' = stack
    BY <1>0, <1>2 DEF Param, At, GoOn
  <2>2. StoresValue(pc) <=> code[pc].imm < Len(task.args)
    BY <2>1, StoringOps DEF StoresValue, IsUnify, Storing
  <2> QED BY <2>1, <2>2 DEF Storing
<1>3. CASE BoxNumber
  <2>1. code[pc].op = "NUM" /\ status' = "running" /\ pc' = pc + 1 /\ task' = task /\ \E cell : Stores(pc, cell)
    BY <1>0, <1>3 DEF BoxNumber, MachineInv, MachineShape, BoxesNumber
  <2>2. StoresValue(pc)
    BY <2>1, StoringOps DEF StoresValue, IsUnify, Storing
  <2> QED BY <2>1, <2>2 DEF Storing
<1>4. CASE LoadNumber
  <2>1. code[pc].op = "NUM" /\ status' = "boxing" /\ pc' = pc /\ task' = task /\ \E cell : Stores(pc, cell)
    BY <1>0, <1>4 DEF LoadNumber, At
  <2>2. StoresValue(pc)
    BY <2>1, StoringOps DEF StoresValue, IsUnify, Storing
  <2> QED BY <2>1, <2>2 DEF Storing
<1>5. CASE PassArg
  <2>1. code[pc].op = "ARG" /\ status' = "running" /\ pc' = pc + 1 /\ task' = task /\ \E cell : Stores(pc, cell)
    BY <1>0, <1>1, <1>5 DEF PassArg, At, GoOn
  <2> QED BY <2>1 DEF IsArg
<1>6. CASE \/ LoadConstant \/ NewObjectNode \/ Move \/ Compute \/ AddBooleans \/ Negate \/ TypeOfNode
           \/ GetMember \/ SetMember \/ CallFunction \/ CallIntrinsic
  <2>1. /\ code[pc].op \in Storing \ {"PARAM"} /\ \E cell : Stores(pc, cell)
        /\ status' = "running" /\ pc' = pc + 1 /\ task' = task
    <3>1. CASE LoadConstant \/ NewObjectNode \/ Move
      BY <1>0, <1>1, <3>1 DEF LoadConstant, NewObjectNode, Move, At, GoOn, Storing
    <3>2. CASE Compute \/ AddBooleans \/ Negate \/ TypeOfNode
      BY <1>0, <1>1, <3>2 DEF Compute, AddBooleans, Negate, TypeOfNode, At, GoOn, Storing, Comparison, Arithmetic
    <3>3. CASE GetMember \/ SetMember \/ CallFunction \/ CallIntrinsic
      BY <1>0, <1>1, <3>3 DEF GetMember, SetMember, CallFunction, CallIntrinsic, At, GoOn, Storing
    <3> QED BY <1>6, <3>1, <3>2, <3>3
  <2>2. StoresValue(pc)
    BY <2>1, StoringOps DEF StoresValue, IsUnify
  <2> QED BY <2>1, <2>2
<1>7. CASE NoCode
  <2>1. /\ stack' = stack /\ task' = task /\ status = "running" /\ status' = "running" /\ pc' = pc + 1
        /\ code[pc].op \in {"NOP", "UNIFY"}
    BY <1>7 DEF NoCode, GoOn
  <2>2. ~IsValue("NOP")
    BY DEF IsValue, InitialTypes, Comparison, Arithmetic
  <2>3. ~StoresValue(pc)
    BY <2>1, <2>2 DEF StoresValue, IsUnify
  <2> QED BY <2>1, <2>3
<1>8. ~Start /\ ~DivideFault /\ ~AbortCall /\ ~ReturnNode /\ ~Confuse
  BY <1>1 DEF Start, DivideFault, AbortCall, ReturnNode, Confuse
<1> QED BY <1>2, <1>3, <1>4, <1>5, <1>6, <1>7, <1>8 DEF Execute

\* What stays of the notions of this part when no variable of the compiler changes
LEMMA SameHistory ==
    ASSUME MachineInv, UNCHANGED <<compileVars, task>>
    PROVE  /\ UNCHANGED <<code, uidx, place>> /\ Indices' = Indices
           /\ SafeCode' = SafeCode /\ LoopsNameTheirValues' = LoopsNameTheirValues
           /\ \A i : /\ Locations(i)' = Locations(i) /\ IsUnify(i)' = IsUnify(i)
                     /\ StoresValue(i)' = StoresValue(i) /\ Used(i)' = Used(i)
<1>1. /\ UNCHANGED <<code, uidx, place>> /\ Indices' = Indices
      /\ SafeCode' = SafeCode /\ \A i : Used(i)' = Used(i)
  BY SameCompiled
<1>2. \A i : Locations(i)' = Locations(i) /\ IsUnify(i)' = IsUnify(i)
  BY <1>1, SameCode
<1>3. \A i : StoresValue(i)' = StoresValue(i)
  BY <1>1, <1>2 DEF StoresValue
<1>4. LoopsNameTheirValues' = LoopsNameTheirValues
  BY <1>1 DEF LoopsNameTheirValues
<1> QED BY <1>1, <1>2, <1>3, <1>4

\* A node stores into its location's slot, and into no other's whose value is still used.
LEMMA StoreKeepsOthers ==
    ASSUME MachineInv, status \in {"running", "boxing"}, UNCHANGED <<compileVars, task>>,
           NEW cell, Stores(pc, cell), IsArg(pc) \/ IsValue(code[pc].op), code[pc].op # "UNIFY"
    PROVE  /\ \A l : IsValue(code[pc].op) /\ l = uidx[pc] =>
                CellOf(l)' = stack'[StackOf(place[pc])][place[pc].addr]
           /\ \A i \in Indices :
                /\ i < pc /\ IsValue(code[i].op) /\ uidx[i] # uidx[pc]
                /\ CallsGiveBackTheDead /\ LocationUsedAfter(i, pc)
                => CellOf(uidx[i])' = CellOf(uidx[i])
<1>1. /\ CompiledInv /\ pass = "compiled" /\ pc \in Indices /\ UNCHANGED <<uidx, place>>
  BY AtNode, SameHistory
<1>2. ASSUME IsValue(code[pc].op), NEW l, l = uidx[pc]
      PROVE  CellOf(l)' = stack'[StackOf(place[pc])][place[pc].addr]
  <2>1. place[l] = place[pc]
    BY <1>2, StoreFacts
  <2> QED BY <1>1, <2>1 DEF CellOf, StackOf
<1>3. ASSUME NEW i \in Indices, i < pc, IsValue(code[i].op), uidx[i] # uidx[pc],
             CallsGiveBackTheDead, LocationUsedAfter(i, pc)
      PROVE  CellOf(uidx[i])' = CellOf(uidx[i])
  <2>1. pc > 1 /\ place[pc].stype # "NIL"
    BY StoreFacts
  <2>2. /\ place[i].stype \in Stacks /\ place[uidx[i]] = place[i]
        /\ place[i].stype = "PSTK" => place[i].addr >= frame["ASTK"]
    BY <1>1, <1>3, ValueFacts
  <2>3. /\ StackOf(place[i]) = place[i].stype /\ place[i].addr \in DOMAIN stack[place[i].stype]
    BY <1>3, <2>1, LoadFacts
  <2>4. ~(StackOf(place[pc]) = StackOf(place[i]) /\ place[pc].addr = place[i].addr)
    BY <1>1, <1>3, <2>1, <2>2, StoresIntoAnotherSlot DEF IsUnify
  <2>5. \A r \in Stacks : \A b \in DOMAIN stack[r] :
          stack'[r][b] = IF r = StackOf(place[pc]) /\ b = place[pc].addr THEN cell ELSE stack[r][b]
    BY StoreFacts
  <2>6. stack'[StackOf(place[i])][place[i].addr] = stack[StackOf(place[i])][place[i].addr]
    BY <2>2, <2>3, <2>4, <2>5
  <2>7. CellOf(uidx[i])' = stack'[StackOf(place[i])][place[i].addr]
    BY <1>1, <2>2 DEF CellOf, StackOf
  <2> QED BY <2>2, <2>6, <2>7 DEF CellOf
<1> QED BY <1>2, <1>3

\* The history after a store
LEMMA StoreHistory ==
    ASSUME HistoryInv, Active, Active', UNCHANGED <<compileVars, task>>, Remember \/ NextRound \/ KeepAll,
           NEW cell, Stores(pc, cell), IsArg(pc) \/ StoresValue(pc), code[pc].op \in Storing \cup {"ARG"},
           (pc' = pc /\ status' = "boxing") \/ (pc' = pc + 1 /\ status' = "running")
    PROVE  StoredBy' /\ LatestKept' /\ StoredFirst'
<1>1. /\ MachineInv /\ status \in {"running", "boxing"} /\ code[pc].op # "UNIFY" /\ code[pc].op # "WEND"
      /\ IsArg(pc) \/ (IsValue(code[pc].op) /\ ~IsUnify(pc))
  <2>1. code[pc].op # "WEND"
    BY DEF Storing, Comparison, Arithmetic
  <2> QED BY <2>1, StoringOps DEF HistoryInv, Active, StoresValue
<1>2. /\ LastIndex \in Nat /\ Indices = 0 .. LastIndex /\ pc \in Indices /\ CompiledInv /\ pass = "compiled"
  BY <1>1, AtNode
<1>3. /\ UNCHANGED <<code, uidx, place>> /\ Indices' = Indices
      /\ SafeCode' = SafeCode /\ LoopsNameTheirValues' = LoopsNameTheirValues
      /\ \A i : /\ Locations(i)' = Locations(i) /\ IsUnify(i)' = IsUnify(i)
                /\ StoresValue(i)' = StoresValue(i) /\ Used(i)' = Used(i)
  BY <1>1, SameHistory
<1>4. Stored' = pc /\ Stored \in {pc - 1, pc}
  BY <1>2 DEF Stored
<1>5. /\ \A l : IsValue(code[pc].op) /\ l = uidx[pc] =>
           CellOf(l)' = stack'[StackOf(place[pc])][place[pc].addr]
      /\ \A i \in Indices :
           /\ i < pc /\ IsValue(code[i].op) /\ uidx[i] # uidx[pc]
           /\ CallsGiveBackTheDead /\ LocationUsedAfter(i, pc)
           => CellOf(uidx[i])' = CellOf(uidx[i])
  BY <1>1, StoreKeepsOthers
<1> DEFINE new == stack'[StackOf(place[pc])][place[pc].addr]
<1>6. \/ /\ StoresValue(pc)
         /\ latest' = [l \in DOMAIN latest \cup {uidx[pc]} |-> IF l = uidx[pc] THEN new ELSE latest[l]]
      \/ IsArg(pc) /\ latest' = latest
  BY <1>1 DEF Remember, NextRound, Repeats, KeepAll
<1>7. /\ StoresValue(pc) => uidx[pc] \in DOMAIN latest' /\ latest'[uidx[pc]] = new
      /\ \A l \in DOMAIN latest : l \in DOMAIN latest' /\ ((l = uidx[pc] /\ StoresValue(pc)) \/ latest'[l] = latest[l])
      /\ \A l \in DOMAIN latest' : l \in DOMAIN latest \/ (StoresValue(pc) /\ l = uidx[pc])
  <2>1. CASE /\ StoresValue(pc)
             /\ latest' = [l \in DOMAIN latest \cup {uidx[pc]} |-> IF l = uidx[pc] THEN new ELSE latest[l]]
    BY <2>1
  <2>2. CASE IsArg(pc) /\ latest' = latest
    <3>1. ~StoresValue(pc)
      BY <2>2 DEF IsArg, StoresValue, IsValue, InitialTypes, Comparison, Arithmetic
    <3> QED BY <2>2, <3>1
  <2> QED BY <1>6, <2>1, <2>2
<1> HIDE DEF new
<1>8. StoredBy'
  <2>1. SUFFICES ASSUME NEW l \in DOMAIN latest'
                 PROVE  \E i \in Indices : i <= pc /\ uidx[i] = l /\ IsValue(code[i].op) /\ ~IsUnify(i)
    BY <1>3, <1>4 DEF StoredBy
  <2>2. CASE l \in DOMAIN latest
    <3>1. PICK i \in Indices : i <= Stored /\ uidx[i] = l /\ IsValue(code[i].op) /\ ~IsUnify(i)
      BY <2>2 DEF HistoryInv, StoredBy
    <3>2. i <= pc
      BY <1>2, <1>4, <3>1
    <3> QED BY <3>1, <3>2
  <2>3. CASE StoresValue(pc) /\ l = uidx[pc]
    <3>1. pc <= pc
      BY <1>2
    <3> QED BY <1>2, <2>3, <3>1 DEF StoresValue
  <2> QED BY <1>7, <2>1, <2>2, <2>3
<1>9. LatestKept'
  <2>1. SUFFICES ASSUME SafeCode, NEW l \in DOMAIN latest', NEW k \in Indices, k > pc, l \in Locations(k)
                 PROVE  CellOf(l)' = latest'[l]
    <3>1. \A l : CellOf(l)' = stack'[StackOf(place[l])][place[l].addr]
      BY <1>3 DEF CellOf, StackOf
    <3> QED BY <1>3, <1>4, <2>1, <3>1 DEF LatestKept, CellOf
  <2>2. CASE StoresValue(pc) /\ l = uidx[pc]
    BY <1>5, <1>7, <2>2 DEF StoresValue, new
  <2>3. CASE l \in DOMAIN latest /\ ~(StoresValue(pc) /\ l = uidx[pc])
    <3>1. PICK i \in Indices : i <= Stored /\ uidx[i] = l /\ IsValue(code[i].op) /\ ~IsUnify(i)
      BY <2>3 DEF HistoryInv, StoredBy
    <3>2. uidx[i] # uidx[pc]
      <4>1. CASE IsArg(pc)
        <5>1. ~IsArg(i)
          BY <3>1 DEF IsArg, IsValue, InitialTypes, Comparison, Arithmetic
        <5>2. uidx[i] = uidx[pc] => i = pc
          BY <1>2, <4>1, LocationFacts DEF CompiledInv, AllocInv, Unified
        <5> QED BY <4>1, <5>1, <5>2
      <4>2. CASE StoresValue(pc)
        BY <2>3, <3>1, <4>2
      <4> QED BY <4>1, <4>2
    <3>3. i < pc
      <4>1. i # pc
        BY <3>2
      <4> QED BY <1>2, <1>4, <3>1, <4>1
    <3>4. LocationUsedAfter(i, pc)
      BY <2>1, <3>1 DEF LocationUsedAfter
    <3>5. CellOf(l)' = CellOf(l)
      BY <1>3, <1>5, <2>1, <3>1, <3>2, <3>3, <3>4 DEF SafeCode
    <3>6. k > Stored
      BY <1>2, <1>4, <2>1
    <3>7. CellOf(l) = latest[l]
      BY <2>1, <2>3, <3>6 DEF HistoryInv, LatestKept
    <3> QED BY <1>7, <2>3, <3>5, <3>7
  <2> QED BY <1>7, <2>2, <2>3
<1>10. StoredFirst'
  <2>1. SUFFICES ASSUME LoopsNameTheirValues, NEW v \in Indices, v < pc', uidx[v] = v, StoresValue(v),
                        NEW k \in Indices, k > pc, v \in Used(k)
                 PROVE  v \in DOMAIN latest'
    BY <1>3, <1>4 DEF StoredFirst, UsedAfter
  <2>2. CASE v = pc
    BY <1>7, <2>1, <2>2
  <2>3. CASE v # pc
    <3>1. v < pc /\ k > Stored
      BY <1>2, <1>4, <2>1, <2>3
    <3>2. v \in DOMAIN latest
      BY <2>1, <3>1 DEF HistoryInv, StoredFirst, UsedAfter
    <3> QED BY <1>7, <3>2
  <2> QED BY <2>2, <2>3
<1> QED BY <1>8, <1>9, <1>10

LEMMA Between ==
    ASSUME NEW k \in Nat, NEW p \in Nat, NEW q \in Nat, k > p - 1, ~(k > q - 1)
    PROVE  p <= k /\ k <= q - 1
OBVIOUS

LEMMA BeforeAsStored ==
    ASSUME LastIndex \in Nat, Indices = 0 .. LastIndex, NEW b \in Indices, NEW l, StoredBefore(l, b)
    PROVE  \E i \in Indices : i <= b - 1 /\ uidx[i] = l /\ IsValue(code[i].op) /\ ~IsUnify(i)
<1>1. PICK i \in Indices : i < b /\ uidx[i] = l /\ IsValue(code[i].op) /\ ~IsUnify(i)
  BY DEF StoredBefore, IsUnify
<1>2. i <= b - 1
  BY <1>1
<1> QED BY <1>1, <1>2

\* The history after a step that stores nothing
LEMMA StayHistory ==
    ASSUME HistoryInv, status = "running", status' = "running", UNCHANGED <<compileVars, task>>, stack' = stack,
           pc' \in Indices,
           \A l \in DOMAIN latest' : l \in DOMAIN latest /\ latest'[l] = latest[l],
           \A l \in DOMAIN latest' : StoredBefore(l, pc'),
           ASSUME SafeCode, NEW l \in DOMAIN latest', NEW k \in Indices, k > pc' - 1, l \in Locations(k)
           PROVE  \E n \in Indices : n > pc - 1 /\ l \in Locations(n),
           ASSUME LoopsNameTheirValues, NEW v \in Indices, v < pc', uidx[v] = v, StoresValue(v), UsedAfter(v, pc' - 1)
           PROVE  v < pc /\ UsedAfter(v, pc - 1) /\ (v \in DOMAIN latest => v \in DOMAIN latest')
    PROVE  StoredBy' /\ LatestKept' /\ StoredFirst'
<1>1. /\ MachineInv /\ Active /\ Stored = pc - 1 /\ Stored' = pc' - 1
  BY DEF HistoryInv, Active, Stored
<1>2. LastIndex \in Nat /\ Indices = 0 .. LastIndex /\ pc \in Indices
  BY <1>1, AtNode
<1>3. /\ UNCHANGED <<code, uidx, place>> /\ Indices' = Indices
      /\ SafeCode' = SafeCode /\ LoopsNameTheirValues' = LoopsNameTheirValues
      /\ \A i : /\ Locations(i)' = Locations(i) /\ IsUnify(i)' = IsUnify(i)
                /\ StoresValue(i)' = StoresValue(i) /\ Used(i)' = Used(i)
  BY <1>1, SameHistory
<1>4. StoredBy'
  <2>1. SUFFICES ASSUME NEW l \in DOMAIN latest'
                 PROVE  \E i \in Indices : i <= pc' - 1 /\ uidx[i] = l /\ IsValue(code[i].op) /\ ~IsUnify(i)
    BY <1>1, <1>3 DEF StoredBy
  <2> QED BY <1>2, <2>1, BeforeAsStored
<1>5. LatestKept'
  <2>1. SUFFICES ASSUME SafeCode, NEW l \in DOMAIN latest', NEW k \in Indices, k > pc' - 1, l \in Locations(k)
                 PROVE  CellOf(l) = latest[l]
    <3>1. \A l : CellOf(l)' = CellOf(l)
      BY <1>3 DEF CellOf, StackOf
    <3> QED BY <1>1, <1>3, <2>1, <3>1 DEF LatestKept
  <2>2. \E n \in Indices : n > pc - 1 /\ l \in Locations(n)
    BY <2>1
  <2> QED BY <1>1, <2>1, <2>2 DEF HistoryInv, LatestKept
<1>6. StoredFirst'
  <2>1. SUFFICES ASSUME LoopsNameTheirValues, NEW v \in Indices, v < pc', uidx[v] = v, StoresValue(v),
                        UsedAfter(v, pc' - 1)
                 PROVE  v \in DOMAIN latest'
    <3>1. \A v : UsedAfter(v, Stored)' = UsedAfter(v, pc' - 1)
      BY <1>1, <1>3 DEF UsedAfter
    <3> QED BY <1>3, <2>1, <3>1 DEF StoredFirst
  <2>2. v < pc /\ UsedAfter(v, pc - 1) /\ (v \in DOMAIN latest => v \in DOMAIN latest')
    BY <2>1
  <2> QED BY <1>1, <2>1, <2>2 DEF HistoryInv, StoredFirst
<1> QED BY <1>4, <1>5, <1>6

\* What the history is after each step of the machine
LEMMA GoOnHistory ==
    ASSUME HistoryInv, status = "running", status' = "running", UNCHANGED <<compileVars, task>>, stack' = stack,
           pc' = pc + 1, code[pc].op \in {"PARAM", "NOP", "UNIFY"}, ~StoresValue(pc), latest' = latest
    PROVE  StoredBy' /\ LatestKept' /\ StoredFirst'
<1>1. /\ MachineInv /\ Active /\ Stored = pc - 1
  BY DEF HistoryInv, Active, Stored
<1>2. /\ LastIndex \in Nat /\ Indices = 0 .. LastIndex /\ pc \in Indices
      /\ WellFormed(code) /\ Structured(code)
  BY <1>1, AtNode
<1>3. pc' \in Indices
  BY <1>2, StructureFacts
<1>4. \A l \in DOMAIN latest' : StoredBefore(l, pc')
  <2>1. SUFFICES ASSUME NEW l \in DOMAIN latest PROVE StoredBefore(l, pc')
    OBVIOUS
  <2>2. PICK i \in Indices : i <= Stored /\ uidx[i] = l /\ IsValue(code[i].op) /\ ~IsUnify(i)
    BY <1>1 DEF HistoryInv, StoredBy
  <2>3. i < pc'
    BY <1>1, <1>2, <2>2
  <2> QED BY <2>2, <2>3 DEF StoredBefore, IsUnify
<1>5. ASSUME NEW l, NEW k \in Indices, k > pc' - 1, l \in Locations(k)
      PROVE  \E n \in Indices : n > pc - 1 /\ l \in Locations(n)
  <2>1. k > pc - 1
    BY <1>2, <1>5
  <2> QED BY <1>5, <2>1
<1>6. ASSUME NEW v \in Indices, v < pc', StoresValue(v), UsedAfter(v, pc' - 1)
      PROVE  v < pc /\ UsedAfter(v, pc - 1)
  <2>1. v # pc
    BY <1>6
  <2>2. \A k \in Indices : k > pc' - 1 => k > pc - 1
    BY <1>2
  <2>3. v < pc
    BY <1>2, <1>6, <2>1
  <2> QED BY <1>6, <2>2, <2>3 DEF UsedAfter
<1> QED BY <1>3, <1>4, <1>5, <1>6, StayHistory

LEMMA BranchHistory ==
    ASSUME HistoryInv, Branch, UNCHANGED compileVars, Remember \/ NextRound \/ KeepAll
    PROVE  StoredBy' /\ LatestKept' /\ StoredFirst'
<1>1. /\ MachineInv /\ Active /\ Stored = pc - 1 /\ status = "running" /\ status' = "running"
      /\ task' = task /\ stack' = stack /\ code[pc].op \in Branches
  BY DEF HistoryInv, Active, Stored, Branch
<1>2. /\ LastIndex \in Nat /\ Indices = 0 .. LastIndex /\ pc \in Indices
      /\ WellFormed(code) /\ Structured(code) /\ CompiledInv /\ pass = "compiled"
  BY <1>1, AtNode
<1>3. pc' \in Indices /\ (pc' > pc \/ (code[pc].op = "WEND" /\ pc' = code[pc].left /\ pc' < pc))
  <2> DEFINE t == NodeOf(Closing(code[pc].op), pc)
  <2>1. /\ pc' \in Indices
        /\ \/ pc' = pc + 1
           \/ pc' = t + 1 /\ t \in Indices /\ pc < t
           \/ pc' = t /\ t \in Indices /\ pc < t
           \/ code[pc].op = "WEND" /\ pc' = code[pc].left /\ pc' < pc
    BY <1>1, BranchFacts
  <2> HIDE DEF t
  <2> QED BY <1>2, <2>1
<1>4. ~StoresValue(pc)
  BY <1>1 DEF StoresValue, Branches, IsValue, InitialTypes, Comparison, Arithmetic
<1>5. /\ code[pc].op # "WEND" => latest' = latest
      /\ code[pc].op = "WEND" =>
           latest' = [l \in {l \in DOMAIN latest : StoredBefore(l, code[pc].left)} |-> latest[l]]
  BY <1>1, <1>4 DEF Remember, NextRound, Repeats, KeepAll
<1>6. \A l \in DOMAIN latest' : l \in DOMAIN latest /\ latest'[l] = latest[l]
  BY <1>5
<1>7. \A l \in DOMAIN latest' : StoredBefore(l, pc')
  <2>1. SUFFICES ASSUME NEW l \in DOMAIN latest' PROVE StoredBefore(l, pc')
    OBVIOUS
  <2>2. CASE pc' > pc
    <3>1. PICK i \in Indices : i <= Stored /\ uidx[i] = l /\ IsValue(code[i].op) /\ ~IsUnify(i)
      BY <1>1, <1>6 DEF HistoryInv, StoredBy
    <3>2. i < pc'
      BY <1>1, <1>2, <1>3, <2>2, <3>1
    <3> QED BY <3>1, <3>2 DEF StoredBefore, IsUnify
  <2>3. CASE code[pc].op = "WEND" /\ pc' = code[pc].left
    BY <1>5, <2>3
  <2> QED BY <1>3, <2>2, <2>3
<1>8. ASSUME SafeCode, NEW l \in DOMAIN latest', NEW k \in Indices, k > pc' - 1, l \in Locations(k)
      PROVE  \E n \in Indices : n > pc - 1 /\ l \in Locations(n)
  <2>1. CASE k > pc - 1
    BY <1>8, <2>1
  <2>2. CASE ~(k > pc - 1)
    <3>1. code[pc].op = "WEND" /\ pc' = code[pc].left /\ k \in code[pc].left .. pc - 1
      <4>1. k \in Nat /\ pc \in Nat /\ pc' \in Nat
        BY <1>2, <1>3, <1>8
      <4>2. pc' <= k /\ k <= pc - 1
        BY <1>8, <2>2, <4>1, Between
      <4>3. ~(pc' > pc)
        BY <4>1, <4>2
      <4>4. code[pc].op = "WEND" /\ pc' = code[pc].left
        BY <1>3, <4>3
      <4>5. k \in pc' .. pc - 1
        BY <4>1, <4>2
      <4> QED BY <4>4, <4>5
    <3>2. PICK i \in Indices : i < pc' /\ uidx[i] = l
      BY <1>7, <1>8 DEF StoredBefore
    <3>3. i \in 0 .. code[pc].left - 1
      BY <1>2, <1>3, <3>1, <3>2
    <3>4. uidx[i] \in Locations(k)
      BY <1>8, <3>2
    <3>5. AllocInv /\ Unified /\ LoopsNameTheirValues
      BY <1>2, <1>8 DEF CompiledInv, Unified, SafeCode
    <3>6. PICK n \in Indices : n > pc /\ uidx[i] \in Locations(n)
      BY <1>2, <3>1, <3>3, <3>4, <3>5, LoopsUseBehind
    <3>7. n > pc - 1
      BY <1>2, <3>6
    <3> QED BY <3>2, <3>6, <3>7
  <2> QED BY <2>1, <2>2
<1>9. ASSUME LoopsNameTheirValues, NEW v \in Indices, v < pc', uidx[v] = v, StoresValue(v), UsedAfter(v, pc' - 1)
      PROVE  v < pc /\ UsedAfter(v, pc - 1) /\ (v \in DOMAIN latest => v \in DOMAIN latest')
  <2>1. IsValue(code[v].op) /\ ~IsUnify(v)
    BY <1>9 DEF StoresValue
  <2>2. ~Joined(code, v)
    BY <1>2, <1>9, JoinedMoves DEF CompiledInv, AllocInv, Unified
  <2>3. v < pc /\ UsedAfter(v, pc - 1)
    BY <1>1, <1>9, <2>1, <2>2, BranchPasses
  <2>4. ASSUME v \in DOMAIN latest
        PROVE  v \in DOMAIN latest'
    <3>1. CASE code[pc].op = "WEND"
      <4>1. pc' = code[pc].left
        BY <1>1, <3>1 DEF Branch, Target
      <4>2. StoredBefore(v, code[pc].left)
        BY <1>9, <2>1, <4>1 DEF StoredBefore, IsUnify
      <4> QED BY <1>5, <2>4, <3>1, <4>2
    <3>2. CASE code[pc].op # "WEND"
      BY <1>5, <2>4, <3>2
    <3> QED BY <3>1, <3>2
  <2> QED BY <2>3, <2>4
<1> QED BY <1>1, <1>3, <1>6, <1>7, <1>8, <1>9, StayHistory

\* The first two nodes store nothing.
LEMMA OpenFrameHistory ==
    ASSUME HistoryInv, OpenFrame, UNCHANGED compileVars, Remember \/ NextRound \/ KeepAll
    PROVE  StoredBy' /\ LatestKept' /\ StoredFirst'
<1>1. /\ MachineInv /\ Active /\ Stored = pc - 1 /\ status' = "running" /\ task' = task /\ pc' = pc + 1
      /\ code[pc].op \in {"ALLOCA", "PALLOCA"}
  BY DEF HistoryInv, Active, Stored, OpenFrame, At, GoOn
<1>2. /\ LastIndex \in Nat /\ Indices = 0 .. LastIndex /\ pc \in Indices
      /\ WellFormed(code) /\ Structured(code)
  BY <1>1, AtNode
<1>3. pc \in {0, 1}
  BY <1>1, <1>2, StructureFacts
<1>4. \A i \in Indices : i <= pc => ~IsValue(code[i].op)
  <2>1. SUFFICES ASSUME NEW i \in Indices, i <= pc PROVE ~IsValue(code[i].op)
    OBVIOUS
  <2>2. i = 0 \/ i = 1
    BY <1>2, <1>3, <2>1
  <2>3. code[i].op \in {"ALLOCA", "PALLOCA"}
    BY <1>2, <2>2, StructureFacts
  <2> QED BY <2>3 DEF IsValue, InitialTypes, Comparison, Arithmetic
<1>5. DOMAIN latest = {}
  <2>1. \A i \in Indices : i <= Stored => i <= pc
    BY <1>1, <1>2
  <2> QED BY <1>1, <1>4, <2>1 DEF HistoryInv, StoredBy
<1>6. latest' = latest
  BY <1>1, <1>2, <1>4 DEF Remember, NextRound, Repeats, KeepAll, StoresValue
<1>7. /\ UNCHANGED <<code, uidx, place>> /\ Indices' = Indices /\ \A i : StoresValue(i)' = StoresValue(i)
  BY <1>1, SameHistory
<1>8. StoredBy' /\ LatestKept'
  BY <1>5, <1>6 DEF StoredBy, LatestKept
<1>9. StoredFirst'
  <2>1. \A i \in Indices : i < pc' => i <= pc
    BY <1>1, <1>2
  <2> QED BY <1>4, <1>7, <2>1 DEF StoredFirst, StoresValue
<1> QED BY <1>8, <1>9

\* The invariant of the history and its steps
LEMMA HistoryInitInv == HistoryInit => HistoryInv
<1> SUFFICES ASSUME HistoryInit PROVE HistoryInv
  OBVIOUS
<1>1. MachineInv /\ status = "ready" /\ DOMAIN latest = {}
  BY MachineInitInv DEF HistoryInit, MachineInit
<1> QED BY <1>1 DEF HistoryInv, Active

LEMMA HistoryExecuteInv ==
    ASSUME HistoryInv, Execute, UNCHANGED compileVars, Remember \/ NextRound \/ KeepAll
    PROVE  HistoryInv'
<1>1. MachineInv
  BY DEF HistoryInv
<1>2. MachineInv'
  BY <1>1, MachineNextInv DEF MachineNext
<1>3. CASE Start
  <2>1. /\ status = "ready" /\ status' = "running" /\ pc' = pc /\ pc = 0 /\ latest' = latest /\ DOMAIN latest = {}
    BY <1>1, <1>3 DEF Start, HistoryInv, MachineInv, MachineShape, Remember, NextRound, KeepAll, Active, Repeats
  <2>2. StoredBy' /\ LatestKept'
    BY <2>1 DEF StoredBy, LatestKept
  <2>3. Indices' = Indices /\ LastIndex \in Nat /\ Indices = 0 .. LastIndex
    BY <1>1, SameCompiled, AtNode
  <2>4. \A v \in Indices : ~(v < 0)
    BY <2>3
  <2>5. StoredFirst'
    BY <2>1, <2>3, <2>4 DEF StoredFirst
  <2> QED BY <1>2, <2>1, <2>2, <2>5 DEF HistoryInv
<1>4. CASE ~Start
  <2>1. status \in {"running", "boxing"} /\ status' # "ready"
    BY <1>4 DEF Execute, OpenFrame, Param, LoadConstant, LoadNumber, BoxNumber, NewObjectNode, Move, PassArg, Compute,
       AddBooleans, DivideFault, Negate, TypeOfNode, GetMember, SetMember, CallFunction, CallIntrinsic, AbortCall,
       Branch, NoCode, ReturnNode, Confuse, At, GoOn
  <2>2. CASE ~Active'
    BY <1>2, <2>1, <2>2 DEF HistoryInv
  <2>3. CASE Active'
    <3>1. Active
      BY <2>1 DEF Active
    <3>2. StoredBy' /\ LatestKept' /\ StoredFirst'
      <4>1. CASE OpenFrame
        BY <4>1, OpenFrameHistory
      <4>2. CASE /\ \E cell : Stores(pc, cell)
                 /\ IsArg(pc) \/ StoresValue(pc)
                 /\ code[pc].op \in Storing \cup {"ARG"}
                 /\ (pc' = pc /\ status' = "boxing") \/ (pc' = pc + 1 /\ status' = "running")
                 /\ task' = task
        BY <2>3, <3>1, <4>2, StoreHistory
      <4>3. CASE /\ stack' = stack /\ task' = task /\ status = "running" /\ status' = "running" /\ pc' = pc + 1
                 /\ code[pc].op \in {"PARAM", "NOP", "UNIFY"} /\ ~StoresValue(pc)
        <5>1. latest' = latest
          BY <4>3 DEF Remember, NextRound, Repeats, KeepAll
        <5> QED BY <4>3, <5>1, GoOnHistory
      <4>4. CASE Branch
        BY <4>4, BranchHistory
      <4> QED BY <1>1, <2>3, <3>1, <4>1, <4>2, <4>3, <4>4, StepForms
    <3> QED BY <1>2, <2>1, <3>2 DEF HistoryInv
  <2> QED BY <2>2, <2>3
<1> QED BY <1>3, <1>4

LEMMA HistoryNextInv ==
    ASSUME HistoryInv, [HistoryNext]_historyVars
    PROVE  HistoryInv'
<1>1. MachineInv
  BY DEF HistoryInv
<1>2. CASE AllocNext /\ UNCHANGED <<machineVars, latest>>
  <2>1. MachineInv' /\ status' = status /\ latest' = latest
    BY <1>1, <1>2, CompileStepInv DEF machineVars
  <2>2. status = "ready"
    BY <1>1, <1>2, CompiledIsLast DEF MachineInv, MachineShape
  <2> QED BY <2>1, <2>2 DEF HistoryInv, Active
<1>3. CASE Execute /\ UNCHANGED compileVars /\ (Remember \/ NextRound \/ KeepAll)
  BY <1>3, HistoryExecuteInv
<1>4. CASE UNCHANGED historyVars
  <2>1. MachineInv' /\ UNCHANGED <<compileVars, task, status, pc, stack, latest>>
    BY <1>1, <1>4, MachineStutterInv DEF historyVars, allVars, machineVars
  <2>2. /\ UNCHANGED <<code, uidx, place>> /\ Indices' = Indices
        /\ SafeCode' = SafeCode /\ LoopsNameTheirValues' = LoopsNameTheirValues
        /\ \A i : /\ Locations(i)' = Locations(i) /\ IsUnify(i)' = IsUnify(i)
                  /\ StoresValue(i)' = StoresValue(i) /\ Used(i)' = Used(i)
    BY <1>1, <2>1, SameHistory
  <2>3. Active' = Active /\ Stored' = Stored
    BY <2>1 DEF Active, Stored
  <2>4. StoredBy' = StoredBy
    BY <2>1, <2>2, <2>3 DEF StoredBy
  <2>5. LatestKept' = LatestKept
    BY <2>1, <2>2, <2>3 DEF LatestKept, CellOf, StackOf
  <2>6. StoredFirst' = StoredFirst
    BY <2>1, <2>2, <2>3 DEF StoredFirst, UsedAfter
  <2> QED BY <2>1, <2>3, <2>4, <2>5, <2>6 DEF HistoryInv
<1> QED BY <1>2, <1>3, <1>4 DEF HistoryNext

\* The history only watches: a run with it is a run of the machine, so what the theorems above
\* say of all runs of the machine they say of these.
THEOREM HistoryRunsTheMachine == HistorySpec => MachineInit /\ [][MachineNext]_allVars
<1>1. HistoryInit => MachineInit
  BY DEF HistoryInit
<1>2. [HistoryNext]_historyVars => [MachineNext]_allVars
  BY DEF HistoryNext, MachineNext, historyVars, allVars
<1> QED BY <1>1, <1>2, PTL DEF HistorySpec

\* The invariant behind the last two theorems: from the store to the last use the slot of a
\* location has what was stored for it.
THEOREM HistoryInvariant == HistorySpec => []HistoryInv
<1>1. HistoryInv /\ [HistoryNext]_historyVars => HistoryInv'
  BY HistoryNextInv
<1> QED BY <1>1, HistoryInitInv, PTL DEF HistorySpec

\* However slots are given back and handed out again, in code whose loops name what they use:
\* what a node uses is what was last stored for its location, along every way the branches
\* may take and for all arguments.
THEOREM SlotsHoldTheLatestIfNamed ==
    HistorySpec => [](LoopsNameTheirValues => SlotsHoldTheLatest)
<1>1. ASSUME HistoryInv, LoopsNameTheirValues, status = "running", CallsGiveBackTheDead,
             NEW v \in Reads(pc), uidx[v] \in DOMAIN latest
      PROVE  Load(v) = latest[uidx[v]]
  <2>1. /\ LastIndex \in Nat /\ Indices = 0 .. LastIndex /\ pc \in Indices /\ Reads(pc) = Used(pc)
    BY <1>1, AtNode DEF HistoryInv
  <2>2. pc > Stored
    BY <1>1, <2>1 DEF Stored
  <2>3. uidx[v] \in Locations(pc)
    BY <1>1, <2>1 DEF Locations
  <2>4. CellOf(uidx[v]) = latest[uidx[v]]
    BY <1>1, <2>1, <2>2, <2>3 DEF HistoryInv, Active, LatestKept, SafeCode
  <2> QED BY <2>4 DEF CellOf, Load
<1>2. HistoryInv => (LoopsNameTheirValues => SlotsHoldTheLatest)
  BY <1>1 DEF SlotsHoldTheLatest
<1> QED BY <1>2, HistoryInvariant, PTL

\* No way through the branches comes to the use of a value, of those that no UNIFY node joins
\* with another, without the node that stores it.
THEOREM ValuesAreStoredFirstIfNamed ==
    HistorySpec => [](LoopsNameTheirValues => ValuesAreStoredFirst)
<1>1. ASSUME HistoryInv, LoopsNameTheirValues, status = "running",
             NEW v \in Reads(pc), uidx[v] = v, StoresValue(v)
      PROVE  v \in DOMAIN latest
  <2>1. /\ LastIndex \in Nat /\ Indices = 0 .. LastIndex /\ pc \in Indices /\ Reads(pc) = Used(pc)
        /\ WellFormed(code)
    BY <1>1, AtNode DEF HistoryInv
  <2>2. v \in Indices /\ v < pc
    BY <1>1, <2>1, UsedBefore
  <2>3. pc > Stored
    BY <1>1, <2>1 DEF Stored
  <2>4. UsedAfter(v, Stored)
    BY <1>1, <2>1, <2>3 DEF UsedAfter
  <2> QED BY <1>1, <2>2, <2>4 DEF HistoryInv, Active, StoredFirst
<1>2. HistoryInv => (LoopsNameTheirValues => ValuesAreStoredFirst)
  BY <1>1 DEF ValuesAreStoredFirst
<1> QED BY <1>2, HistoryInvariant, PTL
=============================================================================
