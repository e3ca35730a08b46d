------------------------------- MODULE RegAlloc ------------------------------
(***************************************************************************)
(* sdyn_irRegAlloc of ir.c: give every value a slot of the function's      *)
(* frame.  Raw values go on the conventional stack, boxed ones on the      *)
(* pointer stack, after the slots for the arguments of the calls the       *)
(* function makes.  One loop down finds the last use of each location, one *)
(* loop up hands out the slots and takes them back after the last use, and *)
(* a third makes room for the argument slots.                              *)
(***************************************************************************)
EXTENDS FlowTypes, FiniteSets, FiniteSetsExt, Sequences, SequencesExt

VARIABLES
    irUsed,     \* the locations the loop down has seen a use of
    callNode,   \* the call whose arguments the loop down is at
    lastUsed,   \* the values that need no slot after a node
    place,      \* the storage type and address of each node
    inUse,      \* the addresses of each stack that are taken (stksUsed, pstksUsed)
    frame       \* the size of each stack's part of the frame

allocVars == <<irUsed, callNode, lastUsed, place, inUse, frame>>

Nowhere == [stype |-> "NIL", addr |-> 0]
Stacks  == {"STK", "PSTK"}
Places  == [stype : {"NIL", "STK", "PSTK", "ASTK"}, addr : Nat]

IsCall(i)   == code[i].op \in {"CALL", "INTRINSICCALL"}
IsArg(i)    == code[i].op = "ARG"
Operands(i) == <<code[i].left, code[i].right, code[i].third>>
------------------------------------------------------------------------------
AllocInit ==
    /\ FlowInit
    /\ irUsed = {}
    /\ callNode = NoOperand
    /\ lastUsed = [i \in Indices |-> <<>>]
    /\ place = [i \in Indices |-> Nowhere]
    /\ inUse = [s \in Stacks |-> {}]
    /\ frame = [s \in Stacks \cup {"ASTK"} |-> 0]

\* mutants: a use counts for the value alone and not for its location; every use is taken
\* for the last
UsesOfValues(i) ==
    FoldLeft(LAMBDA u, v : IF v = NoOperand \/ v \in u.used
                           THEN u
                           ELSE [last |-> Append(u.last, v), used |-> u.used \cup {v}],
             [last |-> <<>>, used |-> irUsed],
             <<uidx[i]>> \o Operands(i))

EveryUse(i) ==
    [last |-> SelectSeq(<<uidx[i]>> \o Operands(i), LAMBDA v : v # NoOperand), used |-> irUsed]

\* A use of v, after those in u: the values whose use it is the last of, and the locations
\* that are used.
Use(u, v) ==
    IF v = NoOperand \/ uidx[v] \in u.used
    THEN u
    ELSE [last |-> Append(u.last, v), used |-> u.used \cup {uidx[v]}]

\* The values a node uses whose location no later node uses.
Uses(i) ==
    LET own   == Use([last |-> <<>>, used |-> irUsed], uidx[i])
        left  == Use(own, code[i].left)
        right == Use(left, code[i].right)
    IN  Use(right, code[i].third)

\* A call gives back its own slot, its function's and its last argument's; the loop
\* down meets the last argument first.  (The array in the code has room for every
\* argument, but the other elements stay 0, the index of no value.)
CallUses(call, arg) ==
    LET fun == IF code[call].op = "CALL" THEN <<uidx[code[call].left]>> ELSE <<>>
    IN  <<uidx[call]>> \o fun \o <<uidx[arg]>>

LastUse ==
    /\ pass = "lastUse"
    /\ at >= 0
    /\ irUsed' = Uses(at).used
    /\ callNode' = IF IsCall(at) THEN at ELSE callNode
    /\ lastUsed' =
         [i \in Indices |->
            IF i = at /\ ~IsCall(at) THEN Uses(at).last
            ELSE IF IsArg(at) /\ callNode # NoOperand /\ i = callNode /\ lastUsed[i] = <<>>
                 THEN CallUses(i, at)
            ELSE lastUsed[i]]
    /\ at' = at - 1
    /\ UNCHANGED <<code, pass, uidx, flowVars, place, inUse, frame>>

LastUseEnds ==
    /\ pass = "lastUse"
    /\ at < 0
    /\ pass' = "assign"
    /\ at' = 0
    /\ UNCHANGED <<code, uidx, flowVars, allocVars>>
------------------------------------------------------------------------------
Larger(m, n) == IF m >= n THEN m ELSE n

AssignStep ==
    /\ pass = "assign"
    /\ at \in Indices
    /\ at' = at + 1
    /\ UNCHANGED <<code, pass, uidx, flowVars, irUsed, callNode, lastUsed>>

\* mutant: the node of the location is not told
OccupyAlone(p) == [place EXCEPT ![at] = p]

\* the node itself and the node of its location
Occupy(p) == [place EXCEPT ![at] = p, ![uidx[at]] = p]

\* The slot of an argument is its number.
AssignArg ==
    /\ AssignStep
    /\ IsArg(at)
    /\ place' = Occupy([stype |-> "ASTK", addr |-> code[at].imm])
    /\ frame' = [frame EXCEPT !["ASTK"] = Larger(@, code[at].imm + 1)]
    /\ UNCHANGED inUse

NeedsNoSlot ==
    /\ AssignStep
    /\ ~IsArg(at)
    /\ rtype[at] = "NIL"
    /\ UNCHANGED <<place, inUse, frame>>

\* Another node of the location has a slot already.
ShareSlot ==
    /\ AssignStep
    /\ ~IsArg(at)
    /\ rtype[at] # "NIL"
    /\ place[uidx[at]] # Nowhere
    /\ place' = Occupy(place[uidx[at]])
    /\ UNCHANGED <<inUse, frame>>

\* Take the first free slot, then give back those whose last use this is.
TakeSlot ==
    LET s     == IF rtype[uidx[at]] \in BoxedTypes THEN "PSTK" ELSE "STK"
        a     == Min(Indices \ inUse[s])
        taken == Occupy([stype |-> s, addr |-> a])
        freed == {taken[v] : v \in Range(lastUsed[at])}
    IN  /\ AssignStep
        /\ ~IsArg(at)
        /\ rtype[at] # "NIL"
        /\ place[uidx[at]] = Nowhere
        /\ place' = taken
        /\ inUse' = [t \in Stacks |->
                       (inUse[t] \cup (IF t = s THEN {a} ELSE {}))
                         \ {p.addr : p \in {q \in freed : q.stype = t}}]
        /\ frame' = [frame EXCEPT ![s] = Larger(@, a + 1)]

\* mutant: the frame has no room for the argument slots
NoRoomForArgs ==
    /\ pass = "assign"
    /\ at \notin Indices
    /\ pass' = "fix"
    /\ at' = 0
    /\ frame' = [frame EXCEPT !["ASTK"] = Larger(@, 2)]
    /\ UNCHANGED <<code, uidx, flowVars, irUsed, callNode, lastUsed, place, inUse>>

AssignEnds ==
    /\ pass = "assign"
    /\ at \notin Indices
    /\ pass' = "fix"
    /\ at' = 0
    /\ frame' = [frame EXCEPT !["ASTK"] = Larger(@, 2),  \* some play space for pointers
                              !["PSTK"] = @ + Larger(frame["ASTK"], 2)]
    /\ UNCHANGED <<code, uidx, flowVars, irUsed, callNode, lastUsed, place, inUse>>

\* The pointer stack's slots come after the argument slots.
FixAddress ==
    /\ pass = "fix"
    /\ at \in Indices
    /\ place' = IF place[at].stype = "PSTK"
                THEN [place EXCEPT ![at].addr = @ + frame["ASTK"]]
                ELSE place
    /\ at' = at + 1
    /\ UNCHANGED <<code, pass, uidx, flowVars, irUsed, callNode, lastUsed, inUse, frame>>

FixEnds ==
    /\ pass = "fix"
    /\ at \notin Indices
    /\ pass' = "compiled"
    /\ UNCHANGED <<code, at, uidx, flowVars, allocVars>>

AllocNext ==
    \/ FlowNext /\ UNCHANGED allocVars
    \/ LastUse
    \/ LastUseEnds
    \/ AssignArg
    \/ NeedsNoSlot
    \/ ShareSlot
    \/ TakeSlot
    \/ AssignEnds
    \/ FixAddress
    \/ FixEnds

compileVars == <<unifyVars, flowVars, allocVars>>

\* The passes are one C function calling the next.
AllocSpec == AllocInit /\ [][AllocNext]_compileVars /\ WF_compileVars(AllocNext)
------------------------------------------------------------------------------
\* sdyn_irRegAlloc hands out slots that its arrays of used slots, as long as the IR,
\* have, and remembers only nodes of the IR.
AllocTypeOK ==
    /\ FlowTypeOK
    /\ irUsed \subseteq Indices
    /\ callNode \in Indices
    /\ lastUsed \in [Indices -> Seq(Indices)]
    /\ place \in [Indices -> Places]
    /\ inUse \in [Stacks -> SUBSET Indices]
    /\ frame \in [Stacks \cup {"ASTK"} -> Nat]

\* The values a node uses, and their locations
Used(i)      == Range(Operands(i)) \ {NoOperand}
Locations(i) == {uidx[v] : v \in Used(i)}

\* While slots are handed out: the locations that a node not yet reached will use, and the
\* values that have their slot there.
Awaited == UNION {Locations(i) : i \in {j \in Indices : j >= at}}
Live    == {i \in Indices : place[i].stype \in Stacks /\ uidx[i] \in Awaited}

Holds(i) == place[i].addr \in inUse[place[i].stype]

\* No node after a call uses what the call gives back without asking, the slots of its result
\* and of its function; so it is for the calls that have got their slots by now, or for all.
GivesBackTheDead(c) ==
    \A j \in Indices : j > c =>
        /\ uidx[c] \notin Locations(j)
        /\ code[c].op = "CALL" => uidx[code[c].left] \notin Locations(j)

CallsGaveBackTheDead == \A c \in Indices : IsCall(c) /\ c < at => GivesBackTheDead(c)
CallsGiveBackTheDead == \A c \in Indices : IsCall(c) => GivesBackTheDead(c)

\* A value's slot is not given back before its last use, up to the first call that gives
\* back what is used again.  (From there on nothing is certain: a slot that was given back too
\* early is somebody else's by the time that it is given back once more.)
LiveValuesHoldTheirSlot ==
    pass = "assign" /\ CallsGaveBackTheDead => \A i \in Live : Holds(i)

\* Two live values that no UNIFY node joins do not have the same slot.
LiveValuesAreApart ==
    pass = "assign" /\ CallsGaveBackTheDead =>
        \A i, j \in Live : uidx[i] # uidx[j] => place[i] # place[j]

\* What a loop finds in a slot when it begins, its next round finds there too: until the
\* loop's end no slot is given back that a value from before the loop has and that the
\* loop uses.  ("NOP it so it stays alive for loops", ir.c 116.)
LoopsKeepTheirValues ==
    pass = "assign" /\ CallsGaveBackTheDead =>
        \A w \in {k \in Indices : code[k].op = "WEND" /\ at \in code[k].left .. k} :
            LET begin == code[w].left
                inner == UNION {Locations(j) : j \in begin .. w - 1}
            IN  \A i \in 0 .. begin - 1 :
                    place[i].stype \in Stacks /\ uidx[i] \in inner => Holds(i)

\* irCompileNode sees to it: what a loop uses from before it, it names again after it.
LoopsNameTheirValues ==
    \A w \in Indices : code[w].op = "WEND" =>
        \A i \in code[w].left .. w - 1 : \A v \in Used(i) :
            v < code[w].left => \E n \in Indices : n > w /\ v \in Used(n)

\* The frame has room for every slot, and the argument slots, which each call
\* overwrites, are nobody's place but the arguments'.
PlacesAreInFrame ==
    pass = "compiled" =>
        \A i \in Indices :
            CASE place[i].stype = "STK"  -> place[i].addr < frame["STK"]
              [] place[i].stype = "PSTK" -> place[i].addr \in frame["ASTK"] .. frame["PSTK"] - 1
              [] place[i].stype = "ASTK" -> place[i].addr < frame["ASTK"] /\ IsArg(i)
              [] OTHER                   -> rtype[i] = "NIL"

\* All nodes of a location are at the same place, on the stack that the collector
\* scans exactly when the location is boxed.
LocationsHaveOnePlace ==
    pass = "compiled" =>
        \A i \in Indices :
            /\ place[i].stype \in Stacks => place[i] = place[uidx[i]]
            /\ place[i].stype = "PSTK" => rtype[uidx[i]] \in BoxedTypes
            /\ place[i].stype = "STK" => rtype[uidx[i]] \in UnboxedTypes

\* How many steps the compilation takes yet, at most: one for each node and one for the end of
\* every loop, and irFlowTypes has no more than two rounds.
Round == LastIndex + 2

StepsLeft ==
    CASE pass = "default"  -> at + 2 + 6 * Round
      [] pass = "unify"    -> at + 2 + 5 * Round
      [] pass = "flow"     -> Round - at + (IF TakesAnotherRound THEN Round ELSE 0) + 3 * Round
      [] pass = "lastUse"  -> at + 2 + 2 * Round
      [] pass = "assign"   -> Round - at + Round
      [] pass = "fix"      -> Round - at
      [] pass = "compiled" -> 0

\* Each step of the compilation is one less, however irFlowTypes refines its types: none of its
\* rounds undoes what another one did.
CompilationAdvances == [][StepsLeft' \in Nat /\ StepsLeft' < StepsLeft]_compileVars

\* The compilation ends: in particular the rounds of irFlowTypes do.
CompilationEnds == <>(pass = "compiled")
==============================================================================
