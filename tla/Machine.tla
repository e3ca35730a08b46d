------------------------------- MODULE Machine -------------------------------
(***************************************************************************)
(* The compiled function at work: what the machine code that sdyn_compile  *)
(* of jit-x8664.c emits for each IR node does to the function's frame.     *)
(* One step is the code of one node.                                       *)
(*                                                                         *)
(* A frame has raw words on the conventional stack and pointers on the     *)
(* pointer stack.  The code for a node believes the type of the location   *)
(* it reads: a cell that does not hold what the type says would be a       *)
(* number followed as a pointer, or a pointer computed with, and the       *)
(* machine is then "confused".                                             *)
(***************************************************************************)
EXTENDS RegAlloc, Outside

CONSTANT Tasks      \* the functions to run: the IR they have, with their arguments

ASSUME StructureAssumption == \A c \in Codes : Structured(c)

\* The undefined of every local is stored before anything else is done, and that of a
\* function without a return is returned at once.
ASSUME UndefinedAssumption ==
    \A c \in Codes : \A i \in DOMAIN c :
        c[i].op = "NIL" /\ c[i].rtype = "UNDEFINED" =>
            \/ \A j \in DOMAIN c : j < i => c[j].op \in {"ALLOCA", "PALLOCA", "PARAM", "NIL"}
            \/ \A k \in DOMAIN c : i \in {c[k].left, c[k].right, c[k].third} => c[k].op = "RETURN"

VARIABLES
    task,       \* the function and the arguments it is called with
    status,     \* ready, running, boxing, returned, aborted, faulted or confused
    pc,         \* the node whose code is next
    stack,      \* the frame: what is at each address of each stack
    stale,      \* where the conventional stack has a pointer to what the collector moved away
    world,      \* what the function did to the world outside of it
    result      \* the value it returned

machineVars == <<task, status, pc, stack, stale, world, result>>

Boxed(v) == [rep |-> "boxed", value |-> v]
Raw(v)   == [rep |-> "raw", value |-> v]
Garbage  == [rep |-> "garbage", value |-> Undefined]

\* The codes of the tasks, for the compiler
TaskCodes == {t.code : t \in Tasks}
------------------------------------------------------------------------------
MachineInit ==
    /\ task \in Tasks
    /\ code = task.code
    /\ AllocInit
    /\ status = "ready"
    /\ pc = 0
    /\ stack = [s \in Stacks |-> <<>>]
    /\ stale = {}
    /\ world = World
    /\ result = Undefined

\* Argument slots are the first of the pointer stack.
StackOf(p) == IF p.stype = "STK" THEN "STK" ELSE "PSTK"

\* LOADOP: what the location of v holds, and what it is believed to hold
Load(v)     == LET p == place[uidx[v]] IN stack[StackOf(p)][p.addr]
Believed(v) == rtype[uidx[v]]
Wanted(v)   == Load(v).value        \* the value, if the belief is right

\* Code that believes in undefined boxes it without a look at what is there; only NOT looks
\* (see Current), and EQ and NE of two such words, which are the same one.
Sound(v) ==
    CASE Believed(v) = "UNDEFINED"     -> TRUE
      [] Believed(v) \in {"BOOL", "INT"} -> Load(v).rep = "raw"
      [] OTHER                         -> place[uidx[v]] # Nowhere /\ Load(v).rep = "boxed"

\* The value of an operand, and BOX
Operand(v) == IF Believed(v) = "UNDEFINED" THEN Undefined ELSE Wanted(v)

\* The operands of a node that the code for it reads
Reads(i) == {v \in Range(Operands(i)) : v # NoOperand}

\* mutant: always a word
RepresentAsWord(i, v) == Raw(v)

\* a word of its own, or a pointer: as the type of the node's location asks
Represent(i, v) == IF Believed(i) \in BoxedTypes THEN Boxed(v) ELSE Raw(v)

\* The code for node i, on its way to its result, calls what may allocate: always, or to box
\* a number, to convert an operand, or to add or compare what is not two numbers.
Allocates(i) ==
    LET l == code[i].left
        r == code[i].right
        boxesOperand == \E v \in Reads(i) : Believed(v) = "INT"
        boxesResult  == Believed(i) \in BoxedTypes
    IN  \/ code[i].op \in {"OBJ", "TYPEOF", "CALL", "INTRINSICCALL", "ASSIGNMEMBER", "ASSIGNINDEX"}
        \/ code[i].op \in {"IF", "WCOND", "ARG", "MEMBER", "INDEX"} /\ boxesOperand
        \/ code[i].op = "ASSIGN" /\ boxesOperand /\ boxesResult
        \/ code[i].op \in Arithmetic /\ boxesResult
        \/ code[i].op = "NUM" /\ status = "boxing"
        \/ code[i].op = "ADD" /\ (boxesResult \/ {Believed(l), Believed(r)} # {"INT"})
        \/ /\ code[i].op \in {"EQ", "NE"}
           /\ Operand(l).tag # Operand(r).tag \/ (boxesOperand /\ Believed(l) # Believed(r))
        \/ code[i].op = "MEMBER" /\ Operand(l).tag # "OBJECT"
        \/ code[i].op = "INDEX" /\ Operand(r).tag # "STRING"

\* An allocation may collect.  The collector moves undefined, and does not see the
\* conventional stack: all that point to it from there are stale.
Collections(i) ==
    {stale} \cup IF Allocates(i) THEN {{a \in DOMAIN stack["STK"] : stack["STK"][a].rep = "boxed"}} ELSE {}

\* the slot that the node's result goes to, and whether it is a pointer out of date
Put(i, cell, old, isOld) ==
    /\ stack' = [stack EXCEPT ![StackOf(place[i])][place[i].addr] = cell]
    /\ stale' = CASE StackOf(place[i]) = "PSTK" -> old
                  [] OTHER                      -> IF isOld THEN old \cup {place[i].addr}
                                                            ELSE old \ {place[i].addr}

Store(i, cell) == \E old \in Collections(i) : Put(i, cell, old, FALSE)

\* The word of v is a pointer to where undefined is no more.
Outdated(v, old) == StackOf(place[uidx[v]]) = "STK" /\ place[uidx[v]].addr \in old

\* A word goes from slot to slot as it is.  On the pointer stack a pointer out of date is no
\* pointer.
Copy(i, v) ==
    \E old \in Collections(i) :
        Put(i, IF Outdated(v, old) /\ StackOf(place[i]) = "PSTK" THEN Garbage ELSE Load(v),
            old, Outdated(v, old))

\* The word of v is a pointer that may be followed.
Current(v) == Load(v).rep = "boxed" /\ ~Outdated(v, stale)
------------------------------------------------------------------------------
\* Steps.  At(ops): the code of a node with one of these operations is next, and what it
\* reads is what it believes.
At(ops) ==
    /\ status = "running"
    /\ code[pc].op \in ops
    /\ \A v \in Reads(pc) : Sound(v)

GoOn ==
    /\ pc' = pc + 1
    /\ UNCHANGED <<task, status, result>>

Start ==
    /\ status = "ready"
    /\ pass = "compiled"
    /\ status' = "running"
    /\ UNCHANGED <<task, pc, stack, stale, world, result>>

\* mutant: the pointer stack is opened as the other one is
OpenFrameUnset ==
    /\ At({"ALLOCA", "PALLOCA"})
    /\ LET s == IF code[pc].op = "ALLOCA" THEN "STK" ELSE "PSTK"
       IN  stack' = [stack EXCEPT ![s] = [a \in 0 .. frame[s] - 1 |-> Garbage]]
    /\ GoOn
    /\ UNCHANGED <<stale, world>>

\* ALLOCA and PALLOCA: garbage on the one stack, undefined on the other
OpenFrame ==
    /\ At({"ALLOCA", "PALLOCA"})
    /\ stack' = IF code[pc].op = "ALLOCA"
                THEN [stack EXCEPT !["STK"] = [a \in 0 .. frame["STK"] - 1 |-> Garbage]]
                ELSE [stack EXCEPT !["PSTK"] = [a \in 0 .. frame["PSTK"] - 1 |-> Boxed(Undefined)]]
    /\ GoOn
    /\ UNCHANGED <<stale, world>>

\* PARAM: nothing is stored if the caller passed too few arguments
Param ==
    /\ At({"PARAM"})
    /\ IF code[pc].imm < Len(task.args) THEN Store(pc, Boxed(task.args[code[pc].imm + 1]))
                                        ELSE UNCHANGED <<stack, stale>>
    /\ GoOn
    /\ UNCHANGED world

\* NIL, TOP, NUM, STR, FALSE, TRUE
Constant(i) ==
    CASE code[i].op = "NIL"   -> Boxed(Undefined)
      [] code[i].op = "TOP"   -> Boxed(BoxObject(GlobalObject))
      [] code[i].op = "NUM"   -> Represent(i, BoxInt(code[i].imm))
      [] code[i].op = "STR"   -> Boxed(BoxString(code[i].immp))
      [] code[i].op = "FALSE" -> Represent(i, BoxBool(FALSE))
      [] code[i].op = "TRUE"  -> Represent(i, BoxBool(TRUE))

BoxesNumber(i) == code[i].op = "NUM" /\ Believed(i) \in BoxedTypes

LoadConstant ==
    /\ At({"NIL", "TOP", "NUM", "STR", "FALSE", "TRUE"})
    /\ ~BoxesNumber(pc)
    /\ Store(pc, Constant(pc))
    /\ GoOn
    /\ UNCHANGED world

\* A number for a boxed location is stored there as it is, and sdyn_boxInt is called ...
LoadNumber ==
    /\ At({"NUM"})
    /\ BoxesNumber(pc)
    /\ Store(pc, Raw(BoxInt(code[pc].imm)))
    /\ status' = "boxing"
    /\ UNCHANGED <<task, pc, world, result>>

\* ... which allocates, and returns what is stored there in its place.
BoxNumber ==
    /\ status = "boxing"
    /\ Store(pc, Constant(pc))
    /\ status' = "running"
    /\ pc' = pc + 1
    /\ UNCHANGED <<task, world, result>>

NewObjectNode ==
    /\ At({"OBJ"})
    /\ Store(pc, Boxed(BoxObject(world.objects)))
    /\ world' = NewObjectIn(world)
    /\ GoOn

\* mutant: nothing is boxed
MoveAsItIs ==
    /\ At({"ASSIGN"})
    /\ Copy(pc, code[pc].left)
    /\ GoOn
    /\ UNCHANGED world

\* ASSIGN: a move, boxing if the target is boxed
Move ==
    /\ At({"ASSIGN"})
    /\ IF Believed(pc) \in BoxedTypes THEN Store(pc, Boxed(Operand(code[pc].left)))
                                      ELSE Copy(pc, code[pc].left)
    /\ GoOn
    /\ UNCHANGED world

PassArg ==
    /\ At({"ARG"})
    /\ Store(pc, Boxed(Operand(code[pc].left)))
    /\ GoOn
    /\ UNCHANGED world

\* mutant: + adds words as soon as one location is INT
EagerResult(i) ==
    LET l == Operand(code[i].left)
        r == Operand(code[i].right)
    IN  IF code[i].op = "ADD" /\ "INT" \in {Believed(code[i].left), Believed(code[i].right)}
        THEN Represent(i, Operate("SUB", l, Operate("SUB", BoxInt(0), r)))
        ELSE Represent(i, Operate(code[i].op, l, r))

\* The code for + adds words only if both locations are INT; then, and for the other
\* arithmetic, the result is a word if its location is one.
BinaryResult(i) ==
    LET v == Operate(code[i].op, Operand(code[i].left), Operand(code[i].right))
    IN  IF code[i].op = "ADD" /\ {Believed(code[i].left), Believed(code[i].right)} # {"INT"}
        THEN Boxed(v)
        ELSE Represent(i, v)

\* Two raw booleans are boxed before they are added; the right one waits in a register
\* that the call which boxes the left one is free to use.
AddsBooleans(i) ==
    /\ code[i].op = "ADD"
    /\ {Believed(code[i].left), Believed(code[i].right)} = {"BOOL"}

Faults(i) ==
    /\ code[i].op \in {"DIV", "MOD"}
    /\ DivisionFaults(ToNumber(Operand(code[i].left)), ToNumber(Operand(code[i].right)))

Compute ==
    /\ At(Comparison \cup Arithmetic \cup {"ADD"})
    /\ ~AddsBooleans(pc)
    /\ ~Faults(pc)
    /\ Store(pc, BinaryResult(pc))
    /\ GoOn
    /\ UNCHANGED world

AddBooleans ==
    /\ At({"ADD"})
    /\ AddsBooleans(pc)
    /\ \E right \in BOOLEAN : Store(pc, Boxed(Add(Operand(code[pc].left), BoxBool(right))))
    /\ GoOn
    /\ UNCHANGED world

\* the processor's divide error ends the process
DivideFault ==
    /\ At({"DIV", "MOD"})
    /\ Faults(pc)
    /\ status' = "faulted"
    /\ UNCHANGED <<task, pc, stack, stale, world, result>>

\* NOT hands its operand to sdyn_toBoolean as it is, unless it is a raw boolean: a raw number
\* is followed as a pointer, and undefined to where it was when it was stored.
Misleads(v) ==
    \/ Believed(v) = "INT"
    \/ Believed(v) = "UNDEFINED" /\ ~Current(v)

Negate ==
    /\ At({"NOT"})
    /\ ~Misleads(code[pc].left)
    /\ Store(pc, Represent(pc, BoxBool(~ToBoolean(Operand(code[pc].left)))))
    /\ GoOn
    /\ UNCHANGED world

TypeOfNode ==
    /\ At({"TYPEOF"})
    /\ Store(pc, Boxed(BoxString(TypeOf(Operand(code[pc].left)))))
    /\ GoOn
    /\ UNCHANGED world

\* The member an access is about.  MEMBER and ASSIGNMEMBER coerce a value that is not an
\* object to an empty one; INDEX and ASSIGNINDEX do not.
Key(i) == IF code[i].op \in {"INDEX", "ASSIGNINDEX"} THEN ToText(Operand(code[i].right))
                                                     ELSE code[i].immp

GetMember ==
    LET obj == Operand(code[pc].left) IN
    /\ At({"MEMBER", "INDEX"})
    /\ code[pc].op = "INDEX" => obj.tag = "OBJECT"
    /\ Store(pc, Boxed(IF obj.tag = "OBJECT" THEN Lookup(world, obj.n, Key(pc)) ELSE Undefined))
    /\ GoOn
    /\ UNCHANGED world

\* The assigned value is the result, as it was loaded: nothing boxes it.
SetMember ==
    LET obj == Operand(code[pc].left)
        v   == IF code[pc].op = "ASSIGNINDEX" THEN code[pc].third ELSE code[pc].right
    IN
    /\ At({"ASSIGNMEMBER", "ASSIGNINDEX"})
    /\ code[pc].op = "ASSIGNINDEX" => obj.tag = "OBJECT"
    /\ world' = IF obj.tag = "OBJECT" THEN PutMember(world, obj.n, Key(pc), Operand(v)) ELSE world
    /\ Copy(pc, v)
    /\ GoOn

\* The arguments are the slots up to the last ARG before the call in the code.
Arguments(i) ==
    LET before == {j \in 0 .. i - 1 : IsArg(j)}
        last   == IF before = {} THEN 0 ELSE code[Max(before)].imm
    IN  [k \in 1 .. last + 1 |-> stack["PSTK"][k - 1].value]

CallFunction ==
    /\ At({"CALL"})
    /\ Operand(code[pc].left).tag = "FUNCTION"
    /\ world' = Record(world, "g", Arguments(pc))
    /\ Store(pc, Boxed(Answer(world')))
    /\ GoOn

CallIntrinsic ==
    /\ At({"INTRINSICCALL"})
    /\ world' = Record(world, "$print", <<Arguments(pc)[1]>>)
    /\ Store(pc, Boxed(Undefined))
    /\ GoOn

\* sdyn_assertFunction
AbortCall ==
    /\ At({"CALL"})
    /\ Operand(code[pc].left).tag # "FUNCTION"
    /\ status' = "aborted"
    /\ UNCHANGED <<task, pc, stack, stale, world, result>>

\* The node with this operation that names node i as its left or right operand
NodeOf(op, i) == CHOOSE j \in Indices : code[j].op = op /\ i \in {code[j].left, code[j].right}

\* mutants: a false condition goes past the first node of the else branch; and to the end of
\* the loop's body
TargetInElse(i) ==
    CASE code[i].op = "IF" /\ ~ToBoolean(Operand(code[i].left))    -> NodeOf("IFELSE", i) + 2
      [] code[i].op = "WCOND" /\ ~ToBoolean(Operand(code[i].left)) -> NodeOf("WEND", i) + 1
      [] code[i].op = "IFELSE"                                     -> NodeOf("IFEND", i)
      [] code[i].op = "WEND"                                       -> code[i].left
      [] OTHER                                                     -> i + 1

TargetInLoop(i) ==
    CASE code[i].op = "IF" /\ ~ToBoolean(Operand(code[i].left))    -> NodeOf("IFELSE", i) + 1
      [] code[i].op = "WCOND" /\ ~ToBoolean(Operand(code[i].left)) -> NodeOf("WEND", i)
      [] code[i].op = "IFELSE"                                     -> NodeOf("IFEND", i)
      [] code[i].op = "WEND"                                       -> code[i].left
      [] OTHER                                                     -> i + 1

\* IF, IFELSE, WHILE, WCOND, WEND
Target(i) ==
    CASE code[i].op = "IF" /\ ~ToBoolean(Operand(code[i].left))    -> NodeOf("IFELSE", i) + 1
      [] code[i].op = "WCOND" /\ ~ToBoolean(Operand(code[i].left)) -> NodeOf("WEND", i) + 1
      [] code[i].op = "IFELSE"                                     -> NodeOf("IFEND", i)
      [] code[i].op = "WEND"                                       -> code[i].left
      [] OTHER                                                     -> i + 1

Branches == {"IF", "IFELSE", "IFEND", "WHILE", "WCOND", "WEND"}

\* The operands of IFELSE, IFEND and WEND name nodes, not values.
Branch ==
    /\ status = "running"
    /\ code[pc].op \in Branches
    /\ code[pc].op \in {"IF", "WCOND"} => Sound(code[pc].left)
    /\ pc' = Target(pc)
    /\ stale' \in Collections(pc)
    /\ UNCHANGED <<task, status, stack, world, result>>

NoCode ==
    /\ status = "running"
    /\ code[pc].op \in {"NOP", "UNIFY"}
    /\ GoOn
    /\ UNCHANGED <<stack, stale, world>>

\* mutant: the jump goes past the end
ReturnPastEnd ==
    /\ At({"RETURN"})
    /\ result' = Operand(code[pc].left)
    /\ status' = "returned"
    /\ pc' = LastIndex + 1
    /\ UNCHANGED <<task, stack, stale, world>>

\* RETURN jumps to PPOPA and POPA, which drop the frame.
ReturnNode ==
    /\ At({"RETURN"})
    /\ result' = Operand(code[pc].left)
    /\ status' = "returned"
    /\ UNCHANGED <<task, pc, stack, stale, world>>

\* The code takes something for what it is not.
Confuse ==
    /\ status = "running"
    /\ \/ /\ code[pc].op \notin (Branches \ {"IF", "WCOND"}) \cup {"NOP", "UNIFY"}
          /\ \E v \in Reads(pc) : ~Sound(v)
       \/ /\ code[pc].op = "NOT"
          /\ Misleads(code[pc].left)
       \/ /\ code[pc].op \in {"INDEX", "ASSIGNINDEX"}
          /\ \A v \in Reads(pc) : Sound(v)
          /\ Operand(code[pc].left).tag # "OBJECT"
    /\ status' = "confused"
    /\ UNCHANGED <<task, pc, stack, stale, world, result>>

Execute ==
    \/ Start
    \/ OpenFrame
    \/ Param
    \/ LoadConstant
    \/ LoadNumber
    \/ BoxNumber
    \/ NewObjectNode
    \/ Move
    \/ PassArg
    \/ Compute
    \/ AddBooleans
    \/ DivideFault
    \/ Negate
    \/ TypeOfNode
    \/ GetMember
    \/ SetMember
    \/ CallFunction
    \/ CallIntrinsic
    \/ AbortCall
    \/ Branch
    \/ NoCode
    \/ ReturnNode
    \/ Confuse

MachineNext ==
    \/ AllocNext /\ UNCHANGED machineVars
    \/ Execute /\ UNCHANGED compileVars

allVars == <<compileVars, machineVars>>

MachineSpec == MachineInit /\ [][MachineNext]_allVars /\ WF_allVars(MachineNext)
------------------------------------------------------------------------------
\* The code is the task's, the machine stays between its first and its last node, and a
\* cell of the frame holds a pointer, a word, or nothing that is known.
MachineTypeOK ==
    /\ code = task.code
    /\ status \in {"ready", "running", "boxing", "returned", "aborted", "faulted", "confused"}
    /\ pc \in Indices
    /\ DOMAIN stack = Stacks
    /\ \A s \in Stacks : \A a \in DOMAIN stack[s] : stack[s][a].rep \in {"boxed", "raw", "garbage"}
    /\ stale \subseteq DOMAIN stack["STK"]

Over == status \in {"returned", "aborted", "faulted", "confused"}

\* The types on which the machine code relies "must be semantically correct" (ir.c 31):
\* no code takes a word for a pointer or a pointer for a word.
TypesAreRight == status # "confused"

\* Whatever the function calls, the collector may follow all that is in the pointer
\* stack's part of the frame.  While a number is boxed in its slot, that slot holds a word
\* (for which the comment "so all pointers are valid", jit-x8664.c 234, has no exception),
\* but no other slot does.
PointerStackHoldsPointers ==
    status \in {"running", "boxing"} =>
        \A a \in DOMAIN stack["PSTK"] :
            \/ stack["PSTK"][a].rep = "boxed"
            \/ status = "boxing" /\ StackOf(place[pc]) = "PSTK" /\ a = place[pc].addr

\* A member assignment whose result's location is boxed and whose value's is not
StoresWord(j) ==
    LET v == IF code[j].op = "ASSIGNINDEX" THEN code[j].third ELSE code[j].right IN
    /\ code[j].op \in {"ASSIGNMEMBER", "ASSIGNINDEX"}
    /\ Believed(j) \in BoxedTypes
    /\ Believed(v) \in UnboxedTypes

NoWordsAreStored == \A j \in Indices : ~StoresWord(j)

TakesWords(p) == \E j \in Indices : StoresWord(j) /\ place[j] = p

\* A word in the pointer stack is in a slot of such a member assignment's, or is being
\* boxed: no other node, and no copy of such a word, brings one there.
WordsComeFromMembers ==
    status \in {"running", "boxing"} =>
        \A a \in DOMAIN stack["PSTK"] :
            \/ stack["PSTK"][a].rep = "boxed"
            \/ TakesWords([stype |-> "PSTK", addr |-> a])
            \/ status = "boxing" /\ StackOf(place[pc]) = "PSTK" /\ a = place[pc].addr

\* Code whose calls give back no slot that is still used goes wrong about a representation
\* in four ways and no other: NOT of a raw number, NOT of an undefined that a collection has
\* moved since it was stored, INDEX of what is not an object, and the use of a slot where the
\* value of a member assignment is stored without boxing it.  (The slot, not the location:
\* code that never writes the location it reads finds what another one has left there.)
ConfusionIsConfined ==
    status = "confused" /\ CallsGiveBackTheDead =>
        \/ code[pc].op = "NOT" /\ Believed(code[pc].left) = "INT"
        \/ /\ code[pc].op = "NOT"
           /\ Believed(code[pc].left) = "UNDEFINED"
           /\ Outdated(code[pc].left, stale)
        \/ /\ code[pc].op \in {"INDEX", "ASSIGNINDEX"}
           /\ Believed(code[pc].left) # "OBJECT"
           /\ Operand(code[pc].left).tag # "OBJECT"
        \/ \E v \in Reads(pc) : ~Sound(v) /\ TakesWords(place[uidx[v]])

\* Every function in the set is compiled and comes to its end.
RunsToTheEnd == <>Over
==============================================================================
