# SDyn in TLA+

SDyn is a small dynamic language with a just-in-time compiler for x86-64, in C. A program is
read (`tokenizer.c`, `parser.c`); its functions and variables become members of a global
object (`exec.c`, `value.c`); a function is compiled when it is first called, to an
intermediate representation (`ir.c`) and from there to machine code (`jit-x8664.c`), which
works on the objects of `value.c` and a moving garbage collector. This directory models it.

## Inventory

| component | state | operations | what makes it correct |
|---|---|---|---|
| tokenizer, `tokenizer.c` | none: a token says where the next one starts | `sdyn_tokenize` | tokens are the longest lexemes of `docs/GRAMMAR`; only blanks and comments are between them |
| parser, `parser.c` | the next token | `sdyn_parse`, one function per production | accepts the programs of `docs/GRAMMAR`, with the tree of their derivation |
| object store, `value.c` | the shape tree; each object's shape and member array | `sdyn_newObject`, `sdyn_getObjectMemberIndex`, `sdyn_getObjectMember`, `sdyn_setObjectMember`, `sdyn_toObject` | an object is a map from names to values; every array index is inside the array; layouts are shared and never change |
| IR compiler, `ir.c` 58-781 | the IR list, the symbol table | `irCompileNode`, `unifySymbolTables` | the IR computes what the tree means |
| passes over the IR, `ir.c` 784-1134 | the nodes' `uidx`, `rtype`, `lastUsed`, `stype`, `addr`; the used slots | `irUidx`, `irFlowTypes`, `sdyn_irRegAlloc` | chains end; types are right about representations; live values keep their slots and their slots are their own |
| JIT, `jit-x8664.c` | the machine code; at run time the two stacks | one `case` per IR operation; `IMM64` | the code computes what the tree means; no word is taken for a pointer; the collector finds pointers |
| conversions and operators, `value.c` | none | `sdyn_toBoolean` ... `sdyn_equal`, `sdyn_unquote` | the coercions of `docs/SEMANTICS`, to the ends of a machine word |
| calls, `value.c` 834-870 | a function's `irValue` and `value`; the pointer stack | `sdyn_assertCompiled`, `sdyn_call` | a function runs its own code, compiled once; frames are apart |
| global execution, `exec.c` | the global object | `sdyn_exec`, also from `$eval` | all declarations of a file come before its calls; the latest function counts |
| intrinsics, `intrinsics.c` | none | `$print`, `$eval` | `$eval` may redefine what is running; the collector is told where the caller's frame is |
| main program, `main.c` | none | the files, in order | |
| collector and assembler | submodules, not in the repository | | external |

The components interact by plain calls in one thread. What is hard is not concurrency but
**staleness across steps that are far apart**: a layout that an object took long ago, a slot
that is given back at compile time while a loop will read it again at run time, a type that
was refined from an operand whose location somebody else shares, a raw word that lies in a
pointer slot when the collector runs; and **re-entry**: a function that replaces itself by `$eval`, in the middle
of a loop of `sdyn_exec` that is itself below it on the stack. The tests of the repository run 28 whole programs and
compare their output; they would hardly meet any of it. `PROJECT.json` lists each hazard at
its line.

## Modules

    Tokenizer <- Grammar <- Parser <- Syntax <- MCSyntax

    SourceFiles <- GlobalScope <== Exec <- MCExec, ExecProofs <- ScopeProofs

    ObjectStore <== Shapes <- MCShapes, ShapesProofs

    IR <- Unify <- FlowTypes <- RegAlloc <- Machine, MCCompile

    FlowTypesProofs <- AllocProofs <- CompiledProofs <- MachineProofs

    Values <- Outside <- Machine, Reference          Values <- Arithmetic <- MCArithmetic, ArithmeticProofs

    IR <- IRCompile <- Programs <- Reference, MCCompile

    Machine, Reference <- MachineMeaning <- MCMachine <- MCHistory          Machine <- History <- MCHistory, MachineProofs

(`<-` is EXTENDS, `<==` the implementation of an abstract specification; Exec extends SourceFiles too. The proofs of a module extend it, and those of the module that it extends; FlowTypesProofs has those of Unify too.)

**Tokenizer** is `sdyn_tokenize`, and **Parser** is `parser.c`, one operator per parse function over
a state of the next token and what was parsed last. A parse ends in one of three ways: a tree, an
`ERROR()`, or a crash, where the parser asks for the token after the end of the text, which it is
given a NULL text for. What is assigned to is parsed before it is known to be a place, and from its start again
if it is none (`ParseExpression`, `parser.c` 374-408 and 595-625). **Grammar** is `docs/GRAMMAR`, written without
the code: which texts are lexemes, and `ProgramTrees`, all trees that the productions derive from
a sequence of tokens. **Syntax** grows texts piece by piece and compares the two; it also has `sdyn_unquote`.

**Exec** is the program at work: `main`, the two loops of `sdyn_exec` (`Declare`, `PassDeclaration`, `CallGlobal`),
function objects with their tree (`ast`) and machine code (`value`), calls and `$eval` from machine code, and the
pointer stack. `stack` has the activations of `sdyn_exec` and of functions; `depth` is `ggc_jitPointerStack`, as a
number of words in use, which only native functions called from machine code set
(`Native`), and which a return does not set back; `current` are the words that a collection could follow. Collections
may run wherever something is allocated. What machine code does in between is left open: it takes a global's value, writes
one, calls what it took, calls a native function, evaluates a file, or returns, in any order. A program stops for one of four reasons: it is done (`exited`),
a check in the code stops it (`aborted`), the conventional stack meets its guard page (`crashed`), or the pointer stack is full. Nothing checks that:
the frame is written below the mapping, and as nobody knows what such a process does, the model goes no further (`overrun`) and promises nothing. **SourceFiles** has
what a file declares and calls, and **GlobalScope** the global scope as `docs/SEMANTICS` (34-42) has it, but for a file's `var` of a
name that has a value already, where it has the code's rule: no
objects, no compilation, no stack of words; a file's declarations take effect in one step. `ImplementsScope` maps Exec to it:
during the first loop of `sdyn_exec` the abstract scope is already the one after the loop.

**Shapes** has `shapes`, the tree rooted at `sdyn_emptyShape` as a sequence whose indices are
the identities of shapes, and `objects`, the shape and member array of each object. Its actions
are the functions of `value.c`: `NewObject`, `GetObjectMember`, `SetObjectMember` (either
`Overwrite`, or `AddMember`, which follows an edge of the tree or makes one), `DeclareMember`
(a global variable's declaration, `exec.c` 50-54) and the two accesses to values that are not
objects, which write to an object that is dropped and leave their mark on the tree only.
`call` and `answer` remember the last operation and its result. **ObjectStore** is the abstract
specification: a map from names to values per object, nothing else. `ImplementsStore` maps one
to the other; as `call` is in both, an operation can only be explained by itself.

**IRCompile** is `irCompileNode`: `Compile` takes a tree and what the C code carries along (the
IR so far, the symbol table, the last value) and returns it changed, one operator per `case`.
**Programs** builds trees and the families of functions that the runs use. **IR** has the nodes, and what the other modules
may rely on: `WellFormed` for the passes, `Structured` for the machine code. Both are assumptions there, and TLC
evaluates them for all functions that `irCompileNode` makes of the trees of the runs. They are what is left of a recursive
compiler for modules without recursion.

**Unify**, **FlowTypes** and **RegAlloc** are the three passes, as one state machine: `pass` is
the loop that is running, `at` the node it is at, and each step is one iteration. `Unify` is
`irUidx`; `FlowTypes` is `irFlowTypes`, with `changed`; `RegAlloc` is the loop down for last uses
(`LastUse`), the loop up that hands out slots (`AssignArg`, `NeedsNoSlot`, `ShareSlot`, `TakeSlot`)
and the loop that fixes addresses. Each module extends the one before it and adds its variables,
so each can be checked and proved about by itself. They take any set of IR arrays (`Codes`), the
theorems for any that are `WellFormed`.

**Machine** runs the function that these compiled: one step is the machine code of one IR node.
`stack` has a cell per slot of the conventional and the pointer stack, which says whether it
holds a pointer, a raw word, or garbage. The code for a node *believes* the type of a location
(`Believed`, the type of its unification target, as `LOADOP` does); if the cell holds something
else, the machine is `confused`, which is where a word would be followed as a pointer. A location of type UNDEFINED is on the conventional
stack, though its word is a pointer, and there the collector does not see it: after a node that allocates (`Allocates`) the slots that hold one may be `stale`.
A stale word is copied like any other (`Copy`). Most code that believes in undefined does not look at the word; NOT has `sdyn_toBoolean` follow it, which goes wrong if
it is stale (`Misleads`). Calls
go outside: to a function `g` that answers with a number of its own for each call, and to
`$print`. Both record their arguments in `world.trace`, as the heap of objects is in `world.heap`.
`Exec` has the calls between functions, and no code; `Machine` has the code, and one function. **Outside** is that world:
its objects, its members and the trace. The tasks of `Machine` are IR with arguments, so that it needs neither
trees nor their meaning; **MachineMeaning** adds both for `ComputesTheMeaning`. **History** adds `latest`, what was last stored
for each location, which the code has no record of: a location has no more than its slot, and slots are handed
on. A round of a loop starts with what was stored before the loop, so that a value of the last round does not pass
for one of this round. `HistoryRunsTheMachine` is proved: the history only watches.

**Values** has the conversions and operators of `value.c` and the arithmetic of `jit-x8664.c` on words of `WordBits` bits, with
division as the code does it: RDX is cleared, so a negative dividend is a large
positive one, and the processor's fault is an outcome. `NumberToText` fills an array of the length that
`DigitCount` found; `Equal` converts twice, which is as often as `sdyn_equal` starts over; `FirstCharacters` has what `sdyn_toNumber` may find in front of an empty array. **Arithmetic** asks for one operation
and records its answer, so that whole ranges of words and texts can be gone through; the XOR and OR that put a
constant together are sets of bits (`BitsOf`).

**Reference** is `docs/SEMANTICS`, an evaluator of trees that knows nothing of the compiler. It
uses the coercions and operators of Values, but for division and equality, which are the document's (`EvalDivision`, `SameValue`);
a boolean's ToBoolean is the code's: the document's would be true. A variable that nobody declared ends the evaluation. `ComputesTheMeaning` compares result
and world of a finished run with `Meaning`.

Every property has mutants of the code, named in `PROJECT.json`: operators beside a definition that change
it as a plausible bug would, and that the property must refuse.

## Runs

| run | instance | shows |
|---|---|---|
| `syntax` | nine families of texts, 45 069 texts | `TokensAreLongest`, `GapsAreBlank`, `ParsesTheGrammar` |
| `exec` | five files, two globals, four functions; 236 136 states | `FramesAreStacked`, `CollectorFindsValidWords`, `RunsItsOwnCode`, `ImplementsScope` |
| `arithmetic` | all words of 8 bits, texts of up to 4 characters; 266 934 states | division, both conversions, equality, constants |
| `shapes_store` | 3 objects, 2 names, 2 values (73 759 states up to symmetry) | `ObjectFitsShape`, `ImplementsStore` |
| `shapes_layouts` | 2 objects, 3 names, 1 value | `MembersArePacked`, `ChildExtendsParent`, `LayoutsAreShared`, `ShapesAreImmutable` |
| `compile_passes` | all 242 functions of the families that compile, 38 582 states | the nine invariants of the passes, `LoopsNameTheirValues` of the IR they are given, `CompilationAdvances`, `CompilationEnds` |
| `run_functions` | one statement for every operation and one that observes it; one `if`, one `while`, an `if` in a `while`; 2 argument lists; 64 355 states | `ComputesTheMeaning`, `TypesAreRight`, `PointerStackHoldsPointers`, `SlotsHoldTheLatest`, `ValuesAreStoredFirst`, `RunsToTheEnd` |
| `run_mixed` | code that mixes words and pointers, or NOT of an undefined variable before and after a collection; 24 745 states | `WordsComeFromMembers`, `ConfusionIsConfined` |
| `two_conditionals`, `call_results`, `division`, `escapes` | a program each | the first four rows of the next section |

The type invariants of Shapes and of the passes (`TypeOK`, `AllocTypeOK`) are proved below for all constants, and no run repeats them.

Bounds.

- *Texts* (`MCSyntax`): a family is a beginning, the pieces that may follow, and how many (3 to 7). Three of
  them are about tokens (every class of character, comments, literals), six about the parser, with pieces
  chosen so that every production, every error and every end of the text inside a production is reached;
  seven pieces nest two levels of what nests. `TokensAreLongest` looks at the first three, which have every lexeme's
  characters. A text is not continued once the parser has given up on it.
- *Exec*: the program `main` declares `f` twice, calls it before and after its declarations, and declares a variable in
  between; four files for `$eval` replace `f`, make it a variable, name an intrinsic that does not exist, or are no program.
  Frames have one or two words, the pointer stack six, so that three frames fit and
  a program may run over the end of either stack; `MaxDepth` (5) is the depth of calls, and `MaxFunctions` (3) stops `$eval` at one function object more than
  `main` makes, which is enough for a function to be replaced while it runs.
- *Words*: 8 bits have every carry, sign and fault that 64 have and can be gone through pair by pair; a half of a word
  has four bits. `Machine` has 14 bits, so that the numbers `g` answers with fit; nothing in its families overflows.
  Texts of four characters have a sign, a leading zero and numbers that are no word of 8 bits.
- *Shapes*: a shape tree over two names has all five layouts, over three all sixteen; three objects are the
  global object and two that meet in the tree in either order. Members are
  a value that was written and undefined. The tree is finite since a path holds a name once, so nothing else needs a bound.
- *Functions* have two parameters and two locals, so that locations
  compete for slots; the argument lists make a loop run not at all and three times, and have a
  number, a numeric string and an object (`this`, which is the global object). `Fuel` (4) bounds the reference evaluator's loops;
  no function in the families needs more than three rounds, and one that diverged would be reported as a difference.

The runs of the compiler and the machine have one behaviour per function and argument list, but for what a collection
does, so their state count is their length: what they explore is the set of programs. The same is true of texts and
requests. Deadlock is not checked there, since a compiled or finished function stops, as a program does that exits.

Fairness. The passes are C functions that call each other, and machine code runs on:
weak fairness of the whole next-state relation says only that a step that can be taken is
taken. `CompilationEnds` and `RunsToTheEnd` need it; `CompilationAdvances` is the measure behind the first of them, and needs none. Shapes and Exec have no liveness, and no fairness: a program may call
itself as long as it likes.

## Where code and documents disagree

Four runs end in a violation. The other rows have no run of their own: they share a cause with
one that has, or are a case that a passing run's property names, or were met while modelling.
The programs of the compiler's rows were also seen to go wrong in the way the table says on a build of the repository's C files with
stand-ins for the two submodules.

| run | program | the code |
|---|---|---|
| `two_conditionals` | `if (a) { x = 2; } if (b) { x = 3; }` | the second UNIFY takes the value from before the first; a true and b false loses `x = 2` |
| `call_results` | `g(g(a), g(b))` | a call gives back the slot of its own result |
| `division` | `~~((a - 5) / 2)` with a = 0 | RDX is cleared, not filled with the sign (`jit-x8664.c` 1133); the same for MOD |
| `escapes` | `"\n"` | the backslash is read twice (`value.c` 257): the escape is dropped |
| (like `call_results`) | `x = g; x(); x(a)` | a call gives back the slot of the variable it called |
| (like `call_results`) | `x = g(); $print(x); $print(y); return x` | a call gives back the slot of its result, which a variable has |
| (no run) | `x = a \|\| b` | variables are unified, not copied (`ir.c` 722): `a` changes too |
| (no run) | `while (a) { ... x + (x = 1) ... }` | for the same reason both values of `x` have one location |
| (no run) | `while ((a = a - 1) > 0) { a = a - 1; }` | the remark at `ir.c` 468 |
| (no run) | `f()` of a function that never uses `this` | the parameter's slot is not undefined any more (`jit-x8664.c` 388) |
| (order only) | `x(g(a))` with x undefined | the arguments are evaluated first |
| (no run) | `x.m` with x undefined | is undefined instead of an error |
| (no run) | `if (false) { ... }` | a boolean is what it is; by the document's ToBoolean all booleans are true |
| (no run) | a variable that nobody declared | is undefined; the document says that the program terminates |
| (in `run_mixed`) | `1[0]` | takes the number for an object |
| (in `run_mixed`) | `!0` | takes the number for a pointer |
| (in `run_mixed`) | `$print(a); x = y; x = !x` with y undefined | follows a pointer to where undefined was before `$print` let the collector move it (`jit-x8664.c` 751) |
| (in `run_mixed`) | `x = (a < b) \|\| (this.m = 3)` | a raw word in a boxed location |
| (in `run_mixed`) | `true + (a == b)` | may add the wrong boolean: RDX does not survive the call that boxes the left one (`jit-x8664.c` 984) |
| (in `run_functions`) | `2 \|\| a` | a raw word in a pointer slot while it is boxed (`jit-x8664.c` 679) |
| (in `syntax`) | `"abc` at the end of a file | is a literal, and its last character is dropped |
| (in `syntax`) | `007`, `$` | are a number and the name of an intrinsic |
| (in `syntax`) | `// ...`, `/* ... */` | are comments, of which `docs/GRAMMAR` says nothing |
| (in `arithmetic`) | `"-1"`, `"+1"` | ToNumber accepts a sign |
| (in `arithmetic`) | `true == 1`, `1 == "1"`, `undefined == "undefined"` | are true, true and false, by the ES5 rules that the comment at `value.c` 698 quotes and `tests/eq1` expects; the document (193-200) compares what ToValue gives, so they are false, false and true |
| (in `arithmetic`) | the least number | its text is not its decimal number (`value.c` 419) |
| (in `exec`) | `var f;` in a later file | `f` keeps its value, which may be a function |
| (no run) | `$print()` after another call | passes what that call passed (`jit-x8664.c` 398) |
| (no run) | `$p("x")` | is `$print`: as many characters are compared as the program wrote (`intrinsics.c` 36) |
| (no run) | a global call | does not supply `this` |

The properties that hold in the passing runs name these cases as their premises and no others:
`OperandsShareLocationIfUnifiedOnce` has *unified once*, the lifetime properties `CallsGaveBackTheDead`,
`ConfusionIsConfined` has `CallsGiveBackTheDead` and lists the four ways to go wrong, `IsLenient` the three tokens, `DivisionTruncates` asks for
a dividend that is not negative, and `TextsAreDecimal` leaves out the least number.

## Proofs

| theorem | says |
|---|---|
| `ShapesInvariant` | `Spec => []ShapeInv`, the inductive invariant |
| `AlwaysTypeOK`, `AlwaysObjectFitsShape`, `AlwaysMembersArePacked`, `AlwaysChildExtendsParent`, `AlwaysLayoutsAreShared`, `AlwaysShapesAreImmutable` | the properties of the same names |
| `ShapesImplementStore` | `Spec => ImplementsStore` |
| `AlwaysChainsHaveOneLink`, `AlwaysTargetsAreUnifies`, `AlwaysOperandsShareLocationIfUnifiedOnce` | `irUidx`, for any function |
| `AlwaysFlowTypeOK`, `AlwaysSharedLocationsAreBoxed` | `irFlowTypes`, for any function |
| `AllocInvariant` | `AllocSpec => []AllocInv`, the inductive invariant of `sdyn_irRegAlloc` |
| `AlwaysAllocTypeOK`, `AlwaysPlacesAreInFrame`, `AlwaysLocationsHaveOnePlace` | for any function |
| `AlwaysLiveValuesHoldTheirSlot`, `AlwaysLiveValuesAreApart` | for any function |
| `LoopsKeepTheirValuesIfNamed` | for any function whose loops name what they use |
| `CompiledInvariant` | `AllocSpec /\ Structured(code) => []CompiledInv`, what the passes leave to the machine code |
| `CompilationAdvancesIfStructured`, `CompilationIsBounded` | every step of the passes is one less of a number that is never more than seven times the nodes and two |
| `MachineInvariant` | `MachineSpec => []MachineInv`, the inductive invariant of machine code |
| `AlwaysMachineTypeOK`, `AlwaysWordsComeFromMembers` | for any structured function and its arguments |
| `PointerStackHoldsPointersIfStored` | for any such function that stores no word in a boxed location |
| `ConfusionIsConfinedIfNamed` | for any structured function whose loops name what they use |
| `TypesAreRightInSafeCode` | for those of them whose calls give back nothing that is used again, and which store no word in a boxed location, apply NOT to no location of type INT or UNDEFINED and index locations of type OBJECT only |
| `HistoryRunsTheMachine`, `HistoryInvariant` | `HistorySpec => []HistoryInv`, and the history restricts nothing |
| `SlotsHoldTheLatestIfNamed`, `ValuesAreStoredFirstIfNamed` | for any structured function whose loops name what they use |
| `ArithmeticInvariant`, `AlwaysDivisionTruncates`, `AlwaysEqualityIsES5` | for words of any size and all values |
| `ExecInvariant` | `Spec => []ExecInv`, the inductive invariant of files and functions at work |
| `AlwaysFramesAreStacked`, `AlwaysCollectorFindsValidWords`, `AlwaysRunsItsOwnCode`, `AlwaysExecTypeOK` | for any files, functions, frames and stack sizes |
| `ScopeInvariant`, `ExecImplementsScope` | `Exec` implements `GlobalScope`, and the invariant the refinement needs |

*Shapes*. Assumed is `ShapesAssumption` alone: the global object is an object, undefined a value. There may be
infinitely many objects, names and values. `ObjectFitsShape` is not inductive: a new member's index is the array's
length, so the child's layout is right only if the parent's is; and following an edge keeps the array right
only if the shape at its end is the parent's with that name added. `ShapeInv` therefore adds the
tree invariant: the root is empty, layouts are packed below their size, every edge extends its
parent (`ChildExtendsParent`), every shape but the root hangs from exactly the edge that made it, and
hence two shapes with one layout are one shape. Refinement then has one lemma per
operation: adding and overwriting bind one name of one object and leave every other
reading alone, which uses that no two names have one index.

*Unify*. Assumed is `CodesAssumption`: operands come before their nodes, node 0 is no
UNIFY. The second loop goes down, and a node's target is final once the loop is at or below it, because only later nodes have it as
an operand. The invariant has two zones: above `at` every target is its own target or
that of an UNIFY that is, and below it targets point into the part that is done. `UnifiedOnce` adds that
the operands of an UNIFY above `at` have its target still.

*FlowTypes*. A shared location is that of an UNIFY node by the former theorems, so it is
enough that UNIFY nodes stay `BOXED`: their operands have the location of an UNIFY, which is
boxed, and equal operand types give that type back. The refinement of UNIFY types in `irFlowTypes` (`ir.c` 888-902)
is therefore never taken; nor is the case of `ir.c` 881 that tests the right operand's type where the left one's was
meant, which only `BOXED_INT`, a type that thus never arises, could reach.

*RegAlloc*. Assumed is `CodesAssumption`: beside the order of operands, no argument is unified, an argument has a number,
and a call has a function. `LiveValuesHoldTheirSlot` is not inductive by itself: that a slot is not taken back too early is
decided by the loop down, long before. `GivenBackLast` is what that loop leaves: a node gives back only values whose location
no later node uses, or it is a call, and they are its own result, its function, or its arguments. The loop up then keeps `SlotsKept`,
that the location of a value which a node not yet reached uses, holds its slot, and `PlaceInv`: where a node was put depends on
its location only, lies in the frame as large as it is by now, and no slot number is at or beyond the frame. The third loop moves what is on the
pointer stack by the arguments' slots, one node at a time; `Offset` says by how much a node has been moved, so one invariant holds in both loops
and at the end.

What the lifetime properties promise ends where the code stops keeping it. `GivesBackTheDead(c)` says that nothing after call `c` uses its
result or the function it called; `CallsGaveBackTheDead`, the premise of the properties, that it is so for every call that has got its slot by now.
Run `call_results` is a function where something does use them, and loses a value. To except only the values that such a call gives back would not be right:
their slots may be handed to another value, and are then given back once more, in the middle of that value's life, after the last use of the call's result
(as in `y = g(a) + (x = this.m); y = this.n; $print(x); return x + y;`). Of the 242 functions of `compile_passes` 203 keep the premise to their end, among
them 129 of the 168 that call. `LoopsKeepTheirValuesIfNamed` has one hypothesis: `LoopsNameTheirValues`
says that a value from before a loop which a node inside uses, is used by a node after it, the last use
that `irCompileNode` emits behind every WEND, for the sake of a loop that will read it again. It is a fact about the IR that
`irCompileNode` makes, and that is a recursion over trees, so it stays an invariant of `compile_passes`.

*How long the compilation takes*. `StepsLeft` counts a step for each node and for the end of each loop that is to come, and one more
round of `irFlowTypes` as long as `TakesAnotherRound`: something has changed in this round, or a type is not yet what its operands' locations say
(`Refined`). A round gives each node the refined type (`FlowedIsRefined`), and a node's type does not change those of the nodes before it, so after the first round
all types are refined, and stay so. The second round therefore changes nothing: `LastRound` and `NoMoreRounds`. With `CompilationIsBounded` this is the
safety half of `CompilationEnds`; the other half, that a step which can be taken is taken, is fairness and stays with TLC.

*Machine*. Assumed are `CodesAssumption`, `UndefinedAssumption` (locals get their undefined before anything can allocate, and the one of a function without a return is
returned at once) and `StructureAssumption`: the frame is opened by the first two nodes and closed by the
last, a node has one of its operation's `InitialTypes` and uses only nodes that are values, what jumps has an end, and a value made where
code may be jumped over is joined by an UNIFY, or nothing behind the end uses it. No theorem about `AllocSpec` was strong enough
to start from. **CompiledProofs** adds three things about what the passes leave. One round of `irFlowTypes`
finds every type (`TypesRefined`: `Refined` says them from the operands' locations), so the type of a node and those of its
operands agree when the code is generated, and there is no `BOXED_INT` or `BOXED_BOOL` (`TypesArise`). An argument's slot is an argument
slot. And `SlotsApart`: from the node that puts a value into its slot to the last node that uses it, no other node puts one there,
which is more than `LiveValuesAreApart` says, as that is about the places a step of the allocator knows and this about all places
at the end.

`MachineInv` is three parts beside `CompiledInv`. `MachineShape` has the size of the frame, which the two nodes that open it set.
`PointersKept`: a cell of the pointer stack has a pointer, or a number that is being boxed, or it is the slot of a member
assignment that stores a word (`WordSlot`). For a store to the pointer stack is one of a boxed location or of an argument, whose code boxes what it stores; only what a member
assignment stores is stored as it was loaded, and if it was loaded from a location with a precise type the assignment is one of those. `ValuesKept` is the heart: a
value whose location has one of the types `BOOL`, `INT`, `OBJECT` and `UNDEFINED`, and which a
node that is still to come uses, is in its slot as that type says; for `UNDEFINED` that is a pointer, but maybe a stale one. A location of these types is not shared (`SharedLocationsAreBoxed`), so only
its own node writes it, by `SlotsApart` no other node overwrites it, and that node was not jumped over: what is made in a branch
is joined, and so boxed, or not used behind it. What jumps backwards is the WEND, and what a node after the WHILE uses
from before it is used again behind the WEND (`LoopsNameTheirValues`), so it was kept by the invariant all the time. `ConfusionIsConfined` follows: what a node
reads from a boxed location is a pointer by `PointersKept`, unless it is in a slot that takes words, and what it reads from any other is what it believes by `ValuesKept`, so all that
is left beside those slots are INDEX and NOT, whose code does not check what it follows.

The premises are those of the passes, and for two theorems one more: `NoWordsAreStored`, no member assignment has a boxed location and an unboxed value. Of the 489
tasks (IR with arguments) of the five runs that run code, all satisfy `LoopsNameTheirValues` and 409 `CallsGiveBackTheDead`, so these are what `ConfusionIsConfinedIfNamed`
and `SlotsHoldTheLatestIfNamed` are about; 50 of them can end confused, in all four ways. 333 also satisfy `NoWordsAreStored`, and of these 287
`OperandsAreKnown`, the premises of `TypesAreRightInSafeCode`. The programs of `two_conditionals` and `division` are among the
287, as what they compute is a wrong value but of the right type.

`HistoryInv` has three parts beside `MachineInv`. `StoredBy`: what was stored for a location was stored by a node behind the machine. `LatestKept`: the slot of a location that is still to be used has
what was last stored for it, by `SlotsApart` again, and for boxed locations as well as for others. The step that needs care is a WEND, after which the nodes behind the machine
are those before the loop: `latest` forgets what only the loop stores, and a node of the loop uses from before it only what a node behind the WEND uses too.
`StoredFirst`: a value that is still to be used, and that no UNIFY joins, was stored. What is jumped over is a branch, and what is made there and used behind it is joined (`Structured`).

*Arithmetic*. Assumed are `OperandsAssumption`, what a value is, and `PowerAssumption`: 2^`WordBits` is twice the power before, which is true of every `WordBits`,
but needs an induction that the provers cannot do. `DivisionTruncates`: a word that is not negative is below half of the double words, so clearing RDX leaves it
what it is (`DoubleWordFacts`), and neither sign of a quotient up to it is out of range; the negative dividends of run `division` are exactly what this does
not reach. `EqualityIsES5`: after one conversion, two values that are no booleans have one type, or will never have (`OneConversion`), and a boolean is converted
before anything else, so what remains after it is such a pair; that `sdyn_equal` converts twice is all it ever needs. Conversions of strings and numbers
occur on both sides and are not looked into.

*Exec*. Assumed are `FilesAssumption` (what a parsed file contains) and `ExecAssumption` (a frame has at least one word, sizes are
numbers). `sdyn_exec` does not set `ggc_jitPointerStack`, so `FramesAreStacked` says of it that the pointer is beyond every frame when
it runs; that holds because whatever starts it or lets it go on leaves the pointer there: `$eval` sets it to the end of its caller's frame, and a
function that returns does not set it back. What makes this inductive is that the pointer is never before the first word of a frame at work
(`FramesFit`): when a function returns to `sdyn_exec`, the pointer is at or after that function's frame, and that frame
begins where the pointer was when `sdyn_exec` called it, which was beyond every frame below. `WordsAreCurrent` says that the words are valid
up to the pointer and, while code runs, up to the end of its frame, which the code has written (`PALLOCA`) before anything
can collect. `MaxDepth` and `MaxFunctions` are not used: the theorems hold for any depth. That a frame lies within
the pointer stack (`FramesFit`) is no result: the model stops where one does not.

*Exec implements GlobalScope*. The abstract scope is the concrete one with the declarations of every file in its first loop already made
(`AfterDeclarations`). The lemma that carries the proof is `DeclarationMade`: making the next declaration leaves
`AfterDeclarations` as it was, so `Declare` and `PassDeclaration` are stutters, and `StartFile` alone changes the abstract scope.
Activations map one by one, and three lemmas say how the mapped stack changes when the
top is replaced, pushed or popped. The invariant adds two things to `ExecInv`: what has been compiled names
intrinsics that exist (`CompiledAreValid`), so that calling it again cannot fail where the abstract call does not; and a file with another activation on top of it is
in its second loop (`CallersAreCalling`), so that at most the file on top has declarations left to make.

Only model-checked:

- liveness (`CompilationEnds`, `RunsToTheEnd`), which needs fairness and what is enabled; of the first the measure is proved;
- `ComputesTheMeaning`, `ParsesTheGrammar`, `TokensAreLongest` and `GapsAreBlank`: `Reference`, `IRCompile`, `Parser`, `Grammar` and `Tokenizer` are recursive over
  trees and texts, which the provers do not reach;
- `TextsAreDecimal`, `TextsAreReadAsDecimal`, `ImmediatesAreLoaded`: sums over digits and bits, which need an induction; TLC goes through the words and texts
  one by one;
- what is assumed of the IR, `WellFormed` and `Structured`, and `LoopsNameTheirValues`: facts about the output of `irCompileNode`, a recursion over trees;
- the properties with premises, where these are not satisfied: where a call gives back what is used again nothing is proved about lifetimes and types, and
  `PointerStackHoldsPointers` is not proved of functions that store words, of which `WordsComeFromMembers` is.

## External, abstracted, not modelled

- The collector keeps what is reachable from the pointer stack; the assembler emits what it is
  asked to. `NIL` (`jit-x8664.c` 671-675) reads through a memory operand, and what the assembler makes of that is not
  known here: the model takes the intent, undefined in the target. `Immediates` allows either way of
  extending the half that `MOV` is given, and `ImmediatesAreLoaded` leaves out the one constant form that depends on it.
- The machine code of one node is one step, but for a number in a boxed slot (`LoadNumber`, `BoxNumber`), where
  the intermediate state matters. Registers and the two temporaries of a frame are inside the step, but for RDX while two booleans are added (`AddBooleans`).
- In `Machine` callees are not SDyn functions: a call answers at once. In `Exec` the code of a function is any sequence of what
  code can do to the rest; arguments and results are not in it, since nothing of calls depends on them.
- Hash maps are functions; the order in which `unifySymbolTables` meets names is that of their values.
- Operator tokens are left out of the trees of the parser, whose nodes' types say the same.
- `SPECULATE` and `SPECULATE_FAIL` have machine code, but `ir.c` emits neither.
- `mmap` may fail unchecked (`jit-x8664.c` 1171); the process ends there.
- `sdyn_boxFunction` allocates before it stores an argument that the collector does not know of (`value.c` 168): how the
  collector moves the tree meanwhile is not in the repository.
- The name of an intrinsic is valid or not; which one a prefix finds, and calls of intrinsics without arguments, are not modelled.
- What a process does once it has written below the pointer stack: the step that does so is the last one of Exec. Nothing in the code would notice,
  and no property says that it does not happen.
- The pointer stack that a global call leaves behind creeps from call to call (`exec.c` 65); Exec has it, and no document bounds it.
- Reading files and arguments, the printing of `$print`, and the test drivers are input and output only.

## Plan

Done: texts to trees; the object store, with its refinement; the compiler's passes; the machine and the reference; files, calls and the
pointer stack, with their refinement; arithmetic and conversions. Everything in it that has no recursion is proved about.
Nothing else is planned. The premises that the theorems still have name what a recursion over trees makes (`LoopsNameTheirValues`)
or where the code does not keep what it means to keep (`CallsGiveBackTheDead`, `NoWordsAreStored`, `OperandsAreKnown`).
