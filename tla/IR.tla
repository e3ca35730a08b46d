---------------------------------- MODULE IR ---------------------------------
(***************************************************************************)
(* The intermediate representation of ir.h and nodes.h: an array of nodes, *)
(* numbered from 0, that name their operands by index.                     *)
(***************************************************************************)
EXTENDS Integers

\* The data types of value.h.  A boxed value is a pointer the collector follows.
UnboxedTypes == {"UNDEFINED", "BOOL", "INT"}
BoxedTypes   == {"BOXED", "BOXED_UNDEFINED", "BOXED_BOOL", "BOXED_INT",
                 "STRING", "OBJECT", "FUNCTION"}
Types        == {"NIL"} \cup UnboxedTypes \cup BoxedTypes

\* Operations on two numbers
Arithmetic == {"SUB", "MUL", "MOD", "DIV"}
Comparison == {"EQ", "NE", "LT", "GT", "LE", "GE"}

\* Index 0 is always the ALLOCA that opens the function; as an operand it means none.
NoOperand == 0

\* A node: its operation, the type of the value it produces, an immediate (a number
\* and a name), and the indices of its operands.
Node(op, rtype) ==
    [op |-> op, rtype |-> rtype, imm |-> 0, immp |-> "",
     left |-> NoOperand, right |-> NoOperand, third |-> NoOperand]

Unary(op, rtype, l)     == [Node(op, rtype) EXCEPT !.left = l]
Binary(op, rtype, l, r) == [Node(op, rtype) EXCEPT !.left = l, !.right = r]

\* What irCompileNode produces: every operand comes before its node, an UNIFY joins values,
\* an argument has a number, and a call a function.
WellFormed(code) ==
    \E last \in DOMAIN code :
        /\ last \in Nat
        /\ DOMAIN code = 0 .. last
        /\ \A i \in 0 .. last :
             /\ \A v \in {code[i].left, code[i].right, code[i].third} :
                  v \in Nat /\ (v < i \/ v = NoOperand)
             /\ code[i].rtype \in Types
             /\ code[i].op = "UNIFY" =>
                  /\ i # 0
                  /\ code[i].rtype = "BOXED"
                  /\ NoOperand \notin {code[i].left, code[i].right}
                  /\ code[code[i].left].op # "ARG"
                  /\ code[code[i].right].op # "ARG"
             /\ code[i].op = "ARG" => code[i].imm \in Nat
             /\ code[i].op = "CALL" => code[i].left # NoOperand

\* The types that irCompileNode gives the values of an operation, before any are refined
InitialTypes(op) ==
    CASE op \in Comparison \cup {"NOT", "FALSE", "TRUE"} -> {"BOOL"}
      [] op \in Arithmetic \cup {"NUM"}                  -> {"INT"}
      [] op \in {"STR", "TYPEOF"}                        -> {"STRING"}
      [] op \in {"TOP", "OBJ"}                           -> {"OBJECT"}
      [] op \in {"PARAM", "ASSIGN", "ASSIGNINDEX", "MEMBER", "INDEX", "ADD",
                 "CALL", "INTRINSICCALL", "UNIFY"}       -> {"BOXED"}
      [] op = "NIL"                                      -> {"UNDEFINED", "BOXED"}
      [] op = "ASSIGNMEMBER"                             -> {"BOXED", "NIL"}
      [] OTHER                                           -> {"NIL"}

IsValue(op) == InitialTypes(op) # {"NIL"}

\* Where code is jumped over: from a node that may jump, to the node of the other
\* operation that names it
Closing(op) == CASE op = "IF" -> "IFELSE" [] op = "IFELSE" -> "IFEND" [] op = "WCOND" -> "WEND"

\* An UNIFY node joins this value with another.
Joined(code, v) == \E u \in DOMAIN code : code[u].op = "UNIFY" /\ v \in {code[u].left, code[u].right}

\* What irCompileNode makes of functions and statements: the frame is opened first and closed
\* last, nodes have their operation's type and use values, jumps have ends, and what may be
\* jumped over is joined with another value or not used behind the end.
Structured(code) ==
    \A i \in DOMAIN code :
        LET uses(k) == {code[k].left, code[k].right, code[k].third} \ {NoOperand}
            value   == CASE code[i].op = "ASSIGN"       -> code[i].left
                         [] code[i].op = "ASSIGNMEMBER" -> code[i].right
                         [] code[i].op = "ASSIGNINDEX"  -> code[i].third
                         [] OTHER                       -> i
        IN  /\ code[i].op = "ALLOCA" <=> i = 0
            /\ code[i].op = "PALLOCA" <=> i = 1
            /\ i + 1 \notin DOMAIN code => code[i].op = "POPA"
            /\ code[i].rtype \in InitialTypes(code[i].op)
            /\ \A v \in uses(i) : IsValue(code[v].op) <=> code[i].op \notin {"IFELSE", "IFEND", "WEND"}
            /\ value # NoOperand \/ i = NoOperand
            /\ code[i].op = "WEND" => code[code[i].left].op = "WHILE"
            /\ code[i].op \in {"IF", "IFELSE", "WCOND"} =>
                 LET ends == {t \in DOMAIN code : /\ code[t].op = Closing(code[i].op)
                                                  /\ i \in {code[t].left, code[t].right}}
                 IN  /\ ends # {}
                     /\ \A t \in ends : \A v \in i + 1 .. t - 1 : \A k \in DOMAIN code :
                          k > t /\ v \in uses(k) => Joined(code, v)
==============================================================================
