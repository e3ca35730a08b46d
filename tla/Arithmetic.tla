------------------------------ MODULE Arithmetic ------------------------------
(***************************************************************************)
(* The operations on values at the ends of a machine word, and the         *)
(* conversions between numbers and their texts, one request after the      *)
(* other: what Values defines, and the loading of a constant into a        *)
(* register.                                                               *)
(***************************************************************************)
EXTENDS Values

CONSTANTS
    Texts,      \* texts to take for numbers
    Operands    \* values to compare

\* A value has its tag and what that tag asks for, and nothing else.
IsOfItsTag(v) ==
    \/ v \in {Undefined, BoxBool(FALSE), BoxBool(TRUE), BoxString(v.s)}
    \/ v.n \in Words /\ v = BoxInt(v.n)
    \/ v.n \in Nat /\ v \in {BoxObject(v.n), BoxFunc(v.n)}

ASSUME OperandsAssumption == \A v \in Operands : IsOfItsTag(v)

VARIABLES
    request,    \* an operation and its operands
    answer      \* its result, or Waiting

arithmeticVars == <<request, answer>>

Waiting   == [status |-> "waiting", value |-> 0]
Fault     == [status |-> "fault", value |-> 0]
Result(x) == [status |-> "result", value |-> x]

Asks(op, l, r) == [op |-> op, left |-> l, right |-> r]

\* What a word holds, read as size_t
Unsigned == 0 .. 2^WordBits - 1

Requests ==
    {Asks(op, l, r) : op \in {"DIV", "MOD"}, l \in Words, r \in Words}
    \cup {Asks("toString", n, 0) : n \in Words}
    \cup {Asks("toNumber", s, 0) : s \in Texts}
    \cup {Asks("EQ", l, r) : l \in Operands, r \in Operands}
    \cup {Asks("IMM64", v, 0) : v \in Unsigned}
------------------------------------------------------------------------------
\* A constant is put together from halves of a word.  The assembler is not in this
\* repository: the macro relies on it to extend the sign of an immediate half of XOR and
\* OR, and has no need to know whether MOV does.
Half == 2^(WordBits \div 2)

Extended(h) == IF 2 * h >= Half THEN h + 2^WordBits - Half ELSE h
Inverted(v) == 2^WordBits - 1 - v

ShiftHalf(v) == (v * Half) % (2^WordBits)

BitsOf(v)    == {k \in 0 .. WordBits - 1 : (v \div 2^k) % 2 = 1}
WordOf(bits) == MapThenSumSet(LAMBDA k : 2^k, bits)
Or(v, w)     == WordOf(BitsOf(v) \cup BitsOf(w))
Xor(v, w)    == WordOf((BitsOf(v) \cup BitsOf(w)) \ (BitsOf(v) \cap BitsOf(w)))

\* mutant: the sign of the lower half is not looked at
ImmediatesWithoutSign(v) ==
    LET high == v \div Half
        low  == v % Half
    IN  IF v < Half THEN {v, Extended(v)} ELSE {Or(ShiftHalf(high), Extended(low))}

\* What may be in the register after IMM64
Immediates(v) ==
    LET high == v \div Half
        low  == v % Half
    IN  CASE v < Half                   -> {v, Extended(v)}
          [] v >= Half /\ 2 * low >= Half -> {Xor(ShiftHalf(Inverted(v) \div Half), Extended(low))}
          [] OTHER                      -> {Or(ShiftHalf(high), Extended(low))}
------------------------------------------------------------------------------
ArithmeticInit ==
    /\ request \in Requests
    /\ answer = Waiting

Answers(ops) ==
    /\ answer = Waiting
    /\ request.op \in ops
    /\ UNCHANGED request

DivideWords ==
    /\ Answers({"DIV", "MOD"})
    /\ answer' = IF DivisionFaults(request.left, request.right)
                 THEN Fault
                 ELSE Result(Divide(request.op, request.left, request.right))

NumberBecomesText ==
    /\ Answers({"toString"})
    /\ answer' = Result(NumberToText(request.left))

TextBecomesNumber ==
    /\ Answers({"toNumber"})
    /\ \E first \in FirstCharacters(request.left) : 
         answer' = Result(SignedNumber(request.left, first))

CompareValues ==
    /\ Answers({"EQ"})
    /\ answer' = Result(Equal(request.left, request.right))

LoadImmediate ==
    /\ Answers({"IMM64"})
    /\ \E v \in Immediates(request.left) : answer' = Result(v)

ArithmeticNext ==
    \/ DivideWords
    \/ NumberBecomesText
    \/ TextBecomesNumber
    \/ CompareValues
    \/ LoadImmediate

ArithmeticSpec == ArithmeticInit /\ [][ArithmeticNext]_arithmeticVars
------------------------------------------------------------------------------
Answered(op) == request.op = op /\ answer.status # "waiting"

Gives(x) == answer = Result(x)

\* "with its fractional part truncated" (docs/SEMANTICS 268): for a dividend that is not
\* negative there is no fault, what DIV gives is the quotient whose product with the
\* divisor misses it by less than the divisor, and what MOD gives is what is missing.
DivisionTruncates ==
    LET a == request.left
        b == request.right
        q == answer.value
    IN  /\ Answered("DIV") /\ a >= 0 /\ b # 0 =>
             answer.status = "result" /\ \E r \in 0 .. Magnitude(b) - 1 : a = b * q + r
        /\ Answered("MOD") /\ a >= 0 /\ b # 0 =>
             \E r \in 0 .. Magnitude(b) - 1 : Gives(r) /\ \E k \in Words : a = b * k + r

\* The text that sdyn_toString writes into an array of the length it counted is the
\* decimal number, and sdyn_toNumber reads the number back, for every word but the least.
TextsAreDecimal ==
    Answered("toString") /\ request.left # Least =>
        /\ Gives(ToString(request.left))
        /\ StringToNumber(answer.value) = request.left

\* The number that the decimal digits at the beginning of a text stand for, after a sign
DecimalValue(s) ==
    LET sign      == s # "" /\ CharAt(s, 1) \in {"-", "+"}
        from      == IF sign THEN 2 ELSE 1
        digits    == {k \in from .. Len(s) : \A j \in from .. k : Digit(CharAt(s, j)) >= 0}
        weight(k) == Digit(CharAt(s, k)) * 10^(from + Cardinality(digits) - 1 - k)
        value     == MapThenSumSet(weight, digits)
    IN  IF sign /\ CharAt(s, 1) = "-" THEN -value ELSE value

\* sdyn_toNumber reads the digits a text begins with, and of a number that is no word the
\* lowest bits; what it finds behind an empty array does not matter.
TextsAreReadAsDecimal == Answered("toNumber") => Gives(Wrap(DecimalValue(request.left)))

\* The types of ES5, to which functions are objects
ES5Type(v) == IF IsObject(v) THEN "object" ELSE TypeOf(v)

\* "Defined in ES5 as follows" (value.c 700-741), clause by clause: what is left to compare
\* when no boolean is compared with a value of another type,
ES5Unlike(x, y) ==
    LET types == <<ES5Type(x), ES5Type(y)>>
    IN  CASE types[1] = types[2]              -> x = y
          [] types = <<"number", "string">>   -> x.n = ToNumber(y)
          [] types = <<"string", "number">>   -> ToNumber(x) = y.n
          [] types[1] \in {"string", "number"} /\ types[2] = "object" -> ToText(x) = ToText(y)
          [] types[1] = "object" /\ types[2] \in {"string", "number"} -> ToText(x) = ToText(y)
          [] OTHER                            -> FALSE

\* and the booleans, which are compared as numbers.
ES5Equal(x, y) ==
    LET number(v) == IF ES5Type(v) = "boolean" THEN BoxInt(ToNumber(v)) ELSE v
    IN  IF ES5Type(x) = ES5Type(y) THEN x = y ELSE ES5Unlike(number(x), number(y))

\* sdyn_equal, which converts and starts over until it knows, answers what the definition
\* in its comment says (ES5; docs/SEMANTICS 193-200 would compare what ToValue gives).
EqualityIsES5 == Answered("EQ") => Gives(ES5Equal(request.left, request.right))

\* What IMM64 leaves in a register is the constant, whichever way the assembler encodes
\* MOV; a constant whose upper half is empty and whose lower half has its highest bit set
\* is the one case that depends on that.
ImmediatesAreLoaded ==
    Answered("IMM64") /\ request.left \notin Half \div 2 .. Half - 1 => Gives(request.left)
==============================================================================
