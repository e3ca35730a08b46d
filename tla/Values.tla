-------------------------------- MODULE Values -------------------------------
(***************************************************************************)
(* The values of value.c and the conversions and operators on them.  A     *)
(* value has its tag, the number or identity it holds, and its text if it  *)
(* is a string.  Numbers are machine words.                                *)
(***************************************************************************)
EXTENDS Integers, Sequences, SequencesExt, FiniteSets, TLC

CONSTANT WordBits   \* the bits of a word: 64 in the code

ASSUME WordAssumption == WordBits \in Nat /\ WordBits >= 6

\* What the proofs need to know of powers of two, of which the provers know nothing
ASSUME PowerAssumption == 2^(WordBits - 1) \in Nat \ {0} /\ 2^WordBits = 2 * 2^(WordBits - 1)

Words == -(2^(WordBits - 1)) .. 2^(WordBits - 1) - 1
Least == -(2^(WordBits - 1))

\* The word that the lowest bits of a number are
Wrap(n) == ((n - Least) % 2^WordBits) + Least

Magnitude(n) == IF n < 0 THEN -n ELSE n

\* Division as C's / and % and as the processor do it, for any divisor but 0
Quotient(a, b) ==
    LET q == Magnitude(a) \div Magnitude(b) IN IF (a < 0) = (b < 0) THEN q ELSE -q

Remainder(a, b) == a - b * Quotient(a, b)

Value(tag, n, s) == [tag |-> tag, n |-> n, s |-> s]

Undefined    == Value("BOXED_UNDEFINED", 0, "")
BoxBool(b)   == Value("BOXED_BOOL", IF b THEN 1 ELSE 0, "")
BoxInt(n)    == Value("BOXED_INT", n, "")
BoxString(s) == Value("STRING", 0, s)
BoxObject(o) == Value("OBJECT", o, "")
BoxFunc(f)   == Value("FUNCTION", f, "")

CharAt(s, i) == SubSeq(s, i, i)

\* The characters from nine before "0" to "9", and what '0' + d is for d from -9 to 9
Characters == "'()*+,-./0123456789"
Character(d) == CharAt(Characters, d + 10)

\* The decimal value of a character, or -1
Digit(c) ==
    IF \E d \in 0 .. 9 : Character(d) = c THEN CHOOSE d \in 0 .. 9 : Character(d) = c ELSE -1

\* mutant: what is not a digit is passed over
DigitsWithGaps(s, i) ==
    FoldLeft(LAMBDA val, k : IF Digit(CharAt(s, k)) < 0
                             THEN val
                             ELSE Wrap(10 * val + Digit(CharAt(s, k))),
             0, [k \in 1 .. Len(s) - i + 1 |-> k + i - 1])

\* The digits from position i to the first character that is not one
DigitsToNumber(s, i) ==
    LET step(acc, k) ==
          IF acc.stopped \/ Digit(CharAt(s, k)) < 0
          THEN [acc EXCEPT !.stopped = TRUE]
          ELSE [acc EXCEPT !.val = Wrap(10 * @ + Digit(CharAt(s, k)))]
    IN  FoldLeft(step, [val |-> 0, stopped |-> FALSE], [k \in 1 .. Len(s) - i + 1 |-> k + i - 1]).val

\* The first character is read from an array that may be empty: then it is anything.
FirstCharacters(s) == IF s = "" THEN {"-", "+", "0"} ELSE {CharAt(s, 1)}

SignedNumber(s, first) ==
    CASE first = "-" -> Wrap(-DigitsToNumber(s, 2))
      [] first = "+" -> DigitsToNumber(s, 2)
      [] OTHER       -> DigitsToNumber(s, 1)

StringToNumber(s) == SignedNumber(s, CHOOSE c \in FirstCharacters(s) : TRUE)

ToBoolean(v) ==
    CASE v.tag = "BOXED_BOOL"      -> v.n = 1
      [] v.tag = "BOXED_UNDEFINED" -> FALSE
      [] v.tag = "BOXED_INT"       -> v.n # 0
      [] v.tag = "STRING"          -> v.s # ""
      [] OTHER                     -> TRUE

ToNumber(v) ==
    CASE v.tag \in {"BOXED_INT", "BOXED_BOOL"} -> v.n
      [] v.tag = "STRING"                      -> StringToNumber(v.s)
      [] OTHER                                 -> 0

\* The digits of a number are counted in a magnitude that is negative again for the
\* least one, and then written into an array from the last to the first.
DigitCount(val) == IF val = 0 THEN 1 ELSE Cardinality({k \in 0 .. WordBits \div 3 : Quotient(val, 10^k) # 0})

\* mutant: the sign is not counted
TextWithoutRoom(n) ==
    LET val == IF n < 0 THEN Wrap(-n) ELSE n
        len == DigitCount(val)
        chars == [i \in 1 .. len |->
                    IF i = 1 /\ n < 0 THEN "-"
                                     ELSE Character(Remainder(Quotient(val, 10^(len - i)), 10))]
    IN  FoldLeft(LAMBDA text, c : text \o c, "", chars)

NumberToText(n) ==
    LET val == IF n < 0 THEN Wrap(-n) ELSE n
        len == DigitCount(val) + (IF n < 0 THEN 1 ELSE 0)
        chars == [i \in 1 .. len |->
                    IF i = 1 /\ n < 0 THEN "-"
                                     ELSE Character(Remainder(Quotient(val, 10^(len - i)), 10))]
    IN  FoldLeft(LAMBDA text, c : text \o c, "", chars)

ToText(v) ==
    CASE v.tag = "STRING"          -> v.s
      [] v.tag = "BOXED_UNDEFINED" -> "undefined"
      [] v.tag = "BOXED_BOOL"      -> IF v.n = 1 THEN "true" ELSE "false"
      [] v.tag = "BOXED_INT"       -> NumberToText(v.n)
      [] v.tag = "OBJECT"          -> "[object Object]"
      [] v.tag = "FUNCTION"        -> "[function]"

TypeOf(v) ==
    CASE v.tag = "BOXED_UNDEFINED" -> "undefined"
      [] v.tag = "BOXED_BOOL"      -> "boolean"
      [] v.tag = "BOXED_INT"       -> "number"
      [] v.tag = "STRING"          -> "string"
      [] v.tag = "OBJECT"          -> "object"
      [] v.tag = "FUNCTION"        -> "function"

IsNumber(v) == v.tag = "BOXED_INT"
IsObject(v) == v.tag \in {"OBJECT", "FUNCTION"}

\* sdyn_add: only two numbers are added as numbers
Add(l, r) ==
    IF IsNumber(l) /\ IsNumber(r) THEN BoxInt(Wrap(l.n + r.n))
                                  ELSE BoxString(ToText(l) \o ToText(r))

SameType(l, r) == l.tag = r.tag \/ (IsObject(l) /\ IsObject(r))

\* mutant: a number and a string are compared as strings
ConvertedToTexts(l, r) ==
    CASE l.tag = "BOXED_BOOL"                          -> <<BoxInt(ToNumber(l)), r>>
      [] l.tag # "BOXED_BOOL" /\ r.tag = "BOXED_BOOL" -> <<l, BoxInt(ToNumber(r))>>
      [] {l.tag, r.tag} \subseteq {"BOXED_INT", "STRING", "OBJECT", "FUNCTION"} ->
           <<BoxString(ToText(l)), BoxString(ToText(r))>>
      [] OTHER -> <<l, r>>

\* Two values of different types, with one of them made a number or both made strings;
\* there is no conversion for undefined and a number or a string.
Converted(l, r) ==
    CASE l.tag = "BOXED_BOOL"                          -> <<BoxInt(ToNumber(l)), r>>
      [] l.tag # "BOXED_BOOL" /\ r.tag = "BOXED_BOOL" -> <<l, BoxInt(ToNumber(r))>>
      [] "BOXED_BOOL" \notin {l.tag, r.tag} /\ (IsObject(l) \/ IsObject(r)) ->
           <<BoxString(ToText(l)), BoxString(ToText(r))>>
      [] IsNumber(l) /\ r.tag = "STRING" -> <<l, BoxInt(ToNumber(r))>>
      [] l.tag = "STRING" /\ IsNumber(r) -> <<BoxInt(ToNumber(l)), r>>
      [] OTHER -> <<l, r>>

Convert(pair) == IF SameType(pair[1], pair[2]) THEN pair ELSE Converted(pair[1], pair[2])

\* sdyn_equal: convert, and start over.  A boolean becomes a number, which may have to be
\* compared with what is no number; then there is nothing left to convert.
Equal(l, r) ==
    LET pair == Convert(Convert(<<l, r>>))
    IN  SameType(pair[1], pair[2]) /\ pair[1] = pair[2]

\* IDIV divides a double word, of which the code clears the upper half
\* instead of extending the sign of the dividend into it.  It faults if the quotient is no word.
DoubleWord(n) == n % (2^WordBits)

DivisionFaults(a, b) == IF b = 0 THEN TRUE ELSE Quotient(DoubleWord(a), b) \notin Words

\* mutant: the two results of IDIV are taken for each other
DivideSwapped(op, a, b) ==
    IF op = "MOD" THEN Quotient(DoubleWord(a), b) ELSE Remainder(DoubleWord(a), b)

\* The quotient is in RAX, the remainder in RDX.
Divide(op, a, b) ==
    IF op = "DIV" THEN Quotient(DoubleWord(a), b) ELSE Remainder(DoubleWord(a), b)

\* The operators on two values
Operate(op, l, r) ==
    CASE op = "ADD" -> Add(l, r)
      [] op = "SUB" -> BoxInt(Wrap(ToNumber(l) - ToNumber(r)))
      [] op = "MUL" -> BoxInt(Wrap(ToNumber(l) * ToNumber(r)))
      [] op \in {"DIV", "MOD"} -> BoxInt(Divide(op, ToNumber(l), ToNumber(r)))
      [] op = "EQ"  -> BoxBool(Equal(l, r))
      [] op = "NE"  -> BoxBool(~Equal(l, r))
      [] op = "LT"  -> BoxBool(ToNumber(l) < ToNumber(r))
      [] op = "GT"  -> BoxBool(ToNumber(l) > ToNumber(r))
      [] op = "LE"  -> BoxBool(ToNumber(l) <= ToNumber(r))
      [] op = "GE"  -> BoxBool(ToNumber(l) >= ToNumber(r))
==============================================================================
