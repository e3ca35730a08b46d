---------------------------- MODULE ArithmeticProofs --------------------------
(***************************************************************************)
(* Proofs about Arithmetic: division and equality, for words of any size   *)
(* and all values.  Of powers of two only PowerAssumption is used.         *)
(***************************************************************************)
EXTENDS Arithmetic, TLAPS

\* Of a dividend, the multiple of the divisor leaves less than the divisor.
LEMMA DivisionFacts ==
    ASSUME NEW n \in Nat, NEW d \in Nat \ {0}
    PROVE  /\ n \div d \in 0 .. n
           /\ n - d * (n \div d) \in 0 .. d - 1
OBVIOUS

\* A word that is not negative is the same double word, with and without its sign.
LEMMA DoubleWordFacts ==
    ASSUME NEW a \in Words, a >= 0
    PROVE  a \in Nat /\ a < 2^WordBits /\ DoubleWord(a) = a /\ Magnitude(a) = a /\ (\A k \in 0 .. a : k \in Words /\ -k \in Words)
<1> DEFINE half == 2^(WordBits - 1)
<1>1. half \in Nat \ {0} /\ 2^WordBits = 2 * half
  BY PowerAssumption
<1>2. Words = -half .. half - 1
  BY DEF Words
<1> HIDE DEF half
<1>3. a \in Nat /\ a < half
  BY <1>1, <1>2
<1>4. a % (2 * half) = a
  BY <1>1, <1>3
<1>5. \A k \in 0 .. a : k \in Words /\ -k \in Words
  BY <1>1, <1>2, <1>3
<1> QED BY <1>1, <1>3, <1>4, <1>5 DEF DoubleWord, Magnitude

\* What IDIV does to a dividend that is not negative
LEMMA QuotientFacts ==
    ASSUME NEW a \in Words, a >= 0, NEW b \in Words, b # 0
    PROVE  /\ Quotient(DoubleWord(a), b) \in Words
           /\ Remainder(DoubleWord(a), b) \in 0 .. Magnitude(b) - 1
           /\ a = b * Quotient(DoubleWord(a), b) + Remainder(DoubleWord(a), b)
<1> DEFINE q == Quotient(a, b)
           m == a \div Magnitude(b)
<1>1. a \in Nat /\ DoubleWord(a) = a /\ Magnitude(a) = a /\ (\A k \in 0 .. a : k \in Words /\ -k \in Words)
  BY DoubleWordFacts
<1>2. b \in Int
  BY PowerAssumption DEF Words
<1>3. Magnitude(b) \in Nat \ {0} /\ (b > 0 => Magnitude(b) = b) /\ (b < 0 => Magnitude(b) = -b)
  BY <1>2 DEF Magnitude
<1>4. m \in 0 .. a /\ a - Magnitude(b) * m \in 0 .. Magnitude(b) - 1
  BY <1>1, <1>3, DivisionFacts
<1>5. q = IF b > 0 THEN m ELSE -m
  BY <1>1, <1>2 DEF Quotient
<1> HIDE DEF q, m
<1>6. q \in Words /\ q \in Int
  BY <1>1, <1>4, <1>5
<1>7. b * q = Magnitude(b) * m
  BY <1>2, <1>3, <1>4, <1>5
<1>8. Remainder(a, b) = a - Magnitude(b) * m
  BY <1>7 DEF Remainder, q
<1>9. a = b * q + Remainder(a, b)
  BY <1>1, <1>2, <1>6, <1>7, <1>8
<1> QED BY <1>1, <1>4, <1>6, <1>8, <1>9 DEF q
------------------------------------------------------------------------------
\* What equality looks at in a value
Tagged(v) ==
    /\ v.tag \in {"BOXED_UNDEFINED", "BOXED_BOOL", "BOXED_INT", "STRING", "OBJECT", "FUNCTION"}
    /\ v.tag = "BOXED_UNDEFINED" => v = Undefined /\ ES5Type(v) = "undefined"
    /\ v.tag = "BOXED_BOOL" => ES5Type(v) = "boolean"
    /\ v.tag = "BOXED_INT" => v = BoxInt(v.n) /\ ES5Type(v) = "number"
    /\ v.tag = "STRING" => v = BoxString(v.s) /\ ES5Type(v) = "string"
    /\ IsObject(v) <=> v.tag \in {"OBJECT", "FUNCTION"}
    /\ IsObject(v) => ES5Type(v) = "object"

LEMMA ValuesAreTagged ==
    ASSUME NEW v, IsOfItsTag(v)
    PROVE  Tagged(v)
<1> DEFINE Facts == /\ v.tag \in {"BOXED_UNDEFINED", "BOXED_BOOL", "BOXED_INT", "STRING", "OBJECT", "FUNCTION"}
                    /\ v.tag = "BOXED_UNDEFINED" => v = Undefined
                    /\ v.tag = "BOXED_INT" => v = BoxInt(v.n)
                    /\ v.tag = "STRING" => v = BoxString(v.s)
<1>1. ASSUME NEW n, v = BoxInt(n) PROVE Facts
  <2>1. v.tag = "BOXED_INT" /\ v.n = n /\ v.s = ""
    BY <1>1 DEF BoxInt, Value
  <2> QED BY <1>1, <2>1 DEF BoxInt
<1>2. ASSUME NEW s, v = BoxString(s) PROVE Facts
  <2>1. v.tag = "STRING" /\ v.n = 0 /\ v.s = s
    BY <1>2 DEF BoxString, Value
  <2> QED BY <1>2, <2>1 DEF BoxString
<1>4. ASSUME v = Undefined PROVE Facts
  <2>1. v.tag = "BOXED_UNDEFINED" /\ v.n = 0 /\ v.s = ""
    BY <1>4 DEF Undefined, Value
  <2> QED BY <1>4, <2>1 DEF Undefined
<1>5. ASSUME NEW b \in BOOLEAN, v = BoxBool(b) PROVE Facts
  <2> DEFINE n == IF b THEN 1 ELSE 0
  <2>1. v = Value("BOXED_BOOL", n, "")
    BY <1>5 DEF BoxBool
  <2> HIDE DEF n
  <2>2. v.tag = "BOXED_BOOL" /\ v.n = n /\ v.s = ""
    BY <2>1 DEF Value
  <2> QED BY <2>1, <2>2
<1>6. ASSUME NEW n, v = BoxObject(n) \/ v = BoxFunc(n) PROVE Facts
  <2>1. PICK t \in {"OBJECT", "FUNCTION"} : v = Value(t, n, "")
    BY <1>6 DEF BoxObject, BoxFunc
  <2>2. v.tag = t /\ v.n = n /\ v.s = ""
    BY <2>1 DEF Value
  <2> QED BY <2>1, <2>2
<1>7. Facts
  <2> HIDE DEF Facts
  <2> QED BY <1>1, <1>2, <1>4, <1>5, <1>6 DEF IsOfItsTag
<1>3. /\ v.tag = "BOXED_UNDEFINED" => ES5Type(v) = "undefined"
      /\ v.tag = "BOXED_BOOL" => ES5Type(v) = "boolean"
      /\ v.tag = "BOXED_INT" => ES5Type(v) = "number"
      /\ v.tag = "STRING" => ES5Type(v) = "string"
      /\ IsObject(v) => ES5Type(v) = "object"
  BY DEF ES5Type, TypeOf, IsObject
<1> QED BY <1>3, <1>7 DEF IsObject, Tagged

LEMMA BoxedFacts ==
    /\ \A n : Tagged(BoxInt(n)) /\ BoxInt(n).tag = "BOXED_INT" /\ BoxInt(n).n = n
    /\ \A s : Tagged(BoxString(s)) /\ BoxString(s).tag = "STRING" /\ BoxString(s).s = s
    /\ \A n, m : BoxInt(n) = BoxInt(m) <=> n = m
    /\ \A s, t : BoxString(s) = BoxString(t) <=> s = t
<1>1. \A n : /\ BoxInt(n).tag = "BOXED_INT" /\ BoxInt(n).n = n
             /\ ES5Type(BoxInt(n)) = "number" /\ ~IsObject(BoxInt(n))
  BY DEF BoxInt, Value, ES5Type, TypeOf, IsObject
<1>2. \A s : /\ BoxString(s).tag = "STRING" /\ BoxString(s).s = s
             /\ ES5Type(BoxString(s)) = "string" /\ ~IsObject(BoxString(s))
  BY DEF BoxString, Value, ES5Type, TypeOf, IsObject
<1>3. \A n, m : BoxInt(n) = BoxInt(m) <=> n = m
  BY <1>1
<1>4. \A s, t : BoxString(s) = BoxString(t) <=> s = t
  BY <1>2
<1> QED BY <1>1, <1>2, <1>3, <1>4 DEF Tagged

\* Both ways to tell types from each other are one.
LEMMA SameTypes ==
    ASSUME NEW x, NEW y, Tagged(x), Tagged(y)
    PROVE  SameType(x, y) <=> ES5Type(x) = ES5Type(y)
BY DEF Tagged, SameType

\* A boolean is converted before anything else is.
LEMMA BooleanFirst ==
    ASSUME NEW x, NEW y
    PROVE  /\ x.tag = "BOXED_BOOL" /\ y.tag # "BOXED_BOOL" => Converted(x, y) = <<BoxInt(ToNumber(x)), y>>
           /\ x.tag # "BOXED_BOOL" /\ y.tag = "BOXED_BOOL" => Converted(x, y) = <<x, BoxInt(ToNumber(y))>>
BY DEF Converted, IsNumber

\* Once no boolean is left, one conversion is enough, and decides as ES5 does.
LEMMA OneConversion ==
    ASSUME NEW x, NEW y, Tagged(x), Tagged(y), x.tag # "BOXED_BOOL", y.tag # "BOXED_BOOL",
           NEW pair, pair = Convert(<<x, y>>)
    PROVE  /\ Convert(pair) = pair
           /\ SameType(pair[1], pair[2]) /\ pair[1] = pair[2] <=> ES5Unlike(x, y)
<1>1. CASE SameType(x, y)
  <2>1. pair = <<x, y>>
    BY <1>1 DEF Convert
  <2> QED BY <1>1, <2>1, SameTypes DEF Convert, ES5Unlike
<1>2. CASE ~SameType(x, y) /\ (IsObject(x) \/ IsObject(y))
  <2>0. pair = Converted(x, y)
    BY <1>2 DEF Convert
  <2>1. pair = <<BoxString(ToText(x)), BoxString(ToText(y))>>
    <3>1. ~(IsNumber(x) /\ y.tag = "STRING") /\ ~(IsNumber(y) /\ x.tag = "STRING")
      BY <1>2 DEF IsNumber, IsObject
    <3>2. "BOXED_BOOL" \notin {x.tag, y.tag}
      OBVIOUS
    <3> QED BY <1>2, <2>0, <3>1, <3>2 DEF Converted
  <2>2. SameType(pair[1], pair[2]) /\ (pair[1] = pair[2] <=> ToText(x) = ToText(y))
    BY <2>1, BoxedFacts DEF SameType
  <2>3. Convert(pair) = pair
    BY <2>1, <2>2 DEF Convert
  <2>4. CASE x.tag = "BOXED_UNDEFINED" \/ y.tag = "BOXED_UNDEFINED"
    <3>1. ToText(x) # ToText(y)
      BY <1>2, <2>4 DEF ToText, Tagged
    <3>2. ~ES5Unlike(x, y)
      BY <1>2, <2>4 DEF ES5Unlike, Tagged
    <3> QED BY <2>2, <2>3, <3>1, <3>2
  <2>5. CASE x.tag # "BOXED_UNDEFINED" /\ y.tag # "BOXED_UNDEFINED"
    <3>1. ES5Unlike(x, y) = (ToText(x) = ToText(y))
      BY <1>2, <2>5, SameTypes DEF ES5Unlike, Tagged
    <3> QED BY <2>2, <2>3, <3>1
  <2> QED BY <2>4, <2>5
<1>3. CASE x.tag = "BOXED_INT" /\ y.tag = "STRING"
  <2>1. pair = <<x, BoxInt(ToNumber(y))>>
    BY <1>3 DEF Convert, Converted, SameType, IsObject, IsNumber
  <2>2. SameType(pair[1], pair[2]) /\ (pair[1] = pair[2] <=> x.n = ToNumber(y))
    BY <1>3, <2>1, BoxedFacts DEF SameType, Tagged
  <2>3. Convert(pair) = pair
    BY <2>1, <2>2 DEF Convert
  <2>4. ES5Unlike(x, y) = (x.n = ToNumber(y))
    BY <1>3 DEF ES5Unlike, Tagged
  <2> QED BY <2>2, <2>3, <2>4
<1>4. CASE x.tag = "STRING" /\ y.tag = "BOXED_INT"
  <2>1. pair = <<BoxInt(ToNumber(x)), y>>
    BY <1>4 DEF Convert, Converted, SameType, IsObject, IsNumber
  <2>2. SameType(pair[1], pair[2]) /\ (pair[1] = pair[2] <=> ToNumber(x) = y.n)
    BY <1>4, <2>1, BoxedFacts DEF SameType, Tagged
  <2>3. Convert(pair) = pair
    BY <2>1, <2>2 DEF Convert
  <2>4. ES5Unlike(x, y) = (ToNumber(x) = y.n)
    BY <1>4 DEF ES5Unlike, Tagged
  <2> QED BY <2>2, <2>3, <2>4
<1>5. CASE /\ ~SameType(x, y) /\ ~IsObject(x) /\ ~IsObject(y)
           /\ x.tag = "BOXED_UNDEFINED" \/ y.tag = "BOXED_UNDEFINED"
  <2>1. pair = <<x, y>>
    BY <1>5 DEF Convert, Converted, IsNumber
  <2>2. ~ES5Unlike(x, y)
    BY <1>5 DEF ES5Unlike, Tagged, SameType
  <2> QED BY <1>5, <2>1, <2>2 DEF Convert
<1> QED BY <1>1, <1>2, <1>3, <1>4, <1>5 DEF Tagged, SameType, IsObject

\* So equality of two values without booleans is that of ES5, and starting over does not matter.
LEMMA EqualIsUnlike ==
    ASSUME NEW x, NEW y, Tagged(x), Tagged(y), x.tag # "BOXED_BOOL", y.tag # "BOXED_BOOL",
           NEW pair, Convert(pair) = Convert(<<x, y>>) \/ pair = Convert(<<x, y>>)
    PROVE  LET last == Convert(pair)
           IN  (SameType(last[1], last[2]) /\ last[1] = last[2]) = ES5Unlike(x, y)
<1> DEFINE last == Convert(<<x, y>>)
<1>1. Convert(last) = last /\ (SameType(last[1], last[2]) /\ last[1] = last[2] <=> ES5Unlike(x, y))
  BY OneConversion
<1>2. ES5Unlike(x, y) \in BOOLEAN
  BY DEF ES5Unlike
<1>3. Convert(pair) = last
  BY <1>1
<1> HIDE DEF last
<1> QED BY <1>1, <1>2, <1>3 DEF SameType

LEMMA EqualIsES5 ==
    ASSUME NEW x, NEW y, IsOfItsTag(x), IsOfItsTag(y)
    PROVE  Equal(x, y) = ES5Equal(x, y)
<1> DEFINE number(v) == IF ES5Type(v) = "boolean" THEN BoxInt(ToNumber(v)) ELSE v
<1>1. Tagged(x) /\ Tagged(y)
  BY ValuesAreTagged
<1>2. CASE SameType(x, y)
  <2>1. Convert(<<x, y>>) = <<x, y>>
    BY <1>2 DEF Convert
  <2>2. Equal(x, y) = (x = y)
    BY <1>2, <2>1 DEF Equal
  <2> QED BY <1>1, <1>2, <2>2, SameTypes DEF ES5Equal
<1>3. CASE ~SameType(x, y) /\ x.tag # "BOXED_BOOL" /\ y.tag # "BOXED_BOOL"
  <2>1. ES5Equal(x, y) = ES5Unlike(x, y)
    BY <1>1, <1>3, SameTypes DEF ES5Equal, Tagged
  <2>2. Equal(x, y) = ES5Unlike(x, y)
    BY <1>1, <1>3, EqualIsUnlike DEF Equal
  <2> QED BY <2>1, <2>2
<1>4. CASE ~SameType(x, y) /\ (x.tag = "BOXED_BOOL" \/ y.tag = "BOXED_BOOL")
  <2>1. /\ x.tag = "BOXED_BOOL" <=> ES5Type(x) = "boolean"
        /\ y.tag = "BOXED_BOOL" <=> ES5Type(y) = "boolean"
    BY <1>1 DEF Tagged
  <2>2. Convert(<<x, y>>) = <<number(x), number(y)>>
    <3>1. Convert(<<x, y>>) = Converted(x, y)
      BY <1>4 DEF Convert
    <3>2. CASE x.tag = "BOXED_BOOL"
      <4>1. number(y) = y
        BY <1>4, <2>1, <3>2 DEF SameType
      <4>2. number(x) = BoxInt(ToNumber(x))
        BY <2>1, <3>2
      <4>3. Converted(x, y) = <<BoxInt(ToNumber(x)), y>>
        BY <1>4, <3>2, BooleanFirst DEF SameType
      <4> QED BY <3>1, <4>1, <4>2, <4>3
    <3>3. CASE x.tag # "BOXED_BOOL"
      <4>1. number(x) = x
        BY <2>1, <3>3
      <4>2. number(y) = BoxInt(ToNumber(y))
        BY <1>4, <2>1, <3>3
      <4>3. Converted(x, y) = <<x, BoxInt(ToNumber(y))>>
        BY <1>4, <3>3, BooleanFirst
      <4> QED BY <3>1, <4>1, <4>2, <4>3
    <3> QED BY <3>2, <3>3
  <2>3. /\ Tagged(number(x)) /\ number(x).tag # "BOXED_BOOL"
        /\ Tagged(number(y)) /\ number(y).tag # "BOXED_BOOL"
    BY <1>1, <2>1, BoxedFacts
  <2>4. ES5Equal(x, y) = ES5Unlike(number(x), number(y))
    BY <1>1, <1>4, SameTypes DEF ES5Equal
  <2> HIDE DEF number
  <2>5. Equal(x, y) = ES5Unlike(number(x), number(y))
    BY <2>2, <2>3, EqualIsUnlike DEF Equal
  <2> QED BY <2>4, <2>5
<1> QED BY <1>2, <1>3, <1>4
------------------------------------------------------------------------------
ArithmeticInv ==
    /\ request \in Requests
    /\ DivisionTruncates
    /\ EqualityIsES5

LEMMA RequestFacts ==
    ASSUME request \in Requests
    PROVE  /\ request.op \in {"DIV", "MOD"} => request.left \in Words /\ request.right \in Words
           /\ request.op = "EQ" => IsOfItsTag(request.left) /\ IsOfItsTag(request.right)
BY OperandsAssumption DEF Requests, Asks

LEMMA ArithmeticInitInv == ArithmeticInit => ArithmeticInv
BY DEF ArithmeticInit, ArithmeticInv, DivisionTruncates, EqualityIsES5, Answered, Waiting

LEMMA DivideWordsInv ==
    ASSUME ArithmeticInv, DivideWords
    PROVE  ArithmeticInv'
<1> DEFINE a == request.left
           b == request.right
           q == Quotient(DoubleWord(a), b)
           r == Remainder(DoubleWord(a), b)
<1>1. request' = request /\ request \in Requests /\ request.op \in {"DIV", "MOD"}
  BY DEF DivideWords, Answers, ArithmeticInv
<1>2. a \in Words /\ b \in Words
  BY <1>1, RequestFacts
<1>3. ASSUME a >= 0, b # 0
      PROVE  /\ q \in Words /\ r \in 0 .. Magnitude(b) - 1 /\ a = b * q + r
             /\ answer' = Result(IF request.op = "DIV" THEN q ELSE r)
  <2>1. q \in Words /\ r \in 0 .. Magnitude(b) - 1 /\ a = b * q + r
    BY <1>2, <1>3, QuotientFacts
  <2>2. ~DivisionFaults(a, b)
    BY <1>3, <2>1 DEF DivisionFaults
  <2> QED BY <2>1, <2>2 DEF DivideWords, Divide
<1> HIDE DEF q, r
<1>4. DivisionTruncates'
  <2>1. ASSUME request.op = "DIV", a >= 0, b # 0
        PROVE  answer'.status = "result" /\ \E k \in 0 .. Magnitude(b) - 1 : a = b * answer'.value + k
    <3>1. answer'.status = "result" /\ answer'.value = q
      BY <1>3, <2>1 DEF Result
    <3> QED BY <1>3, <2>1, <3>1
  <2>2. ASSUME request.op = "MOD", a >= 0, b # 0
        PROVE  \E k \in 0 .. Magnitude(b) - 1 : answer' = Result(k) /\ \E m \in Words : a = b * m + k
    BY <1>3, <2>2
  <2> QED BY <1>1, <2>1, <2>2 DEF DivisionTruncates, Answered, Gives
<1>5. EqualityIsES5'
  BY <1>1 DEF EqualityIsES5, Answered
<1> QED BY <1>1, <1>4, <1>5 DEF ArithmeticInv

LEMMA CompareValuesInv ==
    ASSUME ArithmeticInv, CompareValues
    PROVE  ArithmeticInv'
<1>1. /\ request' = request /\ request \in Requests /\ request.op = "EQ"
      /\ answer' = Result(Equal(request.left, request.right))
  BY DEF CompareValues, Answers, ArithmeticInv
<1>2. EqualityIsES5'
  BY <1>1, RequestFacts, EqualIsES5 DEF EqualityIsES5, Gives
<1>3. DivisionTruncates'
  BY <1>1 DEF DivisionTruncates, Answered
<1> QED BY <1>1, <1>2, <1>3 DEF ArithmeticInv

LEMMA ArithmeticNextInv ==
    ASSUME ArithmeticInv, [ArithmeticNext]_arithmeticVars
    PROVE  ArithmeticInv'
<1>1. CASE NumberBecomesText \/ TextBecomesNumber \/ LoadImmediate
  <2>1. request' = request /\ request.op \in {"toString", "toNumber", "IMM64"}
    BY <1>1 DEF NumberBecomesText, TextBecomesNumber, LoadImmediate, Answers
  <2> QED BY <2>1 DEF ArithmeticInv, DivisionTruncates, EqualityIsES5, Answered
<1>2. CASE UNCHANGED arithmeticVars
  BY <1>2 DEF arithmeticVars, ArithmeticInv, DivisionTruncates, EqualityIsES5, Answered, Gives
<1> QED BY <1>1, <1>2, DivideWordsInv, CompareValuesInv DEF ArithmeticNext

\* The requests stay what they are, and the answers are right.
THEOREM ArithmeticInvariant == ArithmeticSpec => []ArithmeticInv
<1>1. ArithmeticInv /\ [ArithmeticNext]_arithmeticVars => ArithmeticInv'
  BY ArithmeticNextInv
<1> QED BY <1>1, ArithmeticInitInv, PTL DEF ArithmeticSpec

\* Clearing RDX before IDIV does no harm to a dividend that is not negative: the quotient
\* is truncated, the remainder is what is missing, and there is no fault, for words of any size.
THEOREM AlwaysDivisionTruncates == ArithmeticSpec => []DivisionTruncates
<1>1. ArithmeticInv => DivisionTruncates
  BY DEF ArithmeticInv
<1> QED BY <1>1, ArithmeticInvariant, PTL

\* sdyn_equal converts in an order of its own and starts over; for any two values its answer
\* is that of the definition in its comment.
THEOREM AlwaysEqualityIsES5 == ArithmeticSpec => []EqualityIsES5
<1>1. ArithmeticInv => EqualityIsES5
  BY DEF ArithmeticInv
<1> QED BY <1>1, ArithmeticInvariant, PTL
==============================================================================
