--------------------------- MODULE ValueLawProofs ---------------------------
(***************************************************************************)
(* Theorems about ValueLaws: what the binary operators owe to each other   *)
(* holds for integers of every width, and for all strings, floats and      *)
(* times that are ordered.                                                 *)
(***************************************************************************)
EXTENDS ValueLaws, Lemmas

(* What is known of an operand, a value of one of the types. *)
LEMMA OperandIs ==
    ASSUME NEW v \in Value
    PROVE  /\ v.type \in Type \cup {"Null"} /\ v # Panic
           /\ v.type = "Null" <=> v = Null
           /\ v.type = "Boolean" => v = BooleanValue(v.val) /\ v.val \in BOOLEAN
           /\ v.type = "Integer" => v = IntegerValue(v.val) /\ v.val \in IntRange
           /\ v.type = "Number" => v.val \in Number
           /\ v.type = "String" => v.val \in String
           /\ toNumber(v) # Panic => toNumber(v).val \in Number
           /\ toInteger(v) # Panic => toInteger(v).val \in IntRange
           /\ toTimestamp(v) # Panic => Instant(toTimestamp(v).val) \in Int
<1>1. /\ \/ v = Null
         \/ v = BooleanValue(v.val) /\ v.val \in BOOLEAN
         \/ v \in {IntegerValue(v.val), NumberValue(v.val), StringValue(v.val),
                   TimestampValue(v.val)}
      /\ toInteger(v) # Panic => toInteger(v).val \in IntRange
      /\ toTimestamp(v) # Panic => Instant(toTimestamp(v).val) \in Int
  BY OperandsAreValues
<1>2. /\ v.type \in Type \cup {"Null"} /\ v # Panic
      /\ v.type = "Null" <=> v = Null
      /\ v.type = "Boolean" => v = BooleanValue(v.val) /\ v.val \in BOOLEAN
      /\ v.type = "Integer" => v = IntegerValue(v.val)
  BY <1>1 DEF Null, Panic, Type, BooleanValue, IntegerValue, NumberValue,
              StringValue, TimestampValue
<1>3. v.type = "Integer" => v.val \in IntRange
  BY <1>1, <1>2 DEF toInteger
<1>4. toNumber(v) # Panic => toNumber(v).val \in Number
  BY DEF Number
<1>5. v.type = "Number" => v.val \in Number
  BY <1>2, <1>4 DEF toNumber
<1>6. v.type = "String" => v.val \in String
  BY DEF String
<1> QED
  BY <1>1, <1>2, <1>3, <1>4, <1>5, <1>6

-----------------------------------------------------------------------------
(* Integers *)

(* Integers are computed with as integers. *)
LEMMA IntegerArithmetic ==
    ASSUME NEW x, NEW y, NEW op \in ArithmeticOps
    PROVE  /\ arithmeticOp(op, IntegerValue(x), IntegerValue(y)) = arithOpInt(op, x, y)
           /\ binaryOp(op, IntegerValue(x), IntegerValue(y)) = arithOpInt(op, x, y)
<1> DEFINE l == IntegerValue(x)
           r == IntegerValue(y)
<1>1. l.type = "Integer" /\ r.type = "Integer" /\ l.val = x /\ r.val = y
  BY DEF IntegerValue
<1>2. l # Panic /\ r # Panic
  BY <1>1 DEF Panic
<1>3. toInteger(l) = l /\ toInteger(r) = r
  BY <1>1 DEF toInteger
<1> HIDE DEF l, r
<1>4. {l.type, r.type} = {"Integer"}
  BY <1>1
<1>5. arithmeticOp(op, l, r) = arithOpInt(op, x, y)
  BY <1>1, <1>2, <1>3, <1>4 DEF arithmeticOp
<1>6. op \notin {"AND", "OR", "||"} /\ op \notin ComparisonOps
  BY DEF ArithmeticOps, ComparisonOps
<1>7. binaryOp(op, l, r) = arithmeticOp(op, l, r)
  BY <1>2, <1>6 DEF binaryOp
<1> QED
  BY <1>5, <1>7 DEF l, r

(* The division of two integers leaves a remainder, although the quotient, *)
(* the product and the difference wrap around.                             *)
LEMMA RemainderIs ==
    ASSUME NEW x \in IntRange, NEW y \in IntRange, y # 0
    PROVE  LET q == Wrap(Quotient(x, y))
               r == Wrap(x - Wrap(q * y))
           IN  Magnitude(r) < Magnitude(y) /\ r * x >= 0
<1>1. x \in Int /\ y \in Int
  BY IntsAreBounded
<1>2. /\ MinInt \in Int /\ MinInt <= x /\ MinInt <= y
      /\ x <= -MinInt - 1 /\ y <= -MinInt - 1
  BY IntsAreBounded DEF IntRange
<1> DEFINE e == Quotient(x, y)
           q == Wrap(e)
           r == Wrap(x - Wrap(q * y))
<1>3. e \in Int
  BY <1>1, QuotientIs
<1>4. PICK d \in Int : /\ x = e * y + d
                       /\ (-y < d /\ d < y) \/ (y < d /\ d < -y)
                       /\ x >= 0 => d >= 0
                       /\ x <= 0 => d <= 0
  BY <1>1, QuotientIs
<1> HIDE DEF e
<1>5. Wrap(q * y) = Wrap(e * y)
  BY <1>1, <1>3, WrapInProduct
<1>6. e * y \in Int /\ x - e * y = d
  BY <1>1, <1>3, <1>4
<1>7. r = Wrap(d)
  BY <1>1, <1>5, <1>6, WrapInSum
<1>8. d \in IntRange
  BY <1>1, <1>2, <1>4, IntsAreBounded DEF IntRange
<1>9. r = d
  BY <1>7, <1>8, WrapInRange
<1>10. Magnitude(d) < Magnitude(y)
  BY <1>1, <1>4 DEF Magnitude
<1>11. d * x >= 0
  BY <1>1, <1>4
<1> HIDE DEF r
<1>12. Magnitude(r) < Magnitude(y) /\ r * x >= 0
  BY <1>9, <1>10, <1>11
<1> QED
  BY <1>12 DEF r, e

(* The laws of integer arithmetic, for one pair of integers. *)
LEMMA IntegerLaws ==
    ASSUME NEW x \in IntRange, NEW y \in IntRange
    PROVE  LET on(op) == binaryOp(op, IntegerValue(x), IntegerValue(y))
               q == on("/").val
               r == Wrap(x - Wrap(q * y))
           IN  /\ arithmeticOp("-", on("+"), IntegerValue(y)) = IntegerValue(x)
               /\ arithmeticOp("+", on("-"), IntegerValue(y)) = IntegerValue(x)
               /\ x + y \in IntRange => on("+") = IntegerValue(x + y)
               /\ x - y \in IntRange => on("-") = IntegerValue(x - y)
               /\ x * y \in IntRange => on("*") = IntegerValue(x * y)
               /\ on("/") = Panic <=> y = 0
               /\ y # 0 => Magnitude(r) < Magnitude(y) /\ r * x >= 0
<1>1. x \in Int /\ y \in Int
  BY IntsAreBounded
<1> DEFINE on(op) == binaryOp(op, IntegerValue(x), IntegerValue(y))
<1>2. /\ on("+") = IntegerValue(Wrap(x + y))
      /\ on("-") = IntegerValue(Wrap(x - y))
      /\ on("*") = IntegerValue(Wrap(x * y))
      /\ on("/") = IF y # 0 THEN IntegerValue(Wrap(Quotient(x, y))) ELSE Panic
  BY IntegerArithmetic DEF arithOpInt, ArithmeticOps
<1> HIDE DEF on
<1>3. arithmeticOp("-", on("+"), IntegerValue(y)) = IntegerValue(x)
  <2>1. arithmeticOp("-", on("+"), IntegerValue(y)) =
            IntegerValue(Wrap(Wrap(x + y) - y))
    BY <1>2, IntegerArithmetic DEF arithOpInt, ArithmeticOps
  <2>2. x + y \in Int /\ (x + y) - y = x
    BY <1>1
  <2>3. Wrap(Wrap(x + y) - y) = Wrap(x)
    BY <1>1, <2>2, WrapInSum
  <2> QED
    BY <2>1, <2>3, WrapInRange
<1>4. arithmeticOp("+", on("-"), IntegerValue(y)) = IntegerValue(x)
  <2>1. arithmeticOp("+", on("-"), IntegerValue(y)) =
            IntegerValue(Wrap(Wrap(x - y) + y))
    BY <1>2, IntegerArithmetic DEF arithOpInt, ArithmeticOps
  <2>2. x - y \in Int /\ (x - y) + y = x
    BY <1>1
  <2>3. Wrap(Wrap(x - y) + y) = Wrap(x)
    BY <1>1, <2>2, WrapInSum
  <2> QED
    BY <2>1, <2>3, WrapInRange
<1>5. /\ x + y \in IntRange => on("+") = IntegerValue(x + y)
      /\ x - y \in IntRange => on("-") = IntegerValue(x - y)
      /\ x * y \in IntRange => on("*") = IntegerValue(x * y)
  BY <1>2, WrapInRange
<1>6. on("/") = Panic <=> y = 0
  BY <1>2 DEF IntegerValue, Panic
<1>7. y # 0 => on("/").val = Wrap(Quotient(x, y))
  BY <1>2 DEF IntegerValue
<1>8. y # 0 => LET q == on("/").val
                   r == Wrap(x - Wrap(q * y))
               IN  Magnitude(r) < Magnitude(y) /\ r * x >= 0
  BY <1>7, RemainderIs
<1> QED
  BY <1>3, <1>4, <1>5, <1>6, <1>8 DEF on

-----------------------------------------------------------------------------
(* Operands in either order *)

(* Sums and products of integers and of floats commute. *)
LEMMA ArithmeticSwaps ==
    ASSUME NEW l \in Value, NEW r \in Value, NEW op \in {"+", "*"}
    PROVE  arithmeticOp(op, l, r) = arithmeticOp(op, r, l)
<1> DEFINE types == {l.type, r.type}
           ints == {{"Integer"}, {"Integer", "String"}}
           nums == {{"Number"}, {"Number", "Integer"}, {"Number", "String"}}
           On(arithOp(_, _, _), a, b) ==
               IF Panic \in {a, b} THEN Panic ELSE arithOp(op, a.val, b.val)
<1>1. types = {r.type, l.type}
  OBVIOUS
<1>2. arithmeticOp(op, l, r) =
          CASE "Null" \in types -> Null
            [] types \in ints -> On(arithOpInt, toInteger(l), toInteger(r))
            [] types \in nums -> On(arithOpNum, toNumber(l), toNumber(r))
            [] OTHER -> Panic
  BY DEF arithmeticOp
<1>3. arithmeticOp(op, r, l) =
          CASE "Null" \in types -> Null
            [] types \in ints -> On(arithOpInt, toInteger(r), toInteger(l))
            [] types \in nums -> On(arithOpNum, toNumber(r), toNumber(l))
            [] OTHER -> Panic
  BY <1>1 DEF arithmeticOp
<1>4. On(arithOpInt, toInteger(l), toInteger(r))
          = On(arithOpInt, toInteger(r), toInteger(l))
  <2>1. CASE Panic \in {toInteger(l), toInteger(r)}
    BY <2>1
  <2>2. CASE Panic \notin {toInteger(l), toInteger(r)}
    <3> DEFINE x == toInteger(l).val
               y == toInteger(r).val
    <3>1. x \in Int /\ y \in Int
      BY <2>2, OperandIs, IntsAreBounded
    <3> HIDE DEF x, y
    <3>2. arithOpInt(op, x, y) = arithOpInt(op, y, x)
      BY <3>1 DEF arithOpInt
    <3> QED
      BY <2>2, <3>2 DEF x, y
  <2> QED
    BY <2>1, <2>2
<1>5. On(arithOpNum, toNumber(l), toNumber(r))
          = On(arithOpNum, toNumber(r), toNumber(l))
  <2>1. CASE Panic \in {toNumber(l), toNumber(r)}
    BY <2>1
  <2>2. CASE Panic \notin {toNumber(l), toNumber(r)}
    <3> DEFINE x == toNumber(l).val
               y == toNumber(r).val
    <3>1. x \in Number /\ y \in Number
      BY <2>2, OperandIs
    <3> HIDE DEF x, y
    <3>2. arithOpNum(op, x, y) = arithOpNum(op, y, x)
      BY <3>1, FloatsCommute DEF arithOpNum
    <3> QED
      BY <2>2, <3>2 DEF x, y
  <2> QED
    BY <2>1, <2>2
<1> HIDE DEF types, ints, nums, On
<1> QED
  BY <1>2, <1>3, <1>4, <1>5

(* So do the operators that do not depend on the order of operands. *)
LEMMA OperatorsSwap ==
    ASSUME NEW l \in Value, NEW r \in Value, NEW op \in {"+", "*", "AND", "OR"}
    PROVE  binaryOp(op, l, r) = binaryOp(op, r, l)
<1>1. l # Panic /\ r # Panic
  BY OperandIs
<1>2. CASE op \in {"+", "*"}
  <2>1. op \notin {"AND", "OR", "||"} /\ op \notin ComparisonOps /\ op \in ArithmeticOps
    BY <1>2 DEF ComparisonOps, ArithmeticOps
  <2>2. binaryOp(op, l, r) = arithmeticOp(op, l, r)
    BY <1>1, <2>1 DEF binaryOp
  <2>3. binaryOp(op, r, l) = arithmeticOp(op, r, l)
    BY <1>1, <2>1 DEF binaryOp
  <2> QED
    BY <1>2, <2>2, <2>3, ArithmeticSwaps
<1>3. CASE op \in {"AND", "OR"}
  <2>1. /\ binaryOp(op, l, r) = logicalBooleanOp(op, l, r)
        /\ binaryOp(op, r, l) = logicalBooleanOp(op, r, l)
    BY <1>1, <1>3 DEF binaryOp, ComparisonOps, ArithmeticOps
  <2>2. logicalBooleanOp(op, l, r) = logicalBooleanOp(op, r, l)
    <3> DEFINE x == toBoolean(l)
               y == toBoolean(r)
    <3>1. /\ x # Panic => x.val \in BOOLEAN
          /\ y # Panic => y.val \in BOOLEAN
      BY OperandIs DEF toBoolean
    <3> HIDE DEF x, y
    <3>2. /\ BooleanValue(x.val /\ y.val) = BooleanValue(y.val /\ x.val)
          /\ BooleanValue(x.val \/ y.val) = BooleanValue(y.val \/ x.val)
      BY DEF BooleanValue
    <3> QED
      BY <1>3, <3>1, <3>2 DEF logicalBooleanOp, x, y
  <2> QED
    BY <2>1, <2>2
<1> QED
  BY <1>2, <1>3

-----------------------------------------------------------------------------
(* Comparisons *)

(* The six comparisons of l and r say: less, equal, greater. *)
Says(l, r, less, equal, greater) ==
    \A op \in ComparisonOps : comparisonOp(op, l, r) = cmp(op, less, equal, greater)

Panicked(l, r) == \A op \in ComparisonOps : comparisonOp(op, l, r) = Panic

ExactlyOne(less, equal, greater) ==
    /\ less \/ equal \/ greater
    /\ ~(less /\ equal) /\ ~(less /\ greater) /\ ~(equal /\ greater)

NoneOf(less, equal, greater) == ~less /\ ~equal /\ ~greater

(* Neither operand goes unread in one of the two orders. *)
BothRead(l, r) == ~LeftUnread(l, r) /\ ~LeftUnread(r, l)

(* The operands describe one order: they do not compare, or they compare   *)
(* as three answers that exclude each other, the same from both sides.     *)
Comparable(l, r) ==
    \E less, equal, greater \in BOOLEAN :
        /\ Says(l, r, less, equal, greater)
        /\ \/ ExactlyOne(less, equal, greater)
           \/ NoneOf(less, equal, greater) /\ (IsNaN(l) \/ IsNaN(r))
        /\ LeftUnread(l, r) => equal \/ IsNaN(r)
        /\ BothRead(l, r) => Says(r, l, greater, equal, less)

OneOrder(l, r) ==
    \/ Panicked(l, r) /\ ~LeftUnread(l, r) /\ (BothRead(l, r) => Panicked(r, l))
    \/ /\ Null \in {l, r}
       /\ \A op \in ComparisonOps : /\ comparisonOp(op, l, r) = BooleanValue(FALSE)
                                    /\ comparisonOp(op, r, l) = BooleanValue(FALSE)
    \/ Comparable(l, r)

(* How an operand compares: as one of these, after a cast. *)
AsInts(l, r) == \A op \in ComparisonOps :
    comparisonOp(op, l, r) =
        IF Panic \in {toInteger(l), toInteger(r)} THEN Panic
        ELSE cmpInts(op, toInteger(l).val, toInteger(r).val)

AsFloats(l, r) == \A op \in ComparisonOps :
    comparisonOp(op, l, r) =
        IF Panic \in {toNumber(l), toNumber(r)} THEN Panic
        ELSE cmpFloats(op, toNumber(l).val, toNumber(r).val)

AsTimes(l, r) == \A op \in ComparisonOps :
    comparisonOp(op, l, r) =
        IF Panic \in {toTimestamp(l), toTimestamp(r)} THEN Panic
        ELSE cmpTimes(op, toTimestamp(l).val, toTimestamp(r).val)

(* The casts that comparisonOp makes for each pair of types. *)
LEMMA ComparedAs ==
    ASSUME NEW l \in Value, NEW r \in Value
    PROVE  LET types == <<l.type, r.type>> IN
           /\ types \in {<<"Integer", "Integer">>, <<"Integer", "String">>} =>
                AsInts(l, r)
           /\ types \in {<<"Integer", "Number">>, <<"Number", "Integer">>,
                         <<"Number", "Number">>, <<"Number", "String">>} =>
                AsFloats(l, r)
           /\ types \in {<<"String", "Timestamp">>, <<"Timestamp", "String">>,
                         <<"Timestamp", "Timestamp">>} =>
                AsTimes(l, r)
           /\ types = <<"String", "Integer">> => \A op \in ComparisonOps :
                comparisonOp(op, l, r) = cmpInts(op, r.val, r.val)
           /\ types = <<"String", "Number">> => \A op \in ComparisonOps :
                comparisonOp(op, l, r) = cmpFloats(op, r.val, r.val)
           /\ types = <<"String", "String">> => \A op \in ComparisonOps :
                comparisonOp(op, l, r) = cmpStrings(op, l.val, r.val)
           /\ types = <<"Boolean", "Boolean">> => \A op \in ComparisonOps :
                comparisonOp(op, l, r) =
                    cmpInts(op, IF l.val THEN 1 ELSE 0, IF r.val THEN 1 ELSE 0)
<1>1. l # Panic /\ r # Panic
  BY OperandIs
<1>2. l.type = "Integer" => toInteger(l) = l
  BY DEF toInteger
<1>3. ASSUME <<l.type, r.type>> \in {<<"Integer", "Integer">>, <<"Integer", "String">>}
      PROVE  AsInts(l, r)
  BY <1>1, <1>2, <1>3 DEF AsInts, comparisonOp
<1>4. ASSUME <<l.type, r.type>> \in {<<"Integer", "Number">>, <<"Number", "Integer">>,
                                     <<"Number", "Number">>, <<"Number", "String">>}
      PROVE  AsFloats(l, r)
  BY <1>4 DEF AsFloats, comparisonOp
<1>5. ASSUME <<l.type, r.type>> \in {<<"String", "Timestamp">>,
                                     <<"Timestamp", "String">>,
                                     <<"Timestamp", "Timestamp">>}
      PROVE  AsTimes(l, r)
  BY <1>5 DEF AsTimes, comparisonOp
<1>6. ASSUME <<l.type, r.type>> = <<"String", "Integer">>, NEW op \in ComparisonOps
      PROVE  comparisonOp(op, l, r) = cmpInts(op, r.val, r.val)
  BY <1>1, <1>6 DEF comparisonOp, toInteger
<1>7. ASSUME <<l.type, r.type>> = <<"String", "Number">>, NEW op \in ComparisonOps
      PROVE  comparisonOp(op, l, r) = cmpFloats(op, r.val, r.val)
  BY <1>1, <1>7 DEF comparisonOp, toNumber
<1>8. ASSUME <<l.type, r.type>> = <<"String", "String">>, NEW op \in ComparisonOps
      PROVE  comparisonOp(op, l, r) = cmpStrings(op, l.val, r.val)
  BY <1>1, <1>8 DEF comparisonOp
<1>9. ASSUME <<l.type, r.type>> = <<"Boolean", "Boolean">>, NEW op \in ComparisonOps
      PROVE  comparisonOp(op, l, r) =
                cmpInts(op, IF l.val THEN 1 ELSE 0, IF r.val THEN 1 ELSE 0)
  BY <1>9 DEF comparisonOp
<1> QED
  BY <1>3, <1>4, <1>5, <1>6, <1>7, <1>8, <1>9

(* Two integers compare as one order, from both sides. *)
LEMMA IntsCompare ==
    ASSUME NEW x \in Int, NEW y \in Int
    PROVE  \E less, equal, greater \in BOOLEAN :
             /\ \A op \in ComparisonOps : cmpInts(op, x, y) = cmp(op, less, equal, greater)
             /\ \A op \in ComparisonOps : cmpInts(op, y, x) = cmp(op, greater, equal, less)
             /\ ExactlyOne(less, equal, greater)
             /\ equal <=> x = y
<1> DEFINE less == x < y
           equal == x = y
           greater == x > y
<1>1. less \in BOOLEAN /\ equal \in BOOLEAN /\ greater \in BOOLEAN
  OBVIOUS
<1>2. (y < x) = greater /\ (y = x) = equal /\ (y > x) = less
  OBVIOUS
<1>3. \A op \in ComparisonOps : cmpInts(op, x, y) = cmp(op, less, equal, greater)
  BY DEF cmpInts
<1>4. \A op \in ComparisonOps : cmpInts(op, y, x) = cmp(op, greater, equal, less)
  BY <1>2 DEF cmpInts
<1>5. ExactlyOne(less, equal, greater) /\ (equal <=> x = y)
  BY DEF ExactlyOne
<1> HIDE DEF less, equal, greater
<1> QED
  BY <1>1, <1>3, <1>4, <1>5

(* So do two floats, unless one of them is no number. *)
LEMMA FloatsCompare ==
    ASSUME NEW x \in Number, NEW y \in Number
    PROVE  \E less, equal, greater \in BOOLEAN :
             /\ \A op \in ComparisonOps : cmpFloats(op, x, y) = cmp(op, less, equal, greater)
             /\ \A op \in ComparisonOps : cmpFloats(op, y, x) = cmp(op, greater, equal, less)
             /\ IF FloatEq(x, x) /\ FloatEq(y, y) THEN ExactlyOne(less, equal, greater)
                ELSE NoneOf(less, equal, greater)
             /\ equal <=> FloatEq(x, y)
<1> DEFINE less == FloatLess(x, y)
           equal == FloatEq(x, y)
           greater == FloatLess(y, x)
<1>1. less \in BOOLEAN /\ equal \in BOOLEAN /\ greater \in BOOLEAN
  BY FloatsAreOrdered
<1>2. FloatEq(y, x) \in BOOLEAN /\ FloatEq(y, x) = FloatEq(x, y)
  BY FloatsAreOrdered
<1>3. \A op \in ComparisonOps : cmpFloats(op, x, y) = cmp(op, less, equal, greater)
  BY DEF cmpFloats
<1>4. \A op \in ComparisonOps : cmpFloats(op, y, x) = cmp(op, greater, equal, less)
  BY <1>2 DEF cmpFloats
<1>5. /\ IF FloatEq(x, x) /\ FloatEq(y, y) THEN ExactlyOne(less, equal, greater)
         ELSE NoneOf(less, equal, greater)
      /\ equal <=> FloatEq(x, y)
  BY FloatsAreOrdered DEF ExactlyOne, NoneOf
<1> HIDE DEF less, equal, greater
<1> QED
  BY <1>1, <1>3, <1>4, <1>5

(* And two strings. *)
LEMMA StringsCompare ==
    ASSUME NEW x \in String, NEW y \in String
    PROVE  \E less, equal, greater \in BOOLEAN :
             /\ \A op \in ComparisonOps : cmpStrings(op, x, y) = cmp(op, less, equal, greater)
             /\ \A op \in ComparisonOps : cmpStrings(op, y, x) = cmp(op, greater, equal, less)
             /\ ExactlyOne(less, equal, greater)
<1> DEFINE less == StrLess(x, y)
           equal == x = y
           greater == StrLess(y, x)
<1>1. less \in BOOLEAN /\ equal \in BOOLEAN /\ greater \in BOOLEAN
  BY StringsAreOrdered
<1>2. (y = x) = equal
  OBVIOUS
<1>3. \A op \in ComparisonOps : cmpStrings(op, x, y) = cmp(op, less, equal, greater)
  BY DEF cmpStrings
<1>4. \A op \in ComparisonOps : cmpStrings(op, y, x) = cmp(op, greater, equal, less)
  BY <1>2 DEF cmpStrings
<1>5. ExactlyOne(less, equal, greater)
  BY StringsAreOrdered DEF ExactlyOne
<1> HIDE DEF less, equal, greater
<1> QED
  BY <1>1, <1>3, <1>4, <1>5

(* A number that is not equal to itself is no integer. *)
LEMMA NumbersAreFloats ==
    ASSUME NEW v \in Value, v.type \in {"Integer", "Number", "String"},
           toNumber(v) # Panic, ~FloatEq(toNumber(v).val, toNumber(v).val)
    PROVE  IsNaN(v)
<1>1. CASE v.type = "Integer"
  <2>1. v.val \in IntRange
    BY <1>1, OperandIs
  <2>2. toNumber(v).val = IntToFloat(v.val)
    BY <1>1 DEF toNumber, NumberValue
  <2> QED
    BY <2>1, <2>2, FloatsAreOrdered
<1>2. CASE v.type \in {"Number", "String"}
  BY <1>2 DEF IsNaN
<1> QED
  BY <1>1, <1>2

(* Two operands describe one order, whatever their types. *)
LEMMA OperandsDescribeOneOrder ==
    ASSUME NEW l \in Value, NEW r \in Value
    PROVE  OneOrder(l, r)
<1> DEFINE types == <<l.type, r.type>>
<1>1. /\ l.type \in Type \cup {"Null"} /\ r.type \in Type \cup {"Null"}
      /\ l # Panic /\ r # Panic
  BY OperandIs
<1>2. CASE "Null" \in {l.type, r.type}
  <2>1. Null \in {l, r}
    BY <1>2, OperandIs
  <2>2. \A op \in ComparisonOps : /\ comparisonOp(op, l, r) = BooleanValue(FALSE)
                                  /\ comparisonOp(op, r, l) = BooleanValue(FALSE)
    BY <1>2 DEF comparisonOp
  <2> QED
    BY <2>1, <2>2 DEF OneOrder
<1>3. CASE types = <<"Boolean", "Boolean">>
  <2> DEFINE a == IF l.val THEN 1 ELSE 0
             b == IF r.val THEN 1 ELSE 0
  <2>1. \A op \in ComparisonOps : /\ comparisonOp(op, l, r) = cmpInts(op, a, b)
                                  /\ comparisonOp(op, r, l) = cmpInts(op, b, a)
    BY <1>3, ComparedAs
  <2>2. a \in Int /\ b \in Int
    OBVIOUS
  <2>3. BothRead(l, r) /\ ~LeftUnread(l, r)
    BY <1>3 DEF BothRead, LeftUnread
  <2> HIDE DEF a, b
  <2>4. PICK less, equal, greater \in BOOLEAN :
           /\ \A op \in ComparisonOps : cmpInts(op, a, b) = cmp(op, less, equal, greater)
           /\ \A op \in ComparisonOps : cmpInts(op, b, a) = cmp(op, greater, equal, less)
           /\ ExactlyOne(less, equal, greater)
           /\ equal <=> a = b
    BY <2>2, IntsCompare
  <2>5. Says(l, r, less, equal, greater) /\ Says(r, l, greater, equal, less)
    BY <2>1, <2>4 DEF Says
  <2> QED
    BY <2>3, <2>4, <2>5 DEF Comparable, OneOrder
<1>4. CASE types = <<"String", "String">>
  <2>1. \A op \in ComparisonOps :
           /\ comparisonOp(op, l, r) = cmpStrings(op, l.val, r.val)
           /\ comparisonOp(op, r, l) = cmpStrings(op, r.val, l.val)
    BY <1>4, ComparedAs
  <2>2. BothRead(l, r) /\ ~LeftUnread(l, r)
    BY <1>4 DEF BothRead, LeftUnread
  <2>3. l.val \in String /\ r.val \in String
    BY <1>4, OperandIs
  <2>4. PICK less, equal, greater \in BOOLEAN :
           /\ \A op \in ComparisonOps :
                cmpStrings(op, l.val, r.val) = cmp(op, less, equal, greater)
           /\ \A op \in ComparisonOps :
                cmpStrings(op, r.val, l.val) = cmp(op, greater, equal, less)
           /\ ExactlyOne(less, equal, greater)
    BY <2>3, StringsCompare
  <2>5. Says(l, r, less, equal, greater) /\ Says(r, l, greater, equal, less)
    BY <2>1, <2>4 DEF Says
  <2> QED
    BY <2>2, <2>4, <2>5 DEF Comparable, OneOrder
<1>5. CASE types = <<"String", "Integer">>
  <2>1. r.val \in Int
    BY <1>5, OperandIs, IntsAreBounded
  <2>2. \A op \in ComparisonOps : comparisonOp(op, l, r) = cmpInts(op, r.val, r.val)
    BY <1>5, ComparedAs
  <2>3. ~BothRead(l, r)
    BY <1>5 DEF BothRead, LeftUnread
  <2>4. PICK less, equal, greater \in BOOLEAN :
           /\ \A op \in ComparisonOps :
                cmpInts(op, r.val, r.val) = cmp(op, less, equal, greater)
           /\ ExactlyOne(less, equal, greater)
           /\ equal
    BY <2>1, IntsCompare
  <2>5. Says(l, r, less, equal, greater)
    BY <2>2, <2>4 DEF Says
  <2> QED
    BY <2>3, <2>4, <2>5 DEF Comparable, OneOrder
<1>6. CASE types = <<"String", "Number">>
  <2>1. r.val \in Number /\ toNumber(r) = r /\ r.type = "Number" /\ r # Panic
    BY <1>1, <1>6, OperandIs DEF toNumber
  <2>2. PICK less, equal, greater \in BOOLEAN :
           /\ \A op \in ComparisonOps :
                cmpFloats(op, r.val, r.val) = cmp(op, less, equal, greater)
           /\ IF FloatEq(r.val, r.val) THEN ExactlyOne(less, equal, greater)
              ELSE NoneOf(less, equal, greater)
           /\ equal <=> FloatEq(r.val, r.val)
    BY <2>1, FloatsCompare
  <2>3. ~FloatEq(r.val, r.val) => IsNaN(r)
    BY <2>1 DEF IsNaN
  <2>5. Says(l, r, less, equal, greater)
    BY <1>6, <2>2, ComparedAs DEF Says
  <2>6. ~BothRead(l, r)
    BY <1>6 DEF BothRead, LeftUnread
  <2> QED
    BY <2>2, <2>3, <2>5, <2>6 DEF Comparable, OneOrder
<1>7. CASE types \in {<<"Integer", "Integer">>, <<"Integer", "String">>}
  <2> DEFINE a == toInteger(l)
             b == toInteger(r)
  <2>1. AsInts(l, r) /\ (BothRead(l, r) => AsInts(r, l))
    BY <1>7, ComparedAs DEF BothRead, LeftUnread
  <2>2. ~LeftUnread(l, r)
    BY <1>7 DEF LeftUnread
  <2>3. CASE Panic \in {a, b}
    <3>1. Panicked(l, r) /\ (BothRead(l, r) => Panicked(r, l))
      BY <2>1, <2>3 DEF AsInts, Panicked
    <3> QED
      BY <2>2, <3>1 DEF OneOrder
  <2>4. CASE Panic \notin {a, b}
    <3>1. a.val \in Int /\ b.val \in Int
      BY <2>4, OperandIs, IntsAreBounded
    <3>2. \A op \in ComparisonOps : comparisonOp(op, l, r) = cmpInts(op, a.val, b.val)
      BY <2>1, <2>4 DEF AsInts
    <3>3. BothRead(l, r) => \A op \in ComparisonOps :
             comparisonOp(op, r, l) = cmpInts(op, b.val, a.val)
      BY <2>1, <2>4 DEF AsInts
    <3> HIDE DEF a, b
    <3>4. Comparable(l, r)
      BY <2>2, <3>1, <3>2, <3>3, IntsCompare DEF Comparable, Says
    <3> QED
      BY <3>4 DEF OneOrder
  <2> QED
    BY <2>3, <2>4
<1>8. CASE types \in {<<"Integer", "Number">>, <<"Number", "Integer">>,
                      <<"Number", "Number">>, <<"Number", "String">>}
  <2> DEFINE a == toNumber(l)
             b == toNumber(r)
  <2>1. AsFloats(l, r) /\ (BothRead(l, r) => AsFloats(r, l))
    BY <1>8, ComparedAs DEF BothRead, LeftUnread
  <2>2. ~LeftUnread(l, r)
    BY <1>8 DEF LeftUnread
  <2>3. CASE Panic \in {a, b}
    <3>1. Panicked(l, r) /\ (BothRead(l, r) => Panicked(r, l))
      BY <2>1, <2>3 DEF AsFloats, Panicked
    <3> QED
      BY <2>2, <3>1 DEF OneOrder
  <2>4. CASE Panic \notin {a, b}
    <3>1. a.val \in Number /\ b.val \in Number
      BY <2>4, OperandIs
    <3>2. \A op \in ComparisonOps : comparisonOp(op, l, r) = cmpFloats(op, a.val, b.val)
      BY <2>1, <2>4 DEF AsFloats
    <3>3. BothRead(l, r) => \A op \in ComparisonOps :
             comparisonOp(op, r, l) = cmpFloats(op, b.val, a.val)
      BY <2>1, <2>4 DEF AsFloats
    <3>4. (~FloatEq(a.val, a.val) => IsNaN(l)) /\ (~FloatEq(b.val, b.val) => IsNaN(r))
      BY <1>8, <2>4, NumbersAreFloats
    <3> HIDE DEF a, b
    <3>5. Comparable(l, r)
      BY <2>2, <3>1, <3>2, <3>3, <3>4, FloatsCompare DEF Comparable, Says
    <3> QED
      BY <3>5 DEF OneOrder
  <2> QED
    BY <2>3, <2>4
<1>9. CASE types \in {<<"String", "Timestamp">>, <<"Timestamp", "String">>,
                      <<"Timestamp", "Timestamp">>}
  <2> DEFINE a == toTimestamp(l)
             b == toTimestamp(r)
  <2>1. AsTimes(l, r) /\ AsTimes(r, l)
    BY <1>9, ComparedAs
  <2>2. ~LeftUnread(l, r) /\ BothRead(l, r)
    BY <1>9 DEF LeftUnread, BothRead
  <2>3. CASE Panic \in {a, b}
    <3>1. Panicked(l, r) /\ Panicked(r, l)
      BY <2>1, <2>3 DEF AsTimes, Panicked
    <3> QED
      BY <2>2, <3>1 DEF OneOrder
  <2>4. CASE Panic \notin {a, b}
    <3>1. Instant(a.val) \in Int /\ Instant(b.val) \in Int
      BY <2>4, OperandIs
    <3>2. \A op \in ComparisonOps :
             /\ comparisonOp(op, l, r) = cmpInts(op, Instant(a.val), Instant(b.val))
             /\ comparisonOp(op, r, l) = cmpInts(op, Instant(b.val), Instant(a.val))
      BY <2>1, <2>4 DEF AsTimes, cmpTimes
    <3> HIDE DEF a, b
    <3>3. Comparable(l, r)
      BY <2>2, <3>1, <3>2, IntsCompare DEF Comparable, Says
    <3> QED
      BY <3>3 DEF OneOrder
  <2> QED
    BY <2>3, <2>4
<1>10. CASE /\ "Null" \notin {l.type, r.type}
            /\ types \notin {<<"Boolean", "Boolean">>, <<"String", "String">>,
                             <<"String", "Integer">>, <<"String", "Number">>,
                             <<"Integer", "Integer">>, <<"Integer", "String">>,
                             <<"Integer", "Number">>, <<"Number", "Integer">>,
                             <<"Number", "Number">>, <<"Number", "String">>,
                             <<"String", "Timestamp">>, <<"Timestamp", "String">>,
                             <<"Timestamp", "Timestamp">>}
  <2>1. ~LeftUnread(l, r)
    BY <1>10 DEF LeftUnread
  <2>2. Panicked(l, r)
    BY <1>10 DEF comparisonOp, Panicked
  <2>3. Panicked(r, l)
    BY <1>10 DEF comparisonOp, Panicked
  <2> QED
    BY <2>1, <2>2, <2>3 DEF OneOrder
<1> HIDE DEF types
<1> QED
  BY <1>2, <1>3, <1>4, <1>5, <1>6, <1>7, <1>8, <1>9, <1>10

(* The comparisons that hold. *)
Holding(less, equal, greater) ==
    {op \in ComparisonOps : cmp(op, less, equal, greater) = BooleanValue(TRUE)}

(* They are three of the six where one of the answers holds, and <> alone  *)
(* where none does; from the other side they are the flipped ones.         *)
LEMMA HoldsOfOrder ==
    ASSUME NEW less \in BOOLEAN, NEW equal \in BOOLEAN, NEW greater \in BOOLEAN
    PROVE  /\ \A op \in ComparisonOps : cmp(op, less, equal, greater) # Panic
           /\ \A op \in ComparisonOps :
                 cmp(op, less, equal, greater) = cmp(Flipped[op], greater, equal, less)
           /\ "=" \in Holding(less, equal, greater) <=> equal
           /\ ExactlyOne(less, equal, greater) =>
                Holding(less, equal, greater) \in
                    {{"<", "<=", "<>"}, {"=", "<=", ">="}, {">", ">=", "<>"}}
           /\ NoneOf(less, equal, greater) => Holding(less, equal, greater) = {"<>"}
<1> DEFINE holds == Holding(less, equal, greater)
<1>1. /\ cmp("=", less, equal, greater) = BooleanValue(equal)
      /\ cmp("<>", less, equal, greater) = BooleanValue(~equal)
      /\ cmp("<", less, equal, greater) = BooleanValue(less)
      /\ cmp("<=", less, equal, greater) = BooleanValue(less \/ equal)
      /\ cmp(">", less, equal, greater) = BooleanValue(greater)
      /\ cmp(">=", less, equal, greater) = BooleanValue(greater \/ equal)
  BY DEF cmp
<1>2. \A b \in BOOLEAN : BooleanValue(b) = BooleanValue(TRUE) <=> b
  BY DEF BooleanValue
<1>3. \A op \in ComparisonOps : cmp(op, less, equal, greater) # Panic
  BY DEF cmp, BooleanValue, Panic
<1>4. /\ Flipped["="] = "=" /\ Flipped["<>"] = "<>" /\ Flipped["<"] = ">"
      /\ Flipped["<="] = ">=" /\ Flipped[">"] = "<" /\ Flipped[">="] = "<="
  BY DEF Flipped, ComparisonOps
<1>5. \A op \in ComparisonOps :
         cmp(op, less, equal, greater) = cmp(Flipped[op], greater, equal, less)
  <2>1. /\ cmp("=", greater, equal, less) = BooleanValue(equal)
        /\ cmp("<>", greater, equal, less) = BooleanValue(~equal)
        /\ cmp("<", greater, equal, less) = BooleanValue(greater)
        /\ cmp("<=", greater, equal, less) = BooleanValue(greater \/ equal)
        /\ cmp(">", greater, equal, less) = BooleanValue(less)
        /\ cmp(">=", greater, equal, less) = BooleanValue(less \/ equal)
    BY DEF cmp
  <2> QED
    BY <1>1, <1>4, <2>1 DEF ComparisonOps
<1>6. /\ "=" \in holds <=> equal
      /\ "<>" \in holds <=> ~equal
      /\ "<" \in holds <=> less
      /\ "<=" \in holds <=> less \/ equal
      /\ ">" \in holds <=> greater
      /\ ">=" \in holds <=> greater \/ equal
      /\ holds \subseteq {"=", "<>", "<", "<=", ">", ">="}
  BY <1>1, <1>2 DEF ComparisonOps, Holding
<1> HIDE DEF holds
<1>7. NoneOf(less, equal, greater) => holds = {"<>"}
  BY <1>6 DEF NoneOf
<1>8. ExactlyOne(less, equal, greater) =>
         holds \in {{"<", "<=", "<>"}, {"=", "<=", ">="}, {">", ">=", "<>"}}
  <2>1. ExactlyOne(less, equal, greater) /\ less => holds = {"<", "<=", "<>"}
    BY <1>6 DEF ExactlyOne
  <2>2. ExactlyOne(less, equal, greater) /\ equal => holds = {"=", "<=", ">="}
    BY <1>6 DEF ExactlyOne
  <2>3. ExactlyOne(less, equal, greater) /\ greater => holds = {">", ">=", "<>"}
    BY <1>6 DEF ExactlyOne
  <2> QED
    BY <2>1, <2>2, <2>3 DEF ExactlyOne
<1> QED
  BY <1>3, <1>5, <1>6, <1>7, <1>8 DEF holds

-----------------------------------------------------------------------------
(* The theorems. *)

(* What has been evaluated, once something has been. *)
LawsOK ==
    /\ lhs \in Value /\ rhs \in Value
    /\ Evaluated => forth = Results(lhs, rhs) /\ back = Results(rhs, lhs)

(* That is so in every state. *)
LEMMA LawsAreOK == Spec => []LawsOK
<1>1. Init => LawsOK
  BY DEF Init, LawsOK, Evaluated
<1>2. LawsOK /\ [Evaluate]_vars => LawsOK'
  BY DEF LawsOK, Evaluate, vars, Evaluated
<1> QED
  BY <1>1, <1>2, PTL DEF Spec

(* What each operator gave. *)
LEMMA ResultsAre ==
    ASSUME LawsOK, Evaluated
    PROVE  /\ \A op \in BinaryOps : forth[op] = binaryOp(op, lhs, rhs)
           /\ \A op \in BinaryOps : back[op] = binaryOp(op, rhs, lhs)
           /\ \A op \in ComparisonOps : /\ forth[op] = comparisonOp(op, lhs, rhs)
                                        /\ back[op] = comparisonOp(op, rhs, lhs)
<1>1. /\ \A op \in BinaryOps : forth[op] = binaryOp(op, lhs, rhs)
      /\ \A op \in BinaryOps : back[op] = binaryOp(op, rhs, lhs)
  BY DEF LawsOK, Results
<1>2. lhs # Panic /\ rhs # Panic
  BY OperandIs DEF LawsOK
<1>3. ASSUME NEW op \in ComparisonOps
      PROVE  /\ op \in BinaryOps
             /\ binaryOp(op, lhs, rhs) = comparisonOp(op, lhs, rhs)
             /\ binaryOp(op, rhs, lhs) = comparisonOp(op, rhs, lhs)
  <2>1. op \notin {"AND", "OR", "||"} /\ op \notin ArithmeticOps
    BY DEF ComparisonOps, ArithmeticOps
  <2> QED
    BY <1>2, <2>1 DEF BinaryOps, binaryOp
<1> QED
  BY <1>1, <1>3

(* Sums, products and connectives do not depend on the order of their      *)
(* operands, whatever their types and the width: arithmeticOp and          *)
(* logicalBooleanOp.                                                       *)
THEOREM SumsAndProductsSwap == Spec => []OperandsMaySwap
<1>1. LawsOK => OperandsMaySwap
  <2> SUFFICES ASSUME LawsOK, Evaluated, NEW op \in {"+", "*", "AND", "OR"}
               PROVE  forth[op] = back[op]
    BY DEF OperandsMaySwap
  <2>1. op \in BinaryOps
    BY DEF BinaryOps, ArithmeticOps
  <2>2. forth[op] = binaryOp(op, lhs, rhs) /\ back[op] = binaryOp(op, rhs, lhs)
    BY <2>1, ResultsAre
  <2> QED
    BY <2>2, OperatorsSwap DEF LawsOK
<1> QED
  BY <1>1, LawsAreOK, PTL

(* Integer arithmetic can be undone although it wraps, for every width:    *)
(* arithOpInt.                                                             *)
THEOREM IntegersCanBeUndone == Spec => []IntegersAddUp
<1>1. LawsOK => IntegersAddUp
  <2> SUFFICES ASSUME LawsOK, Evaluated, {lhs.type, rhs.type} = {"Integer"}
               PROVE  IntegersAddUp
    BY DEF IntegersAddUp
  <2> DEFINE x == lhs.val
             y == rhs.val
             q == forth["/"].val
             r == Wrap(x - Wrap(q * y))
  <2>1. /\ lhs = IntegerValue(x) /\ rhs = IntegerValue(y)
        /\ x \in IntRange /\ y \in IntRange
    BY OperandIs DEF LawsOK
  <2>2. \A op \in {"+", "-", "*", "/"} : forth[op] = binaryOp(op, lhs, rhs)
    BY ResultsAre DEF BinaryOps, ArithmeticOps
  <2> HIDE DEF x, y
  <2>3. /\ arithmeticOp("-", forth["+"], rhs) = lhs
        /\ arithmeticOp("+", forth["-"], rhs) = lhs
        /\ x + y \in IntRange => forth["+"] = IntegerValue(x + y)
        /\ x - y \in IntRange => forth["-"] = IntegerValue(x - y)
        /\ x * y \in IntRange => forth["*"] = IntegerValue(x * y)
        /\ forth["/"] = Panic <=> y = 0
        /\ y # 0 => Magnitude(r) < Magnitude(y) /\ r * x >= 0
    BY <2>1, <2>2, IntegerLaws
  <2> QED
    BY <2>3 DEF IntegersAddUp, x, y
<1> QED
  BY <1>1, LawsAreOK, PTL

(* The six comparisons describe one order, from both sides, for all pairs  *)
(* of types: comparisonOp.                                                 *)
THEOREM ComparisonsDescribeOneOrder == Spec => []ComparisonsAgree
<1>1. LawsOK => ComparisonsAgree
  <2> SUFFICES ASSUME LawsOK, Evaluated
               PROVE  ComparisonsAgree
    BY DEF ComparisonsAgree
  <2>1. OneOrder(lhs, rhs)
    BY OperandsDescribeOneOrder DEF LawsOK
  <2>2. \A op \in ComparisonOps : /\ forth[op] = comparisonOp(op, lhs, rhs)
                                  /\ back[op] = comparisonOp(op, rhs, lhs)
    BY ResultsAre
  <2>3. \A op \in ComparisonOps : Flipped[op] \in ComparisonOps
    BY DEF Flipped, ComparisonOps
  <2>4. CASE Panicked(lhs, rhs) /\ ~LeftUnread(lhs, rhs)
             /\ (BothRead(lhs, rhs) => Panicked(rhs, lhs))
    BY <2>2, <2>3, <2>4 DEF ComparisonsAgree, Panicked, BothRead
  <2>5. CASE /\ Null \in {lhs, rhs}
             /\ \A op \in ComparisonOps :
                  /\ comparisonOp(op, lhs, rhs) = BooleanValue(FALSE)
                  /\ comparisonOp(op, rhs, lhs) = BooleanValue(FALSE)
    <3>1. BooleanValue(FALSE) # BooleanValue(TRUE) /\ BooleanValue(FALSE) # Panic
      BY DEF BooleanValue, Panic
    <3>2. HoldOf(forth) = {} /\ \A op \in ComparisonOps : forth[op] # Panic
      BY <2>2, <2>5, <3>1 DEF HoldOf
    <3>3. ~LeftUnread(lhs, rhs)
      BY <2>5 DEF LeftUnread, Null
    <3> QED
      BY <2>2, <2>3, <2>5, <3>2, <3>3 DEF ComparisonsAgree
  <2>6. CASE Comparable(lhs, rhs)
    <3>1. PICK less, equal, greater \in BOOLEAN :
             /\ Says(lhs, rhs, less, equal, greater)
             /\ \/ ExactlyOne(less, equal, greater)
                \/ NoneOf(less, equal, greater) /\ (IsNaN(lhs) \/ IsNaN(rhs))
             /\ LeftUnread(lhs, rhs) => equal \/ IsNaN(rhs)
             /\ BothRead(lhs, rhs) => Says(rhs, lhs, greater, equal, less)
      BY <2>6 DEF Comparable
    <3>2. /\ \A op \in ComparisonOps : forth[op] = cmp(op, less, equal, greater)
          /\ BothRead(lhs, rhs) => \A op \in ComparisonOps :
                back[op] = cmp(op, greater, equal, less)
      BY <2>2, <3>1 DEF Says
    <3>3. HoldOf(forth) = Holding(less, equal, greater)
      BY <3>2 DEF HoldOf, Holding
    <3>4. /\ "=" \in HoldOf(forth) <=> equal
          /\ ExactlyOne(less, equal, greater) =>
                HoldOf(forth) \in
                    {{"<", "<=", "<>"}, {"=", "<=", ">="}, {">", ">=", "<>"}}
          /\ NoneOf(less, equal, greater) => HoldOf(forth) = {"<>"}
      BY <3>3, HoldsOfOrder
    <3>5. \A op \in ComparisonOps :
             /\ forth[op] # Panic
             /\ BothRead(lhs, rhs) => forth[op] = back[Flipped[op]]
      BY <2>3, <3>2, HoldsOfOrder
    <3> QED
      BY <3>1, <3>4, <3>5 DEF ComparisonsAgree, BothRead
  <2> QED
    BY <2>1, <2>4, <2>5, <2>6 DEF OneOrder
<1> QED
  BY <1>1, LawsAreOK, PTL

=============================================================================
