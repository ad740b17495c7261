------------------------------- MODULE Values -------------------------------
(***************************************************************************)
(* The SQL values of eval/value.go: the casts between the five types and   *)
(* the operators on them.  A Go panic is the result Panic, which every     *)
(* caller hands on until EvalStmt recovers it.  Null is the nil Value: a   *)
(* method call on it is a nil dereference, so each cast of Null panics.    *)
(*                                                                         *)
(* What strconv, time, float64 and string concatenation compute is a       *)
(* parameter: the code decides only when each is used and on what.         *)
(***************************************************************************)
EXTENDS Integers, Sequences

CONSTANTS
    IntBits,            \* the width of an IntegerValue; 64 in the code
    Parses(_, _),       \* whether a string parses as a value of a type
    Parse(_, _),        \* what it parses to
    Format(_, _),       \* the string that a value of a type is formatted as
    Concat(_, _),       \* string + string
    StrLess(_, _),      \* Go's order of strings
    Instant(_),         \* the instant, a number, of a time.Time
    FloatOp(_, _, _),   \* float64 arithmetic: + - * /
    FloatNeg(_),        \* float64 negation
    FloatIsZero(_),
    FloatLess(_, _),
    FloatEq(_, _),
    IntToFloat(_),      \* float64(n)
    FloatToInt(_)       \* int64(x), which truncates

ASSUME IntBitsAssumption == IntBits \in Nat \ {0}

(* Arithmetic that the provers do not know. *)
ASSUME PowersOfTwo ==
    2^(IntBits - 1) \in Nat \ {0} /\ 2^IntBits = 2 * 2^(IntBits - 1)

Type == {"Boolean", "Integer", "Number", "String", "Timestamp"}

Null == [type |-> "Null"]
Panic == [type |-> "Panic"]

BooleanValue(b) == [type |-> "Boolean", val |-> b]
IntegerValue(n) == [type |-> "Integer", val |-> n]
NumberValue(x) == [type |-> "Number", val |-> x]
StringValue(s) == [type |-> "String", val |-> s]
TimestampValue(t) == [type |-> "Timestamp", val |-> t]

-----------------------------------------------------------------------------
(* Integers keep their width: int64 arithmetic wraps around. *)

MinInt == -(2^(IntBits - 1))
MaxInt == 2^(IntBits - 1) - 1
IntRange == MinInt .. MaxInt

Wrap(n) == ((n - MinInt) % (2^IntBits)) + MinInt

(* A faulty Quotient, which rounds toward minus infinity. *)
QuotientFloored(x, y) == IF y < 0 THEN (-x) \div (-y) ELSE x \div y

(* Go's integer division truncates toward zero. *)
Quotient(x, y) ==
    LET magnitude(n) == IF n < 0 THEN -n ELSE n
        q == magnitude(x) \div magnitude(y)
    IN  IF (x < 0) = (y < 0) THEN q ELSE -q

-----------------------------------------------------------------------------
(* The casts. *)

toBoolean(v) == IF v.type = "Boolean" THEN v ELSE Panic

toInteger(v) ==
    CASE v.type = "Integer" -> v
      [] v.type = "Number" -> IntegerValue(FloatToInt(v.val))
      [] v.type = "String" /\ Parses("Integer", v.val) ->
            IntegerValue(Parse("Integer", v.val))
      [] OTHER -> Panic

toNumber(v) ==
    CASE v.type = "Integer" -> NumberValue(IntToFloat(v.val))
      [] v.type = "Number" -> v
      [] v.type = "String" /\ Parses("Number", v.val) ->
            NumberValue(Parse("Number", v.val))
      [] OTHER -> Panic

toString(v) ==
    CASE v.type = "String" -> v
      [] v.type \in {"Integer", "Number", "Timestamp"} ->
            StringValue(Format(v.type, v.val))
      [] OTHER -> Panic

toTimestamp(v) ==
    CASE v.type = "Timestamp" -> v
      [] v.type = "String" /\ Parses("Timestamp", v.val) ->
            TimestampValue(Parse("Timestamp", v.val))
      [] OTHER -> Panic

coerce(v, type) ==
    CASE type = "Boolean" -> toBoolean(v)
      [] type = "Integer" -> toInteger(v)
      [] type = "Number" -> toNumber(v)
      [] type = "String" -> toString(v)
      [] type = "Timestamp" -> toTimestamp(v)
      [] OTHER -> Panic

-----------------------------------------------------------------------------
(* Comparisons.  cmp is the switch that cmpInts, cmpFloats, cmpStrings and *)
(* cmpTimes each repeat over their own order.                              *)

ComparisonOps == {"=", "<>", "<", "<=", ">", ">="}

(* A faulty cmp, which takes what is not greater for less or equal. *)
cmpByNegation(op, less, equal, greater) ==
    BooleanValue(CASE op = "=" -> equal
                   [] op = "<>" -> ~equal
                   [] op = "<" -> less
                   [] op = "<=" -> ~greater
                   [] op = ">" -> greater
                   [] op = ">=" -> ~less)

cmp(op, less, equal, greater) ==
    BooleanValue(CASE op = "=" -> equal
                   [] op = "<>" -> ~equal
                   [] op = "<" -> less
                   [] op = "<=" -> less \/ equal
                   [] op = ">" -> greater
                   [] op = ">=" -> greater \/ equal)

cmpInts(op, a, b) == cmp(op, a < b, a = b, a > b)

cmpFloats(op, a, b) == cmp(op, FloatLess(a, b), FloatEq(a, b), FloatLess(b, a))

cmpStrings(op, a, b) == cmp(op, StrLess(a, b), a = b, StrLess(b, a))

cmpTimes(op, a, b) == cmpInts(op, Instant(a), Instant(b))

(* The operand pairs that compare as integers, floats, strings or times,   *)
(* after which casts.  The pairs that start with a String and end with an  *)
(* Integer or a Number cast the right operand, which is a number already,  *)
(* and compare it with itself.                                             *)
comparisonOp(op, lhs, rhs) ==
    LET types == <<lhs.type, rhs.type>>
        on(cmpOp(_, _, _), a, b) ==
            IF Panic \in {a, b} THEN Panic ELSE cmpOp(op, a.val, b.val)
        toInt(b) == IF b.val THEN 1 ELSE 0
    IN  CASE "Null" \in {lhs.type, rhs.type} -> BooleanValue(FALSE)
          [] types = <<"Boolean", "Boolean">> ->
                cmpInts(op, toInt(lhs), toInt(rhs))
          [] types \in {<<"Integer", "Integer">>, <<"Integer", "String">>} ->
                on(cmpInts, lhs, toInteger(rhs))
          [] types = <<"String", "Integer">> -> on(cmpInts, toInteger(rhs), rhs)
          [] types \in {<<"Integer", "Number">>, <<"Number", "Integer">>,
                        <<"Number", "Number">>, <<"Number", "String">>} ->
                on(cmpFloats, toNumber(lhs), toNumber(rhs))
          [] types = <<"String", "Number">> -> on(cmpFloats, toNumber(rhs), rhs)
          [] types = <<"String", "String">> -> on(cmpStrings, lhs, rhs)
          [] types \in {<<"String", "Timestamp">>, <<"Timestamp", "String">>,
                        <<"Timestamp", "Timestamp">>} ->
                on(cmpTimes, toTimestamp(lhs), toTimestamp(rhs))
          [] OTHER -> Panic

-----------------------------------------------------------------------------
(* Arithmetic, concatenation and the Boolean connectives. *)

ArithmeticOps == {"+", "-", "*", "/"}

arithOpInt(op, x, y) ==
    CASE op = "+" -> IntegerValue(Wrap(x + y))
      [] op = "-" -> IntegerValue(Wrap(x - y))
      [] op = "*" -> IntegerValue(Wrap(x * y))
      [] op = "/" /\ y # 0 -> IntegerValue(Wrap(Quotient(x, y)))
      [] OTHER -> Panic

arithOpNum(op, x, y) ==
    IF op = "/" /\ FloatIsZero(y) THEN Panic ELSE NumberValue(FloatOp(op, x, y))

(* A faulty arithmeticOp, which computes in the type of the left operand. *)
arithmeticOpOfLeft(op, lhs, rhs) ==
    LET on(arithOp(_, _, _), a, b) ==
            IF Panic \in {a, b} THEN Panic ELSE arithOp(op, a.val, b.val)
    IN  CASE "Null" \in {lhs.type, rhs.type} -> Null
          [] lhs.type = "Integer" -> on(arithOpInt, lhs, toInteger(rhs))
          [] lhs.type = "Number" -> on(arithOpNum, lhs, toNumber(rhs))
          [] OTHER -> Panic

(* A String operand takes the numeric type of the other one; two Strings   *)
(* do no arithmetic together.                                              *)
arithmeticOp(op, lhs, rhs) ==
    LET types == {lhs.type, rhs.type}
        on(arithOp(_, _, _), a, b) ==
            IF Panic \in {a, b} THEN Panic ELSE arithOp(op, a.val, b.val)
    IN  CASE "Null" \in types -> Null
          [] types \in {{"Integer"}, {"Integer", "String"}} ->
                on(arithOpInt, toInteger(lhs), toInteger(rhs))
          [] types \in {{"Number"}, {"Number", "Integer"}, {"Number", "String"}} ->
                on(arithOpNum, toNumber(lhs), toNumber(rhs))
          [] OTHER -> Panic

unaryArithOp(op, v) ==
    CASE v = Null -> Null
      [] op = "+" /\ v.type \in {"Integer", "Number"} -> v
      [] op = "-" /\ v.type = "Integer" -> IntegerValue(Wrap(-v.val))
      [] op = "-" /\ v.type = "Number" -> NumberValue(FloatNeg(v.val))
      [] OTHER -> Panic

concatOp(lhs, rhs) ==
    LET l == toString(lhs)
        r == toString(rhs)
    IN  CASE "Null" \in {lhs.type, rhs.type} -> Null
          [] Panic \in {l, r} -> Panic
          [] OTHER -> StringValue(Concat(l.val, r.val))

(* Both operands are cast before the connective is applied: neither AND    *)
(* nor OR short-circuits, and a Null operand panics.                       *)
logicalBooleanOp(op, lhs, rhs) ==
    LET x == toBoolean(lhs)
        y == toBoolean(rhs)
    IN  CASE Panic \in {x, y} -> Panic
          [] op = "AND" -> BooleanValue(x.val /\ y.val)
          [] op = "OR" -> BooleanValue(x.val \/ y.val)

(* What evalBinaryExpr does once it has the values of both operands. *)
binaryOp(op, lhs, rhs) ==
    CASE Panic \in {lhs, rhs} -> Panic
      [] op \in {"AND", "OR"} -> logicalBooleanOp(op, lhs, rhs)
      [] op \in ComparisonOps -> comparisonOp(op, lhs, rhs)
      [] op \in ArithmeticOps -> arithmeticOp(op, lhs, rhs)
      [] op = "||" -> concatOp(lhs, rhs)

=============================================================================
