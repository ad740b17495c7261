----------------------------- MODULE ValueLaws -----------------------------
(***************************************************************************)
(* Two operands, given to every binary operator and in either order: what  *)
(* the operators of eval/value.go owe to each other, over every pair of    *)
(* types.                                                                  *)
(***************************************************************************)
EXTENDS Values

CONSTANT Value      \* the operands

(* An operand is a value of its type, and its casts are too. *)
ASSUME OperandsAreValues ==
    \A v \in Value :
        /\ \/ v = Null
           \/ v = BooleanValue(v.val) /\ v.val \in BOOLEAN
           \/ v \in {IntegerValue(v.val), NumberValue(v.val), StringValue(v.val),
                     TimestampValue(v.val)}
        /\ toInteger(v) # Panic => toInteger(v).val \in IntRange
        /\ toTimestamp(v) # Panic => Instant(toTimestamp(v).val) \in Int

(* The floats and the strings that the operands stand for. *)
Number == {toNumber(v).val : v \in {u \in Value : toNumber(u) # Panic}}
String == {v.val : v \in {u \in Value : u.type = "String"}}

(* Floats as IEEE 754 has them: they are ordered, except that the float    *)
(* that is no number is not even equal to itself, and no integer is that.  *)
ASSUME FloatsAreOrdered ==
    /\ \A x, y \in Number :
          /\ FloatLess(x, y) \in BOOLEAN /\ FloatEq(x, y) \in BOOLEAN
          /\ FloatEq(x, y) => FloatEq(y, x) /\ ~FloatLess(x, y)
          /\ FloatLess(x, y) => ~FloatLess(y, x)
          /\ IF FloatEq(x, x) /\ FloatEq(y, y)
             THEN FloatLess(x, y) \/ FloatEq(x, y) \/ FloatLess(y, x)
             ELSE ~FloatLess(x, y) /\ ~FloatEq(x, y)
    /\ \A n \in IntRange : FloatEq(IntToFloat(n), IntToFloat(n))

(* Addition and multiplication of floats commute, as IEEE 754 has them. *)
ASSUME FloatsCommute ==
    \A x, y \in Number : \A op \in {"+", "*"} : FloatOp(op, x, y) = FloatOp(op, y, x)

(* Strings are ordered. *)
ASSUME StringsAreOrdered ==
    \A s, t \in String :
        /\ StrLess(s, t) \in BOOLEAN
        /\ StrLess(s, t) => s # t /\ ~StrLess(t, s)
        /\ StrLess(s, t) \/ s = t \/ StrLess(t, s)

VARIABLES
    lhs, rhs,   \* the operands
    forth,      \* the value of lhs op rhs for every operator op
    back        \* the value of rhs op lhs

vars == <<lhs, rhs, forth, back>>

BinaryOps == ComparisonOps \cup ArithmeticOps \cup {"AND", "OR", "||"}

NotEvaluated == [op \in {} |-> Null]

Init ==
    /\ lhs \in Value /\ rhs \in Value
    /\ forth = NotEvaluated /\ back = NotEvaluated

Results(l, r) == [op \in BinaryOps |-> binaryOp(op, l, r)]

Evaluate ==
    /\ forth = NotEvaluated
    /\ forth' = Results(lhs, rhs)
    /\ back' = Results(rhs, lhs)
    /\ UNCHANGED <<lhs, rhs>>

Spec == Init /\ [][Evaluate]_vars

-----------------------------------------------------------------------------
(* The properties. *)

Evaluated == forth # NotEvaluated

(* The pairs whose left operand is not read: see comparisonOp. *)
LeftUnread(l, r) == l.type = "String" /\ r.type \in {"Integer", "Number"}

(* A float that is not equal to itself, or a text that stands for it. *)
IsNaN(v) ==
    /\ v.type \in {"Number", "String"} /\ toNumber(v) # Panic
    /\ ~FloatEq(toNumber(v).val, toNumber(v).val)

Flipped == [op \in ComparisonOps |->
    CASE op = "<" -> ">" [] op = "<=" -> ">=" [] op = ">" -> "<"
      [] op = ">=" -> "<=" [] OTHER -> op]

HoldOf(results) == {op \in ComparisonOps : results[op] = BooleanValue(TRUE)}

(* The six comparisons of two values describe one order: exactly one of    *)
(* less, equal and greater, with the others made of them; or none of the   *)
(* six when an operand is null; or unequal alone, with a float that is no  *)
(* number; or all six panic.  The operands swapped give the same order the *)
(* other way round, for mixed types too, except that a String on the left  *)
(* of a number passes for that number.                                     *)
ComparisonsAgree ==
    Evaluated =>
        /\ \/ \A op \in ComparisonOps : forth[op] = Panic
           \/ /\ \A op \in ComparisonOps : forth[op] # Panic
              /\ \/ HoldOf(forth) \in
                        {{"<", "<=", "<>"}, {"=", "<=", ">="}, {">", ">=", "<>"}}
                 \/ HoldOf(forth) = {} /\ Null \in {lhs, rhs}
                 \/ HoldOf(forth) = {"<>"} /\ (IsNaN(lhs) \/ IsNaN(rhs))
        /\ IF LeftUnread(lhs, rhs) THEN "=" \in HoldOf(forth) \/ IsNaN(rhs)
           ELSE LeftUnread(rhs, lhs)
                \/ \A op \in ComparisonOps : forth[op] = back[Flipped[op]]

(* Integer arithmetic can be undone although it wraps: subtraction undoes  *)
(* addition; a quotient times its divisor is the dividend up to a          *)
(* remainder that is smaller than the divisor and has the dividend's sign, *)
(* MinInt / -1 included; and whatever fits into the width is exact.        *)
Magnitude(n) == IF n < 0 THEN -n ELSE n

IntegersAddUp ==
    Evaluated /\ {lhs.type, rhs.type} = {"Integer"} =>
        LET x == lhs.val
            y == rhs.val
            exact == [op \in {"+", "-", "*"} |->
                        CASE op = "+" -> x + y [] op = "-" -> x - y [] op = "*" -> x * y]
            q == forth["/"].val
            r == Wrap(x - Wrap(q * y))
        IN  /\ arithmeticOp("-", forth["+"], rhs) = lhs
            /\ arithmeticOp("+", forth["-"], rhs) = lhs
            /\ \A op \in DOMAIN exact :
                  exact[op] \in IntRange => forth[op] = IntegerValue(exact[op])
            /\ forth["/"] = Panic <=> y = 0
            /\ y # 0 => Magnitude(r) < Magnitude(y) /\ r * x >= 0

(* Sums, products and connectives do not depend on the order of their      *)
(* operands: not their type, not whether they panic, with Strings, floats  *)
(* and nulls among them.                                                   *)
OperandsMaySwap ==
    Evaluated => \A op \in {"+", "*", "AND", "OR"} : forth[op] = back[op]

=============================================================================
