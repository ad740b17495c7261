---------------------------- MODULE MCAggregates ----------------------------
(***************************************************************************)
(* Aggregates over every table of at most three rows of one column, whose  *)
(* values are the integers of two bits, two floats, NULL and a string.     *)
(***************************************************************************)
EXTENDS Aggregates, AggExprs, MCValues

MCColumns == <<[name |-> "a"]>>

Values == {Null} \cup {IntegerValue(n) : n \in IntRange}
                 \cup {NumberValue(x) : x \in {-3, 1}}

MCData == UNION {[1 .. n -> {<<v>> : v \in Values \cup {StringValue("x")}}] : n \in 0 .. 1}
          \cup [1 .. 2 -> {<<v>> : v \in Values}]
          \cup [1 .. 3 -> {<<v>> : v \in Values}]

Count(expr) == FunctionCall("count", <<expr>>)
MinOf(expr) == FunctionCall("min", <<expr>>)
MaxOf(expr) == FunctionCall("max", <<expr>>)
SumOf(expr) == FunctionCall("sum", <<expr>>)

Asked(exprs, where) == [exprs |-> exprs, where |-> where]

MCQuery == {
    Asked(<<Count(SelectStar), Count(A), MinOf(A), MaxOf(A), SumOf(A)>>, NoWhere),
    Asked(<<BinaryExpr("/", SumOf(A), Count(A)), UnaryExpr("-", MaxOf(A))>>,
          BinaryExpr("<", A, Num(1))),
    Asked(<<SumOf(BinaryExpr("+", A, Num(1)))>>, BinaryExpr("<>", A, Num(0))),
    Asked(<<UnaryExpr("-", A), Count(A)>>, NoWhere),            \* a alone
    Asked(<<SelectStar, Count(SelectStar)>>, NoWhere),          \* a alone
    Asked(<<SumOf(Count(A))>>, NoWhere),                        \* nested
    Asked(<<SumOf(A), FunctionCall("f", <<>>)>>, NoWhere),      \* unknown
    Asked(<<FunctionCall("max", <<A, A>>)>>, NoWhere),          \* two arguments
    Asked(<<MinOf(SelectStar)>>, NoWhere),                      \* no value
    Asked(<<MaxOf(A)>>, BinaryExpr("=", MaxOf(A), A)) }         \* no aggregate in WHERE

=============================================================================
