------------------------------ MODULE MCValues ------------------------------
(***************************************************************************)
(* Strings and floats for the runs, and the leaves of their expressions.   *)
(* The strings that parse are those of the integers in range.  A float is  *)
(* a whole number of halves: sums are exact, products and quotients are    *)
(* cut to halves.                                                          *)
(***************************************************************************)
EXTENDS Values, Ast, TLC

IntText == {<<n, ToString(n)>> : n \in IntRange}

MCParses(type, s) == type \in {"Integer", "Number"} /\ \E p \in IntText : p[2] = s
MCIntOf(s) == (CHOOSE p \in IntText : p[2] = s)[1]
MCIntToFloat(n) == 2 * n
MCParse(type, s) == IF type = "Integer" THEN MCIntOf(s) ELSE MCIntToFloat(MCIntOf(s))
MCFormat(type, v) == ToString(v)
MCConcat(a, b) == a \o b
MCRank(s) == IF \E p \in IntText : p[2] = s THEN MCIntOf(s) ELSE MaxInt + 1
MCStrLess(a, b) == MCRank(a) < MCRank(b)
MCInstant(t) == t
MCFloatOp(op, x, y) ==
    CASE op = "+" -> x + y
      [] op = "-" -> x - y
      [] op = "*" -> Quotient(x * y, 2)
      [] op = "/" -> Quotient(2 * x, y)
MCFloatNeg(x) == -x
MCFloatIsZero(x) == x = 0
MCFloatLess(x, y) == x < y
MCFloatEq(x, y) == x = y
MCFloatToInt(x) == Wrap(Quotient(x, 2))

-----------------------------------------------------------------------------

Num(n) == Literal(IntegerValue(n))
Text(s) == Literal(StringValue(s))
True == Literal(BooleanValue(TRUE))
NullExpr == Literal(Null)
A == Ident("a")
B == Ident("b")

=============================================================================
