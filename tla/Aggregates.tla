----------------------------- MODULE Aggregates -----------------------------
(***************************************************************************)
(* SELECT with aggregate functions and no GROUP BY: the path that          *)
(* evalAggregateSelectStmt of eval/eval.go takes instead of the loop in    *)
(* Database.  It reads one table and changes none, so the table is fixed.  *)
(*                                                                         *)
(* The code gives every aggregate call of the projection an accumulator    *)
(* and puts it in the place of the call.  Two calls that are written alike *)
(* see the same rows, so their accumulators are one here, and funcs is     *)
(* indexed by the call.                                                    *)
(***************************************************************************)
EXTENDS Tables, AggFuncs, FiniteSetsExt

CONSTANTS
    Columns,    \* the columns of the table that is selected from
    Data,       \* the contents that the table may have
    Query,      \* the projections and WHERE clauses that may be asked
    HasCall(_), \* containsAggFunc: whether an expression calls an aggregate
    Accepts(_), \* validateAggExpr
    CallsIn(_), \* the calls that the rewriter replaces in an expression
    Replace(_, _)   \* aggFuncRewriter.rewrite: the expression without them

VARIABLES
    query,      \* the SELECT
    data,       \* table.Data
    row,        \* the next row of the loop; 0 before the loop
    funcs,      \* rewriter.funcs: the accumulator of each aggregate call
    matched,    \* whether a row has satisfied the WHERE clause
    outcome     \* what EvalStmt returned, or that it has not returned yet

vars == <<query, data, row, funcs, matched, outcome>>

-----------------------------------------------------------------------------

(* The calls of a query. *)
CallsOf(q) ==
    LET exprs == Projection(q.exprs, Columns)
    IN  UNION {CallsIn(exprs[k]) : k \in DOMAIN exprs}

(* What rewriting panics on: a function it does not know, and a number of  *)
(* arguments other than one.                                               *)
Rewritable(call) == call.name \in builtinAggFuncs /\ Len(call.args) = 1

(* The argument of a call in a row; "*" has none. *)
Argument(call, ns) ==
    IF call.args[1] = SelectStar /\ call.name = "count" THEN Null
    ELSE Eval(ns, call.args[1])

(* What is selected from the table, and with which functions; integers are *)
(* of their width.                                                         *)
QueryAssumption ==
    /\ \A rows \in Data :
          IsSeq(rows) /\ \A r \in DOMAIN rows : DOMAIN rows[r] = DOMAIN Columns
    /\ \A q \in Query : \E k \in DOMAIN q.exprs : HasCall(q.exprs[k])
    /\ \A q \in Query : \A call \in CallsOf(q) : \A rows \in Data : \A r \in DOMAIN rows :
          LET v == Argument(call, Namespace(Columns, rows[r]))
          IN  Rewritable(call) /\ v.type = "Integer" => v.val \in IntRange

ASSUME QueriesAggregate == QueryAssumption

projection == Projection(query.exprs, Columns)
Calls == CallsOf(query)

(* Every column of the result is called "?", so only its rows are kept. *)
Pending == [status |-> "pending", rows |-> <<>>]
Failed == [status |-> "error", rows |-> <<>>]
Returned(rows) == [status |-> "ok", rows |-> rows]

Init ==
    /\ query \in Query
    /\ data \in Data
    /\ row = 0
    /\ funcs = [call \in {} |-> NewAggFunc("count")]
    /\ matched = FALSE
    /\ outcome = Pending

Fail == outcome' = Failed

(* validateAggExpr and rewriter.rewrite on each expression in turn. *)
Rewrite ==
    /\ outcome = Pending /\ row = 0
    /\ IF \/ \E k \in DOMAIN projection : ~Accepts(projection[k])
          \/ \E call \in Calls : ~Rewritable(call)
       THEN Fail /\ UNCHANGED <<row, funcs>>
       ELSE /\ funcs' = [call \in Calls |-> NewAggFunc(call.name)]
            /\ row' = 1
            /\ UNCHANGED outcome
    /\ UNCHANGED <<query, data, matched>>

CurrentNamespace == Namespace(Columns, data[row])
CurrentWhere == Where(query.where, CurrentNamespace)

AtRow == outcome = Pending /\ row \in DOMAIN data

Stepped(call) ==
    step(funcs[call], call.args[1] = SelectStar, Argument(call, CurrentNamespace))

(* A faulty SkipRow, which does not go on. *)
SkipNothing ==
    /\ AtRow
    /\ Differs(CurrentWhere)
    /\ UNCHANGED vars

SkipRow ==
    /\ AtRow
    /\ Differs(CurrentWhere)
    /\ row' = row + 1
    /\ UNCHANGED <<query, data, funcs, matched, outcome>>

StepRow ==
    /\ AtRow
    /\ Matches(CurrentWhere)
    /\ IF \E call \in DOMAIN funcs : Stepped(call) = Panic
       THEN Fail /\ UNCHANGED <<row, funcs, matched>>
       ELSE /\ funcs' = [call \in DOMAIN funcs |-> Stepped(call)]
            /\ matched' = TRUE
            /\ row' = row + 1
            /\ UNCHANGED outcome
    /\ UNCHANGED <<query, data>>

WherePanics ==
    /\ AtRow
    /\ CurrentWhere = Panic
    /\ Fail
    /\ UNCHANGED <<query, data, row, funcs, matched>>

(* The result has a row only if some row matched. *)
Rewritten(expr) == Replace(expr, [call \in DOMAIN funcs |-> finalize(funcs[call])])

ResultRow ==
    [k \in DOMAIN projection |-> Eval(emptyNamespace, Rewritten(projection[k]))]

Finish ==
    /\ outcome = Pending /\ row = Len(data) + 1
    /\ outcome' = CASE ~matched -> Returned(<<>>)
                    [] matched /\ Panics(ResultRow) -> Failed
                    [] OTHER -> Returned(<<ResultRow>>)
    /\ UNCHANGED <<query, data, row, funcs, matched>>

Next == Rewrite \/ SkipRow \/ StepRow \/ WherePanics \/ Finish

(* Sequential code: a SELECT that is being evaluated goes on. *)
Spec == Init /\ [][Next]_vars /\ WF_vars(Next)

-----------------------------------------------------------------------------
(* The properties. *)

(* The rows that the loop has passed and that satisfy the WHERE clause,    *)
(* and the value of a call's argument in each.                             *)
Seen == {r \in 1 .. row - 1 : Matches(Where(query.where, Namespace(Columns, data[r])))}

ValueIn(call, r) == Argument(call, Namespace(Columns, data[r]))

NullIn(call) == {r \in Seen : ValueIn(call, r) = Null}

SeenOf(call, type) == {r \in Seen : ValueIn(call, r).type = type}

Called(names) == {call \in DOMAIN funcs : call.name \in names}

(* COUNT is the number of rows that matched and hold a value, COUNT of "*" *)
(* of all that matched, and the result has a row only if one matched.      *)
CountsMatches ==
    /\ matched <=> Seen # {}
    /\ \A call \in Called({"count"}) :
        funcs[call].count =
            Cardinality(IF call.args[1] = SelectStar THEN Seen
                        ELSE Seen \ NullIn(call))

(* MIN and MAX of integers are values of rows that matched, and no row     *)
(* that matched holds a smaller or a larger one: NULL never counts.        *)
ExtremesOfIntegers ==
    \A call \in Called({"min", "max"}) :
        LET values == {ValueIn(call, r).val : r \in SeenOf(call, "Integer")}
        IN  SeenOf(call, "Number") = {} /\ values # {} =>
                finalize(funcs[call]) =
                    IntegerValue(IF call.name = "min" THEN Min(values) ELSE Max(values))

(* SUM is exact, and a Number from the first Number on, in whatever order  *)
(* integers, numbers and nulls come: nothing that was added as an integer  *)
(* is lost by the change to floats.  Only a sum of integers that leaves    *)
(* their range before the first Number is not exact.                       *)
SumIsExact ==
    \A call \in Called({"sum"}) :
        LET ints == SeenOf(call, "Integer")
            nums == SeenOf(call, "Number")
            val(r) == ValueIn(call, r).val
            asFloat(r) == IF r \in ints THEN IntToFloat(val(r)) ELSE val(r)
            early == {r \in ints : \A q \in nums : r < q}
            upTo(r) == MapThenSumSet(val, {q \in early : q <= r})
            sum == MapThenFoldSet(LAMBDA x, y : FloatOp("+", x, y), IntToFloat(0),
                                  asFloat, LAMBDA rows : CHOOSE r \in rows : TRUE,
                                  ints \cup nums)
        IN  (\A r \in early : upTo(r) \in IntRange) =>
                finalize(funcs[call]) =
                    IF nums = {} THEN IntegerValue(MapThenSumSet(val, ints))
                                 ELSE NumberValue(sum)

(* The rows that SUM adds as integers, those before the first Number, and  *)
(* the rows that it adds as floats, with what each adds.                   *)
Early(call) ==
    {r \in SeenOf(call, "Integer") : \A q \in SeenOf(call, "Number") : r < q}

Late(call) == (SeenOf(call, "Integer") \cup SeenOf(call, "Number")) \ Early(call)

EarlyIntegers(call) == [r \in Early(call) |-> ValueIn(call, r).val]

LateFloats(call) ==
    [r \in Late(call) |-> IF ValueIn(call, r).type = "Integer"
                         THEN IntToFloat(ValueIn(call, r).val) ELSE ValueIn(call, r).val]

(* What the floats of rows come to, when they are added to a first one in  *)
(* the order of the rows.                                                  *)
AddedInOrder(first, floats, rows) ==
    MapThenFoldSet(LAMBDA x, y : FloatOp("+", y, x), first, LAMBDA r : floats[r],
                   Max, rows)

(* SUM adds every row that matched once: the integers before the first     *)
(* Number modulo their width, in an order that does not matter, and then   *)
(* the floats to that sum as a float, in the order of the rows, which does *)
(* matter to floats.  Unlike SumIsExact this needs no law of floats.       *)
SumFollowsRows ==
    \A call \in Called({"sum"}) :
        LET sum == Wrap(SumFunctionOnSet(EarlyIntegers(call), Early(call)))
        IN  finalize(funcs[call]) =
                IF SeenOf(call, "Number") = {} THEN IntegerValue(sum)
                ELSE NumberValue(AddedInOrder(IntToFloat(sum), LateFloats(call), Late(call)))

(* Once a projection is accepted, its result depends on no row: what is    *)
(* left of it after rewriting names no column, so the empty namespace it   *)
(* is evaluated in gives what any row would.                               *)
ProjectionIsClosed ==
    row > 0 =>
        \A k \in DOMAIN projection : \A r \in DOMAIN data :
            LET expr == Rewritten(projection[k])
            IN  Eval(emptyNamespace, expr) = Eval(Namespace(Columns, data[r]), expr)

(* Every SELECT returns. *)
QueryEnds == <>(outcome # Pending)

(* MIN and MAX bound the floats of the rows that matched too. *)
ExtremesOfNumbers ==
    \A call \in Called({"min", "max"}) : \A r \in SeenOf(call, "Number") :
        LET x == ValueIn(call, r).val
        IN  IF call.name = "min" THEN ~FloatLess(x, funcs[call].fval)
                                 ELSE ~FloatLess(funcs[call].fval, x)

=============================================================================
