------------------------------ MODULE AggExprs ------------------------------
(***************************************************************************)
(* The walks of eval/funcs.go over an expression with aggregate functions: *)
(* whether it may be evaluated, which calls are in it, and the expression  *)
(* without them.  They are what Aggregates takes as parameters.            *)
(***************************************************************************)
EXTENDS Exprs, AggFuncs

RECURSIVE Subexpressions(_), validateAggExpr(_), AggCalls(_), rewrite(_, _)

(* The nodes that ast.Walk visits below and at an expression.  The name of *)
(* a function is an Ident node of its own.                                 *)
Children(expr) ==
    CASE expr.node = "BinaryExpr" -> {expr.lhs, expr.rhs}
      [] expr.node = "UnaryExpr" -> {expr.expr}
      [] expr.node = "FunctionCall" -> {Ident(expr.name)} \cup Range(expr.args)
      [] OTHER -> {}

Subexpressions(expr) ==
    {expr} \cup UNION {Subexpressions(child) : child \in Children(expr)}

IsAggCall(expr) == expr.node = "FunctionCall" /\ expr.name \in builtinAggFuncs

containsAggFunc(expr) == \E e \in Subexpressions(expr) : IsAggCall(e)

(* A faulty validateAggExpr, which looks at the root of the expression and *)
(* at what is below an aggregate only.                                     *)
ValidAtRoot(expr) ==
    /\ expr.node # "Ident"
    /\ IsAggCall(expr) => \A k \in DOMAIN expr.args : ~containsAggFunc(expr.args[k])

(* No aggregate inside an aggregate, no identifier outside of one. *)
validateAggExpr(expr) ==
    IF IsAggCall(expr)
    THEN \A k \in DOMAIN expr.args : ~containsAggFunc(expr.args[k])
    ELSE expr.node # "Ident" /\ \A child \in Children(expr) : validateAggExpr(child)

(* The calls that the rewriter replaces. *)
AggCalls(expr) ==
    IF expr.node = "FunctionCall" THEN {expr}
    ELSE UNION {AggCalls(child) : child \in Children(expr)}

(* The expression with the value of each aggregate in the place of its call. *)
rewrite(expr, result) ==
    CASE expr.node = "FunctionCall" -> Literal(result[expr])
      [] expr.node = "BinaryExpr" ->
            BinaryExpr(expr.op, rewrite(expr.lhs, result), rewrite(expr.rhs, result))
      [] expr.node = "UnaryExpr" -> UnaryExpr(expr.op, rewrite(expr.expr, result))
      [] OTHER -> expr

=============================================================================
