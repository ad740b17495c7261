------------------------------- MODULE Exprs -------------------------------
(***************************************************************************)
(* Expression evaluation: evalExpr of eval/eval.go and the namespaces of   *)
(* eval/namespace.go.  A namespace is the pair of a table's columns and    *)
(* one of its rows; the empty namespace has no columns.  An evaluation     *)
(* that panics anywhere panics as a whole, so the result is a value, Null  *)
(* or Panic.                                                               *)
(***************************************************************************)
EXTENDS Tables

RECURSIVE EvalExpr(_, _)

(* currentRow.lookup and emptyNamespace.lookup. *)
lookup(ns, name) ==
    LET i == colIndex(ns.columns, name)
    IN  IF i = 0 THEN Panic ELSE ns.row[i]

evalBinaryExpr(ns, expr) ==
    binaryOp(expr.op, EvalExpr(ns, expr.lhs), EvalExpr(ns, expr.rhs))

evalUnaryExpr(ns, expr) ==
    LET v == EvalExpr(ns, expr.expr)
    IN  IF v = Panic THEN Panic ELSE unaryArithOp(expr.op, v)

(* Function calls and "*" have no value of their own: only the rewriting   *)
(* of an aggregate SELECT gives one to the calls it replaces.              *)
EvalExpr(ns, expr) ==
    CASE expr.node = "Ident" -> lookup(ns, expr.name)
      [] expr.node = "Literal" -> expr.value
      [] expr.node = "BinaryExpr" -> evalBinaryExpr(ns, expr)
      [] expr.node = "UnaryExpr" -> evalUnaryExpr(ns, expr)
      [] OTHER -> Panic

=============================================================================
