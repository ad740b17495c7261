-------------------------------- MODULE Ast --------------------------------
(***************************************************************************)
(* The expression nodes of ast/ast.go, without their positions.  The five  *)
(* literal nodes (integer, number, string, boolean, NULL) differ only in   *)
(* the value they hold, so they are one node here.                         *)
(***************************************************************************)

Ident(name) == [node |-> "Ident", name |-> name]

Literal(value) == [node |-> "Literal", value |-> value]

BinaryExpr(op, lhs, rhs) ==
    [node |-> "BinaryExpr", op |-> op, lhs |-> lhs, rhs |-> rhs]

UnaryExpr(op, expr) == [node |-> "UnaryExpr", op |-> op, expr |-> expr]

FunctionCall(name, args) ==
    [node |-> "FunctionCall", name |-> name, args |-> args]

(* The "*" of a projection or of COUNT. *)
SelectStar == [node |-> "SelectStar"]

=============================================================================
