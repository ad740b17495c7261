------------------------------ MODULE Grammar ------------------------------
(***************************************************************************)
(* What the parser is to compute, stated of the tokens and not of a        *)
(* parser: which tokens make a script, and which nodes a script stands     *)
(* for.  Precedence and associativity are conditions on a tree here; in    *)
(* the code they are the bound that parseBinaryExpr hands down.            *)
(***************************************************************************)
EXTENDS Parser

KindAt(i) == input[i].kind
LitAt(i) == input[i].lit
Ending == KindAt(Len(input))

(* The binary operators, from the loosest to the tightest. *)
Levels == <<{"OR"}, {"AND"}, ComparisonOps, {"+", "-", "||"}, {"*", "/"}>>

Operator == UNION Range(Levels)
Level(op) == CHOOSE n \in DOMAIN Levels : op \in Levels[n]

-----------------------------------------------------------------------------
(* Scripts.  Each phrase is the operator that takes the positions at which *)
(* it may begin to those at which it may then have ended.                  *)

RECURSIVE Signs(_), Exprs(_), Lists(_, _), Scripts(_)

Token(S, kinds) == {i + 1 : i \in {j \in S : KindAt(j) \in kinds}}

Tokens(S, sequence) == FoldLeft(LAMBDA T, kind : Token(T, {kind}), S, sequence)

Signs(S) == IF S = {} THEN {} ELSE S \cup Signs(Token(S, {"+", "-"}))

InParens(item, S) == Token(Lists(item, Token(S, {"("})), {")"})

Operands(S) ==
    LET T == Signs(S)
        names == Token(T, {"Ident"})
    IN  UNION { Token(T, {"NumberLiteral", "StringLiteral", "TRUE", "FALSE", "NULL"}),
                names, InParens("exprOrStar", names),
                Token(Exprs(Token(T, {"("})), {")"}) }

Exprs(S) ==
    IF S = {} THEN {}
    ELSE LET E == Operands(S) IN E \cup Exprs(Token(E, Operator))

Items(item, S) ==
    CASE item = "Ident" -> Token(S, {"Ident"})
      [] item = "expr" -> Exprs(S)
      [] item = "exprOrStar" -> Exprs(S) \cup Token(S, {"*"})
      [] item = "assignment" -> Exprs(Tokens(S, <<"Ident", "=">>))
      [] item = "column" ->
            LET T == Token(Token(S, {"Ident"}), DataTypes)
            IN  T \cup Token(T, {"NULL"}) \cup Tokens(T, <<"NOT", "NULL">>)

Lists(item, S) ==
    IF S = {} THEN {}
    ELSE LET E == Items(item, S) IN E \cup Lists(item, Token(E, {","}))

WithWhere(S) == S \cup Exprs(Token(S, {"WHERE"}))

Statements(S) ==
    LET insert == Tokens(S, <<"INSERT", "INTO", "Ident">>)
        set == Tokens(S, <<"UPDATE", "Ident", "SET">>)
    IN  UNION {
          InParens("column", Tokens(S, <<"CREATE", "TABLE", "Ident">>)),
          InParens("expr", Token(insert \cup InParens("Ident", insert), {"VALUES"})),
          WithWhere(Tokens(Lists("exprOrStar", Token(S, {"SELECT"})),
                           <<"FROM", "Ident">>)),
          WithWhere(Lists("assignment", set) \cup InParens("assignment", set)),
          WithWhere(Tokens(S, <<"DELETE", "FROM", "Ident">>)) }

Scripts(S) ==
    IF S = {} THEN {} ELSE S \cup Scripts(Token(Statements(S), {";"}))

IsScript == Ending = "end" /\ Len(input) \in Scripts({1})

-----------------------------------------------------------------------------
(* Trees.  The tokens from i to before j, cut at the separators that are   *)
(* in no parentheses, are a sequence of parts.                             *)

Depth(i, j) ==
    Cardinality({k \in i .. j - 1 : KindAt(k) = "("})
        - Cardinality({k \in i .. j - 1 : KindAt(k) = ")"})

Parts(i, j, separator) ==
    LET cuts == {k \in i .. j - 1 : KindAt(k) = separator /\ Depth(i, k) = 0}
        ends == SetToSortSeq(cuts \cup {j}, <)
    IN  [n \in DOMAIN ends |->
            [from |-> IF n = 1 THEN i ELSE ends[n - 1] + 1, to |-> ends[n]]]

First(kind, i, j) ==
    LET S == {k \in i .. j - 1 : KindAt(k) = kind}
    IN  IF S = {} THEN j ELSE Min(S)

RECURSIVE Reads(_, _, _, _, _)

ReadsAll(exprs, i, j) ==
    LET parts == Parts(i, j, ",")
    IN  /\ DOMAIN exprs = DOMAIN parts
        /\ \A n \in DOMAIN parts :
              Reads(exprs[n], parts[n].from, parts[n].to, 1, TRUE)

(* Whether the tokens from i to before j stand for expr.  Outside of       *)
(* parentheses an operator is of a level not less than min, its left       *)
(* operand of its own level and its right one of a higher level; a sign    *)
(* takes all that follows it, so it is last in its parentheses or list.    *)
Reads(expr, i, j, min, last) ==
    \/ /\ KindAt(i) = "(" /\ KindAt(j - 1) = ")"
       /\ Reads(expr, i + 1, j - 1, 1, TRUE)
    \/ /\ j = i + 1
       /\ CASE expr.node = "Ident" -> KindAt(i) = "Ident" /\ expr.name = LitAt(i)
            [] expr.node = "SelectStar" -> KindAt(i) = "*"
            [] expr.node = "Literal" ->
                 CASE KindAt(i) \in {"TRUE", "FALSE"} ->
                        expr.value = BooleanValue(KindAt(i) = "TRUE")
                   [] KindAt(i) = "NULL" -> expr.value = Null
                   [] KindAt(i) = "StringLiteral" ->
                        expr.value = StringValue(LitAt(i))
                   [] KindAt(i) = "NumberLiteral" /\ LitAt(i).digits ->
                        expr.value =
                            IntegerValue(Max({n \in IntRange : n <= LitAt(i).val}))
                   [] KindAt(i) = "NumberLiteral" /\ ~LitAt(i).digits ->
                        expr.value = NumberValue(LitAt(i).val)
                   [] OTHER -> FALSE
            [] OTHER -> FALSE
    \/ /\ expr.node = "FunctionCall"
       /\ KindAt(i) = "Ident" /\ expr.name = LitAt(i)
       /\ KindAt(i + 1) = "(" /\ KindAt(j - 1) = ")"
       /\ ReadsAll(expr.args, i + 2, j - 1)
    \/ /\ expr.node = "UnaryExpr" /\ last
       /\ KindAt(i) = expr.op
       /\ Reads(expr.expr, i + 1, j, 1, TRUE)
    \/ /\ expr.node = "BinaryExpr" /\ Level(expr.op) >= min
       /\ \E k \in i + 1 .. j - 2 :
            /\ KindAt(k) = expr.op
            /\ Reads(expr.lhs, i, k, Level(expr.op), FALSE)
            /\ Reads(expr.rhs, k + 1, j, Level(expr.op) + 1, last)

ReadsWhere(where, i, j) ==
    IF i = j THEN where = NoWhere
    ELSE KindAt(i) = "WHERE" /\ Reads(where, i + 1, j, 1, TRUE)

ReadsColumns(columns, i, j) ==
    LET parts == Parts(i, j, ",")
    IN  columns = [n \in DOMAIN parts |->
            [name |-> LitAt(parts[n].from),
             type |-> dataTypeFromToken[KindAt(parts[n].from + 1)],
             nullable |-> First("NOT", parts[n].from, parts[n].to) = parts[n].to]]

NamesIn(i, j) ==
    LET names == SelectSeq(SubSeq(input, i, j - 1), LAMBDA t : t.kind = "Ident")
    IN  [n \in DOMAIN names |-> names[n].lit]

ReadsAssignments(columns, values, i, j) ==
    LET parts == IF KindAt(i) = "(" THEN Parts(i + 1, j - 1, ",") ELSE Parts(i, j, ",")
    IN  /\ columns = [n \in DOMAIN parts |-> LitAt(parts[n].from)]
        /\ DOMAIN values = DOMAIN parts
        /\ \A n \in DOMAIN parts :
              Reads(values[n], parts[n].from + 2, parts[n].to, 1, TRUE)

ReadsStmt(s, i, j) ==
    LET where == First("WHERE", i, j)
        from == First("FROM", i, j)
        values == First("VALUES", i, j)
    IN  CASE s.kind = "create" ->
               /\ KindAt(i) = "CREATE" /\ s.table = LitAt(i + 2)
               /\ ReadsColumns(s.columns, i + 4, j - 1)
          [] s.kind = "select" ->
               /\ KindAt(i) = "SELECT" /\ s.table = LitAt(from + 1)
               /\ ReadsAll(s.exprs, i + 1, from)
               /\ ReadsWhere(s.where, where, j)
          [] s.kind = "insert" ->
               /\ KindAt(i) = "INSERT" /\ s.table = LitAt(i + 2)
               /\ s.columns = NamesIn(i + 3, values)
               /\ ReadsAll(s.values, values + 2, j - 1)
          [] s.kind = "update" ->
               /\ KindAt(i) = "UPDATE" /\ s.table = LitAt(i + 1)
               /\ ReadsAssignments(s.columns, s.values, i + 3, where)
               /\ ReadsWhere(s.where, where, j)
          [] s.kind = "delete" ->
               /\ KindAt(i) = "DELETE" /\ s.table = LitAt(from + 1)
               /\ ReadsWhere(s.where, where, j)

-----------------------------------------------------------------------------
(* The properties. *)

(* Parse accepts the scripts of the grammar, with statements in any order  *)
(* and number, and every one of them whole.  Beyond them it accepts only a *)
(* first token that the lexer refuses, which it takes for empty input: not *)
(* a later one, though it be the one after a first that begins nothing.    *)
ParsesTheGrammar ==
    outcome # Pending =>
        (outcome.status = "ok" <=> IsScript \/ KindAt(1) = "error")

(* The nodes it returns are the statements that are written, with every    *)
(* expression grouped by the levels of its operators and from the left,    *)
(* except that a sign takes all of the expression that follows it, and     *)
(* every integer the one that is written or the greatest there is.         *)
TreesAreRead ==
    outcome.status = "ok" =>
        LET parts == Parts(1, Len(input), ";")
        IN  /\ Len(outcome.nodes) + 1 = Len(parts)
            /\ \A n \in DOMAIN outcome.nodes :
                  ReadsStmt(outcome.nodes[n], parts[n].from, parts[n].to)

(* What the lexer refuses is an error of Parse, wherever it stands.        *)
RefusalsAreReported == Ending = "error" => outcome.status # "ok"

(* Parse returns, for every sequence of tokens.                            *)
ParseEnds == <>(outcome # Pending)

=============================================================================
