------------------------------- MODULE Tables -------------------------------
(***************************************************************************)
(* Tables, rows and namespaces: what eval/db.go, eval/env.go and the       *)
(* helpers of eval/eval.go compute on one table or one row.                *)
(***************************************************************************)
EXTENDS Values, Ast, SequencesExt

CONSTANT Eval(_, _)     \* evalExpr: the value of an expression in a namespace

(* A sequence, whatever its elements are. *)
IsSeq(s) == Len(s) \in Nat /\ s = [i \in 1 .. Len(s) |-> s[i]]

ColumnField == {"name", "type", "nullable", "default", "autoInc", "nextVal"}

(* The first position of x in the sequence s, 0 when it is not there. *)
PositionOf(s, x) ==
    IF \E i \in DOMAIN s : s[i] = x
    THEN CHOOSE i \in DOMAIN s :
            s[i] = x /\ \A j \in DOMAIN s : j < i => s[j] # x
    ELSE 0

Names(columns) == [i \in DOMAIN columns |-> columns[i].name]

colIndex(columns, name) == PositionOf(Names(columns), name)

(* The columns and values an identifier is looked up in: currentRow. *)
Namespace(columns, row) == [columns |-> columns, row |-> row]

emptyNamespace == Namespace(<<>>, <<>>)

(* A WHERE clause that is not there: a nil ast.Expr. *)
NoWhere == [node |-> "nil"]

(* What the parser guarantees of a statement. *)
StmtOK(s, tableNames, columnNames) ==
    /\ s.kind \in {"create", "insert", "select", "update", "delete"}
    /\ s.table \in tableNames
    /\ s.kind = "create" =>
         /\ s.columns \in
              Seq([name : columnNames, type : Type, nullable : BOOLEAN])
         /\ s.columns # <<>>
    /\ s.kind = "insert" =>
         /\ s.columns \in Seq(columnNames)
         /\ IsSeq(s.values) /\ s.values # <<>>
    /\ s.kind = "update" =>
         /\ s.columns \in Seq(columnNames)
         /\ s.columns # <<>>
         /\ Len(s.values) = Len(s.columns)

-----------------------------------------------------------------------------
(* CREATE TABLE *)

Repeats(columns) ==
    \E i, j \in DOMAIN columns : i # j /\ columns[i].name = columns[j].name

(* A column definition has neither a default nor auto-increment. *)
NewColumn(def) ==
    [name |-> def.name, type |-> def.type, nullable |-> def.nullable,
     default |-> Null, autoInc |-> FALSE, nextVal |-> 0]

-----------------------------------------------------------------------------
(* INSERT *)

(* Whether column i takes its value from auto-increment. *)
TakesNextVal(columns, names, i) ==
    /\ names # <<>>
    /\ PositionOf(names, columns[i].name) = 0
    /\ columns[i].type = "Integer"
    /\ columns[i].autoInc

(* The columns once an INSERT has taken the auto-increment values. *)
Consumed(columns, names) ==
    [i \in DOMAIN columns |->
        IF TakesNextVal(columns, names, i)
        THEN [columns[i] EXCEPT !.nextVal = Wrap(@ + 1)]
        ELSE columns[i]]

(* The value of column i before it is coerced: no names are all columns in *)
(* table order, and of a name that is repeated the first one counts.       *)
Supplied(columns, names, values, i) ==
    LET j == PositionOf(names, columns[i].name)
    IN  CASE names = <<>> -> values[i]
          [] names # <<>> /\ j # 0 -> values[j]
          [] TakesNextVal(columns, names, i) -> IntegerValue(columns[i].nextVal)
          [] OTHER -> columns[i].default

(* A faulty Stored, which does not coerce. *)
StoredAsGiven(column, v) == IF v = Null /\ ~column.nullable THEN Panic ELSE v

(* What a column accepts for v: NOT NULL is enforced, and v is coerced. *)
Stored(column, v) ==
    CASE v # Null -> coerce(v, column.type)
      [] v = Null /\ column.nullable -> Null
      [] OTHER -> Panic

(* A faulty NewRow, which keeps the values in the order they are given. *)
RowAsGiven(columns, names, values) ==
    [k \in DOMAIN values |-> Stored(columns[k], values[k])]

NewRow(columns, names, values) ==
    [i \in DOMAIN columns |->
        Stored(columns[i], Supplied(columns, names, values, i))]

-----------------------------------------------------------------------------
(* WHERE and projection *)

(* Whether a row satisfies a WHERE clause: TRUE, FALSE, or Panic when the  *)
(* clause panics or is not a Boolean.                                      *)
Where(where, ns) ==
    IF where = NoWhere THEN BooleanValue(TRUE) ELSE toBoolean(Eval(ns, where))

Matches(v) == v # Panic /\ v.val
Differs(v) == v # Panic /\ ~v.val

(* "*" stands for every column of the table. *)
Projection(exprs, columns) ==
    FlattenSeq([k \in DOMAIN exprs |->
        IF exprs[k] = SelectStar
        THEN [i \in DOMAIN columns |-> Ident(columns[i].name)]
        ELSE <<exprs[k]>>])

Project(exprs, ns) ==
    LET projection == Projection(exprs, ns.columns)
    IN  [k \in DOMAIN projection |-> Eval(ns, projection[k])]

(* A result column is named after an identifier, and "?" otherwise. *)
ResultNames(exprs, columns) ==
    LET projection == Projection(exprs, columns)
    IN  [k \in DOMAIN projection |->
           IF projection[k].node = "Ident" THEN projection[k].name ELSE "?"]

Panics(values) == \E k \in DOMAIN values : values[k] = Panic

=============================================================================
