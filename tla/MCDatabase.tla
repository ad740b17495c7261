----------------------------- MODULE MCDatabase -----------------------------
(***************************************************************************)
(* A small instance of Database: two-bit integers, a table t that a script *)
(* creates or a host program does, then with auto-increment, and           *)
(* statements chosen to fail halfway as often as they succeed.             *)
(***************************************************************************)
EXTENDS Database, Exprs, MCValues

-----------------------------------------------------------------------------
(* The statements. *)

Create(t, columns) == [kind |-> "create", table |-> t, columns |-> columns]
Insert(t, columns, values) ==
    [kind |-> "insert", table |-> t, columns |-> columns, values |-> values]
SelectFrom(t, exprs, where) ==
    [kind |-> "select", table |-> t, exprs |-> exprs, where |-> where]
Set(t, columns, values, where) ==
    [kind |-> "update", table |-> t, columns |-> columns, values |-> values,
     where |-> where]
DeleteFrom(t, where) == [kind |-> "delete", table |-> t, where |-> where]

Def(name, type, nullable) == [name |-> name, type |-> type, nullable |-> nullable]

MCTableName == {"t", "u"}
MCColumnName == {"a", "b", "c"}

(* t (a integer not null, b varchar null); u is never created *)
Creates == {
    Create("t", <<Def("a", "Integer", FALSE), Def("b", "String", TRUE)>>),
    Create("u", <<Def("a", "Integer", FALSE), Def("b", "String", TRUE),
                  Def("a", "String", TRUE)>>) }

(* a is auto-increment; b is not null, with a default that is coerced *)
HostColumn(name, type, nullable, default, autoInc) ==
    [name |-> name, type |-> type, nullable |-> nullable,
     default |-> default, autoInc |-> autoInc, nextVal |-> 0]

MCHostTable == {
    [kind |-> "host", table |-> "t", columns |-> <<
        HostColumn("a", "Integer", TRUE, Null, TRUE),
        HostColumn("b", "String", FALSE, IntegerValue(1), FALSE) >>] }

Inserts == {
    Insert("t", <<>>, <<Num(1), Text("x")>>),
    Insert("t", <<"b", "a">>, <<Num(0), Text("1")>>),   \* both are coerced
    Insert("t", <<"a", "a">>, <<Num(-2), Text("x")>>),  \* the first a counts
    Insert("t", <<"b">>, <<Text("x")>>),        \* a is not null, or generated
    Insert("t", <<"b">>, <<NullExpr>>),         \* and its value is lost
    Insert("t", <<>>, <<Num(1)>>),              \* too few values
    Insert("t", <<"a", "c">>, <<Num(1), Num(1)>>),      \* no column c
    Insert("t", <<>>, <<A, NullExpr>>) }        \* no row to look a up in

Selects == {
    SelectFrom("t", <<SelectStar, BinaryExpr("/", Num(1), A)>>,
               BinaryExpr("<", A, Num(1))),
    SelectFrom("t", <<B>>, BinaryExpr("=", B, Text("x"))),
    SelectFrom("u", <<SelectStar>>, NoWhere) }

Updates == {
    Set("t", <<"a", "b">>, <<UnaryExpr("-", A), A>>, NoWhere),
    Set("t", <<"a">>, <<NullExpr>>, BinaryExpr("=", B, Text("x"))),
    Set("t", <<"b", "a">>, <<NullExpr, BinaryExpr("/", Num(-2), A)>>,
        BinaryExpr("<=", A, Num(0))),
    Set("t", <<"a", "c">>, <<Num(0), Num(1)>>, BinaryExpr("=", A, Num(1))) }

Deletes == {
    DeleteFrom("t", BinaryExpr("=", A, Num(1))),
    DeleteFrom("t", BinaryExpr("AND", BinaryExpr(">", A, Num(-2)),
                                      BinaryExpr("=", BinaryExpr("+", A, B), A))),
    DeleteFrom("t", B) }        \* not a Boolean

MCStmt == Creates \cup Inserts \cup Selects \cup Updates \cup Deletes

=============================================================================
