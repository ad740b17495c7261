--------------------------- MODULE DatabaseProofs ---------------------------
(***************************************************************************)
(* Theorems about Database, for all tables, statements and expressions.    *)
(* Nothing is assumed of Eval: an expression may evaluate to anything, a   *)
(* panic included.                                                         *)
(***************************************************************************)
EXTENDS Database, Lemmas

(* What the proofs use of a step is that it evaluates: any statement may   *)
(* be submitted that is as the parser guarantees it.                       *)
Step == (\E s : Evaluable(s) /\ Submit(s)) \/ Evaluate \/ UNCHANGED vars

-----------------------------------------------------------------------------
(* Rows and columns. *)

(* Rows that fit stay so when one more that fits is appended. *)
LEMMA AppendRowOK ==
    ASSUME NEW columns, NEW rows, RowsOK(columns, rows),
           NEW row, RowOK(columns, row)
    PROVE  RowsOK(columns, Append(rows, row))
<1>1. IsSeq(rows)
  BY DEF RowsOK
<1>2. \A r \in DOMAIN rows : RowOK(columns, rows[r])
  BY DEF RowsOK
<1> QED
  BY <1>1, <1>2, AppendIsSeq, SeqDomain DEF RowsOK

(* A column that is found is a column of that name. *)
LEMMA ColIndexIsFound ==
    ASSUME NEW columns, NEW name, IsSeq(columns), ~Repeats(columns),
           colIndex(columns, name) # 0
    PROVE  /\ colIndex(columns, name) \in DOMAIN columns
           /\ columns[colIndex(columns, name)].name = name
<1> DEFINE names == Names(columns)
           First(i) == names[i] = name /\ \A j \in DOMAIN names : j < i => names[j] # name
<1>1. DOMAIN names = DOMAIN columns /\ \A i \in DOMAIN columns : names[i] = columns[i].name
  BY DEF Names
<1>2. PICK i \in DOMAIN names : names[i] = name
  BY DEF colIndex, PositionOf
<1>3. \A j \in DOMAIN names : j # i => names[j] # name
  BY <1>1, <1>2 DEF Repeats
<1>4. i \in DOMAIN names /\ First(i)
  BY <1>1, <1>2, <1>3, SeqDomain
<1>5. colIndex(columns, name) = CHOOSE k \in DOMAIN names : First(k)
  BY <1>2 DEF colIndex, PositionOf
<1> HIDE DEF First
<1>6. colIndex(columns, name) \in DOMAIN names /\ First(colIndex(columns, name))
  BY <1>4, <1>5
<1> QED
  BY <1>1, <1>6 DEF First

(* One value of one row is replaced, as by an assignment of UPDATE. *)
LEMMA AssignRowOK ==
    ASSUME NEW columns, NEW rows, RowsOK(columns, rows),
           NEW r \in DOMAIN rows, NEW n, NEW v, v # Panic
    PROVE  /\ RowsOK(columns, [rows EXCEPT ![r][n] = v])
           /\ DOMAIN [rows EXCEPT ![r][n] = v] = DOMAIN rows
<1> DEFINE new == [rows EXCEPT ![r][n] = v]
<1>1. IsSeq(rows) /\ \A i \in DOMAIN rows : RowOK(columns, rows[i])
  BY DEF RowsOK
<1>2. DOMAIN new = DOMAIN rows /\ new = [i \in DOMAIN rows |-> new[i]]
  OBVIOUS
<1>3. IsSeq(new)
  BY <1>1, <1>2, SeqDomain, FunctionIsSeq
<1>4. ASSUME NEW i \in DOMAIN rows
      PROVE  RowOK(columns, new[i])
  <2>1. new[i] = IF i = r THEN [rows[i] EXCEPT ![n] = v] ELSE rows[i]
    OBVIOUS
  <2>2. RowOK(columns, rows[i])
    BY <1>1
  <2> QED
    BY <2>1, <2>2 DEF RowOK, Panics
<1> QED
  BY <1>2, <1>3, <1>4 DEF RowsOK

(* INSERT changes a column in its next value only. *)
LEMMA ConsumedColumns ==
    ASSUME NEW columns, NEW names, ColumnsOK(columns)
    PROVE  /\ ColumnsOK(Consumed(columns, names))
           /\ DOMAIN Consumed(columns, names) = DOMAIN columns
           /\ \A i \in DOMAIN columns :
                /\ Consumed(columns, names)[i].name = columns[i].name
                /\ Consumed(columns, names)[i].type = columns[i].type
                /\ Consumed(columns, names)[i].nullable = columns[i].nullable
           /\ Schema(Consumed(columns, names)) = Schema(columns)
<1> DEFINE new == Consumed(columns, names)
<1>1. /\ IsSeq(columns)
      /\ \A i \in DOMAIN columns :
            /\ DOMAIN columns[i] = ColumnField
            /\ columns[i].name \in ColumnName
            /\ columns[i].nullable \in BOOLEAN
  BY DEF ColumnsOK
<1>2. DOMAIN new = DOMAIN columns /\ new = [i \in DOMAIN columns |-> new[i]]
  BY DEF Consumed
<1>3. IsSeq(new)
  BY <1>1, <1>2, SeqDomain, FunctionIsSeq
<1>4. ASSUME NEW i \in DOMAIN columns
      PROVE  /\ DOMAIN new[i] = ColumnField
             /\ new[i].name = columns[i].name
             /\ new[i].type = columns[i].type
             /\ new[i].nullable = columns[i].nullable
             /\ [new[i] EXCEPT !.nextVal = 0] = [columns[i] EXCEPT !.nextVal = 0]
  <2>1. DOMAIN columns[i] = ColumnField
    BY <1>1
  <2>2. CASE new[i] = columns[i]
    BY <2>1, <2>2
  <2>3. CASE new[i] = [columns[i] EXCEPT !.nextVal = Wrap(@ + 1)]
    BY <2>1, <2>3 DEF ColumnField
  <2> QED
    BY <2>2, <2>3 DEF Consumed
<1> HIDE DEF new
<1>5. Schema(new) = Schema(columns)
  BY <1>2, <1>4 DEF Schema
<1> QED
  BY <1>1, <1>2, <1>3, <1>4, <1>5 DEF ColumnsOK, new

-----------------------------------------------------------------------------
(* Type correctness. *)

(* An error returns no rows. *)
LEMMA FailedIsOK == Failed # Pending /\ RowsOK(Failed.table.columns, Failed.table.data)
BY EmptyIsSeq DEF Failed, Pending, NoTable, RowsOK

(* A statement that is no SELECT returns no rows. *)
LEMMA NothingReturnedIsOK ==
    /\ Returned(NoTable) # Pending
    /\ RowsOK(Returned(NoTable).table.columns, Returned(NoTable).table.data)
BY EmptyIsSeq DEF Returned, Pending, NoTable, RowsOK

(* A step that ends a statement keeps the type when the tables do. *)
LEMMA EndKeepsType ==
    ASSUME TypeOK, TablesOK', scan' = scan, touched' = touched,
           outcome' # Pending,
           RowsOK(outcome'.table.columns, outcome'.table.data)
    PROVE  TypeOK'
BY DEF TypeOK, Scanning, Evaluating

(* A panic, after which nothing is written, keeps the type. *)
LEMMA FailKeepsType ==
    ASSUME TypeOK, Fail, UNCHANGED <<tables, scan, touched>>
    PROVE  TypeOK'
<1>1. TablesOK'
  BY DEF TypeOK, TablesOK
<1> QED
  BY <1>1, EndKeepsType, FailedIsOK DEF Fail

(* A step of a loop that changes no table. *)
LEMMA LoopKeepsType ==
    ASSUME TypeOK, Scanning(Loops), UNCHANGED <<tables, stmt, outcome, touched>>,
           DOMAIN scan' = {"row", "set", "out"}, ScanOK'
    PROVE  TypeOK'
<1>1. TablesOK'
  BY DEF TypeOK, TablesOK
<1> QED
  BY <1>1 DEF TypeOK

(* What holds of the table that a loop scans. *)
LEMMA ScannedIsOK ==
    ASSUME TypeOK, Scanning(Loops)
    PROVE  /\ TableOK(Scanned) /\ ScanOK
           /\ IsSeq(Scanned.columns) /\ ~Repeats(Scanned.columns)
           /\ RowsOK(Scanned.columns, Scanned.data)
           /\ Len(Scanned.data) \in Nat /\ DOMAIN Scanned.data = 1 .. Len(Scanned.data)
           /\ scan.row \in Nat /\ scan.set \in Int
           /\ StmtOK(stmt, TableName, ColumnName)
           /\ ~AtEnd => scan.row \in DOMAIN Scanned.data /\ RowOK(Scanned.columns, CurrentRow)
<1>1. TableOK(Scanned) /\ ScanOK
  BY DEF TypeOK, TablesOK, Scanned, Scanning
<1>2. /\ IsSeq(Scanned.columns) /\ ~Repeats(Scanned.columns)
      /\ RowsOK(Scanned.columns, Scanned.data)
  BY <1>1 DEF TableOK, ColumnsOK
<1>3. Len(Scanned.data) \in Nat /\ DOMAIN Scanned.data = 1 .. Len(Scanned.data)
  BY <1>2, SeqDomain DEF RowsOK
<1>4. StmtOK(stmt, TableName, ColumnName)
  BY DEF TypeOK, Scanning, Evaluating, Loops, Evaluable, HostOK
<1>5. stmt.kind = "update" => Len(stmt.columns) \in Nat
  BY <1>4 DEF StmtOK
<1>6. scan.row \in Nat /\ scan.set \in Int
  BY <1>1, <1>3, <1>5 DEF ScanOK
<1>7. ASSUME ~AtEnd
      PROVE  scan.row \in DOMAIN Scanned.data /\ RowOK(Scanned.columns, CurrentRow)
  <2>1. scan.row \in DOMAIN Scanned.data
    BY <1>1, <1>3, <1>7 DEF ScanOK, AtEnd
  <2> QED
    BY <1>2, <2>1 DEF RowsOK, CurrentRow
<1> QED
  BY <1>1, <1>2, <1>3, <1>4, <1>6, <1>7

(* The statements of Stmt are of the kind that may be submitted. *)
LEMMA NextIsStep == [Next]_vars => Step
BY StmtsParsed DEF StmtAssumption, Evaluable, Step, Next

(* A new environment has the type. *)
LEMMA InitType == Init => TypeOK
<1> SUFFICES ASSUME Init PROVE TypeOK
  OBVIOUS
<1>1. TablesOK
  BY DEF Init, TablesOK
<1>2. RowsOK(outcome.table.columns, outcome.table.data) /\ outcome # Pending
  BY NothingReturnedIsOK DEF Init
<1> QED
  BY <1>1, <1>2 DEF Init, TypeOK, Scanning, Evaluating, StartOfScan

(* The call of EvalStmt writes nothing and starts before the first row. *)
LEMMA SubmitType ==
    ASSUME TypeOK, NEW s, Evaluable(s), Submit(s)
    PROVE  TypeOK'
<1>1. /\ outcome' = Pending /\ stmt' = s /\ scan' = StartOfScan
      /\ UNCHANGED <<tables, touched>>
  BY DEF Submit
<1>2. TablesOK'
  BY <1>1 DEF TypeOK, TablesOK
<1>3. RowsOK(outcome'.table.columns, outcome'.table.data)
  BY <1>1, EmptyIsSeq DEF Pending, NoTable, RowsOK
<1>4. ASSUME Scanning(Loops)'
      PROVE  ScanOK'
  <2>1. TableOK(Scanned')
    BY <1>2, <1>4 DEF TablesOK, Scanning, Scanned
  <2>2. Len(Scanned'.data) \in Nat
    BY <2>1, SeqDomain DEF TableOK, RowsOK
  <2>3. s.kind = "update" => Len(s.columns) \in Nat
    BY DEF Evaluable, StmtOK, HostOK
  <2>4. \A columns : RowsOK(columns, <<>>)
    BY EmptyIsSeq DEF RowsOK
  <2> QED
    BY <1>1, <2>2, <2>3, <2>4 DEF ScanOK, StartOfScan
<1> QED
  BY <1>1, <1>2, <1>3, <1>4 DEF TypeOK, StartOfScan

(* CREATE TABLE adds a table whose columns have distinct names. *)
LEMMA CreateTableType ==
    ASSUME TypeOK, CreateTable
    PROVE  TypeOK'
<1>1. CASE stmt.table \in DOMAIN tables \/ Repeats(CreatedColumns)
  BY <1>1, FailKeepsType DEF CreateTable
<1>2. CASE ~(stmt.table \in DOMAIN tables \/ Repeats(CreatedColumns))
  <2> DEFINE new == [columns |-> CreatedColumns, data |-> <<>>]
  <2>1. /\ Return(NoTable) /\ UNCHANGED <<scan, touched>>
        /\ Evaluable(stmt) /\ stmt.kind \in {"create", "host"}
        /\ DOMAIN tables' = DOMAIN tables \cup {stmt.table}
        /\ \A t \in DOMAIN tables' :
              tables'[t] = IF t = stmt.table THEN new ELSE tables[t]
    BY <1>2 DEF CreateTable, Evaluating, TypeOK
  <2>2. stmt.table \in TableName
    BY <2>1 DEF Evaluable, StmtOK, HostOK
  <2>3. ColumnsOK(CreatedColumns)
    <3>1. CASE stmt.kind = "host"
      <4>1. HostOK(stmt)
        BY <2>1, <3>1 DEF Evaluable, StmtOK
      <4> QED
        BY <3>1, <4>1 DEF HostOK, CreatedColumns
    <3>2. CASE stmt.kind = "create"
      <4>1. stmt.columns \in Seq([name : ColumnName, type : Type, nullable : BOOLEAN])
        BY <2>1, <3>2 DEF Evaluable, StmtOK, HostOK
      <4>2. CreatedColumns = [i \in DOMAIN stmt.columns |-> NewColumn(stmt.columns[i])]
        BY <3>2 DEF CreatedColumns
      <4>3. IsSeq(CreatedColumns)
        BY <4>1, <4>2, FunctionIsSeq
      <4>4. ASSUME NEW i \in DOMAIN CreatedColumns
            PROVE  /\ DOMAIN CreatedColumns[i] = ColumnField
                   /\ CreatedColumns[i].name \in ColumnName
                   /\ CreatedColumns[i].nullable \in BOOLEAN
        <5>1. i \in DOMAIN stmt.columns /\ CreatedColumns[i] = NewColumn(stmt.columns[i])
          BY <4>2, <4>4
        <5>2. stmt.columns[i] \in [name : ColumnName, type : Type, nullable : BOOLEAN]
          BY <4>1, <5>1, ElementOfSeq, LenProperties
        <5> QED
          BY <5>1, <5>2 DEF NewColumn, ColumnField
      <4> QED
        BY <4>3, <4>4 DEF ColumnsOK
    <3> QED
      BY <2>1, <3>1, <3>2
  <2>4. TableOK(new)
    BY <1>2, <2>3, EmptyIsSeq DEF TableOK, RowsOK
  <2>5. TablesOK'
    BY <2>1, <2>2, <2>4 DEF TypeOK, TablesOK
  <2> QED
    BY <2>1, <2>5, EndKeepsType, NothingReturnedIsOK DEF Return
<1> QED
  BY <1>1, <1>2

(* The table that INSERT leaves, with or without the new row. *)
LEMMA InsertedTableOK ==
    ASSUME NEW tab, TableOK(tab), NEW names, NEW values,
           NEW row, row = NewRow(tab.columns, names, values)
    PROVE  TableOK([columns |-> Consumed(tab.columns, names),
                    data |-> IF Panics(row) THEN tab.data ELSE Append(tab.data, row)])
<1> DEFINE columns == Consumed(tab.columns, names)
<1>1. ColumnsOK(tab.columns) /\ ~Repeats(tab.columns) /\ RowsOK(tab.columns, tab.data)
  BY DEF TableOK
<1>2. ColumnsOK(columns) /\ DOMAIN columns = DOMAIN tab.columns
      /\ \A i \in DOMAIN tab.columns : columns[i].name = tab.columns[i].name
  BY <1>1, ConsumedColumns
<1> HIDE DEF columns
<1>3. ~Repeats(columns)
  BY <1>1, <1>2 DEF Repeats
<1>4. \A rows : RowsOK(tab.columns, rows) => RowsOK(columns, rows)
  BY <1>2 DEF RowsOK, RowOK
<1>5. CASE Panics(row)
  BY <1>1, <1>2, <1>3, <1>4, <1>5 DEF TableOK, columns
<1>6. CASE ~Panics(row)
  <2>1. RowOK(tab.columns, row)
    BY <1>6 DEF RowOK, NewRow
  <2>2. RowsOK(columns, Append(tab.data, row))
    BY <1>1, <1>4, <2>1, AppendRowOK
  <2> QED
    BY <1>2, <1>3, <1>6, <2>2 DEF TableOK, columns
<1> QED
  BY <1>5, <1>6

(* INSERT leaves a table whose rows fit its columns. *)
LEMMA InsertType ==
    ASSUME TypeOK, InsertStmt
    PROVE  TypeOK'
<1>1. CASE InsertRefused
  BY <1>1, FailKeepsType DEF InsertStmt
<1>2. CASE ~InsertRefused
  <2> DEFINE tab == tables[stmt.table]
             row == NewRow(tab.columns, stmt.columns, InsertedValues)
             new == [columns |-> Consumed(tab.columns, stmt.columns),
                     data |-> IF Panics(row) THEN tab.data ELSE Append(tab.data, row)]
  <2>1. /\ tables' = [tables EXCEPT ![stmt.table] = new]
        /\ IF Panics(row) THEN Fail ELSE Return(NoTable)
        /\ UNCHANGED <<scan, touched>>
        /\ stmt.table \in DOMAIN tables
    BY <1>2 DEF InsertStmt, InsertRow, InsertRefused
  <2>2. TableOK(tab)
    BY <2>1 DEF TypeOK, TablesOK
  <2>3. TableOK(new)
    BY <2>2, InsertedTableOK
  <2> HIDE DEF tab, row, new
  <2>4. TablesOK'
    BY <2>1, <2>3 DEF TypeOK, TablesOK
  <2> QED
    BY <2>1, <2>4, EndKeepsType, FailedIsOK, NothingReturnedIsOK DEF Fail, Return
<1> QED
  BY <1>1, <1>2

(* The loop goes on to the next row, and collects one or none. *)
LEMMA AdvanceType ==
    ASSUME TypeOK, Scanning(Loops), ~AtEnd,
           UNCHANGED <<tables, stmt, outcome, touched>>,
           \/ scan' = NextRow
           \/ \E row :
                /\ RowOK(IF stmt.kind = "select"
                         THEN ResultNames(stmt.exprs, Scanned.columns)
                         ELSE Scanned.columns, row)
                /\ scan' = Collect(row) /\ scan.set = 0
    PROVE  TypeOK'
<1> DEFINE columns == IF stmt.kind = "select"
                      THEN ResultNames(stmt.exprs, Scanned.columns)
                      ELSE Scanned.columns
<1>1. /\ DOMAIN scan = {"row", "set", "out"}
      /\ scan.row \in Nat /\ scan.row <= Len(Scanned.data) /\ Len(Scanned.data) \in Nat
      /\ RowsOK(columns, scan.out)
      /\ stmt.kind = "update" => Len(stmt.columns) \in Nat
  BY ScannedIsOK DEF TypeOK, ScanOK, AtEnd, StmtOK
<1>2. UNCHANGED <<Scanned, columns>>
  BY DEF Scanned
<1> HIDE DEF columns
<1>3. /\ DOMAIN scan' = {"row", "set", "out"}
      /\ scan'.row = scan.row + 1 /\ scan'.set = 0
      /\ RowsOK(columns, scan'.out)
  <2>1. CASE scan' = NextRow
    BY <1>1, <2>1 DEF NextRow
  <2>2. CASE \E row : RowOK(columns, row) /\ scan' = Collect(row) /\ scan.set = 0
    <3>1. PICK row : RowOK(columns, row) /\ scan' = Collect(row) /\ scan.set = 0
      BY <2>2
    <3>2. /\ DOMAIN scan' = {"row", "set", "out"}
          /\ scan'.row = scan.row + 1 /\ scan'.set = 0
          /\ scan'.out = Append(scan.out, row)
      BY <1>1, <3>1 DEF Collect
    <3> QED
      BY <1>1, <3>1, <3>2, AppendRowOK
  <2> QED
    BY <2>1, <2>2 DEF columns
<1>4. ScanOK'
  <2>1. scan'.row \in 1 .. Len(Scanned'.data) + 1
    BY <1>1, <1>2, <1>3
  <2>2. scan'.set \in 0 .. IF stmt'.kind = "update" THEN Len(stmt'.columns) ELSE 0
    BY <1>1, <1>3
  <2> QED
    BY <1>2, <1>3, <2>1, <2>2 DEF ScanOK, columns
<1> QED
  BY <1>3, <1>4, LoopKeepsType

(* The rows SELECT collects are as wide as its projection. *)
LEMMA SelectRowType ==
    ASSUME TypeOK, SelectRow
    PROVE  TypeOK'
<1> DEFINE where == CurrentWhere
           result == Project(stmt.exprs, CurrentNamespace)
<1>1. /\ Scanning(Loops) /\ ~AtEnd /\ scan.set = 0 /\ stmt.kind = "select"
      /\ UNCHANGED <<tables, stmt, base, touched>>
      /\ \/ Differs(where) /\ scan' = NextRow /\ UNCHANGED outcome
         \/ Matches(where) /\ ~Panics(result)
            /\ scan' = Collect(result) /\ UNCHANGED outcome
         \/ Matches(where) /\ Panics(result) /\ Fail /\ UNCHANGED scan
  BY DEF SelectRow, AtRow, Scanning, Evaluating, Loops
<1>2. DOMAIN result = DOMAIN ResultNames(stmt.exprs, Scanned.columns)
  BY DEF Project, ResultNames, CurrentNamespace, Namespace
<1> HIDE DEF where, result
<1>3. CASE scan' = NextRow /\ UNCHANGED outcome
  BY <1>1, <1>3, AdvanceType
<1>4. CASE ~Panics(result) /\ scan' = Collect(result) /\ UNCHANGED outcome
  BY <1>1, <1>2, <1>4, AdvanceType DEF RowOK
<1>5. CASE Fail /\ UNCHANGED scan
  BY <1>1, <1>5, FailKeepsType
<1> QED
  BY <1>1, <1>3, <1>4, <1>5

(* The table SELECT returns has a value for each column. *)
LEMMA SelectEndType ==
    ASSUME TypeOK, SelectEnd
    PROVE  TypeOK'
<1> DEFINE table == [columns |-> ResultNames(stmt.exprs, Scanned.columns),
                     data |-> scan.out]
<1>1. /\ Scanning(Loops) /\ stmt.kind = "select" /\ AtEnd
      /\ outcome' = Returned(table)
      /\ UNCHANGED <<tables, scan, touched>>
  BY DEF SelectEnd, Scanning, Evaluating, Loops, Return
<1>2. outcome' # Pending /\ outcome'.table = table
  BY <1>1 DEF Returned, Pending
<1>3. RowsOK(table.columns, table.data)
  BY <1>1, ScannedIsOK DEF ScanOK
<1>4. TablesOK'
  BY <1>1 DEF TypeOK, TablesOK
<1> QED
  BY <1>1, <1>2, <1>3, <1>4, EndKeepsType

(* UPDATE starts the SET clause at the first of its assignments. *)
LEMMA UpdateRowType ==
    ASSUME TypeOK, UpdateRow
    PROVE  TypeOK'
<1>1. /\ Scanning(Loops) /\ ~AtEnd /\ scan.set = 0 /\ stmt.kind = "update"
      /\ UNCHANGED <<tables, stmt, outcome, touched>>
      /\ scan' = NextRow \/ scan' = [scan EXCEPT !.set = 1]
  BY DEF UpdateRow, AtRow, Scanning, Evaluating, Loops
<1>2. CASE scan' = NextRow
  BY <1>1, <1>2, AdvanceType
<1>3. CASE scan' = [scan EXCEPT !.set = 1]
  <2>1. /\ DOMAIN scan' = {"row", "set", "out"}
        /\ scan'.row = scan.row /\ scan'.out = scan.out /\ scan'.set = 1
    BY <1>3 DEF TypeOK
  <2>2. Len(stmt.columns) \in Nat \ {0}
    BY <1>1, ScannedIsOK, EmptySeq DEF StmtOK
  <2>3. ScanOK'
    BY <1>1, <2>1, <2>2, ScannedIsOK DEF ScanOK, Scanned, AtEnd
  <2> QED
    BY <1>1, <2>1, <2>3, LoopKeepsType
<1> QED
  BY <1>1, <1>2, <1>3

(* The tables after one assignment of UPDATE. *)
LEMMA AssignedTables ==
    ASSUME TypeOK, Scanning(Loops), ~AtEnd, NEW n, NEW v, v # Panic,
           tables' = [tables EXCEPT ![stmt.table].data[scan.row][n] = v],
           stmt' = stmt
    PROVE  /\ DOMAIN tables' = DOMAIN tables
           /\ \A t \in DOMAIN tables : t # stmt.table => tables'[t] = tables[t]
           /\ Scanned'.columns = Scanned.columns
           /\ Scanned'.data = [Scanned.data EXCEPT ![scan.row][n] = v]
           /\ DOMAIN Scanned'.data = DOMAIN Scanned.data
           /\ TablesOK'
<1>1. stmt.table \in DOMAIN tables /\ TablesOK /\ DOMAIN Scanned = {"columns", "data"}
  BY DEF Scanning, TypeOK, TablesOK, TableOK, Scanned
<1>2. /\ DOMAIN tables' = DOMAIN tables
      /\ \A t \in DOMAIN tables : t # stmt.table => tables'[t] = tables[t]
      /\ tables'[stmt.table] = [tables[stmt.table] EXCEPT !.data[scan.row][n] = v]
  BY <1>1
<1>3. /\ DOMAIN Scanned' = {"columns", "data"}
      /\ Scanned'.columns = Scanned.columns
      /\ Scanned'.data = [Scanned.data EXCEPT ![scan.row][n] = v]
  BY <1>1, <1>2 DEF Scanned
<1>4. /\ RowsOK(Scanned.columns, Scanned'.data)
      /\ DOMAIN Scanned'.data = DOMAIN Scanned.data
  <2>1. RowsOK(Scanned.columns, Scanned.data) /\ scan.row \in DOMAIN Scanned.data
    BY ScannedIsOK
  <2> DEFINE data == Scanned.data
             columns == Scanned.columns
             r == scan.row
  <2> HIDE DEF data, columns, r
  <2>2. RowsOK(columns, data) /\ r \in DOMAIN data
    BY <2>1 DEF data, columns, r
  <2>3. /\ RowsOK(columns, [data EXCEPT ![r][n] = v])
        /\ DOMAIN [data EXCEPT ![r][n] = v] = DOMAIN data
    BY <2>2, AssignRowOK
  <2> QED
    BY <1>3, <2>3 DEF data, columns, r
<1>5. TableOK(tables'[stmt.table])
  BY <1>3, <1>4, ScannedIsOK DEF TableOK, Scanned
<1>6. TablesOK'
  BY <1>1, <1>2, <1>5 DEF TablesOK
<1> QED
  BY <1>2, <1>3, <1>4, <1>6

(* An assignment of UPDATE stays within its row and its SET clause. *)
LEMMA UpdateSetType ==
    ASSUME TypeOK, UpdateSet
    PROVE  TypeOK'
<1> DEFINE name == stmt.columns[scan.set]
           n == colIndex(Scanned.columns, name)
           v == Eval(CurrentNamespace, stmt.values[scan.set])
<1>1. /\ Scanning(Loops) /\ ~AtEnd /\ scan.set > 0 /\ stmt.kind = "update"
      /\ stmt' = stmt
      /\ IF n = 0 \/ v = Panic
         THEN Fail /\ UNCHANGED <<tables, scan, touched>>
         ELSE /\ tables' = [tables EXCEPT ![stmt.table].data[scan.row][n] = v]
              /\ touched' = touched \cup {<<stmt.table, name>>}
              /\ scan' = AfterAssignment
              /\ UNCHANGED outcome
  BY DEF UpdateSet, Scanning, Evaluating, Loops
<1> HIDE DEF n, v
<1>2. CASE n = 0 \/ v = Panic
  BY <1>1, <1>2, FailKeepsType
<1>3. CASE ~(n = 0 \/ v = Panic)
  <2>1. /\ Scanned'.columns = Scanned.columns
        /\ DOMAIN Scanned'.data = DOMAIN Scanned.data
        /\ DOMAIN tables' = DOMAIN tables
        /\ TablesOK'
    BY <1>1, <1>3, AssignedTables
  <2>2. /\ stmt.table \in TableName
        /\ stmt.columns \in Seq(ColumnName)
        /\ scan.set \in 1 .. Len(stmt.columns) /\ Len(stmt.columns) \in Nat
    BY <1>1, ScannedIsOK DEF StmtOK, ScanOK
  <2>3. name \in ColumnName
    BY <2>2, ElementOfSeq
  <2>4. Len(Scanned'.data) = Len(Scanned.data)
    <3>1. TableOK(Scanned')
      BY <1>1, <2>1 DEF TablesOK, Scanned, Scanning
    <3> QED
      BY <1>1, <2>1, <3>1, ScannedIsOK, SeqDomain DEF TableOK, RowsOK
  <2>5. /\ DOMAIN scan' = {"row", "set", "out"} /\ scan'.out = scan.out
        /\ \/ scan'.row = scan.row /\ scan'.set = scan.set + 1
              /\ scan.set < Len(stmt.columns)
           \/ scan'.row = scan.row + 1 /\ scan'.set = 0
    BY <1>1, <1>3 DEF AfterAssignment, NextRow, TypeOK
  <2>6. /\ ScanOK /\ scan.row \in 1 .. Len(Scanned.data)
        /\ Len(Scanned.data) \in Nat
        /\ RowsOK(Scanned.columns, scan.out)
    BY <1>1, ScannedIsOK DEF ScanOK, AtEnd
  <2>7. ScanOK'
    BY <1>1, <2>1, <2>2, <2>4, <2>5, <2>6 DEF ScanOK, AtEnd
  <2>8. touched' \subseteq TableName \X ColumnName
    BY <1>1, <1>3, <2>2, <2>3 DEF TypeOK
  <2> QED
    BY <1>1, <1>3, <2>1, <2>5, <2>7, <2>8 DEF TypeOK
<1> QED
  BY <1>2, <1>3

(* The rows DELETE collects are rows of the table. *)
LEMMA DeleteRowType ==
    ASSUME TypeOK, DeleteRow
    PROVE  TypeOK'
<1>1. /\ Scanning(Loops) /\ ~AtEnd /\ scan.set = 0 /\ stmt.kind = "delete"
      /\ UNCHANGED <<tables, stmt, outcome, touched>>
      /\ scan' = Collect(CurrentRow) \/ scan' = NextRow
  BY DEF DeleteRow, AtRow, Scanning, Evaluating, Loops
<1>2. RowOK(Scanned.columns, CurrentRow)
  BY <1>1, ScannedIsOK
<1> QED
  BY <1>1, <1>2, AdvanceType

(* The rows DELETE has kept fit the table they replace. *)
LEMMA DeleteEndType ==
    ASSUME TypeOK, DeleteEnd
    PROVE  TypeOK'
<1>1. /\ Scanning(Loops) /\ stmt.kind = "delete" /\ stmt.table \in DOMAIN tables
      /\ tables' = [tables EXCEPT ![stmt.table].data = scan.out]
      /\ Return(NoTable) /\ UNCHANGED <<scan, touched>>
  BY DEF DeleteEnd, Scanning, Evaluating, Loops
<1>2. RowsOK(Scanned.columns, scan.out) /\ TableOK(Scanned)
  BY <1>1, ScannedIsOK DEF ScanOK
<1>3. /\ DOMAIN tables' = DOMAIN tables
      /\ \A t \in DOMAIN tables : t # stmt.table => tables'[t] = tables[t]
      /\ tables'[stmt.table] = [Scanned EXCEPT !.data = scan.out]
  BY <1>1 DEF Scanned
<1>4. TableOK(tables'[stmt.table])
  BY <1>2, <1>3 DEF TableOK
<1>5. TablesOK'
  BY <1>3, <1>4 DEF TypeOK, TablesOK
<1> QED
  BY <1>1, <1>5, EndKeepsType, NothingReturnedIsOK DEF Return

(* Every step keeps the type: the type invariant is inductive. *)
LEMMA NextType == TypeOK /\ Step => TypeOK'
<1> SUFFICES ASSUME TypeOK, Step PROVE TypeOK'
  OBVIOUS
<1>1. ASSUME NEW s, Evaluable(s), Submit(s) PROVE TypeOK'
  BY <1>1, SubmitType
<1>2. CASE CreateTable
  BY <1>2, CreateTableType
<1>3. CASE InsertStmt
  BY <1>3, InsertType
<1>4. CASE NoSuchTable \/ WherePanics
  BY <1>4, FailKeepsType DEF NoSuchTable, WherePanics
<1>5. CASE SelectRow
  BY <1>5, SelectRowType
<1>6. CASE SelectEnd
  BY <1>6, SelectEndType
<1>7. CASE UpdateRow
  BY <1>7, UpdateRowType
<1>8. CASE UpdateSet
  BY <1>8, UpdateSetType
<1>9. CASE UpdateEnd
  <2>1. Return(NoTable) /\ UNCHANGED <<tables, scan, touched>>
    BY <1>9 DEF UpdateEnd
  <2>2. TablesOK'
    BY <2>1 DEF TypeOK, TablesOK
  <2> QED
    BY <2>1, <2>2, EndKeepsType, NothingReturnedIsOK DEF Return
<1>10. CASE DeleteRow
  BY <1>10, DeleteRowType
<1>11. CASE DeleteEnd
  BY <1>11, DeleteEndType
<1>12. CASE UNCHANGED vars
  BY <1>12 DEF vars, TypeOK, TablesOK, Scanning, Evaluating, ScanOK, Scanned, AtEnd
<1> QED
  BY <1>1, <1>2, <1>3, <1>4, <1>5, <1>6, <1>7, <1>8, <1>9, <1>10, <1>11, <1>12
     DEF Step, Evaluate

(* TypeOK: through any sequence of statements, whatever expressions        *)
(* evaluate to, every row keeps one value for each column of its table and *)
(* none that panicked, and no loop leaves the table it scans.              *)
THEOREM TypeCorrect == Spec => []TypeOK
<1> QED
  BY InitType, NextIsStep, NextType, PTL DEF Spec

-----------------------------------------------------------------------------
(* The schema. *)

(* Every step keeps the schema of every table that exists. *)
LEMMA NextKeepsSchema ==
    ASSUME TypeOK, Step, NEW t \in DOMAIN tables
    PROVE  t \in DOMAIN tables' /\ Schema(tables'[t].columns) = Schema(tables[t].columns)
<1>1. CASE tables' = tables
  BY <1>1
<1>2. CASE CreateTable /\ tables' # tables
  BY <1>2 DEF CreateTable
<1>3. CASE InsertStmt /\ tables' # tables
  <2> DEFINE new == Consumed(tables[stmt.table].columns, stmt.columns)
  <2>1. /\ stmt.table \in DOMAIN tables /\ DOMAIN tables' = DOMAIN tables
        /\ t # stmt.table => tables'[t] = tables[t]
        /\ tables'[stmt.table].columns = new
    BY <1>3 DEF InsertStmt, InsertRefused, InsertRow
  <2>2. Schema(new) = Schema(tables[stmt.table].columns)
    BY <2>1, ConsumedColumns DEF TypeOK, TablesOK, TableOK
  <2> QED
    BY <2>1, <2>2
<1>4. CASE UpdateSet /\ tables' # tables
  <2>1. /\ Scanning(Loops) /\ ~AtEnd /\ stmt' = stmt
        /\ \E n, v : v # Panic
             /\ tables' = [tables EXCEPT ![stmt.table].data[scan.row][n] = v]
    BY <1>4 DEF UpdateSet, Scanning, Evaluating, Loops
  <2>2. /\ DOMAIN tables' = DOMAIN tables
        /\ t # stmt.table => tables'[t] = tables[t]
        /\ Scanned'.columns = Scanned.columns
    BY <2>1, AssignedTables
  <2> QED
    BY <2>1, <2>2 DEF Scanned
<1>5. CASE DeleteEnd /\ tables' # tables
  <2>1. /\ stmt.table \in DOMAIN tables
        /\ tables' = [tables EXCEPT ![stmt.table].data = scan.out]
    BY <1>5 DEF DeleteEnd, Scanning
  <2>2. DOMAIN tables[stmt.table] = {"columns", "data"}
    BY <2>1 DEF TypeOK, TablesOK, TableOK
  <2> QED
    BY <2>1, <2>2
<1> QED
  BY <1>1, <1>2, <1>3, <1>4, <1>5
     DEF Step, Evaluate, Submit, NoSuchTable, WherePanics, SelectRow, SelectEnd,
         UpdateRow, UpdateEnd, DeleteRow, vars

(* SchemaIsStable: no statement drops a table or changes the name, type,   *)
(* constraint or default of a column.                                      *)
THEOREM SchemaStable == Spec => SchemaIsStable
<1>1. TypeOK /\ [Next]_vars =>
        [\A t \in DOMAIN tables :
            /\ t \in DOMAIN tables'
            /\ Schema(tables'[t].columns) = Schema(tables[t].columns)]_vars
  BY NextIsStep, NextKeepsSchema
<1> QED
  BY <1>1, TypeCorrect, PTL DEF Spec, SchemaIsStable

-----------------------------------------------------------------------------
(* Statements that fail. *)

(* Until it returns, a statement that is not an UPDATE changes no table.   *)
PendingKeepsTables == outcome = Pending /\ stmt.kind # "update" => tables = base

(* While a loop other than UPDATE runs, and after it fails, rows are as they were. *)
LEMMA NextKeepsRows ==
    PendingKeepsTables /\ FailureKeepsRows /\ Step
        => PendingKeepsTables' /\ FailureKeepsRows'
<1> SUFFICES ASSUME PendingKeepsTables, FailureKeepsRows, Step
             PROVE  PendingKeepsTables' /\ FailureKeepsRows'
  OBVIOUS
<1> USE DEF PendingKeepsTables, FailureKeepsRows
<1>1. /\ Failed # Pending
      /\ \A table : Returned(table) # Pending /\ Returned(table) # Failed
  BY DEF Failed, Returned, Pending
<1>2. ASSUME NEW s, Evaluable(s), Submit(s)
      PROVE  PendingKeepsTables' /\ FailureKeepsRows'
  BY <1>1, <1>2 DEF Submit
<1>3. CASE CreateTable
  BY <1>1, <1>3 DEF CreateTable, Evaluating, Fail, Return
<1>4. CASE InsertStmt
  <2>1. CASE UNCHANGED tables
    BY <1>1, <1>4, <2>1 DEF InsertStmt, InsertRow, Evaluating, Fail, Return
  <2>2. CASE ~UNCHANGED tables
    BY <1>1, <1>4, <2>2 DEF InsertStmt, InsertRow, Evaluating, Fail, Return
  <2> QED
    BY <2>1, <2>2
<1>5. CASE NoSuchTable \/ WherePanics
  BY <1>1, <1>5 DEF NoSuchTable, WherePanics, AtRow, Scanning, Evaluating, Fail
<1>6. CASE SelectRow \/ SelectEnd
  BY <1>1, <1>6 DEF SelectRow, SelectEnd, AtRow, Scanning, Evaluating, Fail, Return
<1>7. CASE UpdateRow \/ UpdateSet \/ UpdateEnd
  <2>1. stmt.kind = "update" /\ stmt' = stmt
    BY <1>7 DEF UpdateRow, UpdateSet, UpdateEnd, AtRow, Scanning, Evaluating
  <2> QED
    BY <2>1
<1>8. CASE DeleteRow \/ DeleteEnd
  BY <1>1, <1>8 DEF DeleteRow, DeleteEnd, AtRow, Scanning, Evaluating, Return
<1>9. CASE UNCHANGED vars
  BY <1>9 DEF vars
<1> QED
  BY <1>2, <1>3, <1>4, <1>5, <1>6, <1>7, <1>8, <1>9 DEF Step, Evaluate

(* FailureKeepsRows: a statement that fails, other than an UPDATE, leaves  *)
(* every table with the rows it had.                                       *)
THEOREM FailuresKeepRows == Spec => []FailureKeepsRows
<1>1. Init => PendingKeepsTables /\ FailureKeepsRows
  BY DEF Init, PendingKeepsTables, FailureKeepsRows, Returned, Failed, Pending
<1> QED
  BY <1>1, NextIsStep, NextKeepsRows, PTL DEF Spec

-----------------------------------------------------------------------------
(* Column constraints. *)

(* A cast gives a value of its own type or panics. *)
LEMMA CoerceIsTyped ==
    ASSUME NEW v, NEW type, coerce(v, type) # Panic
    PROVE  coerce(v, type).type = type
<1>1. CASE type = "Boolean"
  BY <1>1 DEF coerce, toBoolean
<1>2. CASE type = "Integer"
  BY <1>2 DEF coerce, toInteger, IntegerValue
<1>3. CASE type = "Number"
  BY <1>3 DEF coerce, toNumber, NumberValue
<1>4. CASE type = "String"
  BY <1>4 DEF coerce, toString, StringValue
<1>5. CASE type = "Timestamp"
  BY <1>5 DEF coerce, toTimestamp, TimestampValue
<1> QED
  BY <1>1, <1>2, <1>3, <1>4, <1>5 DEF coerce

(* INSERT stores nothing that the column does not accept. *)
LEMMA StoredIsAccepted ==
    ASSUME NEW column, column.nullable \in BOOLEAN, NEW v, Stored(column, v) # Panic
    PROVE  Accepts(column, Stored(column, v))
<1>1. CASE v # Null
  BY <1>1, CoerceIsTyped DEF Stored, Accepts
<1>2. CASE v = Null /\ column.nullable
  BY <1>2 DEF Stored, Accepts
<1>3. CASE v = Null /\ ~column.nullable
  BY <1>3 DEF Stored
<1> QED
  BY <1>1, <1>2, <1>3

(* The rows that DELETE has collected are no worse than those it scans. *)
CollectedConstraints == Scanning({"delete"}) => Constrained(stmt.table, scan.out)

ConstraintsInv == ColumnConstraints /\ CollectedConstraints

(* A step that changes no table, and collects nothing or is over. *)
LEMMA QuietKeepsConstraints ==
    ASSUME ConstraintsInv, UNCHANGED <<tables, touched>>,
           \/ outcome' # Pending
           \/ scan'.out = <<>>
           \/ UNCHANGED <<stmt, outcome>> /\ scan'.out = scan.out
    PROVE  ConstraintsInv'
<1>1. ColumnConstraints'
  BY DEF ConstraintsInv, ColumnConstraints, Constrained
<1>2. CASE outcome' # Pending
  BY <1>1, <1>2 DEF ConstraintsInv, CollectedConstraints, Scanning, Evaluating
<1>3. CASE scan'.out = <<>>
  BY <1>1, <1>3 DEF ConstraintsInv, CollectedConstraints, Constrained
<1>4. CASE UNCHANGED <<stmt, outcome>> /\ scan'.out = scan.out
  BY <1>1, <1>4 DEF ConstraintsInv, CollectedConstraints, Constrained,
                    Scanning, Evaluating
<1> QED
  BY <1>2, <1>3, <1>4

(* The row that INSERT appends has passed the constraints of its columns. *)
LEMMA InsertKeepsConstraints ==
    ASSUME TypeOK, ConstraintsInv, InsertStmt
    PROVE  ConstraintsInv'
<1>1. outcome' # Pending /\ touched' = touched
  BY DEF InsertStmt, InsertRow, Fail, Return, Failed, Returned, Pending
<1>2. CASE UNCHANGED tables
  BY <1>1, <1>2, QuietKeepsConstraints
<1>3. CASE ~UNCHANGED tables
  <2> DEFINE tab == tables[stmt.table]
             row == NewRow(tab.columns, stmt.columns, InsertedValues)
             columns == Consumed(tab.columns, stmt.columns)
             data == IF Panics(row) THEN tab.data ELSE Append(tab.data, row)
  <2>1. /\ stmt.table \in DOMAIN tables /\ DOMAIN tables' = DOMAIN tables
        /\ \A t \in DOMAIN tables : t # stmt.table => tables'[t] = tables[t]
        /\ tables'[stmt.table] = [columns |-> columns, data |-> data]
    BY <1>3 DEF InsertStmt, InsertRefused, InsertRow
  <2>2. ColumnsOK(tab.columns) /\ IsSeq(tab.data) /\ Constrained(stmt.table, tab.data)
    BY <2>1 DEF TypeOK, TablesOK, TableOK, RowsOK, ConstraintsInv, ColumnConstraints
  <2>3. /\ DOMAIN columns = DOMAIN tab.columns
        /\ \A i \in DOMAIN columns :
              /\ columns[i].name = tab.columns[i].name
              /\ \A v : Accepts(columns[i], v) <=> Accepts(tab.columns[i], v)
    BY <2>2, ConsumedColumns DEF Accepts
  <2>4. ASSUME NEW i \in DOMAIN tab.columns, ~Panics(row)
        PROVE  Accepts(tab.columns[i], row[i])
    <3>1. row[i] = Stored(tab.columns[i],
                     Supplied(tab.columns, stmt.columns, InsertedValues, i))
          /\ i \in DOMAIN row
      BY DEF NewRow
    <3>2. row[i] # Panic /\ tab.columns[i].nullable \in BOOLEAN
      BY <2>2, <2>4, <3>1 DEF Panics, ColumnsOK
    <3> HIDE DEF tab, row
    <3> QED
      BY <3>1, <3>2, StoredIsAccepted
  <2> HIDE DEF row, columns
  <2>5. ASSUME NEW i \in DOMAIN columns, <<stmt.table, columns[i].name>> \notin touched,
               NEW r \in DOMAIN data
        PROVE  Accepts(columns[i], data[r][i])
    <3>1. \A k \in DOMAIN tab.data : Accepts(tab.columns[i], tab.data[k][i])
      BY <2>2, <2>3, <2>5 DEF Constrained
    <3>2. CASE Panics(row)
      BY <2>3, <3>1, <3>2
    <3>3. CASE ~Panics(row)
      <4>1. data = Append(tab.data, row)
        BY <3>3
      <4>2. (r \in DOMAIN tab.data /\ data[r] = tab.data[r]) \/ data[r] = row
        BY <2>2, <4>1, AppendIsSeq, SeqDomain
      <4> QED
        BY <2>3, <2>4, <3>1, <3>3, <4>2
    <3> QED
      BY <3>2, <3>3
  <2> HIDE DEF tab, data
  <2>6. ASSUME NEW t \in DOMAIN tables'
        PROVE  Constrained(t, tables[t].data)'
    <3>1. CASE t = stmt.table
      BY <2>1, <2>5, <3>1, <1>1 DEF Constrained
    <3>2. CASE t # stmt.table
      BY <1>1, <2>1, <3>2 DEF ConstraintsInv, ColumnConstraints, Constrained
    <3> QED
      BY <3>1, <3>2
  <2> QED
    BY <1>1, <2>6 DEF ConstraintsInv, ColumnConstraints, CollectedConstraints,
                      Scanning, Evaluating
<1> QED
  BY <1>2, <1>3

(* A new table has no row that could break a constraint. *)
LEMMA CreateKeepsConstraints ==
    ASSUME TypeOK, ConstraintsInv, CreateTable
    PROVE  ConstraintsInv'
<1>1. outcome' # Pending /\ touched' = touched
  BY DEF CreateTable, Fail, Return, Failed, Returned, Pending
<1>2. CASE UNCHANGED tables
  BY <1>1, <1>2, QuietKeepsConstraints
<1>3. CASE ~UNCHANGED tables
  <2>1. /\ DOMAIN tables' = DOMAIN tables \cup {stmt.table}
        /\ \A t \in DOMAIN tables' :
              tables'[t] = IF t = stmt.table
                           THEN [columns |-> CreatedColumns, data |-> <<>>]
                           ELSE tables[t]
    BY <1>3 DEF CreateTable
  <2>2. \A t \in DOMAIN tables' : Constrained(t, tables[t].data)'
    BY <1>1, <2>1 DEF ConstraintsInv, ColumnConstraints, Constrained
  <2> QED
    BY <1>1, <2>2 DEF ConstraintsInv, ColumnConstraints, CollectedConstraints,
                      Scanning, Evaluating
<1> QED
  BY <1>2, <1>3

(* An assignment changes one value, of a column that is touched by it. *)
LEMMA UpdateSetKeepsConstraints ==
    ASSUME TypeOK, ConstraintsInv, UpdateSet
    PROVE  ConstraintsInv'
<1> DEFINE name == stmt.columns[scan.set]
           n == colIndex(Scanned.columns, name)
           v == Eval(CurrentNamespace, stmt.values[scan.set])
<1>1. /\ Scanning(Loops) /\ ~AtEnd /\ stmt.kind = "update" /\ stmt' = stmt
      /\ IF n = 0 \/ v = Panic
         THEN Fail /\ UNCHANGED <<tables, touched>>
         ELSE /\ tables' = [tables EXCEPT ![stmt.table].data[scan.row][n] = v]
              /\ touched' = touched \cup {<<stmt.table, name>>}
  BY DEF UpdateSet, Scanning, Evaluating, Loops
<1>2. n # 0 => Scanned.columns[n].name = name
  BY <1>1, ScannedIsOK, ColIndexIsFound
<1> HIDE DEF n, v
<1>3. CASE n = 0 \/ v = Panic
  BY <1>1, <1>3, QuietKeepsConstraints DEF Fail, Failed, Pending
<1>4. CASE ~(n = 0 \/ v = Panic)
  <2>1. /\ DOMAIN tables' = DOMAIN tables
        /\ \A t \in DOMAIN tables : t # stmt.table => tables'[t] = tables[t]
        /\ Scanned'.columns = Scanned.columns
        /\ Scanned'.data = [Scanned.data EXCEPT ![scan.row][n] = v]
        /\ DOMAIN Scanned'.data = DOMAIN Scanned.data
    BY <1>1, <1>4, AssignedTables
  <2>2. ASSUME NEW i \in DOMAIN Scanned.columns,
               <<stmt.table, Scanned.columns[i].name>> \notin touched',
               NEW r \in DOMAIN Scanned.data
        PROVE  Accepts(Scanned.columns[i], Scanned'.data[r][i])
    <3>1. i # n
      BY <1>1, <1>2, <1>4, <2>2
    <3>2. Accepts(Scanned.columns[i], Scanned.data[r][i])
      BY <1>1, <1>4, <2>2 DEF ConstraintsInv, ColumnConstraints, Constrained, Scanned,
                              Scanning
    <3>3. /\ DOMAIN Scanned.data[r] = DOMAIN Scanned.columns
          /\ r = scan.row => Scanned'.data[r] = [Scanned.data[r] EXCEPT ![n] = v]
          /\ r # scan.row => Scanned'.data[r] = Scanned.data[r]
      BY <1>1, <2>1, ScannedIsOK DEF RowsOK, RowOK
    <3> QED
      BY <3>1, <3>2, <3>3
  <2>3. ASSUME NEW t \in DOMAIN tables'
        PROVE  Constrained(t, tables[t].data)'
    <3>1. CASE t = stmt.table
      BY <1>1, <2>1, <2>2, <3>1 DEF Constrained, Scanned
    <3>2. CASE t # stmt.table
      BY <1>1, <1>4, <2>1, <3>2 DEF ConstraintsInv, ColumnConstraints, Constrained
    <3> QED
      BY <3>1, <3>2
  <2> QED
    BY <1>1, <2>3 DEF ConstraintsInv, ColumnConstraints, CollectedConstraints,
                      Scanning, Evaluating
<1> QED
  BY <1>3, <1>4

(* What DELETE keeps is as constrained as what it read. *)
LEMMA DeleteRowKeepsConstraints ==
    ASSUME TypeOK, ConstraintsInv, DeleteRow
    PROVE  ConstraintsInv'
<1>1. /\ Scanning(Loops) /\ ~AtEnd /\ stmt.kind = "delete" /\ Scanning({"delete"})
      /\ UNCHANGED <<tables, stmt, outcome, touched>>
      /\ scan' = Collect(CurrentRow) \/ scan' = NextRow
  BY DEF DeleteRow, AtRow, Scanning, Evaluating, Loops
<1>2. CASE scan' = NextRow
  BY <1>1, <1>2, QuietKeepsConstraints DEF NextRow, TypeOK
<1>3. CASE scan' = Collect(CurrentRow)
  <2>1. /\ IsSeq(scan.out) /\ scan'.out = Append(scan.out, CurrentRow)
        /\ scan.row \in DOMAIN Scanned.data
    BY <1>1, <1>3, ScannedIsOK DEF Collect, TypeOK, ScanOK, RowsOK
  <2>2. /\ Constrained(stmt.table, scan.out)
        /\ Constrained(stmt.table, Scanned.data)
    BY <1>1 DEF ConstraintsInv, ColumnConstraints, CollectedConstraints, Scanned, Scanning
  <2>3. \A r \in DOMAIN scan'.out :
          \/ r \in DOMAIN scan.out /\ scan'.out[r] = scan.out[r]
          \/ scan'.out[r] = Scanned.data[scan.row]
    BY <2>1, AppendIsSeq, SeqDomain DEF CurrentRow
  <2>4. Constrained(stmt.table, scan'.out)
    BY <2>1, <2>2, <2>3 DEF Constrained
  <2> QED
    BY <1>1, <2>4 DEF ConstraintsInv, ColumnConstraints, CollectedConstraints, Constrained
<1> QED
  BY <1>1, <1>2, <1>3

(* The rows DELETE has kept are constrained when they become the table. *)
LEMMA DeleteEndKeepsConstraints ==
    ASSUME TypeOK, ConstraintsInv, DeleteEnd
    PROVE  ConstraintsInv'
<1>1. /\ Scanning({"delete"}) /\ stmt.table \in DOMAIN tables
      /\ tables' = [tables EXCEPT ![stmt.table].data = scan.out]
      /\ outcome' # Pending /\ UNCHANGED <<stmt, touched>>
  BY DEF DeleteEnd, Scanning, Return, Returned, Pending
<1>2. DOMAIN tables[stmt.table] = {"columns", "data"}
  BY <1>1 DEF TypeOK, TablesOK, TableOK
<1>3. /\ DOMAIN tables' = DOMAIN tables
      /\ \A t \in DOMAIN tables : t # stmt.table => tables'[t] = tables[t]
      /\ tables'[stmt.table].columns = tables[stmt.table].columns
      /\ tables'[stmt.table].data = scan.out
  BY <1>1, <1>2
<1>4. \A t \in DOMAIN tables' : Constrained(t, tables[t].data)'
  BY <1>1, <1>3 DEF ConstraintsInv, ColumnConstraints, CollectedConstraints, Constrained
<1> QED
  BY <1>1, <1>4 DEF ConstraintsInv, ColumnConstraints, CollectedConstraints,
                    Scanning, Evaluating

(* Every step keeps the constraints of tables and of collected rows. *)
LEMMA NextKeepsConstraints ==
    TypeOK /\ ConstraintsInv /\ Step => ConstraintsInv'
<1> SUFFICES ASSUME TypeOK, ConstraintsInv, Step PROVE ConstraintsInv'
  OBVIOUS
<1>1. ASSUME NEW s, Evaluable(s), Submit(s) PROVE ConstraintsInv'
  <2>1. UNCHANGED <<tables, touched>> /\ scan'.out = <<>>
    BY <1>1 DEF Submit, StartOfScan
  <2> QED
    BY <2>1, QuietKeepsConstraints
<1>2. CASE CreateTable
  BY <1>2, CreateKeepsConstraints
<1>3. CASE InsertStmt
  BY <1>3, InsertKeepsConstraints
<1>4. CASE NoSuchTable \/ WherePanics \/ SelectEnd \/ UpdateEnd
  <2>1. UNCHANGED <<tables, touched>> /\ outcome' # Pending
    BY <1>4 DEF NoSuchTable, WherePanics, SelectEnd, UpdateEnd, Fail, Return,
                Failed, Returned, Pending
  <2> QED
    BY <2>1, QuietKeepsConstraints
<1>5. CASE SelectRow \/ UpdateRow
  <2>1. /\ UNCHANGED <<tables, touched, stmt>>
        /\ stmt.kind \in {"select", "update"}
    BY <1>5 DEF SelectRow, UpdateRow, AtRow, Scanning, Evaluating
  <2> QED
    BY <2>1 DEF ConstraintsInv, ColumnConstraints, CollectedConstraints, Constrained,
                Scanning, Evaluating
<1>6. CASE UpdateSet
  BY <1>6, UpdateSetKeepsConstraints
<1>7. CASE DeleteRow
  BY <1>7, DeleteRowKeepsConstraints
<1>8. CASE DeleteEnd
  BY <1>8, DeleteEndKeepsConstraints
<1>9. CASE UNCHANGED vars
  BY <1>9, QuietKeepsConstraints DEF vars
<1> QED
  BY <1>1, <1>2, <1>3, <1>4, <1>5, <1>6, <1>7, <1>8, <1>9 DEF Step, Evaluate

(* ColumnConstraints: a value that its column does not accept is in a      *)
(* table only where an UPDATE has written, whatever any cast computes.     *)
THEOREM ConstraintsHold == Spec => []ColumnConstraints
<1>1. Init => ConstraintsInv
  BY DEF Init, ConstraintsInv, ColumnConstraints, CollectedConstraints, Scanning
<1>2. ConstraintsInv => ColumnConstraints
  BY DEF ConstraintsInv
<1> QED
  BY <1>1, <1>2, NextIsStep, NextKeepsConstraints, TypeCorrect, PTL DEF Spec

-----------------------------------------------------------------------------
(* The frame of UPDATE. *)

(* The rows that the loop has not reached are those it started from, and   *)
(* the row it assigns matched before it was first written.                 *)
UpdateLoop ==
    Scanning({"update"}) =>
        LET old == base[stmt.table].data
        IN  /\ \A r \in DOMAIN Scanned.data :
                 r > scan.row \/ (r = scan.row /\ scan.set = 0) =>
                    Scanned.data[r] = old[r]
            /\ scan.set > 0 =>
                 Matches(Where(stmt.where, Namespace(Scanned.columns, old[scan.row])))

UpdateInv == UpdateFrame /\ UpdateLoop

(* A step of UPDATE that writes nothing. *)
LEMMA ScanKeepsFrame ==
    ASSUME TypeOK, UpdateFrame, Scanning(Loops),
           UNCHANGED <<tables, stmt, base>>, scan'.row \in Int, scan'.row >= scan.row
    PROVE  UpdateFrame'
<1> SUFFICES ASSUME stmt.kind = "update", NEW t \in DOMAIN tables
             PROVE  DOMAIN tables = DOMAIN base /\ FrameOf(t)'
  BY DEF UpdateFrame
<1>1. DOMAIN tables = DOMAIN base /\ FrameOf(t) /\ TableOK(tables[t])
  BY DEF UpdateFrame, TypeOK, TablesOK
<1>2. DOMAIN tables[t].data = 1 .. Len(tables[t].data) /\ Len(tables[t].data) \in Nat
  BY <1>1, SeqDomain DEF TableOK, RowsOK
<1>3. scan.row \in Int
  BY ScannedIsOK
<1>4. \A r \in DOMAIN tables[t].data : r <= scan.row => r <= scan'.row
  BY <1>2, <1>3
<1> QED
  BY <1>1, <1>4 DEF FrameOf

(* An UPDATE starts with every value as it found it. *)
LEMMA SubmitKeepsFrame ==
    ASSUME NEW s, Evaluable(s), Submit(s)
    PROVE  UpdateInv'
<1>1. base' = tables /\ tables' = tables /\ scan'.set = 0
  BY DEF Submit, StartOfScan
<1>2. UpdateFrame'
  BY <1>1 DEF UpdateFrame, FrameOf
<1>3. UpdateLoop'
  BY <1>1 DEF UpdateLoop, Scanned
<1> QED
  BY <1>2, <1>3 DEF UpdateInv

(* A row that is reached is as it was, so its WHERE clause reads old values. *)
LEMMA UpdateRowKeepsFrame ==
    ASSUME TypeOK, UpdateInv, UpdateRow
    PROVE  UpdateInv'
<1>1. /\ Scanning(Loops) /\ Scanning({"update"}) /\ ~AtEnd /\ scan.set = 0
      /\ stmt.kind = "update"
      /\ UNCHANGED <<tables, stmt, base>>
      /\ \/ scan' = NextRow
         \/ Matches(CurrentWhere) /\ scan' = [scan EXCEPT !.set = 1]
  BY DEF UpdateRow, AtRow, Scanning, Evaluating, Loops
<1>2. /\ scan.row \in Nat /\ scan.row \in DOMAIN Scanned.data
      /\ DOMAIN Scanned.data = 1 .. Len(Scanned.data) /\ Len(Scanned.data) \in Nat
      /\ DOMAIN scan = {"row", "set", "out"}
  BY <1>1, ScannedIsOK DEF TypeOK
<1>3. \/ scan'.row = scan.row + 1 /\ scan'.set = 0
      \/ scan'.row = scan.row /\ scan'.set = 1 /\ Matches(CurrentWhere)
  BY <1>1, <1>2 DEF NextRow
<1>4. UpdateFrame'
  BY <1>1, <1>2, <1>3, ScanKeepsFrame DEF UpdateInv
<1>5. \A r \in DOMAIN Scanned.data :
        r >= scan.row => Scanned.data[r] = base[stmt.table].data[r]
  BY <1>1, <1>2 DEF UpdateInv, UpdateLoop
<1>6. CurrentWhere = Where(stmt.where,
                        Namespace(Scanned.columns, base[stmt.table].data[scan.row]))
  BY <1>2, <1>5 DEF CurrentWhere, CurrentNamespace, CurrentRow
<1>7. UpdateLoop'
  BY <1>1, <1>2, <1>3, <1>5, <1>6 DEF UpdateLoop, Scanned
<1> QED
  BY <1>4, <1>7 DEF UpdateInv

(* An assignment writes a named column of the row that has matched. *)
LEMMA UpdateSetKeepsFrame ==
    ASSUME TypeOK, UpdateInv, UpdateSet
    PROVE  UpdateInv'
<1> DEFINE name == stmt.columns[scan.set]
           n == colIndex(Scanned.columns, name)
           v == Eval(CurrentNamespace, stmt.values[scan.set])
<1>1. /\ Scanning(Loops) /\ Scanning({"update"}) /\ ~AtEnd /\ scan.set > 0
      /\ stmt.kind = "update" /\ stmt.table \in DOMAIN tables
      /\ UNCHANGED <<stmt, base>>
      /\ IF n = 0 \/ v = Panic
         THEN Fail /\ UNCHANGED <<tables, scan>>
         ELSE /\ tables' = [tables EXCEPT ![stmt.table].data[scan.row][n] = v]
              /\ scan' = AfterAssignment
  BY DEF UpdateSet, Scanning, Evaluating, Loops
<1>2. n # 0 => Scanned.columns[n].name = name
  BY <1>1, ScannedIsOK, ColIndexIsFound
<1> HIDE DEF n, v
<1>3. /\ scan.row \in Nat /\ scan.row \in DOMAIN Scanned.data
      /\ DOMAIN Scanned.data = 1 .. Len(Scanned.data) /\ Len(Scanned.data) \in Nat
      /\ DOMAIN scan = {"row", "set", "out"}
      /\ stmt.columns \in Seq(ColumnName) /\ scan.set \in 1 .. Len(stmt.columns)
  BY <1>1, ScannedIsOK DEF TypeOK, StmtOK, ScanOK
<1>4. CASE n = 0 \/ v = Panic
  <2>1. UpdateFrame'
    BY <1>1, <1>3, <1>4, ScanKeepsFrame DEF UpdateInv
  <2>2. outcome' # Pending
    BY <1>1, <1>4 DEF Fail, Failed, Pending
  <2> QED
    BY <2>1, <2>2 DEF UpdateInv, UpdateLoop, Scanning, Evaluating
<1>5. CASE ~(n = 0 \/ v = Panic)
  <2> DEFINE old == base[stmt.table].data
  <2>1. /\ DOMAIN tables' = DOMAIN tables
        /\ \A t \in DOMAIN tables : t # stmt.table => tables'[t] = tables[t]
        /\ Scanned'.columns = Scanned.columns
        /\ Scanned'.data = [Scanned.data EXCEPT ![scan.row][n] = v]
        /\ DOMAIN Scanned'.data = DOMAIN Scanned.data
    BY <1>1, <1>5, AssignedTables
  <2>2. \/ scan'.row = scan.row /\ scan'.set = scan.set + 1
        \/ scan'.row = scan.row + 1 /\ scan'.set = 0
    <3>1. scan' = AfterAssignment
      BY <1>1, <1>5
    <3> QED
      BY <1>3, <3>1 DEF AfterAssignment, NextRow
  <2>3. /\ DOMAIN tables = DOMAIN base /\ \A t \in DOMAIN tables : FrameOf(t)
        /\ Matches(Where(stmt.where, Namespace(Scanned.columns, old[scan.row])))
        /\ \A r \in DOMAIN Scanned.data : r > scan.row => Scanned.data[r] = old[r]
    BY <1>1 DEF UpdateInv, UpdateFrame, UpdateLoop
  <2>4. \A r \in DOMAIN Scanned.data : r # scan.row => Scanned'.data[r] = Scanned.data[r]
    BY <2>1
  <2>5. ASSUME NEW t \in DOMAIN tables
        PROVE  FrameOf(t)'
    <3>1. CASE t # stmt.table
      <4>1. tables'[t] = tables[t] /\ FrameOf(t)
        BY <2>1, <2>3, <3>1
      <4> QED
        BY <1>1, <3>1, <4>1 DEF FrameOf
    <3>2. CASE t = stmt.table
      <4>1. /\ Scanned.columns = base[t].columns
            /\ DOMAIN Scanned.data = DOMAIN old
            /\ FrameOf(t)
        BY <2>3, <3>2 DEF FrameOf, Scanned
      <4>2. ASSUME NEW r \in DOMAIN old, NEW i \in DOMAIN Scanned.columns,
                   Scanned'.data[r][i] # old[r][i]
            PROVE  /\ r <= scan'.row
                   /\ \E k \in DOMAIN stmt.columns :
                         stmt.columns[k] = Scanned.columns[i].name
                   /\ Matches(Where(stmt.where, Namespace(Scanned.columns, old[r])))
        <5>1. CASE Scanned.data[r][i] # old[r][i]
          BY <1>3, <2>2, <3>2, <4>1, <4>2, <5>1 DEF FrameOf, Scanned
        <5>2. CASE r = scan.row /\ i = n
          BY <1>2, <1>3, <1>5, <2>2, <2>3, <5>2
        <5>3. CASE ~(r = scan.row /\ i = n)
          <6>1. Scanned'.data[r][i] = Scanned.data[r][i]
            <7>1. DOMAIN Scanned.data[r] = DOMAIN Scanned.columns
              BY <1>1, <4>1, <4>2, ScannedIsOK DEF RowsOK, RowOK
            <7> QED
              BY <2>1, <4>1, <4>2, <5>3, <7>1
          <6> QED
            BY <4>2, <5>1, <6>1
        <5> QED
          BY <5>2, <5>3
      <4> QED
        <5>1. /\ tables'[t] = Scanned' /\ base'[t].data = old
              /\ base'[t].columns = Scanned.columns /\ stmt' = stmt
          BY <1>1, <3>2, <4>1 DEF Scanned
        <5>2. /\ Scanned'.columns = Scanned.columns
              /\ DOMAIN Scanned'.data = DOMAIN old
          BY <2>1, <4>1
        <5> HIDE DEF old
        <5> QED
          BY <3>2, <4>2, <5>1, <5>2 DEF FrameOf
    <3> QED
      BY <3>1, <3>2
  <2>6. UpdateFrame'
    BY <1>1, <2>1, <2>3, <2>5 DEF UpdateFrame
  <2>7. UpdateLoop'
    <3>1. base'[stmt'.table].data = old /\ stmt' = stmt
      BY <1>1
    <3>2. ASSUME NEW r \in DOMAIN Scanned'.data,
                 r > scan'.row \/ (r = scan'.row /\ scan'.set = 0)
          PROVE  Scanned'.data[r] = old[r]
      <4>1. r \in DOMAIN Scanned.data /\ r \in Int
        BY <1>3, <2>1
      <4>2. scan.set \in Nat
        BY <1>3
      <4>3. r > scan.row
        BY <1>1, <1>3, <2>2, <3>2, <4>1, <4>2
      <4> QED
        BY <1>3, <2>3, <2>4, <4>1, <4>3
    <3>3. ASSUME scan'.set > 0
          PROVE  Matches(Where(stmt.where, Namespace(Scanned'.columns, old[scan'.row])))
      BY <2>1, <2>2, <2>3, <3>3
    <3> HIDE DEF old
    <3> QED
      BY <3>1, <3>2, <3>3 DEF UpdateLoop
  <2> QED
    BY <2>6, <2>7 DEF UpdateInv
<1> QED
  BY <1>4, <1>5

(* Every step keeps the frame of the UPDATE. *)
LEMMA NextKeepsFrame == TypeOK /\ UpdateInv /\ Step => UpdateInv'
<1> SUFFICES ASSUME TypeOK, UpdateInv, Step PROVE UpdateInv'
  OBVIOUS
<1>1. ASSUME NEW s, Evaluable(s), Submit(s) PROVE UpdateInv'
  BY <1>1, SubmitKeepsFrame
<1>2. CASE CreateTable \/ InsertStmt \/ SelectRow \/ SelectEnd \/ DeleteRow \/ DeleteEnd
  <2>1. stmt' = stmt /\ stmt.kind # "update"
    BY <1>2 DEF CreateTable, InsertStmt, SelectRow, SelectEnd, DeleteRow, DeleteEnd,
                AtRow, Scanning, Evaluating
  <2> QED
    BY <2>1 DEF UpdateInv, UpdateFrame, UpdateLoop, Scanning, Evaluating
<1>3. CASE NoSuchTable \/ WherePanics \/ UpdateEnd
  <2>1. UNCHANGED <<tables, stmt, scan, base>> /\ outcome' # Pending
    BY <1>3 DEF NoSuchTable, WherePanics, UpdateEnd, Fail, Return, Failed, Returned, Pending
  <2> QED
    BY <2>1 DEF UpdateInv, UpdateFrame, FrameOf, UpdateLoop, Scanning, Evaluating
<1>4. CASE UpdateRow
  BY <1>4, UpdateRowKeepsFrame
<1>5. CASE UpdateSet
  BY <1>5, UpdateSetKeepsFrame
<1>6. CASE UNCHANGED vars
  BY <1>6 DEF vars, UpdateInv, UpdateFrame, FrameOf, UpdateLoop, Scanning, Evaluating,
              Scanned
<1> QED
  BY <1>1, <1>2, <1>3, <1>4, <1>5, <1>6 DEF Step, Evaluate

(* UpdateFrame: at every point of an UPDATE, and after a panic in it, it   *)
(* has written only named columns of rows that matched and were reached.   *)
THEOREM UpdatesKeepFrame == Spec => []UpdateFrame
<1>1. Init => UpdateInv
  BY DEF Init, UpdateInv, UpdateFrame, UpdateLoop, Scanning, Evaluating
<1>2. UpdateInv => UpdateFrame
  BY DEF UpdateInv
<1> QED
  BY <1>1, <1>2, NextIsStep, NextKeepsFrame, TypeCorrect, PTL DEF Spec

=============================================================================
