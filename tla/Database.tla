------------------------------ MODULE Database ------------------------------
(***************************************************************************)
(* The statement evaluator of eval/eval.go over the tables of eval/env.go  *)
(* and eval/db.go.                                                         *)
(*                                                                         *)
(* EvalStmt takes one statement at a time: Submit is its call, and outcome *)
(* is pending until it returns.  CREATE TABLE and INSERT touch the tables  *)
(* once, at their end, and are one action each.  SELECT, UPDATE and DELETE *)
(* run a loop over the rows and are one action per iteration, UPDATE one   *)
(* per assignment of its SET clause: UPDATE writes rows in place, so a     *)
(* panic in the middle of its loop leaves what is written.                 *)
(*                                                                         *)
(* A SELECT with an aggregate function in its projection takes another     *)
(* path of the code, which changes no table and is not part of this        *)
(* module.                                                                 *)
(***************************************************************************)
EXTENDS Tables

CONSTANTS
    TableName,      \* names of tables
    ColumnName,     \* names of columns
    Stmt,           \* the statements a script may hold
    HostTable,      \* calls of Environment.CreateTable by a host program
    MaxRows         \* bound: no INSERT into a table with this many rows

-----------------------------------------------------------------------------
(* Columns that are defined; their names need not be distinct. *)
ColumnsOK(columns) ==
    /\ IsSeq(columns)
    /\ \A i \in DOMAIN columns :
        /\ DOMAIN columns[i] = ColumnField
        /\ columns[i].name \in ColumnName
        /\ columns[i].nullable \in BOOLEAN

(* A call of Environment.CreateTable by a host program. *)
HostOK(t) == t.kind = "host" /\ t.table \in TableName /\ ColumnsOK(t.columns)

(* What the evaluator is given: a statement as the parser guarantees it,   *)
(* or such a call.                                                         *)
Evaluable(s) == StmtOK(s, TableName, ColumnName) \/ HostOK(s)

StmtAssumption ==
    /\ MaxRows \in Nat
    /\ \A s \in Stmt : StmtOK(s, TableName, ColumnName)
    /\ \A t \in HostTable : HostOK(t)

ASSUME StmtsParsed == StmtAssumption

-----------------------------------------------------------------------------

VARIABLES
    tables,     \* Environment.tables: what each existing name refers to
    stmt,       \* the statement under evaluation, or the last one evaluated
    scan,       \* the loop: row, assignment within the row, rows collected
    outcome,    \* what EvalStmt returned, or that it has not returned yet
    base,       \* history: tables when stmt was submitted
    touched     \* history: the columns that an UPDATE has assigned

vars == <<tables, stmt, scan, outcome, base, touched>>

NoTable == [columns |-> <<>>, data |-> <<>>]

(* What EvalStmt returns: an error, or a table for SELECT only. *)
Pending == [status |-> "pending", table |-> NoTable]
Returned(table) == [status |-> "ok", table |-> table]
Failed == [status |-> "error", table |-> NoTable]

StartOfScan == [row |-> 1, set |-> 0, out |-> <<>>]

Init ==
    /\ tables = [t \in {} |-> NoTable]
    /\ stmt = [kind |-> "none"]
    /\ scan = StartOfScan
    /\ outcome = Returned(NoTable)
    /\ base = tables
    /\ touched = {}

(* EvalStmt, or the host's CreateTable, is called. *)
Submit(s) ==
    /\ outcome # Pending
    /\ s.kind = "insert" /\ s.table \in DOMAIN tables =>
         Len(tables[s.table].data) < MaxRows
    /\ stmt' = s
    /\ outcome' = Pending
    /\ base' = tables
    /\ scan' = StartOfScan
    /\ UNCHANGED <<tables, touched>>

(* It returns, or recovers from a panic. *)
Return(table) == outcome' = Returned(table)
Fail == outcome' = Failed

Evaluating(kinds) == outcome = Pending /\ stmt.kind \in kinds

-----------------------------------------------------------------------------
(* CREATE TABLE *)

(* A host program gives the columns themselves. *)
CreatedColumns ==
    IF stmt.kind = "host" THEN stmt.columns
    ELSE [i \in DOMAIN stmt.columns |-> NewColumn(stmt.columns[i])]

(* A faulty CreateTable, which lets a second CREATE TABLE replace a table. *)
CreateTableReplacing ==
    /\ Evaluating({"create", "host"})
    /\ IF Repeats(CreatedColumns)
       THEN Fail /\ UNCHANGED tables
       ELSE /\ Return(NoTable)
            /\ tables' = [t \in DOMAIN tables \cup {stmt.table} |->
                            IF t = stmt.table
                            THEN [columns |-> CreatedColumns, data |-> <<>>]
                            ELSE tables[t]]
    /\ UNCHANGED <<stmt, scan, base, touched>>

(* Environment.CreateTable refuses a name that exists and a repeated column. *)
CreateTable ==
    /\ Evaluating({"create", "host"})
    /\ IF stmt.table \in DOMAIN tables \/ Repeats(CreatedColumns)
       THEN Fail /\ UNCHANGED tables
       ELSE /\ Return(NoTable)
            /\ tables' = [t \in DOMAIN tables \cup {stmt.table} |->
                            IF t = stmt.table
                            THEN [columns |-> CreatedColumns, data |-> <<>>]
                            ELSE tables[t]]
    /\ UNCHANGED <<stmt, scan, base, touched>>

-----------------------------------------------------------------------------
(* INSERT *)

InsertedValues ==
    [k \in DOMAIN stmt.values |-> Eval(emptyNamespace, stmt.values[k])]

(* The panics that come before insert has changed anything. *)
InsertRefused ==
    \/ stmt.table \notin DOMAIN tables
    \/ Panics(InsertedValues)
    \/ LET columns == tables[stmt.table].columns
           targets == IF stmt.columns = <<>> THEN columns ELSE stmt.columns
       IN  \/ Len(stmt.values) # Len(targets)
           \/ \E k \in DOMAIN stmt.columns : colIndex(columns, stmt.columns[k]) = 0

(* Table.insert takes auto-increment values before it checks constraints:  *)
(* a row that violates one is not stored, but those values are gone.       *)
InsertRow ==
    LET tab == tables[stmt.table]
        row == NewRow(tab.columns, stmt.columns, InsertedValues)
    IN  /\ tables' = [tables EXCEPT ![stmt.table] =
                        [columns |-> Consumed(tab.columns, stmt.columns),
                         data |-> IF Panics(row) THEN tab.data
                                                 ELSE Append(tab.data, row)]]
        /\ IF Panics(row) THEN Fail ELSE Return(NoTable)

InsertStmt ==
    /\ Evaluating({"insert"})
    /\ IF InsertRefused THEN Fail /\ UNCHANGED tables ELSE InsertRow
    /\ UNCHANGED <<stmt, scan, base, touched>>

-----------------------------------------------------------------------------
(* The loop over the rows of a table, of SELECT, UPDATE and DELETE. *)

Loops == {"select", "update", "delete"}

(* lookupTable panics. *)
NoSuchTable ==
    /\ Evaluating(Loops)
    /\ stmt.table \notin DOMAIN tables
    /\ Fail
    /\ UNCHANGED <<tables, stmt, scan, base, touched>>

Scanned == tables[stmt.table]
CurrentRow == Scanned.data[scan.row]

(* A faulty CurrentNamespace, of the row as it was before the statement. *)
NamespaceAtStart == Namespace(Scanned.columns, base[stmt.table].data[scan.row])

CurrentNamespace == Namespace(Scanned.columns, CurrentRow)

Scanning(kinds) == Evaluating(kinds) /\ stmt.table \in DOMAIN tables
AtEnd == scan.row > Len(Scanned.data)
AtRow(kinds) == Scanning(kinds) /\ ~AtEnd /\ scan.set = 0

NextRow == [scan EXCEPT !.row = @ + 1, !.set = 0]
Collect(row) == [scan EXCEPT !.row = @ + 1, !.out = Append(@, row)]

CurrentWhere == Where(stmt.where, CurrentNamespace)

(* A faulty WherePanics, which keeps what DELETE has done so far. *)
WherePanicsMidway ==
    /\ AtRow(Loops)
    /\ CurrentWhere = Panic
    /\ Fail
    /\ IF stmt.kind = "delete"
       THEN tables' = [tables EXCEPT ![stmt.table].data =
                         scan.out \o SubSeq(@, scan.row, Len(@))]
       ELSE UNCHANGED tables
    /\ UNCHANGED <<stmt, scan, base, touched>>

(* The WHERE clause panics: the loop ends there, whatever the statement. *)
WherePanics ==
    /\ AtRow(Loops)
    /\ CurrentWhere = Panic
    /\ Fail
    /\ UNCHANGED <<tables, stmt, scan, base, touched>>

-----------------------------------------------------------------------------
(* SELECT *)

SelectRow ==
    LET where == CurrentWhere
        result == Project(stmt.exprs, CurrentNamespace)
    IN  /\ AtRow({"select"})
        /\ \/ Differs(where) /\ scan' = NextRow /\ UNCHANGED outcome
           \/ Matches(where) /\ ~Panics(result)
              /\ scan' = Collect(result) /\ UNCHANGED outcome
           \/ Matches(where) /\ Panics(result) /\ Fail /\ UNCHANGED scan
        /\ UNCHANGED <<tables, stmt, base, touched>>

SelectEnd ==
    /\ Scanning({"select"}) /\ AtEnd
    /\ Return([columns |-> ResultNames(stmt.exprs, Scanned.columns),
               data |-> scan.out])
    /\ UNCHANGED <<tables, stmt, scan, base, touched>>

-----------------------------------------------------------------------------
(* UPDATE *)

(* A faulty UpdateRow, which takes a row whatever its WHERE clause says. *)
UpdateEveryRow ==
    /\ AtRow({"update"})
    /\ CurrentWhere # Panic
    /\ scan' = [scan EXCEPT !.set = 1]
    /\ UNCHANGED <<tables, stmt, outcome, base, touched>>

(* The WHERE clause of the current row: on a match, its SET clause is next. *)
UpdateRow ==
    LET where == CurrentWhere
    IN  /\ AtRow({"update"})
        /\ \/ Differs(where) /\ scan' = NextRow
           \/ Matches(where) /\ scan' = [scan EXCEPT !.set = 1]
        /\ UNCHANGED <<tables, stmt, outcome, base, touched>>

(* A faulty AfterAssignment, which does not go on to the next row. *)
AfterAssignmentSameRow ==
    [scan EXCEPT !.set = IF @ < Len(stmt.columns) THEN @ + 1 ELSE 1]

AfterAssignment ==
    IF scan.set < Len(stmt.columns) THEN [scan EXCEPT !.set = @ + 1] ELSE NextRow

(* One assignment of the SET clause, written to the row in place: the next *)
(* assignment reads the row as this one leaves it.  Nothing is coerced and *)
(* NOT NULL is not enforced.                                               *)
UpdateSet ==
    LET name == stmt.columns[scan.set]
        n == colIndex(Scanned.columns, name)
        v == Eval(CurrentNamespace, stmt.values[scan.set])
    IN  /\ Scanning({"update"}) /\ ~AtEnd /\ scan.set > 0
        /\ IF n = 0 \/ v = Panic
           THEN Fail /\ UNCHANGED <<tables, scan, touched>>
           ELSE /\ tables' = [tables EXCEPT ![stmt.table].data[scan.row][n] = v]
                /\ touched' = touched \cup {<<stmt.table, name>>}
                /\ scan' = AfterAssignment
                /\ UNCHANGED outcome
        /\ UNCHANGED <<stmt, base>>

UpdateEnd ==
    /\ Scanning({"update"}) /\ AtEnd
    /\ Return(NoTable)
    /\ UNCHANGED <<tables, stmt, scan, base, touched>>

-----------------------------------------------------------------------------
(* DELETE *)

(* A row that does not match is kept, in newData. *)
DeleteRow ==
    LET where == CurrentWhere
    IN  /\ AtRow({"delete"})
        /\ \/ Differs(where) /\ scan' = Collect(CurrentRow)
           \/ Matches(where) /\ scan' = NextRow
        /\ UNCHANGED <<tables, stmt, outcome, base, touched>>

DeleteEnd ==
    /\ Scanning({"delete"}) /\ AtEnd
    /\ tables' = [tables EXCEPT ![stmt.table].data = scan.out]
    /\ Return(NoTable)
    /\ UNCHANGED <<stmt, scan, base, touched>>

-----------------------------------------------------------------------------

Evaluate ==
    \/ CreateTable \/ InsertStmt
    \/ NoSuchTable \/ WherePanics
    \/ SelectRow \/ SelectEnd
    \/ UpdateRow \/ UpdateSet \/ UpdateEnd
    \/ DeleteRow \/ DeleteEnd

Next == (\E s \in Stmt \cup HostTable : Submit(s)) \/ Evaluate

(* The evaluator is one sequential goroutine: a statement it has begun     *)
(* goes on.  Whether another one follows is up to the script.  This is     *)
(* WF_vars(Evaluate) with its ENABLED written out: Evaluate has a step     *)
(* exactly while the outcome is pending, or the run would find a deadlock. *)
Fairness == []<>(outcome # Pending) \/ []<><<Evaluate>>_vars

Spec == Init /\ [][Next]_vars /\ Fairness

-----------------------------------------------------------------------------
(* The properties. *)

(* Every table has columns with distinct names, and every row one value    *)
(* for each column, never a panic: what colIndex, currentRow.lookup and    *)
(* the row[n] of UPDATE rely on.  The loop stays within the table that is  *)
(* scanned, what it collects fits the table it goes to (of SELECT, the     *)
(* result, as wide as its projection), and so does what is returned.       *)
RowOK(columns, row) == DOMAIN row = DOMAIN columns /\ ~Panics(row)

RowsOK(columns, rows) ==
    IsSeq(rows) /\ \A r \in DOMAIN rows : RowOK(columns, rows[r])

TableOK(tab) ==
    /\ DOMAIN tab = {"columns", "data"}
    /\ ColumnsOK(tab.columns) /\ ~Repeats(tab.columns)
    /\ RowsOK(tab.columns, tab.data)

ScanOK ==
    /\ scan.row \in 1 .. Len(Scanned.data) + 1
    /\ scan.set \in 0 .. IF stmt.kind = "update" THEN Len(stmt.columns) ELSE 0
    /\ scan.set > 0 => ~AtEnd
    /\ RowsOK(IF stmt.kind = "select" THEN ResultNames(stmt.exprs, Scanned.columns)
                                      ELSE Scanned.columns,
              scan.out)

TablesOK ==
    DOMAIN tables \subseteq TableName /\ \A t \in DOMAIN tables : TableOK(tables[t])

TypeOK ==
    /\ TablesOK
    /\ outcome = Pending => Evaluable(stmt)
    /\ DOMAIN scan = {"row", "set", "out"}
    /\ Scanning(Loops) => ScanOK
    /\ touched \subseteq TableName \X ColumnName
    /\ RowsOK(outcome.table.columns, outcome.table.data)

(* A value that a column's type or NOT NULL forbids can be in the table    *)
(* only where an UPDATE has put it: INSERT, auto-increment and defaults    *)
(* never store one, through any sequence of failed statements.             *)
Accepts(column, v) == v.type = column.type \/ (v = Null /\ column.nullable)

Constrained(t, rows) ==
    LET columns == tables[t].columns
    IN  \A i \in DOMAIN columns :
          \/ <<t, columns[i].name>> \in touched
          \/ \A r \in DOMAIN rows : Accepts(columns[i], rows[r][i])

ColumnConstraints == \A t \in DOMAIN tables : Constrained(t, tables[t].data)

(* A statement that fails, other than an UPDATE, leaves every table with   *)
(* the rows it had: the deletions and the new row of a loop or an insert   *)
(* that panics are never seen.                                             *)
FailureKeepsRows ==
    outcome = Failed /\ stmt.kind # "update" =>
        /\ DOMAIN tables = DOMAIN base
        /\ \A t \in DOMAIN tables : tables[t].data = base[t].data

(* At every point of an UPDATE, after a panic too, a value that differs    *)
(* from the one the statement found is in its own table, in a row the loop *)
(* has reached, in a column its SET clause names, and that row matched the *)
(* WHERE clause before the statement began.                                *)
FrameOf(t) ==
    LET columns == base[t].columns
        old == base[t].data
        new == tables[t].data
    IN  /\ tables[t].columns = columns
        /\ DOMAIN new = DOMAIN old
        /\ \A r \in DOMAIN old : \A i \in DOMAIN columns :
            new[r][i] # old[r][i] =>
                /\ t = stmt.table
                /\ r <= scan.row
                /\ \E k \in DOMAIN stmt.columns : stmt.columns[k] = columns[i].name
                /\ Matches(Where(stmt.where, Namespace(columns, old[r])))

UpdateFrame ==
    stmt.kind = "update" =>
        DOMAIN tables = DOMAIN base /\ \A t \in DOMAIN tables : FrameOf(t)

(* No statement drops a table, and none changes the name, the type, the    *)
(* constraint or the default of a column: only auto-increment's next value *)
(* ever changes.                                                           *)
Schema(columns) == [i \in DOMAIN columns |-> [columns[i] EXCEPT !.nextVal = 0]]

SchemaIsStable ==
    [][\A t \in DOMAIN tables :
        /\ t \in DOMAIN tables'
        /\ Schema(tables'[t].columns) = Schema(tables[t].columns)]_vars

(* What no INSERT lets in stays out: a column that is declared NOT NULL    *)
(* holds no null.                                                          *)
NotNullEnforced ==
    \A t \in DOMAIN tables : \A i \in DOMAIN tables[t].columns :
        ~tables[t].columns[i].nullable =>
            \A r \in DOMAIN tables[t].data : tables[t].data[r][i] # Null

(* Every statement ends, in a result or in an error. *)
StatementEnds == outcome = Pending ~> outcome # Pending

(* The loops compute what AtomicDatabase promises of whole statements,     *)
(* when the tables of a statement that still runs are taken to be those it *)
(* started from.                                                           *)
Atomic ==
    INSTANCE AtomicDatabase WITH
        tables <- IF outcome = Pending THEN base ELSE tables

StatementsAreAtomic == Atomic!Spec

=============================================================================
