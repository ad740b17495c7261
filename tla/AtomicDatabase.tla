--------------------------- MODULE AtomicDatabase ---------------------------
(***************************************************************************)
(* What the evaluator promises of a statement as a whole, whatever loop    *)
(* computes it: a statement is submitted and answered in one step, whose   *)
(* effect and result are stated on the rows as they were before it.        *)
(*                                                                         *)
(*   SELECT  returns the projections of the rows that match, in order;     *)
(*   DELETE  keeps the rows that do not match, in order;                   *)
(*   both fail, and change nothing, when any row they evaluate panics;     *)
(*   UPDATE  replaces each row that matches by its SET clause applied from *)
(*           left to right, and stops at the first panic with everything   *)
(*           before it done and nothing after it.                          *)
(***************************************************************************)
EXTENDS Tables

CONSTANTS Stmt, HostTable

VARIABLES
    tables,     \* the tables by name
    stmt,       \* the statement that is evaluated, or the last one
    outcome     \* its answer, or that there is none yet

vars == <<tables, stmt, outcome>>

NoTable == [columns |-> <<>>, data |-> <<>>]
Pending == [status |-> "pending", table |-> NoTable]
Returned(table) == [status |-> "ok", table |-> table]
Failed == [status |-> "error", table |-> NoTable]

Init ==
    /\ tables = [t \in {} |-> NoTable]
    /\ stmt = [kind |-> "none"]
    /\ outcome = Returned(NoTable)

Submit(s) ==
    /\ outcome # Pending
    /\ stmt' = s
    /\ outcome' = Pending
    /\ UNCHANGED tables

Fails == outcome' = Failed /\ UNCHANGED tables

-----------------------------------------------------------------------------
(* A statement that adds a table or a row. *)

Create(name, columns) ==
    IF name \in DOMAIN tables \/ Repeats(columns)
    THEN Fails
    ELSE /\ \A t \in DOMAIN tables : t \in DOMAIN tables' /\ tables'[t] = tables[t]
         /\ DOMAIN tables' = DOMAIN tables \cup {name}
         /\ tables'[name] = [columns |-> columns, data |-> <<>>]
         /\ outcome' = Returned(NoTable)

(* Every column of the new row takes its first named value, the next       *)
(* number, or its default.  A name that is no column, a wrong number of    *)
(* values and a value that panics leave the table as it is; a value that a *)
(* column does not accept leaves the rows as they are.                     *)
Insert(s) ==
    LET columns == tables[s.table].columns
        data == tables[s.table].data
        values == [k \in DOMAIN s.values |-> Eval(emptyNamespace, s.values[k])]
        targets == IF s.columns = <<>> THEN Names(columns) ELSE s.columns
        row == NewRow(columns, s.columns, values)
    IN  IF \/ s.table \notin DOMAIN tables
           \/ Panics(values)
           \/ Len(targets) # Len(values)
           \/ ~(Range(targets) \subseteq Range(Names(columns)))
        THEN Fails
        ELSE /\ tables' = [tables EXCEPT
                    ![s.table].columns = Consumed(columns, s.columns),
                    ![s.table].data = IF Panics(row) THEN data ELSE Append(data, row)]
             /\ outcome' = IF Panics(row) THEN Failed ELSE Returned(NoTable)

-----------------------------------------------------------------------------
(* A statement that goes over the rows of a table. *)

Verdict(s, row) == Where(s.where, Namespace(tables[s.table].columns, row))

VerdictPanics(s) ==
    \E i \in DOMAIN tables[s.table].data : Verdict(s, tables[s.table].data[i]) = Panic

(* The values of f, in the order of the numbers it is defined on. *)
InOrder(values, f) ==
    /\ IsSeq(values)
    /\ Len(values) = Cardinality(DOMAIN f)
    /\ \A i \in DOMAIN f : values[Cardinality({j \in DOMAIN f : j <= i})] = f[i]

Select(s) ==
    LET columns == tables[s.table].columns
        data == tables[s.table].data
        matching == {i \in DOMAIN data : Matches(Verdict(s, data[i]))}
        results == [i \in matching |-> Project(s.exprs, Namespace(columns, data[i]))]
        returned == outcome'.table.data
    IN  IF VerdictPanics(s) \/ \E i \in matching : Panics(results[i])
        THEN Fails
        ELSE /\ InOrder(returned, results)
             /\ outcome' = Returned([columns |-> ResultNames(s.exprs, columns),
                                     data |-> returned])
             /\ UNCHANGED tables

Delete(s) ==
    LET data == tables[s.table].data
        differing == {i \in DOMAIN data : Differs(Verdict(s, data[i]))}
        kept == tables'[s.table].data
    IN  IF VerdictPanics(s)
        THEN Fails
        ELSE /\ InOrder(kept, [i \in differing |-> data[i]])
             /\ tables' = [tables EXCEPT ![s.table].data = kept]
             /\ outcome' = Returned(NoTable)

(* The row after the first k assignments of the SET clause. *)
Assigned(s, columns, row) ==
    LET after[k \in 0 .. Len(s.columns)] ==
            IF k = 0 THEN row
            ELSE [after[k - 1] EXCEPT ![colIndex(columns, s.columns[k])] =
                    Eval(Namespace(columns, after[k - 1]), s.values[k])]
    IN  after

(* How many assignments are made before one panics. *)
Assignments(s, columns, row) ==
    LET panics(k) ==
            \/ colIndex(columns, s.columns[k]) = 0
            \/ Eval(Namespace(columns, Assigned(s, columns, row)[k - 1]), s.values[k])
                 = Panic
    IN  CHOOSE k \in 0 .. Len(s.columns) :
            /\ \A j \in 1 .. k : ~panics(j)
            /\ k < Len(s.columns) => panics(k + 1)

Update(s) ==
    LET columns == tables[s.table].columns
        data == tables[s.table].data
        done(i) == IF Matches(Verdict(s, data[i]))
                   THEN Assignments(s, columns, data[i]) ELSE 0
        bad(i) == \/ Verdict(s, data[i]) = Panic
                  \/ Matches(Verdict(s, data[i])) /\ done(i) < Len(s.columns)
        reached(i) == \A j \in DOMAIN data : j < i => ~bad(j)
    IN  /\ tables' = [tables EXCEPT ![s.table].data =
              [i \in DOMAIN data |->
                 IF reached(i) THEN Assigned(s, columns, data[i])[done(i)]
                               ELSE data[i]]]
        /\ outcome' = IF \E i \in DOMAIN data : bad(i)
                      THEN Failed ELSE Returned(NoTable)

Scan(s) ==
    IF s.table \notin DOMAIN tables
    THEN Fails
    ELSE \/ s.kind = "select" /\ Select(s)
         \/ s.kind = "delete" /\ Delete(s)
         \/ s.kind = "update" /\ Update(s)

-----------------------------------------------------------------------------

Answer(s) ==
    /\ outcome = Pending /\ outcome' # Pending
    /\ UNCHANGED stmt
    /\ \/ /\ s.kind = "create"
          /\ Create(s.table, [i \in DOMAIN s.columns |-> NewColumn(s.columns[i])])
       \/ s.kind = "host" /\ Create(s.table, s.columns)
       \/ s.kind = "insert" /\ Insert(s)
       \/ s.kind \in {"select", "update", "delete"} /\ Scan(s)

Next == (\E s \in Stmt \cup HostTable : Submit(s)) \/ Answer(stmt)

Spec == Init /\ [][Next]_vars

=============================================================================
