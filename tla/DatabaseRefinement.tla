------------------------ MODULE DatabaseRefinement ------------------------
(***************************************************************************)
(* The theorem that Database implements AtomicDatabase, for all tables,    *)
(* statements and expressions: whatever the loops of SELECT, UPDATE and    *)
(* DELETE meet, a statement has the effect and the result that are stated  *)
(* on the rows as they were before it.                                     *)
(***************************************************************************)
EXTENDS DatabaseProofs

-----------------------------------------------------------------------------
(* The two modules. *)

(* What AtomicDatabase computes on tables and rows is what Database does:  *)
(* both extend Tables, and the mapping changes variables only.             *)
LEMMA SameTables ==
    /\ Atomic!NoTable = NoTable /\ Atomic!Pending = Pending /\ Atomic!Failed = Failed
    /\ \A tab : Atomic!Returned(tab) = Returned(tab)
    /\ Atomic!Panic = Panic
    /\ Atomic!emptyNamespace = emptyNamespace
    /\ \A columns, row : Atomic!Namespace(columns, row) = Namespace(columns, row)
    /\ \A s : Atomic!IsSeq(s) <=> IsSeq(s)
    /\ \A s : Atomic!Range(s) = Range(s)
    /\ \A values : Atomic!Panics(values) <=> Panics(values)
    /\ \A columns : Atomic!Repeats(columns) <=> Repeats(columns)
    /\ \A columns : Atomic!Names(columns) = Names(columns)
    /\ \A columns, name : Atomic!colIndex(columns, name) = colIndex(columns, name)
    /\ \A S : Atomic!Cardinality(S) = Cardinality(S)
BY DEF Atomic!NoTable, NoTable, Atomic!Pending, Pending, Atomic!Failed, Failed,
       Atomic!Returned, Returned, Atomic!Panic, Panic, Atomic!emptyNamespace, emptyNamespace,
       Atomic!Namespace, Namespace, Atomic!IsSeq, IsSeq, Atomic!Range, Range,
       Atomic!Panics, Panics, Atomic!Repeats, Repeats, Atomic!Names, Names,
       Atomic!colIndex, colIndex, Atomic!PositionOf, PositionOf,
       Atomic!Cardinality, Cardinality

(* So are its WHERE clauses. *)
LEMMA SameWhere ==
    /\ \A where, ns : Atomic!Where(where, ns) = Where(where, ns)
    /\ \A v : Atomic!Matches(v) <=> Matches(v)
    /\ \A v : Atomic!Differs(v) <=> Differs(v)
BY DEF Atomic!Where, Where, Atomic!Matches, Matches, Atomic!Differs, Differs,
       Atomic!toBoolean, toBoolean, Atomic!BooleanValue, BooleanValue,
       Atomic!Panic, Panic, Atomic!NoWhere, NoWhere

(* So are the rows and columns it stores. *)
LEMMA SameRows ==
    /\ \A def : Atomic!NewColumn(def) = NewColumn(def)
    /\ \A columns, names, values :
         Atomic!NewRow(columns, names, values) = NewRow(columns, names, values)
    /\ \A columns, names : Atomic!Consumed(columns, names) = Consumed(columns, names)
BY DEF Atomic!NewColumn, NewColumn, Atomic!NewRow, NewRow, Atomic!Consumed, Consumed,
       Atomic!Stored, Stored, Atomic!Supplied, Supplied, Atomic!TakesNextVal, TakesNextVal,
       Atomic!PositionOf, PositionOf, Atomic!Wrap, Wrap, Atomic!MinInt, MinInt,
       Atomic!coerce, coerce, Atomic!Null, Null, Atomic!Panic, Panic,
       Atomic!toInteger, toInteger, Atomic!toBoolean, toBoolean, Atomic!toNumber, toNumber,
       Atomic!toString, toString, Atomic!toTimestamp, toTimestamp,
       Atomic!IntegerValue, IntegerValue, Atomic!NumberValue, NumberValue,
       Atomic!StringValue, StringValue, Atomic!TimestampValue, TimestampValue

(* So are its projections. *)
LEMMA SameProjections ==
    /\ \A exprs, ns : Atomic!Project(exprs, ns) = Project(exprs, ns)
    /\ \A exprs, columns : Atomic!ResultNames(exprs, columns) = ResultNames(exprs, columns)
BY DEF Atomic!Project, Project, Atomic!ResultNames, ResultNames, Atomic!Projection, Projection,
       Atomic!FlattenSeq, FlattenSeq, Atomic!SelectStar, SelectStar, Atomic!Ident, Ident
-----------------------------------------------------------------------------
(* Sequences in the order of numbers. *)

(* A row that is collected after others goes behind them. *)
LEMMA InOrderAppend ==
    ASSUME NEW n \in Nat, NEW f, DOMAIN f \subseteq 1 .. n - 1,
           NEW g, DOMAIN g = DOMAIN f \cup {n}, \A i \in DOMAIN f : g[i] = f[i],
           NEW values, Atomic!InOrder(values, f)
    PROVE  Atomic!InOrder(Append(values, g[n]), g)
<1> DEFINE new == Append(values, g[n])
           Rank(S, i) == Cardinality({j \in S : j <= i})
<1>1. /\ IsSeq(values) /\ Len(values) = Cardinality(DOMAIN f)
      /\ \A i \in DOMAIN f : values[Rank(DOMAIN f, i)] = f[i]
  BY SameTables DEF Atomic!InOrder
<1>2. IsFiniteSet(DOMAIN f)
  BY 1 \in Int, n - 1 \in Int, DOMAIN f \in SUBSET (1 .. n - 1), IntervalIsFinite
<1>3. n \notin DOMAIN f
  OBVIOUS
<1>4. Cardinality(DOMAIN g) = Cardinality(DOMAIN f) + 1 /\ Cardinality(DOMAIN f) \in Nat
  BY <1>2, <1>3, FS_AddElement, FS_CardinalityType
<1>5. /\ IsSeq(new) /\ DOMAIN new = 1 .. Len(values) + 1
      /\ \A k \in DOMAIN values : new[k] = values[k]
      /\ new[Len(values) + 1] = g[n]
  BY <1>1, AppendIsSeq
<1>6. Len(new) = Len(values) + 1
  BY <1>1, <1>4, <1>5, SeqDomain
<1>7. ASSUME NEW i \in DOMAIN f
      PROVE  new[Rank(DOMAIN g, i)] = g[i]
  <2>1. {j \in DOMAIN g : j <= i} = {j \in DOMAIN f : j <= i}
    OBVIOUS
  <2>2. i \in {j \in DOMAIN f : j <= i}
    OBVIOUS
  <2>3. Rank(DOMAIN f, i) \in 1 .. Cardinality(DOMAIN f)
    <3> DEFINE S == {j \in DOMAIN f : j <= i}
    <3>1. IsFiniteSet(S) /\ Cardinality(S) <= Cardinality(DOMAIN f)
      BY <1>2, FS_Subset
    <3>2. Cardinality(S) \in Nat /\ Cardinality(S) # 0
      BY <2>2, <3>1, FS_CardinalityType, FS_EmptySet
    <3> HIDE DEF S
    <3> QED
      BY <1>4, <3>1, <3>2 DEF S
  <2>4. Rank(DOMAIN f, i) \in DOMAIN values
    BY <1>1, <2>3, SeqDomain
  <2> QED
    BY <1>1, <1>5, <2>1, <2>4
<1>8. new[Rank(DOMAIN g, n)] = g[n]
  <2>1. {j \in DOMAIN g : j <= n} = DOMAIN g
    OBVIOUS
  <2> QED
    BY <1>1, <1>4, <1>5, <2>1
<1> HIDE DEF new
<1>9. /\ Atomic!IsSeq(new)
      /\ Len(new) = Atomic!Cardinality(DOMAIN g)
      /\ \A i \in DOMAIN g : new[Atomic!Cardinality({j \in DOMAIN g : j <= i})] = g[i]
  BY <1>1, <1>4, <1>5, <1>6, <1>7, <1>8, SameTables
<1> QED
  BY <1>9 DEF Atomic!InOrder, new

(* Before the loop nothing is collected. *)
LEMMA InOrderEmpty ==
    ASSUME NEW f, DOMAIN f = {}
    PROVE  Atomic!InOrder(<<>>, f)
<1>1. Atomic!IsSeq(<<>>) /\ Len(<<>>) = Atomic!Cardinality(DOMAIN f)
  BY EmptyIsSeq, SameTables, FS_EmptySet
<1> QED
  BY <1>1 DEF Atomic!InOrder

-----------------------------------------------------------------------------
(* The SET clause. *)

(* One assignment of a row. *)
SetTo(s, columns, row, k) ==
    [row EXCEPT ![colIndex(columns, s.columns[k])] =
        Eval(Namespace(columns, row), s.values[k])]

(* The row after k assignments is that after k - 1 with the k-th made. *)
LEMMA AssignedOneByOne ==
    ASSUME NEW s, Len(s.columns) \in Nat, NEW columns, NEW row
    PROVE  LET after == Atomic!Assigned(s, columns, row)
           IN  /\ after[0] = row
               /\ \A k \in 1 .. Len(s.columns) : after[k] = SetTo(s, columns, after[k - 1], k)
<1> DEFINE n == Len(s.columns)
           Next1(f, k) == IF k = 0 THEN row ELSE SetTo(s, columns, f[k - 1], k)
           Upto(m, f) == f = [k \in 0 .. m |-> Next1(f, k)]
           S == {m \in 0 .. n : \E f : Upto(m, f)}
<1>1. 0 \in S
  <2>1. Upto(0, [k \in 0 .. 0 |-> row])
    OBVIOUS
  <2> HIDE DEF Upto
  <2> QED
    BY <2>1
<1>2. ASSUME NEW m \in 0 .. n - 1, m \in S
      PROVE  m + 1 \in S
  <2>1. PICK f : Upto(m, f)
    BY <1>2
  <2> DEFINE g == [k \in 0 .. m + 1 |-> IF k <= m THEN f[k] ELSE SetTo(s, columns, f[m], k)]
  <2>2. ASSUME NEW k \in 0 .. m + 1
        PROVE  g[k] = Next1(g, k)
    <3>1. CASE k = 0
      BY <2>1, <3>1
    <3>2. CASE k \in 1 .. m
      BY <2>1, <3>2
    <3>3. CASE k = m + 1
      BY <3>3
    <3> QED
      BY <3>1, <3>2, <3>3
  <2>3. Upto(m + 1, g)
    BY <2>2
  <2> HIDE DEF Upto, g
  <2> QED
    BY <2>3
<1>3. \E f : Upto(n, f)
  <2>1. n \in Nat
    OBVIOUS
  <2> HIDE DEF Upto, S, n
  <2>2. 0 .. n \subseteq S
    BY <1>1, <1>2, <2>1, BoundedInduction
  <2>3. n \in S
    BY <2>1, <2>2
  <2> QED
    BY <2>3 DEF S
<1> DEFINE after == Atomic!Assigned(s, columns, row)
<1>4. after = CHOOSE f : Upto(n, f)
  BY SameTables DEF Atomic!Assigned, SetTo
<1>5. after = [k \in 0 .. n |-> Next1(after, k)]
  <2> HIDE DEF after, Next1
  <2> QED
    BY <1>3, <1>4
<1>6. \A k \in 0 .. n : after[k] = Next1(after, k)
  <2> HIDE DEF after, Next1
  <2> QED
    BY <1>5
<1> HIDE DEF after
<1> QED
  BY <1>6 DEF after
-----------------------------------------------------------------------------
(* The invariant: what the loops have done is what AtomicDatabase makes of *)
(* the rows they have passed.                                              *)

(* The table that the statement found, and its WHERE clause on a row of it. *)
Found == base[stmt.table]
Verdict(i) == Where(stmt.where, Namespace(Found.columns, Found.data[i]))

Passed == 1 .. scan.row - 1
NoVerdictPanics(S) == \A i \in S : Verdict(i) # Panic

(* What SELECT returns, and DELETE keeps, of some of the rows. *)
Results(S) ==
    [i \in {j \in S : Matches(Verdict(j))} |->
        Project(stmt.exprs, Namespace(Found.columns, Found.data[i]))]

Kept(S) == [i \in {j \in S : Differs(Verdict(j))} |-> Found.data[i]]

SelectProgress ==
    Scanning({"select"}) =>
        /\ NoVerdictPanics(Passed)
        /\ \A i \in DOMAIN Results(Passed) : ~Panics(Results(Passed)[i])
        /\ Atomic!InOrder(scan.out, Results(Passed))

DeleteProgress ==
    Scanning({"delete"}) =>
        NoVerdictPanics(Passed) /\ Atomic!InOrder(scan.out, Kept(Passed))

(* A row after so many assignments of the SET clause, and whether the next *)
(* of them panics.                                                         *)
After(i) == Atomic!Assigned(stmt, Found.columns, Found.data[i])

SetPanics(i, k) ==
    \/ colIndex(Found.columns, stmt.columns[k]) = 0
    \/ Eval(Namespace(Found.columns, After(i)[k - 1]), stmt.values[k]) = Panic

Updated(i) == IF Matches(Verdict(i)) THEN After(i)[Len(stmt.columns)] ELSE Found.data[i]

UpdateProgress ==
    Scanning({"update"}) =>
        /\ tables = [base EXCEPT ![stmt.table].data = Scanned.data]
        /\ DOMAIN Scanned.data = DOMAIN Found.data
        /\ NoVerdictPanics(Passed)
        /\ \A i \in Passed :
              /\ Matches(Verdict(i)) => \A k \in 1 .. Len(stmt.columns) : ~SetPanics(i, k)
              /\ Scanned.data[i] = Updated(i)
        /\ scan.set > 0 =>
              /\ Matches(Verdict(scan.row))
              /\ \A k \in 1 .. scan.set - 1 : ~SetPanics(scan.row, k)
              /\ Scanned.data[scan.row] = After(scan.row)[scan.set - 1]
        /\ \A i \in DOMAIN Scanned.data :
              i > scan.row \/ (i = scan.row /\ scan.set = 0) =>
                  Scanned.data[i] = Found.data[i]

(* Tables are records, and those that a statement found fit their columns. *)
AreRecords(tabs) ==
    tabs = [t \in DOMAIN tabs |-> [columns |-> tabs[t].columns, data |-> tabs[t].data]]

BaseOK == \A t \in DOMAIN base : TableOK(base[t])

(* A pending UPDATE has dropped no table, so its own is there from the start. *)
UpdateKeepsTables ==
    outcome = Pending /\ stmt.kind = "update" =>
        /\ DOMAIN tables = DOMAIN base
        /\ stmt.table \notin DOMAIN tables => tables = base

Progress ==
    /\ AreRecords(tables) /\ AreRecords(base) /\ BaseOK
    /\ PendingKeepsTables /\ FailureKeepsRows /\ UpdateKeepsTables
    /\ SelectProgress /\ DeleteProgress /\ UpdateProgress

(* What a step of a loop leaves to its next step. *)
LEMMA SameStatement ==
    ASSUME UNCHANGED <<stmt, base>>
    PROVE  /\ Found' = Found
           /\ \A i : Verdict(i)' = Verdict(i)
           /\ \A S : NoVerdictPanics(S)' <=> NoVerdictPanics(S)
           /\ \A S : Results(S)' = Results(S)
           /\ \A S : Kept(S)' = Kept(S)
           /\ \A i : After(i)' = After(i)
           /\ \A i, k : SetPanics(i, k)' <=> SetPanics(i, k)
           /\ \A i : Updated(i)' = Updated(i)
           /\ \A values, f : Atomic!InOrder(values, f)' <=> Atomic!InOrder(values, f)
  BY DEF Found, Verdict, NoVerdictPanics, Results, Kept, After, SetPanics, Updated,
         Atomic!InOrder, Atomic!Assigned

(* A statement that has just been submitted has passed no row. *)
LEMMA SubmitProgress ==
    ASSUME TypeOK, Progress, NEW s, Evaluable(s), Submit(s)
    PROVE  Progress'
<1>1. /\ base' = tables /\ tables' = tables /\ outcome' = Pending
      /\ scan'.set = 0 /\ scan'.row = 1 /\ scan'.out = <<>>
  BY DEF Submit, StartOfScan
<1>2. Passed' = {}
  BY <1>1 DEF Passed
<1>3. AreRecords(tables)' /\ AreRecords(base)' /\ BaseOK'
  BY <1>1 DEF Progress, AreRecords, BaseOK, TypeOK, TablesOK
<1>4. PendingKeepsTables' /\ FailureKeepsRows' /\ UpdateKeepsTables'
  BY <1>1 DEF PendingKeepsTables, FailureKeepsRows, UpdateKeepsTables, Failed, Pending
<1>5. SelectProgress'
  <2>1. DOMAIN (Results(Passed)') = {}
    BY <1>2 DEF Results
  <2>2. Atomic!InOrder(<<>>, Results(Passed)')
    BY <2>1, InOrderEmpty
  <2> QED
    BY <1>1, <1>2, <2>1, <2>2 DEF SelectProgress, NoVerdictPanics
<1>6. DeleteProgress'
  <2>1. DOMAIN (Kept(Passed)') = {}
    BY <1>2 DEF Kept
  <2>2. Atomic!InOrder(<<>>, Kept(Passed)')
    BY <2>1, InOrderEmpty
  <2> QED
    BY <1>1, <1>2, <2>1, <2>2 DEF DeleteProgress, NoVerdictPanics
<1>7. UpdateProgress'
  <2>1. Scanned' = Found'
    BY <1>1 DEF Scanned, Found
  <2>2. ASSUME stmt'.table \in DOMAIN tables
        PROVE  tables = [tables EXCEPT ![stmt'.table].data = tables[stmt'.table].data]
    BY <2>2 DEF Progress, AreRecords
  <2> QED
    BY <1>1, <1>2, <2>1, <2>2 DEF UpdateProgress, NoVerdictPanics, Scanning, Scanned
<1> QED
  BY <1>3, <1>4, <1>5, <1>6, <1>7 DEF Progress

(* A statement that ends leaves nothing of its loop. *)
LEMMA EndProgress ==
    ASSUME Progress, outcome' # Pending, UNCHANGED base, AreRecords(tables)',
           FailureKeepsRows'
    PROVE  Progress'
BY DEF Progress, BaseOK, AreRecords, PendingKeepsTables, UpdateKeepsTables,
       SelectProgress, DeleteProgress, UpdateProgress, Scanning, Evaluating

(* A row that SELECT or DELETE passes, and whether it is collected. *)
LEMMA PassedNext ==
    ASSUME TypeOK, Scanning(Loops), ~AtEnd, DOMAIN Found.data = DOMAIN Scanned.data,
           scan'.row = scan.row + 1
    PROVE  /\ Passed' = Passed \cup {scan.row}
           /\ scan.row \in Nat /\ scan.row \notin Passed
           /\ scan.row \in DOMAIN Found.data /\ Passed \subseteq DOMAIN Found.data
<1>1. /\ scan.row \in Nat /\ scan.row \in DOMAIN Scanned.data
      /\ DOMAIN Scanned.data = 1 .. Len(Scanned.data) /\ Len(Scanned.data) \in Nat
  BY ScannedIsOK
<1> QED
  BY <1>1 DEF Passed

(* What is collected of one more row is appended, and of none stays. *)
LEMMA CollectResult ==
    ASSUME NEW r \in Nat, NEW S, S \subseteq 1 .. r - 1, NEW values,
           Atomic!InOrder(values, Results(S))
    PROVE  /\ Matches(Verdict(r)) =>
                 Atomic!InOrder(
                    Append(values, Project(stmt.exprs, Namespace(Found.columns, Found.data[r]))),
                    Results(S \cup {r}))
           /\ ~Matches(Verdict(r)) => Results(S \cup {r}) = Results(S)
<1>1. CASE Matches(Verdict(r))
  <2> DEFINE f == Results(S)
             g == Results(S \cup {r})
  <2>1. /\ DOMAIN f \subseteq 1 .. r - 1 /\ DOMAIN g = DOMAIN f \cup {r}
        /\ \A i \in DOMAIN f : g[i] = f[i]
        /\ g[r] = Project(stmt.exprs, Namespace(Found.columns, Found.data[r]))
    BY <1>1 DEF Results
  <2> HIDE DEF f, g
  <2>2. Atomic!InOrder(values, f)
    BY DEF f
  <2>3. Atomic!InOrder(Append(values, g[r]), g)
    BY <2>1, <2>2, InOrderAppend
  <2> QED
    BY <1>1, <2>1, <2>3 DEF g
<1>2. CASE ~Matches(Verdict(r))
  BY <1>2 DEF Results
<1> QED
  BY <1>1, <1>2

(* The same of DELETE. *)
LEMMA CollectKept ==
    ASSUME NEW r \in Nat, NEW S, S \subseteq 1 .. r - 1, NEW values,
           Atomic!InOrder(values, Kept(S))
    PROVE  /\ Differs(Verdict(r)) =>
                 Atomic!InOrder(Append(values, Found.data[r]), Kept(S \cup {r}))
           /\ ~Differs(Verdict(r)) => Kept(S \cup {r}) = Kept(S)
<1>1. CASE Differs(Verdict(r))
  <2> DEFINE f == Kept(S)
             g == Kept(S \cup {r})
  <2>1. /\ DOMAIN f \subseteq 1 .. r - 1 /\ DOMAIN g = DOMAIN f \cup {r}
        /\ \A i \in DOMAIN f : g[i] = f[i]
        /\ g[r] = Found.data[r]
    BY <1>1 DEF Kept
  <2> HIDE DEF f, g
  <2>2. Atomic!InOrder(values, f)
    BY DEF f
  <2>3. Atomic!InOrder(Append(values, g[r]), g)
    BY <2>1, <2>2, InOrderAppend
  <2> QED
    BY <1>1, <2>1, <2>3 DEF g
<1>2. CASE ~Differs(Verdict(r))
  BY <1>2 DEF Kept
<1> QED
  BY <1>1, <1>2

(* SELECT goes on with a row that differs, or collects its projection. *)
LEMMA SelectRowProgress ==
    ASSUME TypeOK, Progress, SelectRow
    PROVE  Progress'
<1> DEFINE result == Project(stmt.exprs, CurrentNamespace)
<1>1. /\ Scanning(Loops) /\ Scanning({"select"}) /\ ~AtEnd /\ outcome = Pending
      /\ stmt.kind = "select" /\ UNCHANGED <<tables, stmt, base>>
      /\ \/ Differs(CurrentWhere) /\ scan' = NextRow /\ UNCHANGED outcome
         \/ /\ Matches(CurrentWhere) /\ ~Panics(result)
            /\ scan' = Collect(result) /\ UNCHANGED outcome
         \/ Fail
  BY DEF SelectRow, AtRow, Scanning, Evaluating, Loops
<1>2. AreRecords(tables)'
  BY <1>1 DEF Progress, AreRecords
<1>3. tables = base /\ Scanned = Found
  BY <1>1 DEF Progress, PendingKeepsTables, Scanned, Found
<1>4. FailureKeepsRows'
  BY <1>1, <1>3 DEF FailureKeepsRows
<1>5. CASE Fail
  BY <1>1, <1>2, <1>4, <1>5, EndProgress DEF Fail, Failed, Pending
<1>6. CASE ~Fail
  <2>1. DOMAIN scan = {"row", "set", "out"}
    BY DEF TypeOK
  <2>2. scan'.row = scan.row + 1
    BY <1>1, <1>6, <2>1 DEF NextRow, Collect
  <2>3. /\ Passed' = Passed \cup {scan.row} /\ scan.row \in Nat
        /\ Passed \subseteq 1 .. scan.row - 1
    BY <1>1, <1>3, <2>2, PassedNext DEF Passed
  <2>4. /\ CurrentWhere = Verdict(scan.row)
        /\ result = Project(stmt.exprs, Namespace(Found.columns, Found.data[scan.row]))
    BY <1>3 DEF CurrentWhere, CurrentNamespace, CurrentRow, Verdict
  <2>5. /\ NoVerdictPanics(Passed)
        /\ \A i \in DOMAIN Results(Passed) : ~Panics(Results(Passed)[i])
        /\ Atomic!InOrder(scan.out, Results(Passed))
    BY <1>1 DEF Progress, SelectProgress
  <2> DEFINE next == Passed \cup {scan.row}
  <2>6. /\ NoVerdictPanics(next)
        /\ \A i \in DOMAIN Results(next) : ~Panics(Results(next)[i])
        /\ Atomic!InOrder(scan'.out, Results(next))
    <3>1. CASE Differs(CurrentWhere) /\ scan' = NextRow
      <4>1. Verdict(scan.row) # Panic /\ ~Matches(Verdict(scan.row))
        BY <2>4, <3>1 DEF Differs, Matches
      <4>2. Results(next) = Results(Passed)
        BY <2>3, <2>5, <4>1, CollectResult
      <4>3. scan'.out = scan.out
        BY <2>1, <3>1 DEF NextRow
      <4> QED
        BY <2>5, <4>1, <4>2, <4>3 DEF NoVerdictPanics
    <3>2. CASE Matches(CurrentWhere) /\ ~Panics(result) /\ scan' = Collect(result)
      <4>1. Verdict(scan.row) # Panic /\ Matches(Verdict(scan.row))
        BY <2>4, <3>2 DEF Matches
      <4>2. Atomic!InOrder(Append(scan.out, result), Results(next))
        BY <2>3, <2>4, <2>5, <4>1, CollectResult
      <4>3. scan'.out = Append(scan.out, result)
        BY <2>1, <3>2 DEF Collect
      <4>4. \A i \in DOMAIN Results(next) : ~Panics(Results(next)[i])
        BY <2>4, <2>5, <3>2 DEF Results
      <4> QED
        BY <2>5, <4>1, <4>2, <4>3, <4>4 DEF NoVerdictPanics
    <3> QED
      BY <1>1, <1>6, <3>1, <3>2
  <2>7. SelectProgress'
    BY <1>1, <2>3, <2>6, SameStatement DEF SelectProgress
  <2> QED
    BY <1>1, <1>2, <1>3, <1>4, <2>7
       DEF Progress, AreRecords, BaseOK, PendingKeepsTables, UpdateKeepsTables,
           DeleteProgress, UpdateProgress, Scanning, Evaluating
<1> QED
  BY <1>5, <1>6

(* DELETE goes on with a row that matches, or keeps it. *)
LEMMA DeleteRowProgress ==
    ASSUME TypeOK, Progress, DeleteRow
    PROVE  Progress'
<1>1. /\ Scanning(Loops) /\ Scanning({"delete"}) /\ ~AtEnd /\ outcome = Pending
      /\ stmt.kind = "delete" /\ UNCHANGED <<tables, stmt, base, outcome>>
      /\ \/ Differs(CurrentWhere) /\ scan' = Collect(CurrentRow)
         \/ Matches(CurrentWhere) /\ scan' = NextRow
  BY DEF DeleteRow, AtRow, Scanning, Evaluating, Loops
<1>2. AreRecords(tables)'
  BY <1>1 DEF Progress, AreRecords
<1>3. tables = base /\ Scanned = Found
  BY <1>1 DEF Progress, PendingKeepsTables, Scanned, Found
<1>4. FailureKeepsRows'
  BY <1>1, <1>3 DEF FailureKeepsRows
<1>5. DOMAIN scan = {"row", "set", "out"}
  BY DEF TypeOK
<1>6. scan'.row = scan.row + 1
  BY <1>1, <1>5 DEF NextRow, Collect
<1>7. /\ Passed' = Passed \cup {scan.row} /\ scan.row \in Nat
      /\ Passed \subseteq 1 .. scan.row - 1
  BY <1>1, <1>3, <1>6, PassedNext DEF Passed
<1>8. CurrentWhere = Verdict(scan.row) /\ CurrentRow = Found.data[scan.row]
  BY <1>3 DEF CurrentWhere, CurrentNamespace, CurrentRow, Verdict
<1>9. NoVerdictPanics(Passed) /\ Atomic!InOrder(scan.out, Kept(Passed))
  BY <1>1 DEF Progress, DeleteProgress
<1> DEFINE next == Passed \cup {scan.row}
<1>10. NoVerdictPanics(next) /\ Atomic!InOrder(scan'.out, Kept(next))
  <2>1. CASE Differs(CurrentWhere) /\ scan' = Collect(CurrentRow)
    <3>1. Verdict(scan.row) # Panic /\ Differs(Verdict(scan.row))
      BY <1>8, <2>1 DEF Differs
    <3>2. Atomic!InOrder(Append(scan.out, CurrentRow), Kept(next))
      BY <1>7, <1>8, <1>9, <3>1, CollectKept
    <3>3. scan'.out = Append(scan.out, CurrentRow)
      BY <1>5, <2>1 DEF Collect
    <3> QED
      BY <1>9, <3>1, <3>2, <3>3 DEF NoVerdictPanics
  <2>2. CASE Matches(CurrentWhere) /\ scan' = NextRow
    <3>1. Verdict(scan.row) # Panic /\ ~Differs(Verdict(scan.row))
      BY <1>8, <2>2 DEF Differs, Matches
    <3>2. Kept(next) = Kept(Passed)
      BY <1>7, <1>9, <3>1, CollectKept
    <3>3. scan'.out = scan.out
      BY <1>5, <2>2 DEF NextRow
    <3> QED
      BY <1>9, <3>1, <3>2, <3>3 DEF NoVerdictPanics
  <2> QED
    BY <1>1, <2>1, <2>2
<1>11. DeleteProgress'
  BY <1>1, <1>7, <1>10, SameStatement DEF DeleteProgress
<1> QED
  BY <1>1, <1>2, <1>3, <1>4, <1>11
     DEF Progress, AreRecords, BaseOK, PendingKeepsTables, UpdateKeepsTables,
         SelectProgress, UpdateProgress, Scanning, Evaluating

(* What UPDATE has done so far, taken apart. *)
LEMMA UpdateSoFar ==
    ASSUME TypeOK, Progress, Scanning({"update"})
    PROVE  /\ tables = [base EXCEPT ![stmt.table].data = Scanned.data]
           /\ DOMAIN tables = DOMAIN base /\ stmt.table \in DOMAIN base
           /\ Scanned.columns = Found.columns
           /\ DOMAIN Scanned.data = DOMAIN Found.data
           /\ DOMAIN Scanned.data = 1 .. Len(Scanned.data) /\ Len(Scanned.data) \in Nat
           /\ DOMAIN scan = {"row", "set", "out"}
           /\ stmt.kind = "update" /\ outcome = Pending /\ Scanning(Loops)
           /\ Len(stmt.columns) \in Nat /\ Len(stmt.columns) > 0
           /\ scan.row \in 1 .. Len(Scanned.data) + 1
           /\ scan.set \in 0 .. Len(stmt.columns)
           /\ scan.set > 0 => ~AtEnd
<1>1. /\ stmt.kind = "update" /\ outcome = Pending /\ Scanning(Loops)
      /\ tables = [base EXCEPT ![stmt.table].data = Scanned.data]
      /\ DOMAIN Scanned.data = DOMAIN Found.data
      /\ stmt.table \in DOMAIN tables
  BY DEF Scanning, Evaluating, Loops, Progress, UpdateProgress
<1>2. DOMAIN tables = DOMAIN base /\ stmt.table \in DOMAIN base
  BY <1>1
<1>3. DOMAIN base[stmt.table] = {"columns", "data"}
  BY <1>2 DEF Progress, BaseOK, TableOK
<1>4. tables[stmt.table] = [base[stmt.table] EXCEPT !.data = Scanned.data]
  BY <1>1, <1>2
<1>5. Scanned.columns = Found.columns
  BY <1>3, <1>4 DEF Scanned, Found
<1>6. ScanOK /\ StmtOK(stmt, TableName, ColumnName) /\ DOMAIN scan = {"row", "set", "out"}
  BY <1>1, ScannedIsOK DEF TypeOK
<1>7. stmt.columns \in Seq(ColumnName) /\ stmt.columns # <<>>
  BY <1>1, <1>6 DEF StmtOK
<1>8. Len(stmt.columns) \in Nat /\ Len(stmt.columns) > 0
  BY <1>7
<1>9. /\ scan.row \in 1 .. Len(Scanned.data) + 1
      /\ scan.set \in 0 .. Len(stmt.columns)
      /\ scan.set > 0 => ~AtEnd
  BY <1>1, <1>6 DEF ScanOK
<1> QED
  BY <1>1, <1>2, <1>5, <1>6, <1>8, <1>9, ScannedIsOK

(* UPDATE goes on with a row that differs, or begins with its assignments. *)
LEMMA UpdateRowProgress ==
    ASSUME TypeOK, Progress, UpdateRow
    PROVE  Progress'
<1>1. /\ Scanning({"update"}) /\ ~AtEnd /\ scan.set = 0
      /\ UNCHANGED <<tables, stmt, base, outcome>>
      /\ \/ Differs(CurrentWhere) /\ scan' = NextRow
         \/ Matches(CurrentWhere) /\ scan' = [scan EXCEPT !.set = 1]
  BY DEF UpdateRow, AtRow
<1>2. /\ DOMAIN scan = {"row", "set", "out"} /\ Scanning(Loops)
      /\ scan.row \in Nat /\ scan.row \in DOMAIN Scanned.data
      /\ DOMAIN Scanned.data = 1 .. Len(Scanned.data) /\ Len(Scanned.data) \in Nat
      /\ DOMAIN Scanned.data = DOMAIN Found.data
      /\ stmt.kind = "update" /\ outcome = Pending
      /\ Len(stmt.columns) \in Nat /\ Len(stmt.columns) > 0
  BY <1>1, UpdateSoFar, ScannedIsOK
<1> DEFINE Rest(r, set) ==
             \A i \in DOMAIN Scanned.data :
                 i > r \/ (i = r /\ set = 0) => Scanned.data[i] = Found.data[i]
           Done(S) ==
             \A i \in S :
                /\ Matches(Verdict(i)) => \A k \in 1 .. Len(stmt.columns) : ~SetPanics(i, k)
                /\ Scanned.data[i] = Updated(i)
<1>3. /\ tables = [base EXCEPT ![stmt.table].data = Scanned.data]
      /\ NoVerdictPanics(Passed) /\ Done(Passed) /\ Rest(scan.row, 0)
  BY <1>1 DEF Progress, UpdateProgress
<1>4. Scanned.data[scan.row] = Found.data[scan.row]
  BY <1>2, <1>3
<1>5. CurrentWhere = Verdict(scan.row)
  BY <1>1, <1>4, UpdateSoFar DEF CurrentWhere, CurrentNamespace, CurrentRow, Verdict
<1>6. Scanned' = Scanned
  BY <1>1 DEF Scanned
<1>7. CASE Differs(CurrentWhere) /\ scan' = NextRow
  <2>1. scan'.row = scan.row + 1 /\ scan'.set = 0
    BY <1>2, <1>7 DEF NextRow
  <2>2. Passed' = Passed \cup {scan.row}
    BY <1>1, <1>2, <2>1, PassedNext
  <2>3. Verdict(scan.row) # Panic /\ ~Matches(Verdict(scan.row))
    BY <1>5, <1>7 DEF Differs, Matches
  <2>4. NoVerdictPanics(Passed') /\ Done(Passed')
    BY <1>3, <1>4, <2>2, <2>3 DEF NoVerdictPanics, Updated
  <2>5. Rest(scan'.row, scan'.set)
    <3>1. \A i \in DOMAIN Scanned.data : i >= scan.row + 1 => i > scan.row
      BY <1>2
    <3> QED
      BY <1>2, <1>3, <2>1, <3>1
  <2>6. UpdateProgress'
    BY <1>1, <1>2, <1>3, <1>6, <2>1, <2>4, <2>5, SameStatement DEF UpdateProgress
  <2> QED
    BY <1>1, <1>2, <2>6
       DEF Progress, AreRecords, BaseOK, PendingKeepsTables, FailureKeepsRows,
           UpdateKeepsTables, SelectProgress, DeleteProgress, Scanning, Evaluating
<1>8. CASE Matches(CurrentWhere) /\ scan' = [scan EXCEPT !.set = 1]
  <2>1. scan'.row = scan.row /\ scan'.set = 1 /\ Passed' = Passed
    BY <1>2, <1>8 DEF Passed
  <2>2. After(scan.row)[0] = Found.data[scan.row]
    BY <1>2, AssignedOneByOne DEF After
  <2>3. Rest(scan'.row, scan'.set)
    BY <1>3, <2>1
  <2>4. /\ Matches(Verdict(scan.row)) /\ \A k \in 1 .. scan'.set - 1 : ~SetPanics(scan.row, k)
        /\ Scanned.data[scan.row] = After(scan.row)[scan'.set - 1]
    BY <1>4, <1>5, <1>8, <2>1, <2>2
  <2>5. UpdateProgress'
    BY <1>1, <1>2, <1>3, <1>6, <2>1, <2>3, <2>4, SameStatement DEF UpdateProgress
  <2> QED
    BY <1>1, <1>2, <2>5
       DEF Progress, AreRecords, BaseOK, PendingKeepsTables, FailureKeepsRows,
           UpdateKeepsTables, SelectProgress, DeleteProgress, Scanning, Evaluating
<1> QED
  BY <1>1, <1>7, <1>8

(* What UPDATE must have done after a step of its loop. *)
LEMMA UpdateGoesOn ==
    ASSUME UNCHANGED <<stmt, base>>,
           tables' = [base EXCEPT ![stmt.table].data = Scanned'.data],
           DOMAIN Scanned'.data = DOMAIN Found.data,
           NoVerdictPanics(Passed'),
           \A i \in Passed' :
              /\ Matches(Verdict(i)) => \A k \in 1 .. Len(stmt.columns) : ~SetPanics(i, k)
              /\ Scanned'.data[i] = Updated(i),
           scan'.set > 0 =>
              /\ Matches(Verdict(scan'.row))
              /\ \A k \in 1 .. scan'.set - 1 : ~SetPanics(scan'.row, k)
              /\ Scanned'.data[scan'.row] = After(scan'.row)[scan'.set - 1],
           \A i \in DOMAIN Scanned'.data :
              i > scan'.row \/ (i = scan'.row /\ scan'.set = 0) =>
                  Scanned'.data[i] = Found.data[i]
    PROVE  UpdateProgress'
<1> USE SameStatement
<1>1. Found' = Found /\ NoVerdictPanics(Passed)' /\ stmt' = stmt /\ base' = base
  OBVIOUS
<1>2. \A i \in Passed' :
        /\ Matches(Verdict(i)') => \A k \in 1 .. Len(stmt.columns) : ~SetPanics(i, k)'
        /\ Scanned'.data[i] = Updated(i)'
  OBVIOUS
<1>3. \A r : scan'.set > 0 /\ r = scan'.row =>
        /\ Matches(Verdict(r)')
        /\ \A k \in 1 .. scan'.set - 1 : ~SetPanics(r, k)'
        /\ Scanned'.data[r] = (After(r)')[scan'.set - 1]
  OBVIOUS
<1> QED
  BY <1>1, <1>2, <1>3 DEF UpdateProgress

(* An assignment makes of its row what the SET clause does, one step more. *)
LEMMA UpdateSetProgress ==
    ASSUME TypeOK, Progress, UpdateSet, FailureKeepsRows'
    PROVE  Progress'
<1> DEFINE name == stmt.columns[scan.set]
           n == colIndex(Scanned.columns, name)
           v == Eval(CurrentNamespace, stmt.values[scan.set])
<1>1. /\ Scanning({"update"}) /\ ~AtEnd /\ scan.set > 0 /\ UNCHANGED <<stmt, base>>
      /\ IF n = 0 \/ v = Panic
         THEN Fail /\ UNCHANGED <<tables, scan>>
         ELSE /\ tables' = [tables EXCEPT ![stmt.table].data[scan.row][n] = v]
              /\ scan' = AfterAssignment
              /\ UNCHANGED outcome
  BY DEF UpdateSet
<1>2. /\ tables = [base EXCEPT ![stmt.table].data = Scanned.data]
      /\ DOMAIN tables = DOMAIN base /\ stmt.table \in DOMAIN base
      /\ Scanned.columns = Found.columns
      /\ DOMAIN Scanned.data = DOMAIN Found.data
      /\ DOMAIN Scanned.data = 1 .. Len(Scanned.data) /\ Len(Scanned.data) \in Nat
      /\ DOMAIN scan = {"row", "set", "out"}
      /\ stmt.kind = "update" /\ outcome = Pending /\ Scanning(Loops)
      /\ Len(stmt.columns) \in Nat /\ Len(stmt.columns) > 0
      /\ scan.row \in 1 .. Len(Scanned.data) + 1
      /\ scan.set \in 1 .. Len(stmt.columns)
      /\ scan.row \in DOMAIN Scanned.data
  BY <1>1, UpdateSoFar, ScannedIsOK
<1>3. CASE n = 0 \/ v = Panic
  <2>1. UNCHANGED <<tables, base>> /\ outcome' # Pending
    BY <1>1, <1>3 DEF Fail, Failed, Pending
  <2>2. AreRecords(tables)'
    BY <2>1 DEF Progress, AreRecords
  <2> QED
    BY <2>1, <2>2, EndProgress
<1>4. CASE ~(n = 0 \/ v = Panic)
  <2> DEFINE Done(data, S) ==
               \A i \in S :
                  /\ Matches(Verdict(i)) => \A k \in 1 .. Len(stmt.columns) : ~SetPanics(i, k)
                  /\ data[i] = Updated(i)
             after == After(scan.row)
  <2>1. /\ NoVerdictPanics(Passed) /\ Done(Scanned.data, Passed)
        /\ Matches(Verdict(scan.row))
        /\ \A k \in 1 .. scan.set - 1 : ~SetPanics(scan.row, k)
        /\ Scanned.data[scan.row] = after[scan.set - 1]
        /\ \A i \in DOMAIN Scanned.data : i > scan.row => Scanned.data[i] = Found.data[i]
    BY <1>1 DEF Progress, UpdateProgress
  <2> HIDE DEF n, v
  <2>2. /\ DOMAIN tables' = DOMAIN tables
        /\ \A t \in DOMAIN tables : t # stmt.table => tables'[t] = tables[t]
        /\ Scanned'.columns = Scanned.columns
        /\ Scanned'.data = [Scanned.data EXCEPT ![scan.row][n] = v]
        /\ DOMAIN Scanned'.data = DOMAIN Scanned.data
        /\ UNCHANGED outcome /\ scan' = AfterAssignment
    <3>1. /\ tables' = [tables EXCEPT ![stmt.table].data[scan.row][n] = v]
          /\ UNCHANGED outcome /\ scan' = AfterAssignment
          /\ Scanning(Loops) /\ ~AtEnd /\ v # Panic /\ stmt' = stmt
      BY <1>1, <1>2, <1>4
    <3> QED
      BY <3>1, AssignedTables
  <2>3. Scanned'.data[scan.row] = after[scan.set]
    <3>1. after[scan.set] = SetTo(stmt, Found.columns, after[scan.set - 1], scan.set)
      BY <1>2, AssignedOneByOne DEF After
    <3>2. Scanned'.data[scan.row] = [Scanned.data[scan.row] EXCEPT ![n] = v]
      BY <1>2, <2>2
    <3> QED
      BY <1>2, <2>1, <3>1, <3>2 DEF SetTo, n, v, CurrentNamespace, CurrentRow
  <2>4. ~SetPanics(scan.row, scan.set)
    BY <1>2, <1>4, <2>1 DEF SetPanics, n, v, CurrentNamespace, CurrentRow
  <2>5. \A i \in DOMAIN Scanned.data : i # scan.row => Scanned'.data[i] = Scanned.data[i]
    BY <2>2
  <2>6. /\ tables' = [base EXCEPT ![stmt.table].data = Scanned'.data]
        /\ AreRecords(tables)'
    <3>1. /\ \A t \in DOMAIN base :
               /\ base[t] = [columns |-> base[t].columns, data |-> base[t].data]
               /\ DOMAIN base[t] = {"columns", "data"}
          /\ base = [t \in DOMAIN base |-> base[t]]
      BY DEF Progress, AreRecords, BaseOK, TableOK
    <3>2. /\ tables' = [tables EXCEPT ![stmt.table].data[scan.row][n] = v]
          /\ tables' = [t \in DOMAIN tables |-> tables'[t]]
      BY <1>1, <1>4
    <3>3. tables'[stmt.table] = [base[stmt.table] EXCEPT !.data = Scanned'.data]
      <4>1. Scanned = [base[stmt.table] EXCEPT !.data = Scanned.data]
        BY <1>2 DEF Scanned
      <4>2. tables'[stmt.table] = [Scanned EXCEPT !.data[scan.row][n] = v]
        BY <1>2, <3>2 DEF Scanned
      <4>3. tables'[stmt.table] = [Scanned EXCEPT !.data = Scanned'.data]
        BY <2>2, <4>2
      <4> QED
        BY <1>2, <3>1, <4>1, <4>3
    <3>4. ASSUME NEW t \in DOMAIN base
          PROVE  /\ tables'[t] = [base EXCEPT ![stmt.table].data = Scanned'.data][t]
                 /\ tables'[t] = [columns |-> tables'[t].columns, data |-> tables'[t].data]
      BY <1>2, <2>2, <3>1, <3>3
    <3> HIDE DEF AreRecords
    <3>5. tables' = [base EXCEPT ![stmt.table].data = Scanned'.data]
      BY <1>2, <3>2, <3>4
    <3>6. AreRecords(tables)'
      BY <1>2, <3>2, <3>4 DEF AreRecords
    <3> QED
      BY <3>5, <3>6
  <2>7. CASE scan.set < Len(stmt.columns)
    <3>1. scan'.row = scan.row /\ scan'.set = scan.set + 1 /\ Passed' = Passed
      BY <1>2, <2>2, <2>7 DEF AfterAssignment, Passed
    <3>2. Done(Scanned'.data, Passed)
      <4>1. \A i \in Passed : i # scan.row /\ i \in DOMAIN Scanned.data
        BY <1>2 DEF Passed
      <4> QED
        BY <2>1, <2>5, <4>1
    <3>3. UpdateProgress'
      <4>1. \A k \in 1 .. scan'.set - 1 : ~SetPanics(scan.row, k)
        BY <1>2, <2>1, <2>4, <3>1
      <4>2. Scanned'.data[scan.row] = after[scan'.set - 1]
        BY <1>2, <2>3, <3>1
      <4>3. \A i \in DOMAIN Scanned'.data :
                i > scan'.row \/ (i = scan'.row /\ scan'.set = 0) =>
                    Scanned'.data[i] = Found.data[i]
        <5>1. \A i \in DOMAIN Scanned.data :
                 i > scan'.row \/ (i = scan'.row /\ scan'.set = 0) => i > scan.row /\ i # scan.row
          BY <1>2, <3>1
        <5> QED
          BY <2>1, <2>2, <2>5, <5>1
      <4> QED
        BY <1>1, <1>2, <2>1, <2>2, <2>6, <3>1, <3>2, <4>1, <4>2, <4>3, UpdateGoesOn
    <3> QED
      BY <1>1, <1>2, <2>2, <2>6, <3>3
         DEF Progress, BaseOK, AreRecords, PendingKeepsTables, UpdateKeepsTables,
             SelectProgress, DeleteProgress, Scanning, Evaluating
  <2>8. CASE ~(scan.set < Len(stmt.columns))
    <3>1. scan'.row = scan.row + 1 /\ scan'.set = 0 /\ scan.set = Len(stmt.columns)
      BY <1>2, <2>2, <2>8 DEF AfterAssignment, NextRow
    <3>2. Passed' = Passed \cup {scan.row} /\ scan.row \notin Passed
          /\ Passed \subseteq DOMAIN Found.data
      BY <1>1, <1>2, <3>1, PassedNext
    <3>3. NoVerdictPanics(Passed')
      BY <2>1, <3>2 DEF NoVerdictPanics, Matches
    <3>4. \A k \in 1 .. Len(stmt.columns) : ~SetPanics(scan.row, k)
      BY <1>2, <2>1, <2>4, <3>1
    <3>5. Scanned'.data[scan.row] = Updated(scan.row)
      BY <2>1, <2>3, <3>1 DEF Updated
    <3>6. Done(Scanned'.data, Passed')
      <4>1. \A i \in Passed : i # scan.row /\ i \in DOMAIN Scanned.data
        BY <1>2, <3>2
      <4> QED
        BY <2>1, <2>5, <3>2, <3>4, <3>5, <4>1
    <3>7. \A i \in DOMAIN Scanned'.data :
              i > scan'.row \/ (i = scan'.row /\ scan'.set = 0) =>
                  Scanned'.data[i] = Found.data[i]
      <4>1. \A i \in DOMAIN Scanned.data :
               i > scan'.row \/ (i = scan'.row /\ scan'.set = 0) => i > scan.row /\ i # scan.row
        BY <1>2, <3>1
      <4> QED
        BY <2>1, <2>2, <2>5, <4>1
    <3>8. UpdateProgress'
      BY <1>1, <1>2, <2>2, <2>6, <3>1, <3>3, <3>6, <3>7, UpdateGoesOn
    <3> QED
      BY <1>1, <1>2, <2>2, <2>6, <3>8
         DEF Progress, BaseOK, AreRecords, PendingKeepsTables, UpdateKeepsTables,
             SelectProgress, DeleteProgress, Scanning, Evaluating
  <2> QED
    BY <2>7, <2>8
<1> QED
  BY <1>3, <1>4

(* The statements that change the tables at their end store records again. *)
LEMMA EndKeepsRecords ==
    ASSUME TypeOK, AreRecords(tables),
           CreateTable \/ InsertStmt \/ NoSuchTable \/ WherePanics \/ SelectEnd
             \/ UpdateEnd \/ DeleteEnd
    PROVE  AreRecords(tables)' /\ outcome' # Pending /\ UNCHANGED <<stmt, base>>
<1>1. Failed # Pending /\ \A table : Returned(table) # Pending
  BY DEF Failed, Returned, Pending
<1>2. \A t \in DOMAIN tables :
         /\ tables[t] = [columns |-> tables[t].columns, data |-> tables[t].data]
         /\ DOMAIN tables[t] = {"columns", "data"}
  BY DEF AreRecords, TypeOK, TablesOK, TableOK
<1>3. CASE UNCHANGED tables
  BY <1>1, <1>3 DEF AreRecords, CreateTable, InsertStmt, InsertRow, NoSuchTable, WherePanics,
                    SelectEnd, UpdateEnd, DeleteEnd, Fail, Return
<1>4. CASE CreateTable /\ ~UNCHANGED tables
  <2>1. /\ tables' = [t \in DOMAIN tables \cup {stmt.table} |->
                         IF t = stmt.table THEN [columns |-> CreatedColumns, data |-> <<>>]
                                           ELSE tables[t]]
        /\ Return(NoTable) /\ UNCHANGED <<stmt, base>>
    BY <1>4 DEF CreateTable
  <2> QED
    BY <1>1, <1>2, <2>1 DEF AreRecords, Return
<1>5. CASE InsertStmt /\ ~UNCHANGED tables
  <2>1. PICK columns, data :
            tables' = [tables EXCEPT ![stmt.table] = [columns |-> columns, data |-> data]]
    BY <1>5 DEF InsertStmt, InsertRow
  <2>2. outcome' # Pending /\ UNCHANGED <<stmt, base>>
    BY <1>1, <1>5 DEF InsertStmt, InsertRow, Fail, Return
  <2>3. /\ tables' = [t \in DOMAIN tables |-> tables'[t]]
        /\ \A t \in DOMAIN tables :
              tables'[t] = IF t = stmt.table THEN [columns |-> columns, data |-> data]
                                             ELSE tables[t]
    BY <2>1
  <2>4. \A t \in DOMAIN tables :
           tables'[t] = [columns |-> tables'[t].columns, data |-> tables'[t].data]
    BY <1>2, <2>3
  <2>5. AreRecords(tables)'
    BY <2>3, <2>4 DEF AreRecords
  <2> QED
    BY <2>2, <2>5
<1>6. CASE DeleteEnd /\ ~UNCHANGED tables
  <2>1. /\ tables' = [tables EXCEPT ![stmt.table].data = scan.out]
        /\ stmt.table \in DOMAIN tables
        /\ Return(NoTable) /\ UNCHANGED <<stmt, base>>
    BY <1>6 DEF DeleteEnd, Scanning
  <2>2. /\ tables' = [t \in DOMAIN tables |-> tables'[t]]
        /\ \A t \in DOMAIN tables :
              tables'[t] = IF t = stmt.table THEN [tables[t] EXCEPT !.data = scan.out]
                                             ELSE tables[t]
    BY <2>1
  <2>3. \A t \in DOMAIN tables :
           tables'[t] = [columns |-> tables'[t].columns, data |-> tables'[t].data]
    BY <1>2, <2>2
  <2>4. AreRecords(tables)'
    BY <2>2, <2>3 DEF AreRecords
  <2> QED
    BY <1>1, <2>1, <2>4 DEF Return
<1> QED
  BY <1>3, <1>4, <1>5, <1>6
     DEF NoSuchTable, WherePanics, SelectEnd, UpdateEnd

(* Every step keeps what the loops have done in line with AtomicDatabase. *)
LEMMA NextProgress == TypeOK /\ Progress /\ Step => Progress'
<1> SUFFICES ASSUME TypeOK, Progress, Step PROVE Progress'
  OBVIOUS
<1>1. FailureKeepsRows' /\ AreRecords(tables)
  BY NextKeepsRows DEF Progress
<1>2. ASSUME NEW s, Evaluable(s), Submit(s) PROVE Progress'
  BY <1>2, SubmitProgress
<1>3. CASE CreateTable \/ InsertStmt \/ NoSuchTable \/ WherePanics \/ SelectEnd
             \/ UpdateEnd \/ DeleteEnd
  BY <1>1, <1>3, EndKeepsRecords, EndProgress
<1>4. CASE SelectRow
  BY <1>4, SelectRowProgress
<1>5. CASE DeleteRow
  BY <1>5, DeleteRowProgress
<1>6. CASE UpdateRow
  BY <1>6, UpdateRowProgress
<1>7. CASE UpdateSet
  BY <1>1, <1>7, UpdateSetProgress
<1>8. CASE UNCHANGED vars
  <2>1. UNCHANGED <<tables, stmt, scan, outcome, base>>
    BY <1>8 DEF vars
  <2>2. UNCHANGED <<Passed, Scanned>> /\ \A kinds : Scanning(kinds)' <=> Scanning(kinds)
    BY <2>1 DEF Passed, Scanned, Scanning, Evaluating
  <2>3. SelectProgress' /\ DeleteProgress'
    BY <2>1, <2>2, SameStatement DEF Progress, SelectProgress, DeleteProgress
  <2>4. UpdateProgress'
    <3>1. CASE Scanning({"update"})
      BY <2>1, <2>2, <3>1, UpdateGoesOn DEF Progress, UpdateProgress
    <3>2. CASE ~Scanning({"update"})
      BY <2>2, <3>2 DEF UpdateProgress
    <3> QED
      BY <3>1, <3>2
  <2> QED
    BY <1>1, <2>1, <2>3, <2>4
       DEF Progress, AreRecords, BaseOK, PendingKeepsTables, UpdateKeepsTables
<1> QED
  BY <1>2, <1>3, <1>4, <1>5, <1>6, <1>7, <1>8 DEF Step, Evaluate

(* A new environment has done nothing. *)
LEMMA InitProgress == Init => Progress
<1> SUFFICES ASSUME Init PROVE Progress
  OBVIOUS
<1>1. /\ tables = [t \in {} |-> NoTable] /\ base = tables /\ stmt.kind = "none"
      /\ outcome # Pending /\ outcome # Failed
  BY DEF Init, Returned, Pending, Failed
<1>2. AreRecords(tables) /\ AreRecords(base) /\ BaseOK
  BY <1>1 DEF AreRecords, BaseOK
<1> QED
  BY <1>1, <1>2 DEF Progress, PendingKeepsTables, FailureKeepsRows, UpdateKeepsTables,
       SelectProgress, DeleteProgress, UpdateProgress, Scanning, Evaluating

-----------------------------------------------------------------------------
(* The simulation: a step of Database is a step of AtomicDatabase, or none. *)

(* The call of EvalStmt. *)
LEMMA SubmitSimulates ==
    ASSUME NEW s, Submit(s)
    PROVE  Atomic!Submit(s)
<1>1. /\ outcome # Pending /\ stmt' = s /\ outcome' = Pending
      /\ base' = tables /\ tables' = tables
  BY DEF Submit
<1> QED
  BY <1>1, SameTables DEF Atomic!Submit

(* The steps of a loop, of which AtomicDatabase knows nothing. *)
LEMMA LoopStutters ==
    ASSUME outcome = Pending, UNCHANGED <<stmt, base, outcome>>
    PROVE  UNCHANGED Atomic!vars
BY DEF Atomic!vars

(* A statement that fails and leaves the tables it found. *)
LEMMA FailSimulates ==
    ASSUME outcome = Pending, outcome' = Failed, tables' = base
    PROVE  Atomic!Fails
BY SameTables DEF Atomic!Fails, Failed, Pending

(* CREATE TABLE, of a script or of a host program. *)
LEMMA CreateSimulates ==
    ASSUME Progress, CreateTable
    PROVE  Atomic!Answer(stmt)
<1> DEFINE columns == CreatedColumns
           new == [columns |-> columns, data |-> <<>>]
<1>1. /\ outcome = Pending /\ stmt.kind \in {"create", "host"} /\ UNCHANGED <<stmt, base>>
      /\ tables = base
      /\ Failed # Pending /\ Returned(NoTable) # Pending
  BY DEF CreateTable, Evaluating, Progress, PendingKeepsTables, Failed, Returned, Pending
<1>2. CASE stmt.table \in DOMAIN tables \/ Repeats(columns)
  <2>1. outcome' = Failed /\ tables' = base
    BY <1>1, <1>2 DEF CreateTable, Fail
  <2>2. Atomic!Create(stmt.table, columns)
    BY <1>1, <1>2, <2>1, FailSimulates, SameTables DEF Atomic!Create
  <2> QED
    BY <1>1, <2>1, <2>2, SameTables, SameRows DEF Atomic!Answer, CreatedColumns
<1>3. CASE ~(stmt.table \in DOMAIN tables \/ Repeats(columns))
  <2>1. /\ outcome' = Returned(NoTable)
        /\ tables' = [t \in DOMAIN tables \cup {stmt.table} |->
                         IF t = stmt.table THEN new ELSE tables[t]]
    BY <1>3 DEF CreateTable, Return
  <2>2. /\ \A t \in DOMAIN base : t \in DOMAIN tables' /\ tables'[t] = base[t]
        /\ DOMAIN tables' = DOMAIN base \cup {stmt.table}
        /\ tables'[stmt.table] = new
    BY <1>1, <1>3, <2>1
  <2>3. Atomic!Create(stmt.table, columns)
    BY <1>1, <1>3, <2>1, <2>2, SameTables DEF Atomic!Create
  <2> QED
    BY <1>1, <2>1, <2>3, SameTables, SameRows DEF Atomic!Answer, CreatedColumns
<1> QED
  BY <1>2, <1>3

(* A name that is not among those of the columns is not found. *)
LEMMA FoundIsNamed ==
    ASSUME NEW columns, NEW name, IsSeq(columns), ~Repeats(columns)
    PROVE  colIndex(columns, name) # 0 <=> name \in Range(Names(columns))
<1> DEFINE names == Names(columns)
           First(i) == names[i] = name /\ \A j \in DOMAIN names : j < i => names[j] # name
<1>1. /\ DOMAIN names = DOMAIN columns /\ \A i \in DOMAIN columns : names[i] = columns[i].name
      /\ DOMAIN columns = 1 .. Len(columns) /\ Len(columns) \in Nat
  BY SeqDomain DEF Names
<1>2. ASSUME name \in Range(names)
      PROVE  colIndex(columns, name) # 0
  <2>1. PICK i \in DOMAIN names : names[i] = name
    BY <1>2 DEF Range
  <2>2. \A j \in DOMAIN names : j # i => names[j] # name
    BY <1>1, <2>1 DEF Repeats
  <2>3. First(i)
    BY <1>1, <2>1, <2>2
  <2>4. colIndex(columns, name) = CHOOSE k \in DOMAIN names : First(k)
    BY <2>1 DEF colIndex, PositionOf
  <2> HIDE DEF First
  <2> QED
    BY <1>1, <2>1, <2>3, <2>4
<1>3. ASSUME colIndex(columns, name) # 0
      PROVE  name \in Range(names)
  BY <1>3 DEF colIndex, PositionOf, Range
<1> QED
  BY <1>2, <1>3

(* A sequence that is computed element by element is as long. *)
LEMMA SameLength ==
    ASSUME NEW s, IsSeq(s), NEW f, DOMAIN f = DOMAIN s, f = [i \in DOMAIN s |-> f[i]]
    PROVE  Len(f) = Len(s)
<1>1. DOMAIN s = 1 .. Len(s) /\ Len(s) \in Nat
  BY SeqDomain
<1>2. IsSeq(f)
  BY <1>1, FunctionIsSeq
<1> QED
  BY <1>1, <1>2, SeqDomain

(* INSERT. *)
LEMMA InsertSimulates ==
    ASSUME TypeOK, Progress, InsertStmt
    PROVE  Atomic!Answer(stmt)
<1> DEFINE tab == base[stmt.table]
           values == InsertedValues
           row == NewRow(tab.columns, stmt.columns, values)
           targets == IF stmt.columns = <<>> THEN Names(tab.columns) ELSE stmt.columns
           refused == \/ stmt.table \notin DOMAIN base
                      \/ Panics(values)
                      \/ Len(targets) # Len(values)
                      \/ ~(Range(targets) \subseteq Range(Names(tab.columns)))
<1>1. /\ outcome = Pending /\ stmt.kind = "insert" /\ UNCHANGED <<stmt, base>>
      /\ tables = base /\ StmtOK(stmt, TableName, ColumnName)
      /\ Failed # Pending /\ Returned(NoTable) # Pending
  BY DEF InsertStmt, Evaluating, Progress, PendingKeepsTables, Failed, Returned,
         Pending, TypeOK, Evaluable, HostOK
<1>2. stmt.columns \in Seq(ColumnName) /\ IsSeq(stmt.values)
  BY <1>1 DEF StmtOK
<1>3. InsertRefused <=> refused
  <2>1. CASE stmt.table \in DOMAIN base
    <3>1. TableOK(tab) /\ IsSeq(tab.columns) /\ ~Repeats(tab.columns)
      BY <2>1 DEF Progress, BaseOK, TableOK, ColumnsOK
    <3>2. Len(values) = Len(stmt.values)
      BY <1>2, SameLength DEF InsertedValues
    <3>3. Len(Names(tab.columns)) = Len(tab.columns)
      BY <3>1, SameLength DEF Names
    <3>4. (\E k \in DOMAIN stmt.columns : colIndex(tab.columns, stmt.columns[k]) = 0)
            <=> ~(Range(targets) \subseteq Range(Names(tab.columns)))
      <4>1. CASE stmt.columns = <<>>
        BY <4>1
      <4>2. CASE stmt.columns # <<>>
        <5>1. Range(targets) = {stmt.columns[k] : k \in DOMAIN stmt.columns}
          BY <4>2 DEF Range
        <5>2. \A k \in DOMAIN stmt.columns :
                 colIndex(tab.columns, stmt.columns[k]) # 0
                   <=> stmt.columns[k] \in Range(Names(tab.columns))
          BY <3>1, FoundIsNamed
        <5> QED
          BY <5>1, <5>2
      <4> QED
        BY <4>1, <4>2
    <3> QED
      BY <1>1, <2>1, <3>2, <3>3, <3>4 DEF InsertRefused
  <2>2. CASE stmt.table \notin DOMAIN base
    BY <1>1, <2>2 DEF InsertRefused
  <2> QED
    BY <2>1, <2>2
<1>4. /\ Atomic!Names(tab.columns) = Names(tab.columns)
      /\ [k \in DOMAIN stmt.values |-> Eval(Atomic!emptyNamespace, stmt.values[k])] = values
      /\ Atomic!NewRow(tab.columns, stmt.columns, values) = row
      /\ Atomic!Consumed(tab.columns, stmt.columns) = Consumed(tab.columns, stmt.columns)
  BY SameTables, SameRows DEF InsertedValues
<1>5. CASE InsertRefused
  <2>1. outcome' = Failed /\ tables' = base
    BY <1>1, <1>5 DEF InsertStmt, Fail
  <2>2. Atomic!Insert(stmt)
    <3> HIDE DEF values
    <3>1. Atomic!Fails
      BY <1>1, <2>1, FailSimulates
    <3> QED
      BY <1>1, <1>3, <1>4, <1>5, <3>1, SameTables DEF Atomic!Insert
  <2> QED
    BY <1>1, <2>1, <2>2, SameTables DEF Atomic!Answer
<1>6. CASE ~InsertRefused
  <2> DEFINE new == [columns |-> Consumed(tab.columns, stmt.columns),
                     data |-> IF Panics(row) THEN tab.data ELSE Append(tab.data, row)]
  <2>1. /\ tables' = [base EXCEPT ![stmt.table] = new]
        /\ outcome' = IF Panics(row) THEN Failed ELSE Returned(NoTable)
    BY <1>1, <1>6 DEF InsertStmt, InsertRow, Fail, Return
  <2>2. stmt.table \in DOMAIN base /\ tab = [columns |-> tab.columns, data |-> tab.data]
    BY <1>1, <1>6 DEF InsertRefused, Progress, AreRecords
  <2>3. tables' = [base EXCEPT
                     ![stmt.table].columns = Consumed(tab.columns, stmt.columns),
                     ![stmt.table].data = IF Panics(row) THEN tab.data
                                                         ELSE Append(tab.data, row)]
    <3> HIDE DEF row
    <3> QED
      BY <2>1, <2>2
  <2>4. outcome' # Pending
    BY <1>1, <2>1
  <2>5. Atomic!Insert(stmt)
    <3> HIDE DEF values
    <3> QED
      BY <1>1, <1>3, <1>4, <1>6, <2>1, <2>3, <2>4, SameTables DEF Atomic!Insert
  <2> QED
    BY <1>1, <2>4, <2>5, SameTables DEF Atomic!Answer
<1> QED
  BY <1>5, <1>6

(* A loop over a table that is not there. *)
LEMMA NoTableSimulates ==
    ASSUME Progress, NoSuchTable
    PROVE  Atomic!Answer(stmt)
<1>1. /\ outcome = Pending /\ stmt.kind \in Loops /\ UNCHANGED <<stmt, base>>
      /\ stmt.table \notin DOMAIN base /\ tables' = base
      /\ outcome' = Failed /\ Failed # Pending
  BY DEF NoSuchTable, Evaluating, Progress, PendingKeepsTables, UpdateKeepsTables, Fail,
         Failed, Pending
<1>2. Atomic!Fails
  BY <1>1, FailSimulates
<1>3. Atomic!Scan(stmt)
  BY <1>1, <1>2, SameTables DEF Atomic!Scan
<1> QED
  BY <1>1, <1>3, SameTables DEF Atomic!Answer, Loops

(* A SELECT or DELETE is at its end when it has passed every row. *)
LEMMA EndIsPassed ==
    ASSUME TypeOK, Scanning(Loops), AtEnd, DOMAIN Found.data = DOMAIN Scanned.data
    PROVE  Passed = DOMAIN Found.data
<1>1. /\ scan.row \in 1 .. Len(Scanned.data) + 1
      /\ DOMAIN Scanned.data = 1 .. Len(Scanned.data) /\ Len(Scanned.data) \in Nat
      /\ scan.row > Len(Scanned.data)
  BY ScannedIsOK DEF ScanOK, AtEnd
<1>2. scan.row = Len(Scanned.data) + 1
  BY <1>1
<1> QED
  BY <1>1, <1>2 DEF Passed

(* A SELECT or DELETE that fails at the row it has come to. *)
LEMMA ScanFailSimulates ==
    ASSUME TypeOK, Progress, Scanning({"select", "delete"}), ~AtEnd,
           UNCHANGED <<tables, stmt, base>>, Fail,
           \/ CurrentWhere = Panic
           \/ /\ stmt.kind = "select" /\ Matches(CurrentWhere)
              /\ Panics(Project(stmt.exprs, CurrentNamespace))
    PROVE  Atomic!Answer(stmt)
<1> DEFINE r == scan.row
<1>1. /\ outcome = Pending /\ stmt.kind \in {"select", "delete"} /\ Scanning(Loops)
      /\ tables = base /\ Scanned = Found /\ stmt.table \in DOMAIN base
      /\ outcome' = Failed /\ Failed # Pending /\ tables' = base
  BY DEF Scanning, Evaluating, Loops, Progress, PendingKeepsTables, Scanned, Found, Fail,
         Failed, Pending
<1>2. /\ r \in DOMAIN Found.data
      /\ CurrentWhere = Verdict(r)
      /\ CurrentNamespace = Namespace(Found.columns, Found.data[r])
  BY <1>1, ScannedIsOK DEF CurrentWhere, CurrentNamespace, CurrentRow, Verdict
<1>3. Atomic!Fails
  BY <1>1, FailSimulates
<1>4. \A i : Atomic!Verdict(stmt, Found.data[i]) = Verdict(i)
  BY <1>1, SameTables, SameWhere DEF Atomic!Verdict, Verdict, Found
<1>5. CASE CurrentWhere = Panic
  <2>1. Atomic!VerdictPanics(stmt)
    BY <1>1, <1>2, <1>4, <1>5, SameTables DEF Atomic!VerdictPanics, Found
  <2>2. CASE stmt.kind = "select"
    <3>1. Atomic!Select(stmt)
      BY <1>3, <2>1 DEF Atomic!Select
    <3>2. Atomic!Scan(stmt)
      BY <1>1, <2>2, <3>1, SameTables DEF Atomic!Scan
    <3> QED
      BY <1>1, <2>2, <3>2, SameTables DEF Atomic!Answer
  <2>3. CASE stmt.kind = "delete"
    <3>1. Atomic!Delete(stmt)
      BY <1>3, <2>1 DEF Atomic!Delete
    <3>2. Atomic!Scan(stmt)
      BY <1>1, <2>3, <3>1, SameTables DEF Atomic!Scan
    <3> QED
      BY <1>1, <2>3, <3>2, SameTables DEF Atomic!Answer
  <2> QED
    BY <1>1, <2>2, <2>3
<1>6. CASE ~(CurrentWhere = Panic)
  <2>1. /\ stmt.kind = "select" /\ Matches(Verdict(r))
        /\ Panics(Project(stmt.exprs, Namespace(Found.columns, Found.data[r])))
    BY <1>2, <1>6
  <2>2. Atomic!Select(stmt)
    BY <1>1, <1>2, <1>3, <1>4, <2>1, SameTables, SameWhere, SameProjections
       DEF Atomic!Select, Found
  <2>3. Atomic!Scan(stmt)
    BY <1>1, <2>1, <2>2, SameTables DEF Atomic!Scan
  <2> QED
    BY <1>1, <2>1, <2>3, SameTables DEF Atomic!Answer
<1> QED
  BY <1>5, <1>6

(* SELECT returns what it has collected. *)
LEMMA SelectEndSimulates ==
    ASSUME TypeOK, Progress, SelectEnd
    PROVE  Atomic!Answer(stmt)
<1> DEFINE columns == Found.columns
           data == Found.data
           matching == {i \in DOMAIN data : Matches(Verdict(i))}
           results == [i \in matching |-> Project(stmt.exprs, Namespace(columns, data[i]))]
           table == [columns |-> ResultNames(stmt.exprs, columns), data |-> scan.out]
<1>1. /\ outcome = Pending /\ stmt.kind = "select" /\ Scanning(Loops) /\ Scanning({"select"})
      /\ AtEnd /\ tables = base /\ Scanned = Found /\ stmt.table \in DOMAIN base
      /\ tables' = base /\ UNCHANGED <<stmt, base>>
  BY DEF SelectEnd, Scanning, Evaluating, Loops, Progress, PendingKeepsTables, Scanned, Found
<1>2. outcome' = Returned(table) /\ outcome'.table.data = scan.out /\ outcome' # Pending
  BY <1>1 DEF SelectEnd, Return, Returned, Pending
<1>3. Passed = DOMAIN data
  BY <1>1, EndIsPassed
<1>4. results = Results(Passed) /\ DOMAIN results = matching
  BY <1>3 DEF Results
<1>5. /\ \A i \in DOMAIN data : Verdict(i) # Panic
      /\ \A i \in matching : ~Panics(results[i])
      /\ Atomic!InOrder(scan.out, results)
  BY <1>1, <1>3, <1>4 DEF Progress, SelectProgress, NoVerdictPanics
<1>6. \A i : Atomic!Verdict(stmt, data[i]) = Verdict(i)
  BY <1>1, SameTables, SameWhere DEF Atomic!Verdict, Verdict, Found
<1>7. ~Atomic!VerdictPanics(stmt)
  BY <1>1, <1>5, <1>6, SameTables DEF Atomic!VerdictPanics, Found
<1>8. /\ matching = {i \in DOMAIN data : Atomic!Matches(Atomic!Verdict(stmt, data[i]))}
      /\ results = [i \in matching |->
                      Atomic!Project(stmt.exprs, Atomic!Namespace(columns, data[i]))]
      /\ \A i \in matching : ~Atomic!Panics(results[i])
      /\ table = [columns |-> Atomic!ResultNames(stmt.exprs, columns),
                  data |-> outcome'.table.data]
      /\ outcome' = Atomic!Returned(table)
      /\ Atomic!InOrder(outcome'.table.data, results)
  BY <1>2, <1>5, <1>6, SameTables, SameWhere, SameProjections
<1>9. Atomic!Select(stmt)
  <2> HIDE DEF matching, results, table
  <2> QED
    BY <1>1, <1>2, <1>7, <1>8 DEF Atomic!Select, Found, matching, results, table
<1>10. Atomic!Scan(stmt)
  BY <1>1, <1>9, SameTables DEF Atomic!Scan
<1> QED
  BY <1>1, <1>2, <1>10, SameTables DEF Atomic!Answer

(* DELETE leaves what it has kept. *)
LEMMA DeleteEndSimulates ==
    ASSUME TypeOK, Progress, DeleteEnd
    PROVE  Atomic!Answer(stmt)
<1> DEFINE data == Found.data
           differing == {i \in DOMAIN data : Differs(Verdict(i))}
<1>1. /\ outcome = Pending /\ stmt.kind = "delete" /\ Scanning(Loops) /\ Scanning({"delete"})
      /\ AtEnd /\ tables = base /\ Scanned = Found /\ stmt.table \in DOMAIN base
      /\ tables' = [base EXCEPT ![stmt.table].data = scan.out]
      /\ outcome' = Returned(NoTable) /\ UNCHANGED <<stmt, base>>
  BY DEF DeleteEnd, Scanning, Evaluating, Loops, Progress, PendingKeepsTables, Scanned,
         Found, Return
<1>2. outcome' # Pending
  BY <1>1 DEF Returned, Pending
<1>3. Passed = DOMAIN data
  BY <1>1, EndIsPassed
<1>4. /\ \A i \in DOMAIN data : Verdict(i) # Panic
      /\ Atomic!InOrder(scan.out, [i \in differing |-> data[i]])
  BY <1>1, <1>3 DEF Progress, DeleteProgress, NoVerdictPanics, Kept
<1>5. \A i : Atomic!Verdict(stmt, data[i]) = Verdict(i)
  BY <1>1, SameTables, SameWhere DEF Atomic!Verdict, Verdict, Found
<1>6. ~Atomic!VerdictPanics(stmt)
  BY <1>1, <1>4, <1>5, SameTables DEF Atomic!VerdictPanics, Found
<1>7. differing = {i \in DOMAIN data : Atomic!Differs(Atomic!Verdict(stmt, data[i]))}
  BY <1>5, SameWhere
<1>8. tables'[stmt.table].data = scan.out
  BY <1>1 DEF Progress, BaseOK, TableOK
<1>9. Atomic!Delete(stmt)
  <2> HIDE DEF differing
  <2> QED
    BY <1>1, <1>2, <1>4, <1>6, <1>7, <1>8, SameTables DEF Atomic!Delete, Found
<1>10. Atomic!Scan(stmt)
  BY <1>1, <1>9, SameTables DEF Atomic!Scan
<1> QED
  BY <1>1, <1>2, <1>10, SameTables DEF Atomic!Answer

(* How many assignments AtomicDatabase makes of a row. *)
LEMMA AssignmentsAre ==
    ASSUME NEW i, Len(stmt.columns) \in Nat, NEW k \in 0 .. Len(stmt.columns),
           \A j \in 1 .. k : ~SetPanics(i, j),
           k < Len(stmt.columns) => SetPanics(i, k + 1)
    PROVE  Atomic!Assignments(stmt, Found.columns, Found.data[i]) = k
<1> DEFINE n == Len(stmt.columns)
           P(m) == /\ \A j \in 1 .. m : ~SetPanics(i, j)
                   /\ m < n => SetPanics(i, m + 1)
<1>1. Atomic!Assignments(stmt, Found.columns, Found.data[i]) = CHOOSE m \in 0 .. n : P(m)
  BY SameTables DEF Atomic!Assignments, SetPanics, After
<1>2. P(k)
  OBVIOUS
<1>3. ASSUME NEW m \in 0 .. n, P(m)
      PROVE  m = k
  <2>1. CASE m < k
    BY <1>3, <2>1, m + 1 \in 1 .. k
  <2>2. CASE k < m
    BY <1>3, <2>2, k + 1 \in 1 .. m
  <2> QED
    BY <2>1, <2>2
<1> HIDE DEF P
<1> QED
  BY <1>1, <1>2, <1>3

(* A sequence is a function of its positions. *)
LEMMA SeqIsFunction ==
    ASSUME NEW s, IsSeq(s)
    PROVE  s = [i \in DOMAIN s |-> s[i]]
<1>1. s = [i \in 1 .. Len(s) |-> s[i]] /\ Len(s) \in Nat
  BY DEF IsSeq
<1> QED
  BY <1>1

(* UPDATE ends, or fails at a WHERE clause or in the middle of a row. *)
LEMMA UpdateSimulates ==
    ASSUME TypeOK, Progress, Scanning({"update"}), UNCHANGED <<tables, stmt, base>>,
           \/ AtEnd /\ outcome' = Returned(NoTable)
           \/ /\ ~AtEnd /\ outcome' = Failed
              /\ \/ scan.set = 0 /\ CurrentWhere = Panic
                 \/ scan.set > 0 /\ SetPanics(scan.row, scan.set)
    PROVE  Atomic!Answer(stmt)
<1> DEFINE data == Found.data
           n == Len(stmt.columns)
           done(i) == IF Matches(Verdict(i))
                      THEN Atomic!Assignments(stmt, Found.columns, data[i]) ELSE 0
           bad(i) == \/ Verdict(i) = Panic
                     \/ Matches(Verdict(i)) /\ done(i) < n
           reached(i) == \A j \in DOMAIN data : j < i => ~bad(j)
           UpTo(i) == IF reached(i) THEN After(i)[done(i)] ELSE data[i]
           r == scan.row
<1>1. /\ tables = [base EXCEPT ![stmt.table].data = Scanned.data]
      /\ DOMAIN tables = DOMAIN base /\ stmt.table \in DOMAIN base
      /\ Scanned.columns = Found.columns
      /\ DOMAIN Scanned.data = DOMAIN data
      /\ DOMAIN Scanned.data = 1 .. Len(Scanned.data) /\ Len(Scanned.data) \in Nat
      /\ stmt.kind = "update" /\ outcome = Pending /\ Scanning(Loops)
      /\ n \in Nat /\ n > 0
      /\ r \in 1 .. Len(Scanned.data) + 1
      /\ scan.set \in 0 .. n
  BY UpdateSoFar
<1>2. Failed # Pending /\ Returned(NoTable) # Pending /\ Failed # Returned(NoTable)
  BY DEF Failed, Returned, Pending
<1>3. /\ NoVerdictPanics(Passed)
      /\ \A i \in Passed :
            /\ Matches(Verdict(i)) => \A k \in 1 .. n : ~SetPanics(i, k)
            /\ Scanned.data[i] = Updated(i)
      /\ scan.set > 0 =>
            /\ Matches(Verdict(r))
            /\ \A k \in 1 .. scan.set - 1 : ~SetPanics(r, k)
            /\ Scanned.data[r] = After(r)[scan.set - 1]
      /\ \A i \in DOMAIN Scanned.data :
            i > r \/ (i = r /\ scan.set = 0) => Scanned.data[i] = data[i]
  BY DEF Progress, UpdateProgress
<1>4. \A i : After(i)[0] = data[i]
  BY <1>1, AssignedOneByOne DEF After
<1>5. ASSUME NEW i \in Passed
      PROVE  ~bad(i) /\ Scanned.data[i] = After(i)[done(i)]
  <2>1. CASE Matches(Verdict(i))
    <3>1. Atomic!Assignments(stmt, Found.columns, data[i]) = n
      <4>1. \A j \in 1 .. n : ~SetPanics(i, j)
        BY <1>3, <2>1
      <4>2. n \in 0 .. n /\ ~(n < n)
        BY <1>1
      <4> QED
        BY <1>1, <4>1, <4>2, AssignmentsAre
    <3>2. done(i) = n
      BY <2>1, <3>1
    <3>3. Scanned.data[i] = After(i)[n]
      BY <1>3, <2>1 DEF Updated
    <3>4. Verdict(i) # Panic
      BY <2>1 DEF Matches
    <3> QED
      BY <1>1, <3>2, <3>3, <3>4
  <2>2. CASE ~Matches(Verdict(i))
    BY <1>3, <1>4, <2>2 DEF Updated, NoVerdictPanics
  <2> QED
    BY <2>1, <2>2
<1>6. ASSUME AtEnd
      PROVE  /\ \A i \in DOMAIN data : Scanned.data[i] = UpTo(i)
             /\ ~ \E i \in DOMAIN data : bad(i)
  <2>1. Passed = DOMAIN data
    BY <1>1, <1>6, EndIsPassed
  <2> HIDE DEF bad, done
  <2>2. ~ \E i \in DOMAIN data : bad(i)
    BY <1>5, <2>1
  <2>3. \A i \in DOMAIN data : reached(i) /\ Scanned.data[i] = After(i)[done(i)]
    BY <1>5, <2>1, <2>2
  <2> QED
    BY <1>6, <2>2, <2>3
<1>7. ASSUME ~AtEnd
      PROVE  /\ \A i \in DOMAIN data : Scanned.data[i] = UpTo(i)
             /\ \E i \in DOMAIN data : bad(i)
  <2>1. /\ r \in DOMAIN data /\ Passed = {i \in DOMAIN data : i < r}
        /\ r \in Int /\ \A i \in DOMAIN data : i \in Int
    BY <1>1, <1>7 DEF AtEnd, Passed
  <2>2. bad(r) /\ Scanned.data[r] = After(r)[done(r)]
    <3>1. CASE scan.set = 0
      <4>1. CurrentWhere = Panic /\ CurrentWhere = Verdict(r)
        <5>1. Scanned.data[r] = data[r]
          BY <1>1, <1>3, <2>1, <3>1
        <5> QED
          BY <1>1, <1>7, <3>1, <5>1
             DEF CurrentWhere, CurrentNamespace, CurrentRow, Verdict
      <4>2. ~Matches(Verdict(r))
        BY <4>1 DEF Matches
      <4> QED
        BY <1>1, <1>3, <1>4, <2>1, <3>1, <4>1, <4>2
    <3>2. CASE scan.set > 0
      <4>1. SetPanics(r, scan.set)
        BY <1>7, <3>2
      <4>2. Atomic!Assignments(stmt, Found.columns, data[r]) = scan.set - 1
        <5> DEFINE k == scan.set - 1
        <5>1. k \in 0 .. n /\ k + 1 = scan.set
          BY <1>1, <3>2
        <5>2. \A j \in 1 .. k : ~SetPanics(r, j)
          BY <1>3, <3>2
        <5>3. SetPanics(r, k + 1)
          BY <4>1, <5>1
        <5> HIDE DEF k
        <5>4. Atomic!Assignments(stmt, Found.columns, data[r]) = k
          BY <1>1, <5>1, <5>2, <5>3, AssignmentsAre
        <5> QED
          BY <5>4 DEF k
      <4>3. Matches(Verdict(r)) /\ scan.set - 1 < n
        BY <1>1, <1>3, <3>2
      <4> QED
        BY <1>3, <3>2, <4>2, <4>3
    <3> QED
      BY <1>1, <3>1, <3>2
  <2> HIDE DEF bad, done
  <2>3. ASSUME NEW i \in DOMAIN data
        PROVE  Scanned.data[i] = UpTo(i)
    <3>1. CASE i < r
      <4>1. \A j \in DOMAIN data : j < i => j \in Passed
        BY <2>1, <3>1
      <4> QED
        BY <1>5, <2>1, <3>1, <4>1
    <3>2. CASE i = r
      BY <1>5, <2>1, <2>2, <3>2
    <3>3. CASE i > r
      <4>1. ~reached(i)
        BY <1>1, <2>1, <2>2, <3>3
      <4> QED
        BY <1>1, <1>3, <3>3, <4>1
    <3> QED
      BY <2>1, <3>1, <3>2, <3>3
  <2> QED
    BY <2>1, <2>2, <2>3
<1>8. /\ \A i \in DOMAIN data : Scanned.data[i] = UpTo(i)
      /\ outcome' = IF \E i \in DOMAIN data : bad(i) THEN Failed ELSE Returned(NoTable)
  <2> HIDE DEF bad, UpTo
  <2> QED
    BY <1>6, <1>7
<1>9. Atomic!Update(stmt)
  <2> DEFINE start == IF outcome = Pending THEN base ELSE tables
             columnsA == start[stmt.table].columns
             dataA == start[stmt.table].data
             verdictA(i) == Atomic!Verdict(stmt, dataA[i])
             doneA(i) == IF Atomic!Matches(verdictA(i))
                         THEN Atomic!Assignments(stmt, columnsA, dataA[i]) ELSE 0
             badA(i) == \/ verdictA(i) = Atomic!Panic
                        \/ Atomic!Matches(verdictA(i)) /\ doneA(i) < n
             reachedA(i) == \A j \in DOMAIN dataA : j < i => ~badA(j)
             updated == [i \in DOMAIN dataA |->
                           IF reachedA(i)
                           THEN Atomic!Assigned(stmt, columnsA, dataA[i])[doneA(i)]
                           ELSE dataA[i]]
  <2>1. start = base /\ columnsA = Found.columns /\ dataA = data
    BY <1>1 DEF Found
  <2>2. \A i : verdictA(i) = Verdict(i)
    BY <1>1, SameTables, SameWhere DEF Atomic!Verdict, Verdict, Found
  <2> HIDE DEF start, columnsA, dataA
  <2>3. \A i : doneA(i) = done(i) /\ (badA(i) <=> bad(i))
    BY <2>1, <2>2, SameTables, SameWhere
  <2>4. \A i : reachedA(i) <=> reached(i)
    <3> HIDE DEF badA, bad
    <3> QED
      BY <2>1, <2>3
  <2>5. Scanned.data = updated
    <3>1. Scanned.data = [i \in DOMAIN Scanned.data |-> Scanned.data[i]]
      BY <1>1, ScannedIsOK, SeqIsFunction DEF RowsOK
    <3> HIDE DEF bad, done, reached, badA, doneA, reachedA
    <3>2. \A i \in DOMAIN Scanned.data : Scanned.data[i] = updated[i]
      BY <1>1, <1>8, <2>1, <2>3, <2>4 DEF After
    <3> QED
      BY <1>1, <2>1, <3>1, <3>2
  <2>6. outcome' = IF \E i \in DOMAIN dataA : badA(i)
                   THEN Atomic!Failed ELSE Atomic!Returned(Atomic!NoTable)
    <3> HIDE DEF bad, badA
    <3> QED
      BY <1>8, <2>1, <2>3, SameTables
  <2>7. start' = [start EXCEPT ![stmt.table].data = updated]
    <3> HIDE DEF updated
    <3> QED
      BY <1>1, <1>2, <1>8, <2>1, <2>5 DEF start
  <2> QED
    BY <2>6, <2>7, Zenon DEF Atomic!Update, start, columnsA, dataA
<1>10. Atomic!Scan(stmt)
  BY <1>1, <1>9, SameTables DEF Atomic!Scan
<1> QED
  BY <1>1, <1>2, <1>8, <1>10, SameTables DEF Atomic!Answer

(* Every step of an evaluation is the answer of AtomicDatabase, or changes  *)
(* nothing that AtomicDatabase knows of.                                    *)
LEMMA EvaluateSimulates ==
    ASSUME TypeOK, Progress, Evaluate \/ UNCHANGED vars
    PROVE  Atomic!Answer(stmt) \/ UNCHANGED Atomic!vars
<1>1. CASE CreateTable
  BY <1>1, CreateSimulates
<1>2. CASE InsertStmt
  BY <1>2, InsertSimulates
<1>3. CASE NoSuchTable
  BY <1>3, NoTableSimulates
<1>4. CASE WherePanics
  <2>1. /\ Scanning(Loops) /\ ~AtEnd /\ scan.set = 0 /\ CurrentWhere = Panic /\ Fail
        /\ UNCHANGED <<tables, stmt, base>>
    BY <1>4 DEF WherePanics, AtRow
  <2>2. CASE Scanning({"select", "delete"})
    BY <2>1, <2>2, ScanFailSimulates
  <2>3. CASE Scanning({"update"})
    BY <2>1, <2>3, UpdateSimulates DEF Fail
  <2> QED
    BY <2>1, <2>2, <2>3 DEF Scanning, Evaluating, Loops
<1>5. CASE SelectRow
  <2>1. /\ outcome = Pending /\ Scanning({"select", "delete"}) /\ ~AtEnd
        /\ stmt.kind = "select" /\ UNCHANGED <<tables, stmt, base>>
        /\ \/ UNCHANGED outcome
           \/ /\ Matches(CurrentWhere) /\ Panics(Project(stmt.exprs, CurrentNamespace))
              /\ Fail
    BY <1>5 DEF SelectRow, AtRow, Scanning, Evaluating
  <2>2. CASE UNCHANGED outcome
    BY <2>1, <2>2, LoopStutters
  <2>3. CASE ~UNCHANGED outcome
    BY <2>1, <2>3, ScanFailSimulates
  <2> QED
    BY <2>2, <2>3
<1>6. CASE SelectEnd
  BY <1>6, SelectEndSimulates
<1>7. CASE UpdateRow \/ DeleteRow
  <2>1. outcome = Pending /\ UNCHANGED <<stmt, base, outcome>>
    BY <1>7 DEF UpdateRow, DeleteRow, AtRow, Scanning, Evaluating
  <2> QED
    BY <2>1, LoopStutters
<1>8. CASE UpdateSet
  <2> DEFINE n == colIndex(Scanned.columns, stmt.columns[scan.set])
             v == Eval(CurrentNamespace, stmt.values[scan.set])
  <2>1. /\ Scanning({"update"}) /\ outcome = Pending /\ ~AtEnd /\ scan.set > 0
        /\ UNCHANGED <<stmt, base>>
        /\ \/ UNCHANGED outcome
           \/ (n = 0 \/ v = Panic) /\ Fail /\ UNCHANGED tables
    BY <1>8 DEF UpdateSet, Scanning, Evaluating
  <2>2. CASE UNCHANGED outcome
    BY <2>1, <2>2, LoopStutters
  <2>3. CASE ~UNCHANGED outcome
    <3>1. SetPanics(scan.row, scan.set)
      <4>1. Scanned.columns = Found.columns
        BY <2>1, UpdateSoFar
      <4>2. CurrentRow = After(scan.row)[scan.set - 1]
        BY <2>1 DEF Progress, UpdateProgress, CurrentRow
      <4> QED
        BY <2>1, <2>3, <4>1, <4>2 DEF SetPanics, CurrentNamespace
    <3>2. outcome' = Failed /\ UNCHANGED <<tables, stmt, base>>
      BY <2>1, <2>3 DEF Fail
    <3> HIDE DEF n, v
    <3> QED
      BY <2>1, <3>1, <3>2, UpdateSimulates
  <2> QED
    BY <2>2, <2>3
<1>9. CASE UpdateEnd
  BY <1>9, UpdateSimulates DEF UpdateEnd, Return, Scanning, Evaluating
<1>10. CASE DeleteEnd
  BY <1>10, DeleteEndSimulates
<1>11. CASE UNCHANGED vars
  BY <1>11 DEF vars, Atomic!vars
<1> QED
  BY <1>1, <1>2, <1>3, <1>4, <1>5, <1>6, <1>7, <1>8, <1>9, <1>10, <1>11
     DEF Evaluate

(* A step of AtomicDatabase, in which any statement may be submitted. *)
AtomicStep ==
    (\E s : Atomic!Submit(s)) \/ Atomic!Answer(stmt) \/ UNCHANGED Atomic!vars

(* Any statement that the evaluator is given is submitted there too. *)
LEMMA StepSimulates == TypeOK /\ Progress /\ Step => AtomicStep
BY EvaluateSimulates, SubmitSimulates DEF Step, AtomicStep

(* And those of Stmt are the ones that AtomicDatabase submits. *)
LEMMA NextSimulates == TypeOK /\ Progress /\ [Next]_vars => [Atomic!Next]_Atomic!vars
BY EvaluateSimulates, SubmitSimulates DEF Next, Atomic!Next

(* Progress: at every point of a loop, the rows that it has passed are done *)
(* as AtomicDatabase does them, and the others are as the statement found   *)
(* them.                                                                    *)
THEOREM LoopsMakeProgress == Spec => []Progress
BY InitProgress, NextIsStep, NextProgress, TypeCorrect, PTL DEF Spec

(* StatementsAreAtomic: SELECT, UPDATE and DELETE compute, row by row, what *)
(* is stated of them on the rows they found, and with a panic anywhere stop *)
(* where it is stated that they stop; no statement of any kind does more.   *)
THEOREM DatabaseImplementsAtomic == Spec => StatementsAreAtomic
<1>1. Init => Atomic!Init
  BY SameTables DEF Init, Atomic!Init, Returned, Pending
<1> QED
  BY <1>1, NextSimulates, TypeCorrect, LoopsMakeProgress, PTL
     DEF Spec, StatementsAreAtomic, Atomic!Spec
=============================================================================
