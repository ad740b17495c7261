-------------------------- MODULE AggregateProofs --------------------------
(***************************************************************************)
(* Theorems about Aggregates, for all tables, queries and widths: COUNT    *)
(* counts, and MIN and MAX of integers are extremes, after every row.      *)
(***************************************************************************)
EXTENDS Aggregates, Lemmas

-----------------------------------------------------------------------------
(* The accumulators. *)

(* The type of an accumulator. *)
FuncOK(f) ==
    /\ f = [name |-> f.name, count |-> f.count, isFloat |-> f.isFloat,
            ival |-> f.ival, fval |-> f.fval]
    /\ f.name \in builtinAggFuncs
    /\ f.count \in Nat /\ f.isFloat \in BOOLEAN /\ f.ival \in IntRange

(* A new accumulator is one. *)
LEMMA NewFuncOK ==
    ASSUME NEW name \in builtinAggFuncs
    PROVE  FuncOK(NewAggFunc(name)) /\ NewAggFunc(name).name = name
           /\ ~NewAggFunc(name).isFloat /\ NewAggFunc(name).count = 0
BY IntsAreBounded DEF NewAggFunc, FuncOK, IntRange

(* A step of an accumulator is one of the same function. *)
LEMMA StepFuncOK ==
    ASSUME NEW fn, FuncOK(fn), NEW isStar, NEW v, step(fn, isStar, v) # Panic,
           v.type = "Integer" => v.val \in IntRange
    PROVE  FuncOK(step(fn, isStar, v)) /\ step(fn, isStar, v).name = fn.name
<1>1. IntRange \subseteq Int
  BY IntsAreBounded DEF IntRange
<1>2. CASE fn.name = "count"
  BY <1>2 DEF step, FuncOK
<1>3. CASE fn.name = "sum"
  <2>1. step(fn, isStar, v) = sumStep(fn, v)
    BY <1>3 DEF step
  <2>2. CASE v.type = "Integer" /\ ~fn.isFloat
    <3>1. fn.ival + v.val \in Int
      BY <1>1, <2>2 DEF FuncOK
    <3> QED
      BY <1>3, <2>1, <2>2, <3>1, WrapIs DEF sumStep, FuncOK
  <2>3. CASE v.type = "Integer" /\ fn.isFloat
    BY <1>3, <2>1, <2>3 DEF sumStep, addFloat, FuncOK
  <2>4. CASE v.type = "Number"
    BY <1>3, <2>1, <2>4 DEF sumStep, addFloat, AsFloat, FuncOK
  <2>5. CASE v.type = "Null"
    BY <1>3, <2>1, <2>5 DEF sumStep, FuncOK
  <2> QED
    BY <2>1, <2>2, <2>3, <2>4, <2>5 DEF sumStep, FuncOK
<1>4. CASE fn.name \in {"min", "max"}
  <2>1. step(fn, isStar, v) = minMaxStep(fn, v)
    BY <1>4 DEF step
  <2>2. CASE v.type = "Integer" /\ ~fn.isFloat
    BY <1>4, <2>1, <2>2 DEF minMaxStep, setInt, FuncOK
  <2>3. CASE v.type = "Integer" /\ fn.isFloat
    BY <1>4, <2>1, <2>3 DEF minMaxStep, setFloat, FuncOK
  <2>4. CASE v.type = "Number"
    BY <1>4, <2>1, <2>4 DEF minMaxStep, setFloat, AsFloat, FuncOK
  <2>5. CASE v.type = "Null"
    BY <1>4, <2>1, <2>5 DEF minMaxStep, FuncOK
  <2> QED
    BY <2>1, <2>2, <2>3, <2>4, <2>5 DEF minMaxStep, FuncOK
<1> QED
  BY <1>2, <1>3, <1>4 DEF FuncOK, builtinAggFuncs

-----------------------------------------------------------------------------
(* The loop. *)

(* The type of the state of a SELECT. *)
AggOK ==
    /\ query \in Query /\ data \in Data /\ row \in Nat
    /\ DOMAIN funcs = IF row = 0 THEN {} ELSE Calls
    /\ \A call \in DOMAIN funcs :
          Rewritable(call) /\ FuncOK(funcs[call]) /\ funcs[call].name = call.name
    /\ matched \in BOOLEAN

(* A SELECT starts in such a state. *)
LEMMA InitAgg == Init => AggOK
<1> SUFFICES ASSUME Init PROVE AggOK
  OBVIOUS
<1>1. DOMAIN funcs = {}
  BY DEF Init
<1>2. query \in Query /\ data \in Data /\ row = 0 /\ matched = FALSE
  BY DEF Init
<1> HIDE DEF Init
<1> QED
  BY <1>1, <1>2 DEF AggOK

(* An argument that is an integer is one of the width. *)
LEMMA ArgumentFits ==
    ASSUME AggOK, NEW call \in DOMAIN funcs, NEW r \in DOMAIN data,
           ValueIn(call, r).type = "Integer"
    PROVE  ValueIn(call, r).val \in IntRange
<1>1. call \in CallsOf(query) /\ Rewritable(call)
  BY DEF AggOK, Calls
<1> QED
  BY <1>1, QueriesAggregate DEF AggOK, QueryAssumption, ValueIn

(* The table is a sequence of rows, and its loop counts from 1. *)
LEMMA RowsCount ==
    ASSUME AggOK
    PROVE  /\ Len(data) \in Nat /\ DOMAIN data = 1 .. Len(data)
           /\ AtRow => row > 0 /\ DOMAIN funcs = Calls
<1>1. data = [i \in 1 .. Len(data) |-> data[i]] /\ Len(data) \in Nat
  BY QueriesAggregate DEF AggOK, QueryAssumption, IsSeq
<1>2. Len(data) \in Nat /\ DOMAIN data = 1 .. Len(data)
  BY <1>1
<1> QED
  BY <1>2 DEF AggOK, AtRow

(* A row that matches steps every accumulator on what it holds. *)
LEMMA RowIsStepped ==
    ASSUME AggOK, StepRow
    PROVE  \/ UNCHANGED <<query, data, row, funcs, matched>>
           \/ /\ UNCHANGED <<query, data>> /\ row' = row + 1 /\ matched' = TRUE
              /\ Matches(Where(query.where, Namespace(Columns, data[row])))
              /\ DOMAIN funcs' = DOMAIN funcs
              /\ \A call \in DOMAIN funcs :
                   /\ funcs'[call] = step(funcs[call], call.args[1] = SelectStar,
                                          ValueIn(call, row))
                   /\ funcs'[call] # Panic
BY DEF StepRow, CurrentWhere, CurrentNamespace, Stepped, ValueIn, Fail

(* The state keeps its type. *)
LEMMA NextAgg == AggOK /\ [Next]_vars => AggOK'
<1> SUFFICES ASSUME AggOK, [Next]_vars PROVE AggOK'
  OBVIOUS
<1>1. CASE Rewrite
  <2>1. CASE Fail /\ UNCHANGED <<row, funcs>>
    BY <1>1, <2>1 DEF Rewrite, AggOK, Calls
  <2>2. CASE /\ \A call \in Calls : Rewritable(call)
             /\ funcs' = [call \in Calls |-> NewAggFunc(call.name)]
             /\ row' = 1
    <3>1. \A call \in Calls :
             FuncOK(NewAggFunc(call.name)) /\ NewAggFunc(call.name).name = call.name
      BY <2>2, NewFuncOK DEF Rewritable
    <3>2. UNCHANGED <<query, data, matched>> /\ Calls' = Calls
      BY <1>1 DEF Rewrite, Calls
    <3> QED
      BY <2>2, <3>1, <3>2 DEF AggOK
  <2> QED
    BY <1>1, <2>1, <2>2 DEF Rewrite
<1>2. CASE SkipRow
  <2>1. row > 0 /\ row' = row + 1 /\ UNCHANGED <<query, data, funcs, matched>>
    BY <1>2, RowsCount DEF SkipRow
  <2> QED
    BY <2>1 DEF AggOK, Calls
<1>3. CASE StepRow
  <2>1. CASE UNCHANGED <<query, data, row, funcs, matched>>
    BY <2>1 DEF AggOK, Calls
  <2>2. CASE ~UNCHANGED <<query, data, row, funcs, matched>>
    <3>1. row > 0 /\ row \in DOMAIN data
      BY <1>3, RowsCount DEF StepRow, AtRow
    <3>2. ASSUME NEW call \in DOMAIN funcs
          PROVE  FuncOK(funcs'[call]) /\ funcs'[call].name = call.name
      <4>1. FuncOK(funcs[call]) /\ funcs[call].name = call.name
        BY DEF AggOK
      <4>2. ValueIn(call, row).type = "Integer" => ValueIn(call, row).val \in IntRange
        BY <3>1, ArgumentFits
      <4>3. funcs'[call] = step(funcs[call], call.args[1] = SelectStar,
                                ValueIn(call, row))
            /\ funcs'[call] # Panic
        BY <1>3, <2>2, RowIsStepped
      <4> QED
        BY <4>1, <4>2, <4>3, StepFuncOK
    <3>3. /\ UNCHANGED <<query, data>> /\ row' = row + 1 /\ matched' = TRUE
          /\ DOMAIN funcs' = DOMAIN funcs
      BY <1>3, <2>2, RowIsStepped
    <3> QED
      BY <3>1, <3>2, <3>3 DEF AggOK, Calls
  <2> QED
    BY <2>1, <2>2
<1>4. CASE WherePanics \/ Finish \/ UNCHANGED vars
  BY <1>4 DEF WherePanics, Finish, vars, AggOK, Calls
<1> QED
  BY <1>1, <1>2, <1>3, <1>4 DEF Next

-----------------------------------------------------------------------------
(* COUNT *)

(* The rows seen are finitely many, and are before the next row. *)
LEMMA SeenIsFinite ==
    ASSUME row \in Nat
    PROVE  /\ Seen \subseteq 1 .. row - 1 /\ row \notin Seen
           /\ IsFiniteSet(Seen)
           /\ \A s \in SUBSET Seen : IsFiniteSet(s) /\ Cardinality(s) \in Nat
<1>1. Seen \subseteq 1 .. row - 1
  BY DEF Seen
<1>2. row \notin Seen
  BY <1>1
<1>3. \A s \in SUBSET Seen : IsFiniteSet(s) /\ Cardinality(s) \in Nat
  <2>1. 1 \in Int /\ row - 1 \in Int
    OBVIOUS
  <2>2. \A s \in SUBSET Seen : s \in SUBSET (1 .. row - 1)
    BY <1>1
  <2> QED
    BY <2>1, <2>2, IntervalIsFinite
<1> QED
  BY <1>1, <1>2, <1>3

(* The rows seen once the loop has passed a row. *)
LEMMA SeenGrows ==
    ASSUME row \in Nat, row > 0, row' = row + 1, UNCHANGED <<query, data>>
    PROVE  Seen' = Seen \cup {r \in {row} :
                      Matches(Where(query.where, Namespace(Columns, data[r])))}
BY DEF Seen

(* The value that a call has in a row stays what it was. *)
LEMMA ValueStays ==
    ASSUME UNCHANGED data, NEW call, NEW r
    PROVE  ValueIn(call, r)' = ValueIn(call, r)
BY DEF ValueIn

(* COUNT steps on a row that it counts, and on no other. *)
LEMMA CountIsStepped ==
    ASSUME NEW fn, FuncOK(fn), fn.name = "count", NEW isStar \in BOOLEAN, NEW v,
           step(fn, isStar, v) # Panic
    PROVE  step(fn, isStar, v).count =
               IF isStar \/ v # Null THEN fn.count + 1 ELSE fn.count
BY DEF step, FuncOK

(* The counts are right in every state. *)
LEMMA NextCounts == AggOK /\ CountsMatches /\ [Next]_vars => CountsMatches'
<1> SUFFICES ASSUME AggOK, CountsMatches, [Next]_vars
             PROVE  CountsMatches'
  OBVIOUS
<1> USE DEF Called
<1>1. row \in Nat
  BY DEF AggOK
<1>2. CASE UNCHANGED <<query, data, row, funcs, matched>>
  BY <1>2 DEF CountsMatches, Seen, NullIn, ValueIn
<1>3. CASE Rewrite /\ ~UNCHANGED <<query, data, row, funcs, matched>>
  <2>1. /\ row = 0 /\ row' = 1 /\ UNCHANGED <<query, data, matched>>
        /\ \A call \in Calls : Rewritable(call)
        /\ funcs' = [call \in Calls |-> NewAggFunc(call.name)]
    BY <1>3 DEF Rewrite, Fail
  <2>2. Seen = {} /\ Seen' = {}
    BY <2>1 DEF Seen
  <2>3. \A call : NullIn(call)' \subseteq {}
    BY <2>2 DEF NullIn
  <2>4. \A call \in Calls : funcs'[call].count = 0
    BY <2>1, NewFuncOK DEF Rewritable
  <2> QED
    BY <2>1, <2>2, <2>3, <2>4, FS_EmptySet DEF CountsMatches
<1>4. CASE SkipRow
  <2>1. /\ row > 0 /\ row' = row + 1 /\ UNCHANGED <<query, data, funcs, matched>>
        /\ ~Matches(Where(query.where, Namespace(Columns, data[row])))
    BY <1>4, RowsCount DEF SkipRow, CurrentWhere, CurrentNamespace, Matches, Differs
  <2>2. Seen' = Seen
    BY <1>1, <2>1, SeenGrows
  <2>3. \A call : NullIn(call)' = NullIn(call)
    BY <2>1, <2>2, ValueStays DEF NullIn
  <2> QED
    BY <2>1, <2>2, <2>3 DEF CountsMatches
<1>5. CASE StepRow /\ ~UNCHANGED <<query, data, row, funcs, matched>>
  <2>1. /\ UNCHANGED <<query, data>> /\ row' = row + 1 /\ matched' = TRUE
        /\ Matches(Where(query.where, Namespace(Columns, data[row])))
        /\ DOMAIN funcs' = DOMAIN funcs
        /\ \A call \in DOMAIN funcs :
             /\ funcs'[call] = step(funcs[call], call.args[1] = SelectStar,
                                    ValueIn(call, row))
             /\ funcs'[call] # Panic
    BY <1>5, RowIsStepped
  <2>2. row > 0
    BY <1>5, RowsCount DEF StepRow
  <2>3. Seen' = Seen \cup {row}
    BY <1>1, <2>1, <2>2, SeenGrows
  <2>4. ASSUME NEW call \in DOMAIN funcs, call.name = "count"
        PROVE  funcs'[call].count =
                   Cardinality(IF call.args[1] = SelectStar THEN Seen'
                               ELSE Seen' \ NullIn(call)')
    <3> DEFINE star == call.args[1] = SelectStar
               counted == IF star THEN Seen ELSE Seen \ NullIn(call)
    <3>1. FuncOK(funcs[call]) /\ funcs[call].name = "count"
      BY <2>4 DEF AggOK
    <3>2. funcs'[call].count =
              IF star \/ ValueIn(call, row) # Null THEN funcs[call].count + 1
              ELSE funcs[call].count
      <4>1. star \in BOOLEAN
        OBVIOUS
      <4>2. /\ funcs'[call] = step(funcs[call], star, ValueIn(call, row))
            /\ funcs'[call] # Panic
        BY <2>1
      <4> HIDE DEF star
      <4> QED
        BY <3>1, <4>1, <4>2, CountIsStepped
    <3>3. funcs[call].count = Cardinality(counted)
      BY <2>4 DEF CountsMatches
    <3>4. \A r : ValueIn(call, r)' = ValueIn(call, r)
      BY <2>1, ValueStays
    <3>5. (IF star THEN Seen' ELSE Seen' \ NullIn(call)') =
              IF star \/ ValueIn(call, row) # Null THEN counted \cup {row}
              ELSE counted
      <4>1. row \notin Seen
        BY <1>1, SeenIsFinite
      <4>2. NullIn(call)' = {r \in Seen' : ValueIn(call, r) = Null}
        BY <3>4 DEF NullIn
      <4> HIDE DEF star
      <4>3. CASE star
        BY <2>3, <4>3
      <4>4. CASE ~star
        BY <2>3, <4>1, <4>2, <4>4 DEF NullIn
      <4> QED
        BY <4>3, <4>4
    <3>6. /\ IsFiniteSet(counted) /\ row \notin counted
          /\ Cardinality(counted \cup {row}) = Cardinality(counted) + 1
      BY <1>1, SeenIsFinite, FS_AddElement
    <3> QED
      BY <3>2, <3>3, <3>5, <3>6
  <2> QED
    BY <2>1, <2>3, <2>4 DEF CountsMatches
<1>6. CASE WherePanics \/ Finish
  BY <1>2, <1>6 DEF WherePanics, Finish
<1> QED
  BY <1>2, <1>3, <1>4, <1>5, <1>6 DEF Next, vars

(* COUNT is the number of rows that matched and hold a value, whatever the *)
(* table and the WHERE clause: CountFunc.step and the loop of              *)
(* evalAggregateSelectStmt.                                                *)
THEOREM CountsAreExact == Spec => []CountsMatches
<1>1. Init => CountsMatches
  <2>1. Init => Seen = {} /\ DOMAIN funcs = {}
    BY DEF Init, Seen
  <2> QED
    BY <2>1 DEF Init, CountsMatches, Called
<1> QED
  BY <1>1, InitAgg, NextAgg, NextCounts, PTL DEF Spec

-----------------------------------------------------------------------------
(* MIN and MAX *)

(* The integers that a call has been given. *)
IntsOf(call) == {ValueIn(call, r).val : r \in SeenOf(call, "Integer")}

(* m is the extreme of the values, or the bound it starts from. *)
Extreme(name, m, values) ==
    IF values = {} THEN m = IF name = "min" THEN MaxInt ELSE MinInt
    ELSE m \in values /\ \A x \in values : IF name = "min" THEN m <= x ELSE x <= m

(* What MIN and MAX keep: they are on integers until the first Number, and *)
(* their integer is then the extreme so far.                               *)
ExtremeOfCall(call) ==
    /\ IntsOf(call) \subseteq IntRange
    /\ funcs[call].isFloat <=> SeenOf(call, "Number") # {}
    /\ ~funcs[call].isFloat => Extreme(call.name, funcs[call].ival, IntsOf(call))

ExtremesOK == \A call \in Called({"min", "max"}) : ExtremeOfCall(call)

(* A step of MIN and MAX: the first Number ends the integers, and an       *)
(* integer counts when it is beyond the extreme so far.                    *)
LEMMA ExtremeIsStepped ==
    ASSUME NEW fn, FuncOK(fn), fn.name \in {"min", "max"}, NEW isStar, NEW v,
           step(fn, isStar, v) # Panic
    PROVE  /\ step(fn, isStar, v).isFloat <=> (fn.isFloat \/ v.type = "Number")
           /\ ~fn.isFloat /\ v.type = "Integer" =>
                step(fn, isStar, v).ival =
                    IF \/ fn.name = "min" /\ v.val < fn.ival
                       \/ fn.name = "max" /\ v.val > fn.ival
                    THEN v.val ELSE fn.ival
           /\ ~fn.isFloat /\ v.type \notin {"Integer", "Number"} =>
                step(fn, isStar, v).ival = fn.ival
<1>1. step(fn, isStar, v) = minMaxStep(fn, v)
  BY DEF step
<1>2. CASE v.type = "Integer" /\ ~fn.isFloat
  BY <1>1, <1>2 DEF minMaxStep, setInt, FuncOK
<1>3. CASE v.type = "Integer" /\ fn.isFloat
  BY <1>1, <1>3 DEF minMaxStep, setFloat, FuncOK
<1>4. CASE v.type = "Number"
  BY <1>1, <1>4 DEF minMaxStep, setFloat, AsFloat, FuncOK
<1>5. CASE v.type = "Null"
  BY <1>1, <1>5 DEF minMaxStep, FuncOK
<1> QED
  BY <1>1, <1>2, <1>3, <1>4, <1>5 DEF minMaxStep, FuncOK

(* One more value: the extreme stays one. *)
LEMMA ExtremeGrows ==
    ASSUME NEW name \in {"min", "max"}, NEW values, values \subseteq IntRange,
           NEW m \in IntRange, Extreme(name, m, values), NEW n \in IntRange
    PROVE  Extreme(name, IF \/ name = "min" /\ n < m
                            \/ name = "max" /\ n > m THEN n ELSE m,
                   values \cup {n})
<1>1. IntRange \subseteq Int /\ \A x \in IntRange : MinInt <= x /\ x <= MaxInt
  BY IntsAreBounded DEF IntRange
<1>2. MinInt \in Int /\ MaxInt \in Int
  BY IntsAreBounded
<1> DEFINE k == IF \/ name = "min" /\ n < m
                   \/ name = "max" /\ n > m THEN n ELSE m
<1>3. CASE values = {}
  <2>1. CASE name = "min"
    <3>1. m = MaxInt /\ n <= MaxInt
      BY <1>1, <1>3, <2>1 DEF Extreme
    <3>2. k = n
      BY <1>1, <1>2, <2>1, <3>1
    <3> HIDE DEF k
    <3> QED
      BY <1>1, <1>3, <2>1, <3>2 DEF Extreme
  <2>2. CASE name = "max"
    <3>1. m = MinInt /\ MinInt <= n
      BY <1>1, <1>3, <2>2 DEF Extreme
    <3>2. k = n
      BY <1>1, <1>2, <2>2, <3>1
    <3> HIDE DEF k
    <3> QED
      BY <1>1, <1>3, <2>2, <3>2 DEF Extreme
  <2> QED
    BY <2>1, <2>2
<1>4. CASE values # {}
  <2>1. /\ m \in values /\ m \in Int /\ n \in Int /\ values \subseteq Int
        /\ \A x \in values : IF name = "min" THEN m <= x ELSE x <= m
    BY <1>1, <1>4 DEF Extreme
  <2>2. k \in values \cup {n}
    BY <2>1
  <2>3. \A x \in values \cup {n} : IF name = "min" THEN k <= x ELSE x <= k
    BY <2>1
  <2> HIDE DEF k
  <2>4. Extreme(name, k, values \cup {n})
    BY <2>2, <2>3 DEF Extreme
  <2> QED
    BY <2>4 DEF k
<1> QED
  BY <1>3, <1>4

(* MIN and MAX keep their extremes in every state. *)
LEMMA NextExtremes == AggOK /\ ExtremesOK /\ [Next]_vars => ExtremesOK'
<1> SUFFICES ASSUME AggOK, ExtremesOK, [Next]_vars
             PROVE  ExtremesOK'
  OBVIOUS
<1> USE DEF Called
<1>1. row \in Nat
  BY DEF AggOK
<1>2. CASE UNCHANGED <<query, data, row, funcs, matched>>
  <2>1. Seen' = Seen
    BY <1>2 DEF Seen
  <2>2. \A call : /\ IntsOf(call)' = IntsOf(call)
                  /\ SeenOf(call, "Number")' = SeenOf(call, "Number")
    BY <1>2, <2>1, ValueStays DEF SeenOf, IntsOf
  <2> QED
    BY <1>2, <2>1, <2>2 DEF ExtremesOK, ExtremeOfCall
<1>3. CASE Rewrite /\ ~UNCHANGED <<query, data, row, funcs, matched>>
  <2>1. /\ row = 0 /\ row' = 1 /\ UNCHANGED <<query, data, matched>>
        /\ \A call \in Calls : Rewritable(call)
        /\ funcs' = [call \in Calls |-> NewAggFunc(call.name)]
    BY <1>3 DEF Rewrite, Fail
  <2>2. Seen' = {}
    BY <2>1 DEF Seen
  <2>3. ASSUME NEW call \in Calls, call.name \in {"min", "max"}
        PROVE  ExtremeOfCall(call)'
    <3>1. SeenOf(call, "Number")' = {} /\ IntsOf(call)' = {}
      BY <2>2 DEF SeenOf, IntsOf
    <3>2. funcs'[call] = NewAggFunc(call.name) /\ ~funcs'[call].isFloat
      BY <2>1, NewFuncOK DEF Rewritable
    <3>3. funcs'[call].ival = IF call.name = "min" THEN MaxInt ELSE MinInt
      BY <2>3, <3>2 DEF NewAggFunc
    <3> QED
      BY <3>1, <3>2, <3>3 DEF ExtremeOfCall, Extreme
  <2> QED
    BY <2>1, <2>3 DEF ExtremesOK
<1>4. CASE SkipRow
  <2>1. /\ row > 0 /\ row' = row + 1 /\ UNCHANGED <<query, data, funcs, matched>>
        /\ ~Matches(Where(query.where, Namespace(Columns, data[row])))
    BY <1>4, RowsCount DEF SkipRow, CurrentWhere, CurrentNamespace, Matches, Differs
  <2>2. Seen' = Seen
    BY <1>1, <2>1, SeenGrows
  <2>3. \A call : /\ IntsOf(call)' = IntsOf(call)
                  /\ SeenOf(call, "Number")' = SeenOf(call, "Number")
    BY <2>1, <2>2, ValueStays DEF SeenOf, IntsOf
  <2> QED
    BY <2>1, <2>2, <2>3 DEF ExtremesOK, ExtremeOfCall
<1>5. CASE StepRow /\ ~UNCHANGED <<query, data, row, funcs, matched>>
  <2>1. /\ UNCHANGED <<query, data>> /\ row' = row + 1 /\ matched' = TRUE
        /\ Matches(Where(query.where, Namespace(Columns, data[row])))
        /\ DOMAIN funcs' = DOMAIN funcs
        /\ \A call \in DOMAIN funcs :
             /\ funcs'[call] = step(funcs[call], call.args[1] = SelectStar,
                                    ValueIn(call, row))
             /\ funcs'[call] # Panic
    BY <1>5, RowIsStepped
  <2>2. row > 0 /\ row \in DOMAIN data
    BY <1>5, RowsCount DEF StepRow, AtRow
  <2>3. Seen' = Seen \cup {row}
    BY <1>1, <2>1, <2>2, SeenGrows
  <2>4. ASSUME NEW call \in DOMAIN funcs, call.name \in {"min", "max"}
        PROVE  ExtremeOfCall(call)'
    <3> DEFINE v == ValueIn(call, row)
               fn == funcs[call]
               isStar == call.args[1] = SelectStar
    <3>1. FuncOK(fn) /\ fn.name = call.name /\ ExtremeOfCall(call)
      BY <2>4 DEF AggOK, ExtremesOK
    <3>2. v.type = "Integer" => v.val \in IntRange
      BY <2>2, ArgumentFits
    <3>3. \A r : ValueIn(call, r)' = ValueIn(call, r)
      BY <2>1, ValueStays
    <3>4. /\ SeenOf(call, "Number")' # {} <=>
                 (SeenOf(call, "Number") # {} \/ v.type = "Number")
          /\ v.type = "Integer" => IntsOf(call)' = IntsOf(call) \cup {v.val}
          /\ v.type # "Integer" => IntsOf(call)' = IntsOf(call)
      BY <2>3, <3>3 DEF SeenOf, IntsOf
    <3>5. funcs'[call] = step(fn, isStar, v) /\ step(fn, isStar, v) # Panic
      BY <2>1
    <3> HIDE DEF v, fn, isStar
    <3>6. /\ funcs'[call].isFloat <=> (fn.isFloat \/ v.type = "Number")
          /\ ~fn.isFloat /\ v.type = "Integer" =>
                funcs'[call].ival =
                    IF \/ call.name = "min" /\ v.val < fn.ival
                       \/ call.name = "max" /\ v.val > fn.ival
                    THEN v.val ELSE fn.ival
          /\ ~fn.isFloat /\ v.type \notin {"Integer", "Number"} =>
                funcs'[call].ival = fn.ival
      BY <2>4, <3>1, <3>5, ExtremeIsStepped
    <3>7. /\ IntsOf(call) \subseteq IntRange
          /\ fn.isFloat <=> SeenOf(call, "Number") # {}
          /\ ~fn.isFloat => Extreme(call.name, fn.ival, IntsOf(call))
      BY <3>1 DEF ExtremeOfCall, fn
    <3>8. IntsOf(call)' \subseteq IntRange
      BY <3>2, <3>4, <3>7
    <3>9. ASSUME ~funcs'[call].isFloat
          PROVE  Extreme(call.name, funcs'[call].ival, IntsOf(call)')
      <4>1. ~fn.isFloat /\ v.type # "Number"
        BY <3>6, <3>9
      <4>2. CASE v.type = "Integer"
        <5>1. fn.ival \in IntRange /\ v.val \in IntRange
          BY <3>1, <3>2, <4>2 DEF FuncOK
        <5>2. Extreme(call.name,
                      IF \/ call.name = "min" /\ v.val < fn.ival
                         \/ call.name = "max" /\ v.val > fn.ival
                      THEN v.val ELSE fn.ival,
                      IntsOf(call) \cup {v.val})
          BY <2>4, <3>7, <4>1, <5>1, ExtremeGrows
        <5>3. funcs'[call].ival = IF \/ call.name = "min" /\ v.val < fn.ival
                                     \/ call.name = "max" /\ v.val > fn.ival
                                  THEN v.val ELSE fn.ival
          BY <3>6, <4>1, <4>2
        <5>4. IntsOf(call)' = IntsOf(call) \cup {v.val}
          BY <3>4, <4>2
        <5> QED
          BY <5>2, <5>3, <5>4
      <4>3. CASE v.type # "Integer"
        BY <3>4, <3>6, <3>7, <4>1, <4>3
      <4> QED
        BY <4>2, <4>3
    <3> QED
      BY <3>4, <3>6, <3>7, <3>8, <3>9 DEF ExtremeOfCall, Extreme
  <2> QED
    BY <2>1, <2>4 DEF ExtremesOK
<1>6. CASE WherePanics \/ Finish
  BY <1>2, <1>6 DEF WherePanics, Finish
<1> QED
  BY <1>2, <1>3, <1>4, <1>5, <1>6 DEF Next, vars

(* MIN and MAX of integers are values of rows that matched and bound all   *)
(* of them, whatever the table and the width: minMaxFunc.step.             *)
THEOREM ExtremesAreValues == Spec => []ExtremesOfIntegers
<1>1. Init => ExtremesOK
  <2>1. Init => DOMAIN funcs = {}
    BY DEF Init
  <2> QED
    BY <2>1 DEF ExtremesOK, Called
<1>2. ASSUME AggOK, ExtremesOK
      PROVE  ExtremesOfIntegers
  <2>1. SUFFICES ASSUME NEW call \in Called({"min", "max"}),
                        SeenOf(call, "Number") = {}, IntsOf(call) # {}
                 PROVE  finalize(funcs[call]) =
                          IntegerValue(IF call.name = "min" THEN Min(IntsOf(call))
                                       ELSE Max(IntsOf(call)))
    BY DEF ExtremesOfIntegers, IntsOf
  <2>2. /\ FuncOK(funcs[call]) /\ funcs[call].name = call.name
        /\ call.name \in {"min", "max"} /\ ExtremeOfCall(call)
    BY <1>2, <2>1 DEF AggOK, ExtremesOK, Called
  <2>3. finalize(funcs[call]) = IntegerValue(funcs[call].ival)
    BY <2>1, <2>2 DEF ExtremeOfCall, finalize
  <2>4. Extreme(call.name, funcs[call].ival, IntsOf(call))
    BY <2>1, <2>2 DEF ExtremeOfCall
  <2>5. IntsOf(call) \subseteq Int
    BY <2>2, IntsAreBounded DEF ExtremeOfCall, IntRange
  <2>6. funcs[call].ival \in IntsOf(call)
    BY <2>1, <2>4 DEF Extreme
  <2>7. CASE call.name = "min"
    <3>1. \A x \in IntsOf(call) : funcs[call].ival <= x
      BY <2>1, <2>4, <2>7 DEF Extreme
    <3> QED
      BY <2>3, <2>5, <2>6, <2>7, <3>1, ExtremeIs
  <2>8. CASE call.name = "max"
    <3>1. \A x \in IntsOf(call) : x <= funcs[call].ival
      BY <2>1, <2>4, <2>8 DEF Extreme
    <3> QED
      BY <2>3, <2>5, <2>6, <2>8, <3>1, ExtremeIs
  <2> QED
    BY <2>2, <2>7, <2>8
<1> QED
  BY <1>1, <1>2, InitAgg, NextAgg, NextExtremes, PTL DEF Spec

-----------------------------------------------------------------------------
(* SUM *)

(* h holds what the floats of every subset of S come to in their order. *)
Ordered(h, first, floats, S) ==
    /\ h = [s \in SUBSET S |-> h[s]] /\ h[{}] = first
    /\ \A s \in SUBSET S : s # {} =>
          h[s] = FloatOp("+", h[s \ {Max(s)}], floats[Max(s)])

(* The greatest element of a set that ends with it. *)
LEMMA MaxOfMore ==
    ASSUME NEW S, S \subseteq Int, NEW a \in Int, \A x \in S : x < a
    PROVE  Max(S \cup {a}) = a /\ a \notin S
<1>1. S \cup {a} \subseteq Int /\ a \in S \cup {a} /\ a \notin S
  OBVIOUS
<1>2. \A x \in S \cup {a} : x <= a
  OBVIOUS
<1> QED
  BY <1>1, <1>2, ExtremeIs

(* One more element, after all of them. *)
LEMMA OrderedGrows ==
    ASSUME NEW S, S \subseteq Int, NEW a \in Int, \A x \in S : x < a,
           NEW first, NEW floats, NEW h, Ordered(h, first, floats, S)
    PROVE  \E g : Ordered(g, first, floats, S \cup {a})
<1> DEFINE T == S \cup {a}
           g == [s \in SUBSET T |-> IF a \in s THEN FloatOp("+", h[s \ {a}], floats[a])
                                    ELSE h[s]]
<1>1. a \notin S
  BY MaxOfMore
<1>2. \A s \in SUBSET T : s \ {a} \in SUBSET S /\ (a \notin s => s \in SUBSET S)
  OBVIOUS
<1>3. g[{}] = first
  BY DEF Ordered
<1>4. ASSUME NEW s \in SUBSET T, s # {}
      PROVE  g[s] = FloatOp("+", g[s \ {Max(s)}], floats[Max(s)])
  <2>1. CASE a \in s
    <3>1. s \ {a} \subseteq Int /\ (\A x \in s \ {a} : x < a) /\ (s \ {a}) \cup {a} = s
      BY <1>2, <2>1
    <3>2. Max(s) = a
      <4>1. Max((s \ {a}) \cup {a}) = a
        <5> DEFINE R == s \ {a}
        <5>1. R \subseteq Int /\ \A x \in R : x < a
          BY <3>1
        <5> HIDE DEF R
        <5>2. Max(R \cup {a}) = a
          BY <5>1, MaxOfMore
        <5> QED
          BY <5>2 DEF R
      <4> QED
        BY <3>1, <4>1
    <3>3. s \ {a} \in SUBSET T /\ a \notin s \ {a}
      OBVIOUS
    <3>4. g[s] = FloatOp("+", h[s \ {a}], floats[a]) /\ g[s \ {a}] = h[s \ {a}]
      BY <2>1, <3>3
    <3> HIDE DEF g
    <3> QED
      BY <3>2, <3>4
  <2>2. CASE a \notin s
    <3>1. s \in SUBSET S
      BY <1>2, <2>2
    <3>2. h[s] = FloatOp("+", h[s \ {Max(s)}], floats[Max(s)])
      BY <1>4, <3>1 DEF Ordered
    <3>3. s \ {Max(s)} \in SUBSET T /\ a \notin s \ {Max(s)}
      BY <2>2
    <3>4. g[s] = h[s] /\ g[s \ {Max(s)}] = h[s \ {Max(s)}]
      BY <2>2, <3>3
    <3> HIDE DEF g
    <3> QED
      BY <3>2, <3>4
  <2> QED
    BY <2>1, <2>2
<1>5. g = [s \in SUBSET T |-> g[s]]
  OBVIOUS
<1> HIDE DEF g
<1>6. Ordered(g, first, floats, T)
  BY <1>3, <1>4, <1>5 DEF Ordered
<1> QED
  BY <1>6

(* A finite set of integers has such an h. *)
LEMMA OrderedExists ==
    ASSUME NEW S, IsFiniteSet(S), S \subseteq Int, NEW first, NEW floats
    PROVE  \E h : Ordered(h, first, floats, S)
<1> DEFINE N == Cardinality(S)
           P == {n \in Nat : \A T \in SUBSET S :
                    Cardinality(T) = n => \E h : Ordered(h, first, floats, T)}
<1>1. N \in Nat
  BY FS_CardinalityType
<1>2. \A T \in SUBSET S : IsFiniteSet(T)
  BY FS_Subset
<1>3. 0 \in P
  <2>1. SUFFICES \E h : Ordered(h, first, floats, {})
    BY <1>2, FS_EmptySet
  <2>2. Ordered([s \in SUBSET {} |-> first], first, floats, {})
    BY DEF Ordered
  <2> QED
    BY <2>2
<1>4. ASSUME NEW m \in 0 .. N - 1, m \in P
      PROVE  m + 1 \in P
  <2>1. ASSUME NEW T \in SUBSET S, Cardinality(T) = m + 1
        PROVE  \E h : Ordered(h, first, floats, T)
    <3> DEFINE a == Max(T)
    <3>1. IsFiniteSet(T) /\ T # {} /\ T \subseteq Int
      BY <1>1, <1>2, <2>1, FS_EmptySet
    <3>2. a \in T /\ \A x \in T : x <= a
      BY <3>1, MaxIs
    <3> HIDE DEF a
    <3>3. Cardinality(T \ {a}) = m
      <4>1. Cardinality(T \ {a}) = Cardinality(T) - 1
        BY <3>1, <3>2, FS_RemoveElement
      <4> QED
        BY <1>1, <2>1, <4>1
    <3>4. PICK h : Ordered(h, first, floats, T \ {a})
      BY <1>4, <3>3
    <3>5. a \in Int /\ T \ {a} \subseteq Int /\ \A x \in T \ {a} : x < a
      BY <3>1, <3>2
    <3>6. \E g : Ordered(g, first, floats, (T \ {a}) \cup {a})
      BY <3>4, <3>5, OrderedGrows
    <3>7. (T \ {a}) \cup {a} = T
      BY <3>2
    <3> QED
      BY <3>6, <3>7
  <2> QED
    BY <2>1
<1> HIDE DEF P
<1>5. 0 .. N \subseteq P
  BY <1>1, <1>3, <1>4, BoundedInduction
<1>6. N \in P
  BY <1>1, <1>5
<1> QED
  BY <1>6 DEF P

(* It is what AddedInOrder computes. *)
LEMMA AddedIsOrdered ==
    ASSUME NEW S, IsFiniteSet(S), S \subseteq Int, NEW first, NEW floats,
           NEW h, Ordered(h, first, floats, S)
    PROVE  AddedInOrder(first, floats, S) = h[S]
<1> DEFINE Goes(it) == it = [s \in SUBSET S |->
                               IF s = {} THEN first
                               ELSE FloatOp("+", it[s \ {Max(s)}], floats[Max(s)])]
           iter == CHOOSE it : Goes(it)
<1>1. AddedInOrder(first, floats, S) = iter[S]
  BY Zenon DEF AddedInOrder, MapThenFoldSet
<1>2. Goes(h)
  <2>1. \A s \in SUBSET S :
           h[s] = IF s = {} THEN first
                  ELSE FloatOp("+", h[s \ {Max(s)}], floats[Max(s)])
    BY DEF Ordered
  <2>2. h = [s \in SUBSET S |-> h[s]]
    BY DEF Ordered
  <2> QED
    BY <2>1, <2>2
<1>3. Goes(iter)
  BY <1>2
<1> HIDE DEF iter
<1> DEFINE N == Cardinality(S)
           P == {n \in Nat : \A s \in SUBSET S : Cardinality(s) = n => iter[s] = h[s]}
<1>4. N \in Nat
  BY FS_CardinalityType
<1>5. \A s \in SUBSET S : IsFiniteSet(s)
  BY FS_Subset
<1>6. 0 \in P
  BY <1>2, <1>3, <1>5, FS_EmptySet
<1>7. ASSUME NEW m \in 0 .. N - 1, m \in P
      PROVE  m + 1 \in P
  <2>1. ASSUME NEW s \in SUBSET S, Cardinality(s) = m + 1
        PROVE  iter[s] = h[s]
    <3> DEFINE a == Max(s)
    <3>1. IsFiniteSet(s) /\ s # {} /\ s \subseteq Int
      BY <1>4, <1>5, <2>1, FS_EmptySet
    <3>2. a \in s
      BY <3>1, MaxIs
    <3>3. /\ iter[s] = FloatOp("+", iter[s \ {a}], floats[a])
          /\ h[s] = FloatOp("+", h[s \ {a}], floats[a])
      BY <1>2, <1>3, <3>1
    <3> HIDE DEF a
    <3>4. Cardinality(s \ {a}) = m
      <4>1. Cardinality(s \ {a}) = Cardinality(s) - 1
        BY <3>1, <3>2, FS_RemoveElement
      <4> QED
        BY <1>4, <2>1, <4>1
    <3>5. iter[s \ {a}] = h[s \ {a}]
      BY <1>7, <3>4
    <3> QED
      BY <3>3, <3>5
  <2> QED
    BY <2>1
<1> HIDE DEF P
<1>8. 0 .. N \subseteq P
  BY <1>4, <1>6, <1>7, BoundedInduction
<1>9. N \in P
  BY <1>4, <1>8
<1> QED
  BY <1>1, <1>9 DEF P

(* No floats change nothing. *)
LEMMA NoneAdded ==
    ASSUME NEW first, NEW floats
    PROVE  AddedInOrder(first, floats, {}) = first
<1>1. IsFiniteSet({}) /\ {} \subseteq Int
  BY FS_EmptySet
<1>2. PICK h : Ordered(h, first, floats, {})
  BY <1>1, OrderedExists
<1> QED
  BY <1>1, <1>2, AddedIsOrdered DEF Ordered

(* The float of one more row is added to what there was. *)
LEMMA OneMoreAdded ==
    ASSUME NEW S, IsFiniteSet(S), S \subseteq Int, NEW a \in Int, \A x \in S : x < a,
           NEW first, NEW f, NEW g, \A x \in S : g[x] = f[x]
    PROVE  AddedInOrder(first, g, S \cup {a}) =
               FloatOp("+", AddedInOrder(first, f, S), g[a])
<1> DEFINE T == S \cup {a}
<1>1. IsFiniteSet(T) /\ T \subseteq Int
  BY FS_AddElement
<1>2. PICK h : Ordered(h, first, g, T)
  BY <1>1, OrderedExists
<1> DEFINE k == [s \in SUBSET S |-> h[s]]
<1>3. Ordered(k, first, f, S)
  <2>1. k[{}] = first
    BY <1>2 DEF Ordered
  <2>2. ASSUME NEW s \in SUBSET S, s # {}
        PROVE  k[s] = FloatOp("+", k[s \ {Max(s)}], f[Max(s)])
    <3>1. IsFiniteSet(s) /\ s \subseteq Int
      BY FS_Subset
    <3>2. Max(s) \in S
      BY <2>2, <3>1, MaxIs
    <3>3. s \in SUBSET T
      OBVIOUS
    <3>4. h[s] = FloatOp("+", h[s \ {Max(s)}], g[Max(s)])
      BY <1>2, <2>2, <3>3 DEF Ordered
    <3>5. k[s] = h[s] /\ k[s \ {Max(s)}] = h[s \ {Max(s)}]
      OBVIOUS
    <3> HIDE DEF k
    <3> QED
      BY <3>2, <3>4, <3>5
  <2>3. k = [s \in SUBSET S |-> k[s]]
    OBVIOUS
  <2> HIDE DEF k
  <2> QED
    BY <2>1, <2>2, <2>3 DEF Ordered
<1>4. AddedInOrder(first, g, T) = h[T] /\ AddedInOrder(first, f, S) = k[S]
  BY <1>1, <1>2, <1>3, AddedIsOrdered
<1>5. Max(T) = a /\ T \ {a} = S
  <2>1. Max(S \cup {a}) = a
    BY MaxOfMore
  <2>2. a \notin S
    OBVIOUS
  <2> QED
    BY <2>1, <2>2
<1>6. h[T] = FloatOp("+", h[S], g[a])
  <2>1. \A s \in SUBSET T : s # {} => h[s] = FloatOp("+", h[s \ {Max(s)}], g[Max(s)])
    BY <1>2 DEF Ordered
  <2>2. T \in SUBSET T /\ T # {}
    OBVIOUS
  <2> HIDE DEF T
  <2> QED
    BY <1>5, <2>1, <2>2
<1>7. k[S] = h[S]
  OBVIOUS
<1> HIDE DEF k, T
<1> QED
  BY <1>4, <1>6, <1>7 DEF T

(* What SUM keeps: the sum of the early integers, which the first Number   *)
(* turns into a float, and from then on what the late floats add to it.    *)
SumOfCall(call) ==
    /\ \A r \in Early(call) : ValueIn(call, r).val \in Int
    /\ funcs[call].ival = Wrap(SumFunctionOnSet(EarlyIntegers(call), Early(call)))
    /\ funcs[call].isFloat <=> SeenOf(call, "Number") # {}
    /\ funcs[call].isFloat =>
          funcs[call].fval = AddedInOrder(IntToFloat(funcs[call].ival),
                                          LateFloats(call), Late(call))

SumsOK == \A call \in Called({"sum"}) : SumOfCall(call)

(* The float that a SUM goes on from. *)
SumAsFloat(fn) == IF fn.isFloat THEN fn.fval ELSE IntToFloat(fn.ival)

(* A step of SUM: an integer counts as one until the first Number, and as  *)
(* a float from then on; NULL changes nothing.                             *)
LEMMA SumIsStepped ==
    ASSUME NEW fn, FuncOK(fn), fn.name = "sum", NEW isStar, NEW v,
           step(fn, isStar, v) # Panic
    PROVE  /\ step(fn, isStar, v).isFloat <=> (fn.isFloat \/ v.type = "Number")
           /\ step(fn, isStar, v).ival =
                 IF v.type = "Integer" /\ ~fn.isFloat THEN Wrap(fn.ival + v.val)
                 ELSE fn.ival
           /\ v.type = "Integer" /\ fn.isFloat =>
                 step(fn, isStar, v).fval =
                     FloatOp("+", SumAsFloat(fn), IntToFloat(v.val))
           /\ v.type = "Number" =>
                 step(fn, isStar, v).fval = FloatOp("+", SumAsFloat(fn), v.val)
           /\ v.type \notin {"Integer", "Number"} =>
                 step(fn, isStar, v).fval = fn.fval
<1>1. step(fn, isStar, v) = sumStep(fn, v)
  BY DEF step
<1>2. CASE v.type = "Integer" /\ ~fn.isFloat
  BY <1>1, <1>2 DEF sumStep, FuncOK
<1>3. CASE v.type = "Integer" /\ fn.isFloat
  BY <1>1, <1>3 DEF sumStep, addFloat, FuncOK, SumAsFloat
<1>4. CASE v.type = "Number"
  BY <1>1, <1>4 DEF sumStep, addFloat, AsFloat, FuncOK, SumAsFloat
<1>5. CASE v.type = "Null"
  BY <1>1, <1>5 DEF sumStep, FuncOK
<1> QED
  BY <1>1, <1>2, <1>3, <1>4, <1>5 DEF sumStep, FuncOK

(* The rows that a SUM has added are finitely many and before the next. *)
LEMMA AddedRows ==
    ASSUME row \in Nat, NEW call
    PROVE  \A s \in {Early(call), Late(call)} :
              IsFiniteSet(s) /\ s \subseteq Int /\ \A r \in s : r < row
<1>1. Early(call) \in SUBSET Seen /\ Late(call) \in SUBSET Seen
  BY DEF Early, Late, SeenOf
<1>2. \A r \in Seen : r \in Int /\ r < row
  BY DEF Seen
<1>3. \A s \in SUBSET Seen : IsFiniteSet(s)
  BY SeenIsFinite
<1> QED
  BY <1>1, <1>2, <1>3

(* How one more row that matches divides: it is early when it is an        *)
(* integer and no Number was before it, and late when it is any other      *)
(* value that adds.                                                        *)
LEMMA AddedRowsGrow ==
    ASSUME row \in Nat, Seen' = Seen \cup {row}, UNCHANGED data, NEW call
    PROVE  LET v == ValueIn(call, row)
               numbers == SeenOf(call, "Number")
           IN  /\ numbers' = IF v.type = "Number" THEN numbers \cup {row} ELSE numbers
               /\ Early(call)' = IF v.type = "Integer" /\ numbers = {}
                                 THEN Early(call) \cup {row} ELSE Early(call)
               /\ Late(call)' = IF \/ v.type = "Number"
                                   \/ v.type = "Integer" /\ numbers # {}
                                THEN Late(call) \cup {row} ELSE Late(call)
               /\ numbers = {} => Late(call) = {}
<1> DEFINE v == ValueIn(call, row)
           numbers == SeenOf(call, "Number")
           ints == SeenOf(call, "Integer")
<1>1. \A r : ValueIn(call, r)' = ValueIn(call, r)
  BY ValueStays
<1>2. /\ numbers' = IF v.type = "Number" THEN numbers \cup {row} ELSE numbers
      /\ ints' = IF v.type = "Integer" THEN ints \cup {row} ELSE ints
  BY <1>1 DEF SeenOf
<1>3. \A r \in numbers \cup ints : r \in Int /\ r < row
  BY DEF Seen, SeenOf
<1>4. /\ Early(call) = {r \in ints : \A q \in numbers : r < q}
      /\ Early(call)' = {r \in ints' : \A q \in numbers' : r < q}
      /\ Late(call) = (ints \cup numbers) \ Early(call)
      /\ Late(call)' = (ints' \cup numbers') \ Early(call)'
  BY DEF Early, Late
<1> HIDE DEF v, numbers, ints
<1>5. numbers = {} => Late(call) = {}
  BY <1>4
<1>6. CASE v.type = "Integer"
  <2>1. numbers' = numbers /\ ints' = ints \cup {row}
    BY <1>2, <1>6
  <2>2. Early(call)' = IF numbers = {} THEN Early(call) \cup {row} ELSE Early(call)
    BY <1>3, <1>4, <2>1
  <2>3. Late(call)' = IF numbers # {} THEN Late(call) \cup {row} ELSE Late(call)
    BY <1>3, <1>4, <2>1, <2>2
  <2> QED
    BY <1>5, <1>6, <2>1, <2>2, <2>3 DEF v, numbers
<1>7. CASE v.type = "Number"
  <2>1. numbers' = numbers \cup {row} /\ ints' = ints
    BY <1>2, <1>7
  <2>2. Early(call)' = Early(call)
    BY <1>3, <1>4, <2>1
  <2>3. Late(call)' = Late(call) \cup {row}
    BY <1>3, <1>4, <2>1, <2>2
  <2> QED
    BY <1>5, <1>7, <2>1, <2>2, <2>3 DEF v, numbers
<1>8. CASE v.type \notin {"Integer", "Number"}
  BY <1>2, <1>4, <1>5, <1>8 DEF v, numbers
<1> QED
  BY <1>6, <1>7, <1>8

(* An early row adds its integer to the sum of those before it. *)
LEMMA EarlySumGrows ==
    ASSUME row \in Nat, UNCHANGED data, NEW call,
           Early(call)' = Early(call) \cup {row}, ValueIn(call, row).val \in Int,
           \A r \in Early(call) : ValueIn(call, r).val \in Int
    PROVE  LET before == SumFunctionOnSet(EarlyIntegers(call), Early(call))
           IN  /\ before \in Int
               /\ SumFunctionOnSet(EarlyIntegers(call)', Early(call)') =
                     before + ValueIn(call, row).val
<1> DEFINE S == Early(call)
           f == EarlyIntegers(call)
           g == EarlyIntegers(call)'
<1>1. IsFiniteSet(S) /\ row \notin S
  BY AddedRows
<1>2. /\ f = [r \in S |-> ValueIn(call, r).val]
      /\ g = [r \in S \cup {row} |-> ValueIn(call, r).val]
  BY ValueStays DEF EarlyIntegers
<1>3. /\ \A r \in S \cup {row} : g[r] \in Int
      /\ \A r \in S : f[r] \in Int
      /\ g[row] = ValueIn(call, row).val
      /\ f = [r \in S |-> g[r]]
  BY <1>2
<1> HIDE DEF S, f, g
<1>4. SumFunctionOnSet(g, S \cup {row}) =
          SumFunctionOnSet([r \in S |-> g[r]], S) + g[row]
  BY <1>1, <1>3, SumGrows
<1>5. SumFunctionOnSet(f, S) \in Int
  BY <1>1, <1>3, SumIsInt
<1> QED
  BY <1>3, <1>4, <1>5 DEF S, f, g

(* One row that matches: a SUM goes on as it should. *)
LEMMA SumGoesOn ==
    ASSUME AggOK, UNCHANGED data, row \in DOMAIN data, Seen' = Seen \cup {row},
           NEW call \in Called({"sum"}), SumOfCall(call),
           funcs'[call] = step(funcs[call], call.args[1] = SelectStar, ValueIn(call, row)),
           funcs'[call] # Panic
    PROVE  SumOfCall(call)'
<1> DEFINE v == ValueIn(call, row)
           fn == funcs[call]
           numbers == SeenOf(call, "Number")
           early == Early(call)
           late == Late(call)
<1>1. row \in Nat /\ call \in DOMAIN funcs
  BY DEF AggOK, Called
<1>2. FuncOK(fn) /\ fn.name = "sum"
  BY <1>1 DEF AggOK, Called
<1>3. \A r : ValueIn(call, r)' = ValueIn(call, r)
  BY ValueStays
<1>4. /\ \A r \in early : ValueIn(call, r).val \in Int
      /\ fn.ival = Wrap(SumFunctionOnSet(EarlyIntegers(call), early))
      /\ fn.isFloat <=> numbers # {}
      /\ fn.isFloat => fn.fval = AddedInOrder(IntToFloat(fn.ival), LateFloats(call), late)
  BY DEF SumOfCall
<1>5. /\ numbers' = IF v.type = "Number" THEN numbers \cup {row} ELSE numbers
      /\ early' = IF v.type = "Integer" /\ numbers = {} THEN early \cup {row} ELSE early
      /\ late' = IF v.type = "Number" \/ (v.type = "Integer" /\ numbers # {})
                 THEN late \cup {row} ELSE late
      /\ numbers = {} => late = {}
  BY <1>1, AddedRowsGrow
<1>6. /\ IsFiniteSet(early) /\ early \subseteq Int /\ \A r \in early : r < row
      /\ IsFiniteSet(late) /\ late \subseteq Int /\ \A r \in late : r < row
  BY <1>1, AddedRows
<1>7. v.type = "Integer" => v.val \in Int
  <2>1. v.type = "Integer" => v.val \in IntRange
    BY <1>1, ArgumentFits
  <2> QED
    BY <2>1, IntsAreBounded
<1>8. /\ EarlyIntegers(call) = [r \in early |-> ValueIn(call, r).val]
      /\ EarlyIntegers(call)' = [r \in early' |-> ValueIn(call, r).val]
  BY <1>3 DEF EarlyIntegers
<1>9. /\ LateFloats(call) =
           [r \in late |-> IF ValueIn(call, r).type = "Integer"
                           THEN IntToFloat(ValueIn(call, r).val) ELSE ValueIn(call, r).val]
      /\ LateFloats(call)' =
           [r \in late' |-> IF ValueIn(call, r).type = "Integer"
                            THEN IntToFloat(ValueIn(call, r).val) ELSE ValueIn(call, r).val]
  BY <1>3 DEF LateFloats
<1> DEFINE ints == EarlyIntegers(call)
           floats == LateFloats(call)
           next == step(fn, call.args[1] = SelectStar, v)
<1>10. funcs'[call] = next /\ next # Panic
  OBVIOUS
<1>11. /\ next.isFloat <=> (fn.isFloat \/ v.type = "Number")
       /\ next.ival = IF v.type = "Integer" /\ ~fn.isFloat THEN Wrap(fn.ival + v.val)
                      ELSE fn.ival
       /\ v.type = "Integer" /\ fn.isFloat =>
             next.fval = FloatOp("+", SumAsFloat(fn), IntToFloat(v.val))
       /\ v.type = "Number" => next.fval = FloatOp("+", SumAsFloat(fn), v.val)
       /\ v.type \notin {"Integer", "Number"} => next.fval = fn.fval
  <2> HIDE DEF v, fn
  <2> QED
    BY <1>2, <1>10, SumIsStepped
<1>12. (SumOfCall(call)') <=>
          /\ \A r \in early' : ValueIn(call, r).val \in Int
          /\ next.ival = Wrap(SumFunctionOnSet(ints', early'))
          /\ next.isFloat <=> numbers' # {}
          /\ next.isFloat => next.fval = AddedInOrder(IntToFloat(next.ival), floats', late')
  BY <1>3, <1>10 DEF SumOfCall
<1>13. SumAsFloat(fn) = AddedInOrder(IntToFloat(fn.ival), floats, late)
  BY <1>4, <1>5, NoneAdded DEF SumAsFloat
<1> HIDE DEF v, fn, numbers, early, late, ints, floats, next
<1>14. CASE v.type = "Integer" /\ numbers = {}
  <2>1. early' = early \cup {row} /\ numbers' = {} /\ ~next.isFloat
    BY <1>4, <1>5, <1>11, <1>14
  <2>2. \A r \in early' : ValueIn(call, r).val \in Int
    BY <1>4, <1>7, <1>14, <2>1 DEF v
  <2>3. next.ival = Wrap(fn.ival + v.val)
    BY <1>4, <1>11, <1>14
  <2>4. /\ SumFunctionOnSet(ints, early) \in Int
        /\ SumFunctionOnSet(ints', early') = SumFunctionOnSet(ints, early) + v.val
    BY <1>1, <1>4, <1>7, <1>14, <2>1, EarlySumGrows DEF ints, early, v
  <2>5. Wrap(fn.ival + v.val) = Wrap(SumFunctionOnSet(ints', early'))
    BY <1>4, <1>7, <1>14, <2>4, WrapInSum DEF ints
  <2> QED
    BY <1>12, <2>1, <2>2, <2>3, <2>5
<1>15. CASE v.type = "Number" \/ (v.type = "Integer" /\ numbers # {})
  <2>1. /\ early' = early /\ late' = late \cup {row} /\ numbers' # {}
        /\ next.isFloat /\ next.ival = fn.ival
    BY <1>4, <1>5, <1>11, <1>15
  <2>2. ints' = ints
    BY <1>8, <2>1 DEF ints
  <2> DEFINE x == IF v.type = "Integer" THEN IntToFloat(v.val) ELSE v.val
  <2>3. next.fval = FloatOp("+", SumAsFloat(fn), x)
    BY <1>4, <1>11, <1>15
  <2>4. floats'[row] = x /\ \A r \in late : floats'[r] = floats[r]
    BY <1>9, <2>1 DEF floats, v
  <2> HIDE DEF x
  <2>5. AddedInOrder(IntToFloat(fn.ival), floats', late \cup {row}) =
            FloatOp("+", AddedInOrder(IntToFloat(fn.ival), floats, late), floats'[row])
    BY <1>1, <1>6, <2>4, OneMoreAdded
  <2>6. next.fval = AddedInOrder(IntToFloat(next.ival), floats', late')
    BY <1>13, <2>1, <2>3, <2>4, <2>5
  <2> QED
    BY <1>4, <1>12, <2>1, <2>2, <2>6 DEF ints
<1>16. CASE v.type \notin {"Integer", "Number"}
  <2>1. /\ early' = early /\ late' = late /\ numbers' = numbers
        /\ (next.isFloat <=> fn.isFloat) /\ next.ival = fn.ival /\ next.fval = fn.fval
    BY <1>5, <1>11, <1>16
  <2>2. ints' = ints /\ floats' = floats
    BY <1>8, <1>9, <2>1 DEF ints, floats
  <2> QED
    BY <1>4, <1>12, <2>1, <2>2 DEF ints, floats
<1> QED
  BY <1>14, <1>15, <1>16

(* SUM keeps its sums in every state. *)
LEMMA NextSums == AggOK /\ SumsOK /\ [Next]_vars => SumsOK'
<1> SUFFICES ASSUME AggOK, SumsOK, [Next]_vars
             PROVE  SumsOK'
  OBVIOUS
<1> USE DEF Called
<1>1. row \in Nat
  BY DEF AggOK
<1>2. ASSUME UNCHANGED <<data, funcs>>, Seen' = Seen
      PROVE  SumsOK'
  <2>1. \A call, r : ValueIn(call, r)' = ValueIn(call, r)
    BY <1>2, ValueStays
  <2>2. \A call, type : SeenOf(call, type)' = SeenOf(call, type)
    BY <1>2, <2>1 DEF SeenOf
  <2>3. \A call : Early(call)' = Early(call) /\ Late(call)' = Late(call)
    BY <2>2 DEF Early, Late
  <2>4. \A call : /\ EarlyIntegers(call)' = EarlyIntegers(call)
                  /\ LateFloats(call)' = LateFloats(call)
    BY <2>1, <2>3 DEF EarlyIntegers, LateFloats
  <2> QED
    BY <1>2, <2>1, <2>2, <2>3, <2>4 DEF SumsOK, SumOfCall
<1>3. CASE UNCHANGED <<query, data, row, funcs, matched>>
  BY <1>2, <1>3 DEF Seen
<1>4. CASE Rewrite /\ ~UNCHANGED <<query, data, row, funcs, matched>>
  <2>1. /\ row = 0 /\ row' = 1
        /\ \A call \in Calls : Rewritable(call)
        /\ funcs' = [call \in Calls |-> NewAggFunc(call.name)]
    BY <1>4 DEF Rewrite, Fail
  <2>2. Seen' = {}
    BY <2>1 DEF Seen
  <2>3. ASSUME NEW call \in Calls, call.name = "sum"
        PROVE  SumOfCall(call)'
    <3>1. /\ SeenOf(call, "Number")' = {} /\ Early(call)' = {}
      BY <2>2 DEF SeenOf, Early
    <3>2. funcs'[call] = NewAggFunc(call.name) /\ ~funcs'[call].isFloat
      BY <2>1, NewFuncOK DEF Rewritable
    <3>3. funcs'[call].ival = 0
      BY <2>3, <3>2 DEF NewAggFunc
    <3>4. SumFunctionOnSet(EarlyIntegers(call)', {}) = 0
      BY SumOfNone
    <3>5. Wrap(0) = 0
      BY IntsAreBounded, WrapInRange DEF IntRange
    <3> QED
      BY <3>1, <3>2, <3>3, <3>4, <3>5 DEF SumOfCall
  <2> QED
    BY <2>1, <2>3 DEF SumsOK
<1>5. CASE SkipRow
  <2>1. /\ row > 0 /\ row' = row + 1 /\ UNCHANGED <<query, data, funcs>>
        /\ ~Matches(Where(query.where, Namespace(Columns, data[row])))
    BY <1>5, RowsCount DEF SkipRow, CurrentWhere, CurrentNamespace, Matches, Differs
  <2>2. Seen' = Seen
    BY <1>1, <2>1, SeenGrows
  <2> QED
    BY <1>2, <2>1, <2>2
<1>6. CASE StepRow /\ ~UNCHANGED <<query, data, row, funcs, matched>>
  <2>1. /\ UNCHANGED <<query, data>> /\ row' = row + 1
        /\ Matches(Where(query.where, Namespace(Columns, data[row])))
        /\ DOMAIN funcs' = DOMAIN funcs
        /\ \A call \in DOMAIN funcs :
             /\ funcs'[call] = step(funcs[call], call.args[1] = SelectStar,
                                    ValueIn(call, row))
             /\ funcs'[call] # Panic
    BY <1>6, RowIsStepped
  <2>2. row > 0 /\ row \in DOMAIN data
    BY <1>6, RowsCount DEF StepRow, AtRow
  <2>3. Seen' = Seen \cup {row}
    BY <1>1, <2>1, <2>2, SeenGrows
  <2>4. ASSUME NEW call \in Called({"sum"})
        PROVE  SumOfCall(call)'
    <3>1. SumOfCall(call) /\ call \in DOMAIN funcs
      BY DEF SumsOK
    <3> QED
      BY <2>1, <2>2, <2>3, <3>1, SumGoesOn
  <2> QED
    BY <2>1, <2>4 DEF SumsOK
<1>7. CASE WherePanics \/ Finish
  BY <1>3, <1>7 DEF WherePanics, Finish
<1> QED
  BY <1>3, <1>4, <1>5, <1>6, <1>7 DEF Next, vars

(* SUM adds every row that matched once, integers modulo their width until *)
(* the first Number and floats in the order of the rows from then on,      *)
(* whatever the table, the width and the arithmetic of floats:             *)
(* SumFunc.step and the loop of evalAggregateSelectStmt.                   *)
THEOREM SumsFollowRows == Spec => []SumFollowsRows
<1>1. Init => SumsOK
  <2>1. Init => DOMAIN funcs = {}
    BY DEF Init
  <2> QED
    BY <2>1 DEF SumsOK, Called
<1>2. ASSUME AggOK, SumsOK
      PROVE  SumFollowsRows
  <2>1. SUFFICES ASSUME NEW call \in Called({"sum"})
                 PROVE  LET sum == Wrap(SumFunctionOnSet(EarlyIntegers(call), Early(call)))
                        IN  finalize(funcs[call]) =
                              IF SeenOf(call, "Number") = {} THEN IntegerValue(sum)
                              ELSE NumberValue(AddedInOrder(IntToFloat(sum),
                                                            LateFloats(call), Late(call)))
    BY DEF SumFollowsRows
  <2>2. funcs[call].name = "sum" /\ SumOfCall(call)
    BY <1>2 DEF AggOK, SumsOK, Called
  <2> QED
    BY <2>2 DEF SumOfCall, finalize
<1> QED
  BY <1>1, <1>2, InitAgg, NextAgg, NextSums, PTL DEF Spec

=============================================================================
