--------------------------- MODULE ProgramProofs ---------------------------
(***************************************************************************)
(* Theorems about Program, for all inputs and whatever Eval computes: each *)
(* statement of the input has one answer, tables are printed straight, the *)
(* evaluator is given only what it can evaluate, so that its theorems hold *)
(* of the command, and nothing is evaluated unless all of the input is     *)
(* parsed.                                                                 *)
(***************************************************************************)
EXTENDS Program, DatabaseRefinement

-----------------------------------------------------------------------------
(* One answer to each statement. *)

(* The statements that have an answer: one of two shapes, of which the     *)
(* second is that of an INSERT, or any other statement, that fails.        *)
Alone(n) ==
    \E k \in DOMAIN printed :
        AnswersTo(n) = {k} /\ printed[k].what \in {"OK", "table"}

AfterError(n) ==
    \E k \in DOMAIN printed :
        /\ k + 1 \in DOMAIN printed
        /\ AnswersTo(n) = {k, k + 1}
        /\ printed[k].what = "error" /\ printed[k + 1].what = "OK"

(* What holds of the answers in every state: none is ahead of the          *)
(* statements, and none of the last statement comes before it has one of   *)
(* the two shapes.                                                         *)
AnswersOK ==
    /\ done \in Nat
    /\ IsSeq(printed)
    /\ \A k \in DOMAIN printed : printed[k].of \in 1 .. done
    /\ \A j, k \in DOMAIN printed : j < k => printed[j].of <= printed[k].of
    /\ done = 0 => outcome # Pending
    /\ ~Answered => \A k \in DOMAIN printed : printed[k].of # done
    /\ \A n \in 1 .. done : n < done \/ Answered => Alone(n) \/ AfterError(n)

(* The invariant is what OneAnswerEach asks for. *)
LEMMA AnswersAreOne == AnswersOK => OneAnswerEach
<1> SUFFICES ASSUME AnswersOK PROVE OneAnswerEach
  OBVIOUS
<1> DEFINE What(n) == {printed[k].what : k \in AnswersTo(n)}
<1>1. ASSUME NEW n \in 1 .. done, n < done \/ Answered
      PROVE  /\ What(n) \in {{"OK"}, {"table"}, {"error", "OK"}}
             /\ Cardinality(AnswersTo(n)) = Cardinality(What(n))
  <2>1. CASE Alone(n)
    <3>1. PICK k \in DOMAIN printed :
            AnswersTo(n) = {k} /\ printed[k].what \in {"OK", "table"}
      BY <2>1 DEF Alone
    <3>2. What(n) = {printed[k].what}
      BY <3>1
    <3>3. Cardinality(What(n)) = 1 /\ Cardinality(AnswersTo(n)) = 1
      BY <3>1, <3>2, FS_Singleton, Zenon
    <3> QED
      BY <3>1, <3>2, <3>3
  <2>2. CASE AfterError(n)
    <3>1. PICK k \in DOMAIN printed :
            /\ k + 1 \in DOMAIN printed
            /\ AnswersTo(n) = {k, k + 1}
            /\ printed[k].what = "error" /\ printed[k + 1].what = "OK"
      BY <2>2 DEF AfterError
    <3>2. What(n) = {"error", "OK"}
      BY <3>1
    <3>3. k # k + 1
      BY <3>1, SeqDomain DEF AnswersOK
    <3>4. ASSUME NEW a, NEW b, a # b
          PROVE  Cardinality({a, b}) = 2
      <4>1. IsFiniteSet({a}) /\ Cardinality({a}) = 1
        BY FS_Singleton, Zenon
      <4>2. Cardinality({a} \cup {b}) = Cardinality({a}) + 1
        BY <3>4, <4>1, FS_AddElement
      <4>3. {a} \cup {b} = {a, b}
        OBVIOUS
      <4> QED
        BY <4>1, <4>2, <4>3
    <3>5. Cardinality({"error", "OK"}) = 2
      BY <3>4
    <3>6. Cardinality({k, k + 1}) = 2
      BY <3>3, <3>4
    <3> QED
      BY <3>1, <3>2, <3>5, <3>6
  <2> QED
    BY <1>1, <2>1, <2>2 DEF AnswersOK
<1>2. ASSUME NEW n \in 1 .. done, ~(n < done \/ Answered)
      PROVE  What(n) = {} /\ AnswersTo(n) = {}
  BY <1>2 DEF AnswersOK, AnswersTo
<1> QED
  BY <1>1, <1>2 DEF AnswersOK, OneAnswerEach

(* A command that has not begun has nothing to answer. *)
LEMMA AnswersInit == ProgramInit => AnswersOK
<1> SUFFICES ASSUME ProgramInit PROVE AnswersOK
  OBVIOUS
<1>1. done = 0 /\ printed = <<>> /\ outcome # Pending
  BY DEF ProgramInit, Init, Returned, Pending
<1>2. Answered
  BY <1>1 DEF Answered
<1> QED
  BY <1>1, <1>2, EmptyIsSeq DEF AnswersOK

(* The evaluator takes a step only while a statement is pending. *)
LEMMA EvaluatesPending == Evaluate => outcome = Pending
BY DEF Evaluate, CreateTable, InsertStmt, NoSuchTable, WherePanics, SelectRow, SelectEnd,
       UpdateRow, UpdateSet, UpdateEnd, DeleteRow, DeleteEnd,
       Evaluating, Scanning, AtRow

(* While nothing is printed and the last statement is not answered, its    *)
(* evaluation disturbs no answer.                                          *)
LEMMA QuietAnswers ==
    ASSUME AnswersOK, UNCHANGED <<done, printed>>, outcome = Pending
    PROVE  AnswersOK'
<1>1. ~Answered /\ done # 0 /\ done \in Nat
  BY DEF Answered, AnswersOK
<1>2. \A k \in DOMAIN printed : printed[k].of # done
  BY <1>1 DEF AnswersOK
<1>3. ~Answered'
  BY <1>1, <1>2 DEF Answered
<1>4. \A n \in 1 .. done : (Alone(n) <=> Alone(n)') /\ (AfterError(n) <=> AfterError(n)')
  BY DEF Alone, AfterError, AnswersTo
<1>5. \A n \in 1 .. done : n < done => Alone(n) \/ AfterError(n)
  BY DEF AnswersOK
<1>6. /\ IsSeq(printed)
      /\ \A k \in DOMAIN printed : printed[k].of \in 1 .. done
      /\ \A j, k \in DOMAIN printed : j < k => printed[j].of <= printed[k].of
  BY DEF AnswersOK
<1>7. (\A n \in 1 .. done : n < done \/ Answered => Alone(n) \/ AfterError(n))'
  BY <1>3, <1>4, <1>5
<1>8. IsSeq(printed)'
  BY <1>6
<1> QED
  BY <1>1, <1>2, <1>6, <1>7, <1>8 DEF AnswersOK

(* The next statement begins once the last one is answered. *)
LEMMA NextStatementAnswers == AnswersOK /\ EvaluateNext => AnswersOK'
<1> SUFFICES ASSUME AnswersOK, EvaluateNext PROVE AnswersOK'
  OBVIOUS
<1>1. Answered /\ done' = done + 1 /\ printed' = printed /\ outcome' = Pending
  BY DEF EvaluateNext, Submit
<1>2. done \in Nat /\ IsSeq(printed) /\ \A k \in DOMAIN printed : printed[k].of \in 1 .. done
  BY DEF AnswersOK
<1>3. done + 1 \in Nat /\ ~Answered'
  BY <1>1, <1>2 DEF Answered
<1>4. \A n \in 1 .. done : Alone(n) \/ AfterError(n)
  BY <1>1 DEF AnswersOK
<1>5. \A n \in 1 .. done : (Alone(n) <=> Alone(n)') /\ (AfterError(n) <=> AfterError(n)')
  BY <1>1 DEF Alone, AfterError, AnswersTo
<1>6. (\A n \in 1 .. done : n < done \/ Answered => Alone(n) \/ AfterError(n))'
  BY <1>1, <1>2, <1>3, <1>4, <1>5
<1>7. \A k \in DOMAIN printed : printed[k].of \in 1 .. done + 1 /\ printed[k].of # done + 1
  BY <1>2
<1>8. IsSeq(printed)'
  BY <1>1, <1>2
<1>9. \A j, k \in DOMAIN printed : j < k => printed[j].of <= printed[k].of
  BY DEF AnswersOK
<1> QED
  BY <1>1, <1>2, <1>3, <1>6, <1>7, <1>8, <1>9 DEF AnswersOK

(* What PrintAnswer adds: one answer that is no error, and before it an    *)
(* error when the statement has failed.                                    *)
LEMMA PrintedAnswers ==
    ASSUME AnswersOK, PrintAnswer
    PROVE  /\ IsSeq(printed')
           /\ \A k \in 1 .. Len(printed) : printed'[k] = printed[k]
           /\ \A k \in DOMAIN printed' : k \notin DOMAIN printed =>
                printed'[k].lines \in {<<>>, Table(outcome.table)}
           /\ \/ /\ DOMAIN printed' = 1 .. Len(printed) + 1
                 /\ printed'[Len(printed) + 1].of = done
                 /\ printed'[Len(printed) + 1].what \in {"OK", "table"}
              \/ /\ DOMAIN printed' = 1 .. Len(printed) + 2
                 /\ printed'[Len(printed) + 1].of = done
                 /\ printed'[Len(printed) + 1].what = "error"
                 /\ printed'[Len(printed) + 2].of = done
                 /\ printed'[Len(printed) + 2].what = "OK"
<1> DEFINE failure == Answer("error", <<>>)
           final == IF outcome.table # NoTable
                    THEN Answer("table", Table(outcome.table)) ELSE Answer("OK", <<>>)
           before == IF outcome = Failed THEN <<failure>> ELSE <<>>
           last == IF outcome.table # NoTable
                   THEN <<Answer("table", Table(outcome.table))>>
                   ELSE <<Answer("OK", <<>>)>>
<1>1. IsSeq(printed) /\ Len(printed) \in Nat /\ DOMAIN printed = 1 .. Len(printed)
  BY SeqDomain DEF AnswersOK
<1>2. printed' = (printed \o before) \o last
  BY DEF PrintAnswer
<1>3. last = <<final>>
  OBVIOUS
<1>4. /\ final.of = done /\ final.what \in {"OK", "table"}
      /\ final.lines \in {<<>>, Table(outcome.table)}
  BY DEF Answer
<1>5. failure.of = done /\ failure.what = "error" /\ failure.lines = <<>>
  BY DEF Answer
<1>6. outcome = Failed => final.what = "OK"
  BY DEF Failed, Answer
<1> HIDE DEF failure, final
<1>7. CASE outcome = Failed
  <2>1. before = <<failure>>
    BY <1>7
  <2> HIDE DEF before, last
  <2>2. printed' = (printed \o <<failure>>) \o <<final>>
    BY <1>2, <1>3, <2>1
  <2>3. /\ IsSeq(printed')
        /\ DOMAIN printed' = 1 .. Len(printed) + 2
        /\ \A i \in 1 .. Len(printed) : printed'[i] = printed[i]
        /\ printed'[Len(printed) + 1] = failure
        /\ printed'[Len(printed) + 2] = final
    <3> DEFINE first == printed \o <<failure>>
               second == first \o <<final>>
    <3>1. printed' = second
      BY <2>2
    <3>2. /\ IsSeq(first) /\ Len(first) = Len(printed) + 1
          /\ \A i \in 1 .. Len(printed) : first[i] = printed[i]
          /\ first[Len(printed) + 1] = failure
      BY <1>1, ConcatOne
    <3> HIDE DEF first
    <3>3. /\ IsSeq(second) /\ DOMAIN second = 1 .. Len(first) + 1
          /\ \A i \in 1 .. Len(first) : second[i] = first[i]
          /\ second[Len(first) + 1] = final
      BY <3>2, ConcatOne
    <3> HIDE DEF second
    <3> QED
      BY <1>1, <3>1, <3>2, <3>3
  <2> QED
    BY <1>1, <1>4, <1>5, <1>6, <1>7, <2>3
<1>8. CASE outcome # Failed
  <2>1. before = <<>>
    BY <1>8
  <2> HIDE DEF before, last
  <2>2. printed' = printed \o <<final>>
    BY <1>1, <1>2, <1>3, <2>1, ConcatEmptySeq, SeqOverRange
  <2>3. /\ IsSeq(printed')
        /\ DOMAIN printed' = 1 .. Len(printed) + 1
        /\ \A i \in 1 .. Len(printed) : printed'[i] = printed[i]
        /\ printed'[Len(printed) + 1] = final
    BY <1>1, <2>2, ConcatOne
  <2> QED
    BY <1>1, <1>4, <2>3
<1> QED
  BY <1>7, <1>8

(* The answer to the last statement takes one of the two shapes, and those *)
(* before it keep theirs.                                                  *)
LEMMA PrintAnswers == AnswersOK /\ PrintAnswer => AnswersOK'
<1> SUFFICES ASSUME AnswersOK, PrintAnswer PROVE AnswersOK'
  OBVIOUS
<1> DEFINE L == Len(printed)
<1>1. /\ done \in Nat /\ IsSeq(printed) /\ L \in Nat /\ DOMAIN printed = 1 .. L
      /\ \A k \in 1 .. L : printed[k].of \in 1 .. done
      /\ \A j, k \in 1 .. L : j < k => printed[j].of <= printed[k].of
  BY SeqDomain DEF AnswersOK
<1>2. /\ ~Answered /\ outcome # Pending
      /\ UNCHANGED <<done, outcome>>
  BY DEF PrintAnswer, vars
<1>3. done \in 1 .. done
  BY <1>1, <1>2 DEF Answered
<1>4. \A k \in 1 .. L : printed[k].of # done
  BY <1>1, <1>2 DEF AnswersOK
<1>5. \A n \in 1 .. done : n < done => Alone(n) \/ AfterError(n)
  BY DEF AnswersOK
<1>6. /\ IsSeq(printed')
      /\ \A k \in 1 .. L : printed'[k] = printed[k]
      /\ \E m \in {1, 2} : DOMAIN printed' = 1 .. L + m
      /\ \A k \in DOMAIN printed' : k \notin 1 .. L => printed'[k].of = done
  BY <1>1, PrintedAnswers
<1>7. /\ \A k \in DOMAIN printed' : printed'[k].of \in 1 .. done
      /\ \A j, k \in DOMAIN printed' : j < k => printed'[j].of <= printed'[k].of
  BY <1>1, <1>3, <1>6
<1>8. \A n \in 1 .. done : n < done => AnswersTo(n)' = AnswersTo(n)
  BY <1>1, <1>6 DEF AnswersTo
<1>9. \A n \in 1 .. done : n < done => Alone(n)' \/ AfterError(n)'
  <2> SUFFICES ASSUME NEW n \in 1 .. done, n < done
               PROVE  Alone(n)' \/ AfterError(n)'
    OBVIOUS
  <2>1. CASE Alone(n)
    <3>1. PICK k \in 1 .. L : AnswersTo(n) = {k} /\ printed[k].what \in {"OK", "table"}
      BY <1>1, <2>1 DEF Alone
    <3>2. k \in DOMAIN printed' /\ AnswersTo(n)' = {k} /\ printed'[k].what \in {"OK", "table"}
      BY <1>1, <1>6, <1>8, <3>1
    <3> QED
      BY <3>2 DEF Alone
  <2>2. CASE AfterError(n)
    <3>1. PICK k \in 1 .. L :
            /\ k + 1 \in 1 .. L
            /\ AnswersTo(n) = {k, k + 1}
            /\ printed[k].what = "error" /\ printed[k + 1].what = "OK"
      BY <1>1, <2>2 DEF AfterError
    <3>2. /\ k \in DOMAIN printed' /\ k + 1 \in DOMAIN printed'
          /\ AnswersTo(n)' = {k, k + 1}
          /\ printed'[k].what = "error" /\ printed'[k + 1].what = "OK"
      BY <1>1, <1>6, <1>8, <3>1
    <3> QED
      BY <3>2 DEF AfterError
  <2> QED
    BY <1>5, <2>1, <2>2
<1>10. Alone(done)' \/ AfterError(done)'
  <2>1. CASE /\ DOMAIN printed' = 1 .. L + 1
             /\ printed'[L + 1].of = done
             /\ printed'[L + 1].what \in {"OK", "table"}
    <3>1. {k \in DOMAIN printed' : printed'[k].of = done} = {L + 1}
      BY <1>1, <1>4, <1>6, <2>1
    <3>2. AnswersTo(done)' = {L + 1} /\ L + 1 \in DOMAIN printed'
      BY <1>1, <1>2, <2>1, <3>1 DEF AnswersTo
    <3> QED
      BY <2>1, <3>2 DEF Alone
  <2>2. CASE /\ DOMAIN printed' = 1 .. L + 2
             /\ printed'[L + 1].of = done /\ printed'[L + 1].what = "error"
             /\ printed'[L + 2].of = done /\ printed'[L + 2].what = "OK"
    <3>1. {k \in DOMAIN printed' : printed'[k].of = done} = {L + 1, L + 2}
      BY <1>1, <1>4, <1>6, <2>2
    <3>2. /\ AnswersTo(done)' = {L + 1, L + 2}
          /\ L + 1 \in DOMAIN printed' /\ L + 2 \in DOMAIN printed'
          /\ (L + 1) + 1 = L + 2
      BY <1>1, <1>2, <2>2, <3>1 DEF AnswersTo
    <3> QED
      BY <2>2, <3>2 DEF AfterError
  <2> QED
    BY <2>1, <2>2, PrintedAnswers
<1>11. Answered'
  <2>1. PICK k \in DOMAIN printed' : printed'[k].of = done /\ printed'[k].what # "error"
    BY <1>1, PrintedAnswers
  <2> QED
    BY <1>2, <2>1 DEF Answered
<1>12. \A n \in 1 .. done' : Alone(n)' \/ AfterError(n)'
  BY <1>1, <1>2, <1>9, <1>10
<1> QED
  BY <1>1, <1>2, <1>6, <1>7, <1>11, <1>12 DEF AnswersOK

(* Every step keeps the answers in order, complete and free of doubles. *)
LEMMA NextAnswers == AnswersOK /\ [ProgramNext]_programVars => AnswersOK'
<1> SUFFICES ASSUME AnswersOK, [ProgramNext]_programVars PROVE AnswersOK'
  OBVIOUS
<1>1. ASSUME UNCHANGED <<done, printed, outcome>> PROVE AnswersOK'
  BY <1>1 DEF AnswersOK, Answered, Alone, AfterError, AnswersTo
<1>2. CASE ParseAll
  BY <1>1, <1>2 DEF ParseAll, vars
<1>3. CASE EvaluateNext
  BY <1>3, NextStatementAnswers
<1>4. CASE EvaluateOn
  BY <1>4, EvaluatesPending, QuietAnswers DEF EvaluateOn
<1>5. CASE PrintAnswer
  BY <1>5, PrintAnswers
<1>6. CASE UNCHANGED programVars
  BY <1>1, <1>6 DEF programVars, vars
<1> QED
  BY <1>2, <1>3, <1>4, <1>5, <1>6 DEF ProgramNext

(* Every statement that has been evaluated has one answer, in the order of *)
(* the input, whatever fails: main counts no statement twice and skips     *)
(* none, and an error stands before the OK of its own statement.           *)
THEOREM StatementsAreAnswered == ProgramSpec => []OneAnswerEach
<1>1. ProgramSpec => []AnswersOK
  BY AnswersInit, NextAnswers, PTL DEF ProgramSpec
<1> QED
  BY <1>1, AnswersAreOne, PTL

-----------------------------------------------------------------------------
(* The lines of a table. *)

(* What len and utf8.RuneCountInString promise of any text. *)
TextIsMeasured == \A v : Bytes(v) \in Nat /\ Runes(v) \in 0 .. Bytes(v)

(* A null is no text: it has no bytes and no runes. *)
LEMMA CellIsMeasured ==
    ASSUME TextIsMeasured, NEW v
    PROVE  BytesOf(v) \in Nat /\ RunesOf(v) \in 0 .. BytesOf(v)
BY DEF TextIsMeasured, BytesOf, RunesOf

(* Rows as wide as the headings. *)
Fits(tab) ==
    /\ IsSeq(tab.data)
    /\ \A r \in DOMAIN tab.data : DOMAIN tab.data[r] = DOMAIN tab.columns

(* The width of a column is a number that its heading and its values do    *)
(* not exceed, in runes as in bytes.                                       *)
LEMMA WidthCovers ==
    ASSUME TextIsMeasured, NEW tab, IsSeq(tab.data), NEW i \in DOMAIN tab.columns
    PROVE  /\ widths(tab)[i] \in Nat
           /\ \A v \in {Heading(tab.columns[i])} \cup Cells(tab, i) :
                 RunesOf(v) \in 0 .. widths(tab)[i]
<1> DEFINE V == {Heading(tab.columns[i])} \cup Cells(tab, i)
           n == Len(tab.data)
           value == [k \in 0 .. n |->
                        IF k = 0 THEN Heading(tab.columns[i]) ELSE tab.data[k][i]]
           length == [k \in 0 .. n |-> BytesOf(value[k])]
           S == {BytesOf(v) : v \in V}
<1>1. n \in Nat /\ DOMAIN tab.data = 1 .. n
  BY SeqDomain
<1>2. V = {value[k] : k \in 0 .. n}
  <2>1. \A k \in 1 .. n : value[k] = tab.data[k][i]
    BY <1>1
  <2>2. value[0] = Heading(tab.columns[i])
    BY <1>1
  <2>3. Cells(tab, i) = {value[k] : k \in 1 .. n}
    BY <1>1, <2>1 DEF Cells
  <2>4. 0 .. n = {0} \cup 1 .. n
    BY <1>1
  <2> HIDE DEF value
  <2> QED
    BY <2>2, <2>3, <2>4
<1> HIDE DEF value
<1>3. S = {length[k] : k \in 0 .. n}
  BY <1>2
<1>4. length \in Surjection(0 .. n, S)
  BY <1>3 DEF Surjection
<1>5. IsFiniteSet(0 .. n)
  BY <1>1, FS_Interval
<1>6. IsFiniteSet(S)
  BY <1>4, <1>5, FS_Surjection
<1>7. S \subseteq Nat /\ S # {}
  BY CellIsMeasured
<1>8. Max(S) \in S /\ \A x \in S : x <= Max(S)
  <2>1. S \subseteq Int
    BY <1>7
  <2> HIDE DEF S
  <2> QED
    BY <1>6, <1>7, <2>1, MaxIs
<1>9. widths(tab)[i] = Max(S)
  BY DEF widths
<1> DEFINE m == Max(S)
<1>10. m \in Nat /\ \A v \in V : BytesOf(v) <= m
  BY <1>7, <1>8
<1> HIDE DEF m
<1>11. \A v \in V : RunesOf(v) \in 0 .. m
  BY <1>10, CellIsMeasured
<1> QED
  BY <1>9, <1>10, <1>11 DEF m

(* Padded to its column's width, a row of a table that fits takes the same *)
(* room as the separator.                                                  *)
LEMMA PaddedIsWidths ==
    ASSUME TextIsMeasured, NEW tab, IsSeq(tab.data), NEW row,
           DOMAIN row = DOMAIN tab.columns,
           \A i \in DOMAIN tab.columns :
              row[i] \in {Heading(tab.columns[i])} \cup Cells(tab, i)
    PROVE  Padded(tab, row) = widths(tab)
<1>1. ASSUME NEW i \in DOMAIN tab.columns
      PROVE  Max({widths(tab)[i], RunesOf(row[i])}) = widths(tab)[i]
  <2>1. widths(tab)[i] \in Nat /\ RunesOf(row[i]) \in 0 .. widths(tab)[i]
    BY <1>1, WidthCovers
  <2> DEFINE w == widths(tab)[i]
             r == RunesOf(row[i])
             S == {w, r}
  <2>2. S \subseteq Int /\ w \in S /\ \A x \in S : x <= w
    BY <2>1
  <2> HIDE DEF S
  <2>3. Max(S) = w
    BY <2>2, ExtremeIs
  <2> QED
    BY <2>3 DEF S
<1>2. DOMAIN widths(tab) = DOMAIN tab.columns
  BY DEF widths
<1>3. widths(tab) = [i \in DOMAIN tab.columns |-> widths(tab)[i]]
  BY DEF widths
<1>4. Padded(tab, row) =
        [i \in DOMAIN tab.columns |-> Max({widths(tab)[i], RunesOf(row[i])})]
  BY DEF Padded
<1> QED
  BY <1>1, <1>3, <1>4

(* Every line of a table that fits is as wide as its separator. *)
LEMMA LinesAreWidths ==
    ASSUME TextIsMeasured, NEW tab, Fits(tab), NEW i \in DOMAIN Table(tab)
    PROVE  Table(tab)[i] = widths(tab)
<1> DEFINE n == Len(tab.data)
           headings == [k \in DOMAIN tab.columns |-> Heading(tab.columns[k])]
           first == <<Padded(tab, headings), widths(tab)>>
           rows == [r \in DOMAIN tab.data |-> Padded(tab, tab.data[r])]
<1>1. n \in Nat /\ DOMAIN tab.data = 1 .. n /\ IsSeq(tab.data)
  BY SeqDomain DEF Fits
<1>2. Padded(tab, headings) = widths(tab)
  <2>1. DOMAIN headings = DOMAIN tab.columns
    OBVIOUS
  <2>2. \A k \in DOMAIN tab.columns :
          headings[k] \in {Heading(tab.columns[k])} \cup Cells(tab, k)
    OBVIOUS
  <2> HIDE DEF headings
  <2> QED
    BY <1>1, <2>1, <2>2, PaddedIsWidths
<1>3. \A r \in DOMAIN tab.data : Padded(tab, tab.data[r]) = widths(tab)
  <2> TAKE r \in DOMAIN tab.data
  <2>1. DOMAIN tab.data[r] = DOMAIN tab.columns
    BY DEF Fits
  <2>2. \A k \in DOMAIN tab.columns :
          tab.data[r][k] \in {Heading(tab.columns[k])} \cup Cells(tab, k)
    BY DEF Cells
  <2> QED
    BY <1>1, <2>1, <2>2, PaddedIsWidths
<1>4. first \in Seq({widths(tab)}) /\ Len(first) = 2
  BY <1>2
<1>5. rows \in Seq({widths(tab)}) /\ Len(rows) = n
  <2>1. rows \in [1 .. n -> {widths(tab)}]
    BY <1>1, <1>3
  <2> QED
    BY <1>1, <2>1
<1>6. Table(tab) = first \o rows
  BY DEF Table
<1> HIDE DEF first, rows
<1>7. first \o rows \in Seq({widths(tab)})
  BY <1>4, <1>5, ConcatProperties
<1> QED
  BY <1>6, <1>7

(* What a SELECT has collected, under the headings it will return. *)
Collected ==
    [columns |-> ResultNames(stmt.exprs, Scanned.columns), data |-> scan.out]

(* What holds of results in every state: what is returned, and what a      *)
(* SELECT has collected, is a table whose rows are as wide as its          *)
(* headings.                                                               *)
ResultsOK ==
    /\ Fits(outcome.table)
    /\ DOMAIN scan = {"row", "set", "out"}
    /\ Scanning({"select"}) => Fits(Collected)

(* No result is a table of no lines that differ. *)
LEMMA NoTableFits == Fits(NoTable)
BY EmptyIsSeq DEF NoTable, Fits

(* No statement has been submitted at first. *)
LEMMA ResultsInit == ProgramInit => ResultsOK
BY NoTableFits DEF ProgramInit, Init, Returned, StartOfScan, ResultsOK, Scanning, Evaluating

(* A statement begins with no row collected. *)
LEMMA SubmitKeepsResults == ASSUME NEW s, Submit(s) PROVE ResultsOK'
<1>1. outcome' = Pending /\ scan' = StartOfScan
  BY DEF Submit
<1>2. Fits(outcome.table)'
  BY <1>1, NoTableFits DEF Pending
<1>3. DOMAIN scan' = {"row", "set", "out"}
  BY <1>1 DEF StartOfScan
<1>4. Fits(Collected)'
  BY <1>1, EmptyIsSeq DEF StartOfScan, Collected, Fits
<1> QED
  BY <1>2, <1>3, <1>4 DEF ResultsOK

(* The row of a match has a value for each heading: both are made from the *)
(* projection of the SELECT over the columns of the table.                 *)
LEMMA SelectRowKeepsResults == ResultsOK /\ SelectRow => ResultsOK'
<1> SUFFICES ASSUME ResultsOK, SelectRow PROVE ResultsOK'
  OBVIOUS
<1> DEFINE result == Project(stmt.exprs, CurrentNamespace)
<1>1. /\ Fits(outcome.table) /\ Fits(Collected)
      /\ DOMAIN scan = {"row", "set", "out"}
      /\ UNCHANGED <<tables, stmt>>
  BY DEF ResultsOK, SelectRow, AtRow
<1>2. DOMAIN result = DOMAIN ResultNames(stmt.exprs, Scanned.columns)
  BY DEF Project, ResultNames, CurrentNamespace, Namespace
<1> HIDE DEF result
<1>3. CASE scan' = NextRow /\ UNCHANGED outcome
  <2>1. scan'.out = scan.out /\ DOMAIN scan' = {"row", "set", "out"}
    BY <1>1, <1>3 DEF NextRow
  <2>2. Collected' = Collected
    BY <1>1, <2>1 DEF Collected, Scanned
  <2> QED
    BY <1>1, <1>3, <2>1, <2>2 DEF ResultsOK, Fits
<1>4. CASE scan' = Collect(result) /\ UNCHANGED outcome
  <2>1. scan'.out = Append(scan.out, result) /\ DOMAIN scan' = {"row", "set", "out"}
    BY <1>1, <1>4 DEF Collect
  <2>2. /\ IsSeq(scan.out)
        /\ \A r \in DOMAIN scan.out :
              DOMAIN scan.out[r] = DOMAIN ResultNames(stmt.exprs, Scanned.columns)
    BY <1>1 DEF Fits, Collected
  <2>3. /\ IsSeq(Append(scan.out, result))
        /\ \A r \in DOMAIN Append(scan.out, result) :
              DOMAIN Append(scan.out, result)[r]
                = DOMAIN ResultNames(stmt.exprs, Scanned.columns)
    BY <1>2, <2>2, AppendIsSeq, SeqDomain
  <2>4. Fits(Collected)'
    BY <1>1, <2>1, <2>3 DEF Fits, Collected, Scanned
  <2> QED
    BY <1>1, <1>4, <2>1, <2>4 DEF ResultsOK, Fits
<1>5. CASE Fail /\ UNCHANGED scan
  BY <1>1, <1>5, NoTableFits, FailedIsOK DEF Fail, Failed, ResultsOK, Scanning, Evaluating
<1> QED
  BY <1>3, <1>4, <1>5 DEF SelectRow, result

(* A SELECT returns what it has collected. *)
LEMMA SelectEndKeepsResults == ResultsOK /\ SelectEnd => ResultsOK'
<1> SUFFICES ASSUME ResultsOK, SelectEnd PROVE ResultsOK'
  OBVIOUS
<1>1. outcome' = Returned(Collected) /\ UNCHANGED scan
  BY DEF SelectEnd, Return, Collected
<1>2. Fits(Collected) /\ DOMAIN scan = {"row", "set", "out"}
  BY DEF SelectEnd, ResultsOK
<1>3. outcome'.table = Collected /\ outcome' # Pending
  BY <1>1 DEF Returned, Pending
<1> QED
  BY <1>1, <1>2, <1>3 DEF ResultsOK, Scanning, Evaluating, Fits

(* Any other statement returns no table. *)
LEMMA OthersKeepResults ==
    ASSUME ResultsOK, DOMAIN scan' = DOMAIN scan,
           stmt' = stmt, stmt.kind # "select" \/ outcome' # Pending,
           outcome' \in {outcome, Failed, Returned(NoTable)}
    PROVE  ResultsOK'
<1>1. Fits(outcome.table)'
  BY NoTableFits DEF ResultsOK, Failed, Returned, Fits
<1>2. ~Scanning({"select"})'
  BY DEF Scanning, Evaluating
<1> QED
  BY <1>1, <1>2 DEF ResultsOK

(* Every step of the evaluator keeps what is collected as wide as it is to *)
(* be returned.                                                            *)
LEMMA EvaluateKeepsResults == ResultsOK /\ Evaluate => ResultsOK'
<1> SUFFICES ASSUME ResultsOK, Evaluate PROVE ResultsOK'
  OBVIOUS
<1>1. Failed # Pending /\ \A t : Returned(t) # Pending
  BY DEF Failed, Returned, Pending
<1>2. CASE CreateTable
  BY <1>2, OthersKeepResults DEF CreateTable, Evaluating, Fail, Return
<1>3. CASE InsertStmt
  BY <1>3, OthersKeepResults DEF InsertStmt, InsertRow, Evaluating, Fail, Return
<1>4. CASE NoSuchTable \/ WherePanics
  BY <1>1, <1>4, OthersKeepResults DEF NoSuchTable, WherePanics, Fail
<1>5. CASE SelectRow
  BY <1>5, SelectRowKeepsResults
<1>6. CASE SelectEnd
  BY <1>6, SelectEndKeepsResults
<1>7. CASE UpdateRow \/ DeleteRow
  <2>1. DOMAIN NextRow = DOMAIN scan /\ DOMAIN [scan EXCEPT !.set = 1] = DOMAIN scan
    BY DEF NextRow
  <2>2. DOMAIN Collect(CurrentRow) = DOMAIN scan
    BY DEF Collect
  <2>3. DOMAIN scan' = DOMAIN scan /\ stmt' = stmt /\ outcome' = outcome /\ stmt.kind # "select"
    BY <1>7, <2>1, <2>2 DEF UpdateRow, DeleteRow, AtRow, Scanning, Evaluating
  <2> QED
    BY <2>3, OthersKeepResults
<1>8. CASE UpdateSet
  <2>1. DOMAIN AfterAssignment = DOMAIN scan
    BY DEF AfterAssignment, NextRow
  <2>2. DOMAIN scan' = DOMAIN scan /\ stmt' = stmt /\ stmt.kind # "select"
    BY <1>8, <2>1 DEF UpdateSet, Scanning, Evaluating
  <2>3. outcome' \in {outcome, Failed}
    BY <1>8 DEF UpdateSet, Fail
  <2> QED
    BY <2>2, <2>3, OthersKeepResults
<1>9. CASE UpdateEnd \/ DeleteEnd
  BY <1>1, <1>9, OthersKeepResults DEF UpdateEnd, DeleteEnd, Return
<1> QED
  BY <1>2, <1>3, <1>4, <1>5, <1>6, <1>7, <1>8, <1>9 DEF Evaluate

(* The command prints only what the evaluator has returned. *)
LEMMA NextResults ==
    ASSUME TextIsMeasured, AnswersOK, ResultsOK, TablesAreAligned,
           [ProgramNext]_programVars
    PROVE  ResultsOK' /\ TablesAreAligned'
<1>1. ASSUME UNCHANGED <<tables, stmt, scan, outcome>> PROVE ResultsOK'
  BY <1>1 DEF ResultsOK, Fits, Scanning, Evaluating, Collected, Scanned
<1>2. ASSUME UNCHANGED printed PROVE TablesAreAligned'
  BY <1>2 DEF TablesAreAligned
<1>3. CASE ParseAll
  BY <1>1, <1>2, <1>3 DEF ParseAll, vars
<1>4. CASE EvaluateNext
  BY <1>2, <1>4, SubmitKeepsResults DEF EvaluateNext
<1>5. CASE EvaluateOn
  BY <1>2, <1>5, EvaluateKeepsResults DEF EvaluateOn
<1>6. CASE PrintAnswer
  <2>1. ResultsOK'
    BY <1>1, <1>6 DEF PrintAnswer, vars
  <2>2. Fits(outcome.table)
    BY DEF ResultsOK
  <2>3. \A i, j \in DOMAIN Table(outcome.table) :
          Table(outcome.table)[i] = Table(outcome.table)[j]
    BY <2>2, LinesAreWidths
  <2>4. ASSUME NEW k \in DOMAIN printed'
        PROVE  \A i, j \in DOMAIN printed'[k].lines :
                  printed'[k].lines[i] = printed'[k].lines[j]
    <3>1. CASE k \in DOMAIN printed
      <4>1. printed'[k] = printed[k]
        BY <1>6, <3>1, PrintedAnswers, SeqDomain DEF AnswersOK
      <4> QED
        BY <3>1, <4>1 DEF TablesAreAligned
    <3>2. CASE k \notin DOMAIN printed
      <4>1. printed'[k].lines \in {<<>>, Table(outcome.table)}
        BY <1>6, <2>4, <3>2, PrintedAnswers
      <4> QED
        BY <2>3, <4>1
    <3> QED
      BY <3>1, <3>2
  <2> QED
    BY <2>1, <2>4 DEF TablesAreAligned
<1>7. CASE UNCHANGED programVars
  BY <1>1, <1>2, <1>7 DEF programVars, vars
<1> QED
  BY <1>3, <1>4, <1>5, <1>6, <1>7 DEF ProgramNext

(* All lines of a table that is printed give each column the same room,    *)
(* for any text that has no more runes than bytes: the widths are counted  *)
(* in bytes with len, and filled by fmt in runes.                          *)
THEOREM PrintedTablesAreAligned ==
    ASSUME TextIsMeasured
    PROVE  ProgramSpec => []TablesAreAligned
<1>1. ProgramInit => TablesAreAligned
  BY DEF ProgramInit, TablesAreAligned
<1>2. AnswersOK /\ ResultsOK /\ TablesAreAligned /\ [ProgramNext]_programVars
        => AnswersOK' /\ ResultsOK' /\ TablesAreAligned'
  BY NextAnswers, NextResults
<1> QED
  BY <1>1, <1>2, AnswersInit, ResultsInit, PTL DEF ProgramSpec

-----------------------------------------------------------------------------
(* The parser of the command is the one that ParserProofs is about: both   *)
(* instances define the same.                                              *)

PP == INSTANCE ParserProofs WITH outcome <- parsed

(* What a step of the parser comes to. *)
LEMMA SameSteps ==
    \A step : P!Steps(step) = PP!Steps(step)
BY DEF P!Steps, PP!Steps, P!Match, PP!Match, P!Call, PP!Call, P!Make, PP!Make,
     P!Part, PP!Part, P!Push, PP!Push, P!Binary, PP!Binary, P!Operators,
     PP!Operators, P!Expr, PP!Expr, P!Expected, PP!Expected, P!More, PP!More,
     P!ListOf, PP!ListOf, P!Kind, PP!Kind, P!dataTypeFromToken,
     PP!dataTypeFromToken, P!DataTypes, PP!DataTypes,
     P!parseColumnDefinition, PP!parseColumnDefinition, P!parseDataType,
     PP!parseDataType, P!parseNullable, PP!parseNullable,
     P!parseCreateTableStmt, PP!parseCreateTableStmt, P!parseWhere,
     PP!parseWhere, P!NoWhere, PP!NoWhere, P!parseSelectStmt,
     PP!parseSelectStmt, P!parseInsertColumns, PP!parseInsertColumns,
     P!parseInsertStmt, PP!parseInsertStmt, P!parseSetClause,
     PP!parseSetClause, P!parseAssignment, PP!parseAssignment,
     P!parseUpdateStmt, PP!parseUpdateStmt, P!parseDeleteStmt,
     PP!parseDeleteStmt, P!parseStmt, PP!parseStmt, P!Precedence,
     PP!Precedence, P!ComparisonOps, PP!ComparisonOps, P!parseExprOrStar,
     PP!parseExprOrStar, P!SelectStar, PP!SelectStar, P!parseBinaryExpr,
     PP!parseBinaryExpr, P!parseOperators, PP!parseOperators,
     P!parseUnaryExpr, PP!parseUnaryExpr, P!BinaryExpr, PP!BinaryExpr,
     P!UnaryExpr, PP!UnaryExpr, P!Literal, PP!Literal, P!BooleanValue,
     PP!BooleanValue, P!Null, PP!Null, P!parseArguments, PP!parseArguments

(* The nodes it makes. *)
LEMMA SameNode ==
    \A part, v : P!Node(part, v) = PP!Node(part, v)
BY DEF P!Node, PP!Node, P!FunctionCall, PP!FunctionCall, P!UnaryExpr,
     PP!UnaryExpr, P!BinaryExpr, PP!BinaryExpr, P!NamesOf, PP!NamesOf,
     P!Targets, PP!Targets, P!Assigned, PP!Assigned

(* What a token leaves. *)
LEMMA SameLeaf ==
    \A token : P!Leaf(token) = PP!Leaf(token)
BY DEF P!Leaf, PP!Leaf, P!Ident, PP!Ident, P!Literal, PP!Literal,
     P!parseNumberLiteral, PP!parseNumberLiteral, P!NumberValue,
     PP!NumberValue, P!IntegerValue, PP!IntegerValue, P!MaxInt, PP!MaxInt,
     P!StringValue, PP!StringValue

(* The steps of the one are those of the other. *)
LEMMA SameNext == P!Next => PP!Next
<1>1. P!ParseInput => PP!ParseInput
  BY DEF P!ParseInput, PP!ParseInput, P!Pending, PP!Pending, P!Returned,
       PP!Returned, P!Failed, PP!Failed
<1>2. P!parseStmtList => PP!parseStmtList
  BY DEF P!parseStmtList, PP!parseStmtList, P!Parsing, PP!Parsing, P!Kind,
       PP!Kind, P!Call, PP!Call, P!Match, PP!Match, P!Pending, PP!Pending,
       P!Returned, PP!Returned
<1>3. P!CallMethod => PP!CallMethod
  BY SameSteps DEF P!CallMethod, PP!CallMethod, P!Doing, PP!Doing, P!Parsing, PP!Parsing,
       P!Pending, PP!Pending
<1>4. P!MakeNode => PP!MakeNode
  BY SameNode DEF P!MakeNode, PP!MakeNode, P!Doing, PP!Doing, P!Parsing, PP!Parsing,
       P!Pending, PP!Pending
<1>5. P!MatchToken => PP!MatchToken
  BY SameLeaf DEF P!MatchToken, PP!MatchToken, P!Doing, PP!Doing, P!Parsing, PP!Parsing,
       P!Kind, PP!Kind, P!Pending, PP!Pending, P!Failed, PP!Failed
<1>6. P!NoMatch => PP!NoMatch
  BY DEF P!NoMatch, PP!NoMatch, P!Doing, PP!Doing, P!Parsing, PP!Parsing,
       P!Kind, PP!Kind, P!Pending, PP!Pending, P!Failed, PP!Failed
<1> QED
  BY <1>1, <1>2, <1>3, <1>4, <1>5, <1>6 DEF P!Next, PP!Next

(* It begins in the same state, from the same tokens. *)
LEMMA SameInit == P!Init => PP!Init
BY DEF P!Init, PP!Init, P!Pending, PP!Pending

LEMMA SameInput == PP!InputAssumption
BY InputIsLexed
   DEF P!InputAssumption, PP!InputAssumption, P!Endings, PP!Endings, P!IsSeq, PP!IsSeq

LEMMA SameCardinality == \A S : PP!Cardinality(S) = Cardinality(S)
BY DEF PP!Cardinality, Cardinality

(* So what ParserProofs shows of a parser holds of the command's, whatever *)
(* else the command does.                                                  *)
LEMMA ParserBegins == ProgramInit => PP!ParserOK
BY SameInit, SameInput, IntBitsAssumption, PowersOfTwo, PP!ParserInit DEF ProgramInit

LEMMA ParserGoesOn == PP!ParserOK /\ [ProgramNext]_programVars => PP!ParserOK'
<1> SUFFICES ASSUME PP!ParserOK, [ProgramNext]_programVars PROVE PP!ParserOK'
  OBVIOUS
<1>1. ASSUME UNCHANGED parserVars PROVE UNCHANGED PP!vars
  BY <1>1 DEF parserVars, PP!vars
<1>2. [PP!Next]_PP!vars
  BY <1>1, SameNext
     DEF ProgramNext, ParseAll, EvaluateNext, EvaluateOn, PrintAnswer, programVars
<1> QED
  BY <1>2, SameInput, IntBitsAssumption, PowersOfTwo, PP!ParserStep

-----------------------------------------------------------------------------
(* The evaluator of the command is given nothing that it cannot evaluate,  *)
(* so that what holds of every statement holds of the ones that are read.  *)

(* What StmtOK asks for is the same of what is parsed. *)
LEMMA SameStmtOK == \A s : PP!StmtOK(s, STRING, STRING) => Evaluable(s)
BY NamesAreStrings DEF PP!StmtOK, StmtOK, PP!IsSeq, IsSeq, PP!Type, Type, Evaluable

(* The statements of the script are numbered from 1. *)
LEMMA ScriptIsEvaluable ==
    ASSUME PP!ParserOK, NEW n \in Nat, n < Len(Script)
    PROVE  n + 1 \in DOMAIN Script /\ Evaluable(Script[n + 1])
<1>1. Len(<<>>) = 0
  OBVIOUS
<1>2. parsed.status = "ok" /\ Script = parsed.nodes
  BY <1>1 DEF Script
<1>3. PP!IsSeq(parsed.nodes) /\ PP!StmtsAreOK
  BY DEF PP!ParserOK
<1>4. IsSeq(Script)
  BY <1>2, <1>3 DEF PP!IsSeq, IsSeq
<1>5. n + 1 \in DOMAIN Script
  BY <1>4, SeqDomain
<1>6. PP!StmtOK(Script[n + 1], STRING, STRING)
  BY <1>2, <1>3, <1>5 DEF PP!StmtsAreOK
<1> QED
  BY <1>5, <1>6, SameStmtOK

(* What the command does to the evaluator is a step of the evaluator. *)
LEMMA CommandSteps ==
    PP!ParserOK /\ AnswersOK /\ [ProgramNext]_programVars => Step
<1> SUFFICES ASSUME PP!ParserOK, AnswersOK, [ProgramNext]_programVars PROVE Step
  OBVIOUS
<1>1. CASE EvaluateNext
  <2>1. done \in Nat /\ done < Len(Script) /\ Submit(Script[done + 1])
    BY <1>1 DEF EvaluateNext, AnswersOK
  <2>2. Evaluable(Script[done + 1])
    BY <2>1, ScriptIsEvaluable
  <2> QED
    BY <2>1, <2>2 DEF Step
<1>2. CASE EvaluateOn
  BY <1>2 DEF EvaluateOn, Step
<1>3. CASE UNCHANGED vars
  BY <1>3 DEF Step
<1> QED
  BY <1>1, <1>2, <1>3 DEF ProgramNext, ParseAll, PrintAnswer, programVars

(* The invariant of the command. *)
CommandOK == PP!ParserOK /\ AnswersOK /\ TypeOK

LEMMA CommandInvariant == ProgramSpec => []CommandOK
<1>1. ProgramInit => CommandOK
  BY ParserBegins, AnswersInit, InitType DEF CommandOK, ProgramInit
<1>2. CommandOK /\ [ProgramNext]_programVars => CommandOK'
  BY ParserGoesOn, NextAnswers, CommandSteps, NextType DEF CommandOK
<1> QED
  BY <1>1, <1>2, PTL DEF ProgramSpec

LEMMA CommandIsStep == CommandOK /\ [ProgramNext]_programVars => TypeOK /\ Step
BY CommandSteps DEF CommandOK

(* TypeOK: whatever the input, the tables of the command hold rows of      *)
(* their columns and its loops stay within them.                           *)
THEOREM CommandIsTyped == ProgramSpec => []TypeOK
<1>1. CommandOK => TypeOK
  BY DEF CommandOK
<1> QED
  BY <1>1, CommandInvariant, PTL

(* SchemaIsStable: no input drops a table or changes a column of one.      *)
THEOREM CommandKeepsSchema == ProgramSpec => SchemaIsStable
<1>1. CommandOK /\ [ProgramNext]_programVars =>
        [\A t \in DOMAIN tables :
            /\ t \in DOMAIN tables'
            /\ Schema(tables'[t].columns) = Schema(tables[t].columns)]_vars
  BY CommandIsStep, NextKeepsSchema
<1> QED
  BY <1>1, CommandInvariant, PTL DEF ProgramSpec, SchemaIsStable

(* FailureKeepsRows: a statement of the input that fails, other than an    *)
(* UPDATE, leaves every row as it was.                                     *)
THEOREM CommandKeepsRows == ProgramSpec => []FailureKeepsRows
<1>1. ProgramInit => PendingKeepsTables /\ FailureKeepsRows
  BY DEF ProgramInit, Init, PendingKeepsTables, FailureKeepsRows, Returned, Failed, Pending
<1>2. CommandOK /\ PendingKeepsTables /\ FailureKeepsRows /\ [ProgramNext]_programVars
        => PendingKeepsTables' /\ FailureKeepsRows'
  BY CommandIsStep, NextKeepsRows
<1> QED
  BY <1>1, <1>2, CommandInvariant, PTL DEF ProgramSpec

(* ColumnConstraints: after any input, a value that its column does not    *)
(* accept has been put there by an UPDATE.                                 *)
THEOREM CommandKeepsConstraints == ProgramSpec => []ColumnConstraints
<1>1. ProgramInit => ConstraintsInv
  BY DEF ProgramInit, Init, ConstraintsInv, ColumnConstraints, CollectedConstraints, Scanning
<1>2. CommandOK /\ ConstraintsInv /\ [ProgramNext]_programVars => ConstraintsInv'
  BY CommandIsStep, NextKeepsConstraints
<1>3. ConstraintsInv => ColumnConstraints
  BY DEF ConstraintsInv
<1> QED
  BY <1>1, <1>2, <1>3, CommandInvariant, PTL DEF ProgramSpec

(* UpdateFrame: an UPDATE of the input writes only to its table, to the    *)
(* columns of its SET clause, and to rows that matched when it began.      *)
THEOREM CommandKeepsFrame == ProgramSpec => []UpdateFrame
<1>1. ProgramInit => UpdateInv
  BY DEF ProgramInit, Init, UpdateInv, UpdateFrame, UpdateLoop, Scanning, Evaluating
<1>2. CommandOK /\ UpdateInv /\ [ProgramNext]_programVars => UpdateInv'
  BY CommandIsStep, NextKeepsFrame
<1>3. UpdateInv => UpdateFrame
  BY DEF UpdateInv
<1> QED
  BY <1>1, <1>2, <1>3, CommandInvariant, PTL DEF ProgramSpec

(* ScriptIsAtomic: the command does to the tables what the statements of   *)
(* its input do, in order and each as a whole.                             *)
THEOREM CommandIsAtomic == ProgramSpec => ScriptIsAtomic
<1> DEFINE AStep == \/ /\ done' = done + 1 /\ done' \in DOMAIN Script
                       /\ Atomic!Submit(Script[done'])
                    \/ UNCHANGED done /\ Atomic!Answer(stmt)
<1>1. ProgramInit => Atomic!Init /\ Progress
  BY SameTables, InitProgress
     DEF ProgramInit, Init, Atomic!Init, Returned, Pending
<1>2. CommandOK /\ Progress /\ [ProgramNext]_programVars => Progress'
  BY CommandIsStep, NextProgress
<1>3. CommandOK /\ Progress /\ [ProgramNext]_programVars
        => [AStep]_<<Atomic!vars, done>>
  <2> SUFFICES ASSUME CommandOK, Progress, [ProgramNext]_programVars
               PROVE  AStep \/ UNCHANGED <<Atomic!vars, done>>
    OBVIOUS
  <2>1. TypeOK /\ PP!ParserOK /\ done \in Nat
    BY DEF CommandOK, AnswersOK
  <2>2. CASE EvaluateNext
    <3>1. done' = done + 1 /\ done < Len(Script) /\ Submit(Script[done + 1])
      BY <2>2 DEF EvaluateNext
    <3>2. done + 1 \in DOMAIN Script
      BY <2>1, <3>1, ScriptIsEvaluable
    <3>3. Atomic!Submit(Script[done + 1])
      BY <3>1, SubmitSimulates
    <3> QED
      BY <3>1, <3>2, <3>3
  <2>3. CASE EvaluateOn \/ (UNCHANGED vars /\ UNCHANGED done)
    <3>1. UNCHANGED done /\ (Evaluate \/ UNCHANGED vars)
      BY <2>3 DEF EvaluateOn
    <3>2. Atomic!Answer(stmt) \/ UNCHANGED Atomic!vars
      BY <2>1, <3>1, EvaluateSimulates
    <3> QED
      BY <3>1, <3>2
  <2> QED
    BY <2>2, <2>3 DEF ProgramNext, ParseAll, PrintAnswer, programVars
<1> QED
  BY <1>1, <1>2, <1>3, CommandInvariant, PTL DEF ProgramSpec, ScriptIsAtomic

-----------------------------------------------------------------------------
(* All of the input or nothing of it.                                      *)

(* Until all of the input has been parsed, or if it cannot be, nothing has *)
(* an effect or an answer; when the command ends it has evaluated one      *)
(* statement for each semicolon of what has been parsed.                   *)
ParsedOrNothing ==
    /\ parsed.status # "ok" => DOMAIN tables = {} /\ done = 0 /\ printed = <<>>
    /\ Ended /\ parsed.status = "ok" =>
         done = Cardinality({i \in DOMAIN input : input[i].kind = ";"})

(* Nothing is begun before that. *)
NothingBegun ==
    parsed.status # "ok" =>
        /\ DOMAIN tables = {} /\ done = 0 /\ printed = <<>>
        /\ outcome # Pending

THEOREM AllOfTheInputOrNothing == ProgramSpec => []ParsedOrNothing
<1>1. ProgramInit => NothingBegun
  BY DEF ProgramInit, Init, NothingBegun, Returned, Pending
<1>2. CommandOK /\ NothingBegun /\ [ProgramNext]_programVars => NothingBegun'
  <2> SUFFICES ASSUME CommandOK, NothingBegun, [ProgramNext]_programVars,
                      parsed'.status # "ok"
               PROVE  NothingBegun'
    BY DEF NothingBegun
  <2>1. CASE ParseAll
    <3>1. pos = 0 \/ parsed = P!Pending
      BY <2>1 DEF ParseAll, P!Next, P!ParseInput, P!parseStmtList, P!CallMethod,
             P!MakeNode, P!MatchToken, P!NoMatch, P!Doing, P!Parsing
    <3>2. parsed = P!Pending
      BY <3>1 DEF CommandOK, PP!ParserOK, P!Pending, PP!Pending
    <3>3. parsed.status # "ok"
      BY <3>2 DEF P!Pending
    <3> QED
      BY <2>1, <3>3 DEF ParseAll, NothingBegun, vars
  <2>2. CASE EvaluateNext
    <3>1. parsed' = parsed
      BY <2>2 DEF EvaluateNext, parserVars
    <3>2. Script = <<>> /\ done = 0
      BY <3>1 DEF Script, NothingBegun
    <3>3. Len(Script) = 0
      BY <3>2
    <3> QED
      BY <2>2, <3>2, <3>3 DEF EvaluateNext
  <2>3. CASE EvaluateOn
    <3>1. parsed' = parsed /\ outcome = Pending
      BY <2>3, EvaluatesPending DEF EvaluateOn, parserVars
    <3> QED
      BY <3>1 DEF NothingBegun
  <2>4. CASE PrintAnswer
    <3>1. parsed' = parsed /\ ~Answered
      BY <2>4 DEF PrintAnswer, parserVars
    <3> QED
      BY <3>1 DEF NothingBegun, Answered
  <2>5. CASE UNCHANGED programVars
    BY <2>5 DEF NothingBegun, programVars, parserVars, vars
  <2> QED
    BY <2>1, <2>2, <2>3, <2>4, <2>5 DEF ProgramNext
<1>3. CommandOK /\ NothingBegun => ParsedOrNothing
  <2> DEFINE semicolons == {i \in DOMAIN input : input[i].kind = ";"}
  <2>1. CommandOK /\ parsed.status = "ok" =>
          Script = parsed.nodes /\ Len(parsed.nodes) = Cardinality(semicolons)
    BY SameCardinality, Zenon DEF CommandOK, PP!ParserOK, PP!AllIsRead, Script
  <2> HIDE DEF semicolons
  <2>2. CommandOK /\ Ended /\ parsed.status = "ok" => done = Cardinality(semicolons)
    BY <2>1 DEF Ended
  <2> QED
    BY <2>2, Zenon DEF NothingBegun, ParsedOrNothing, semicolons
<1> QED
  BY <1>1, <1>2, <1>3, CommandInvariant, PTL DEF ProgramSpec

=============================================================================
