------------------------------ MODULE Program ------------------------------
(***************************************************************************)
(* The command of cmd/evaluate: it parses all of its input, evaluates the  *)
(* statements in one environment, and prints an answer to each, a table as *)
(* pprint/table.go lays it out.  The parser is Parser, the evaluator is    *)
(* Database, and this module is what runs one after the other.             *)
(*                                                                         *)
(* Of a table that is printed the widths are kept, not the characters.     *)
(***************************************************************************)
EXTENDS Database, FiniteSetsExt

CONSTANTS
    Input,          \* what the lexer may find, as in Parser
    Bytes(_),       \* the length, in bytes, of a heading or value as text
    Runes(_)        \* its length in runes, which is what fmt pads

VARIABLES
    input, pos, todo, built,    \* as in Parser
    parsed,     \* what Parse returned: the outcome of Parser
    done,       \* how many statements have been given to EvalStmt
    printed     \* the answers so far, each with the number of its statement

P == INSTANCE Parser WITH outcome <- parsed

(* What the lexer finds, and that any text is the name of a table or of a  *)
(* column: the evaluator is given whatever identifiers are in the input.   *)
ASSUME InputIsLexed == P!InputAssumption
ASSUME NamesAreStrings == TableName = STRING /\ ColumnName = STRING

parserVars == <<input, pos, todo, built, parsed>>
programVars == <<vars, parserVars, done, printed>>

ProgramInit == Init /\ P!Init /\ done = 0 /\ printed = <<>>

-----------------------------------------------------------------------------
(* pprint.Table *)

Heading(name) == [type |-> "Heading", val |-> name]

(* The text of valueStr: a null is printed as nothing. *)
BytesOf(v) == IF v = Null THEN 0 ELSE Bytes(v)
RunesOf(v) == IF v = Null THEN 0 ELSE Runes(v)

Cells(tab, i) == {tab.data[r][i] : r \in DOMAIN tab.data}

(* Faulty widths, which leave room for the values only. *)
widthsOfValues(tab) ==
    [i \in DOMAIN tab.columns |->
        Max({0} \cup {BytesOf(v) : v \in Cells(tab, i)})]

(* The width of a column is counted in bytes. *)
widths(tab) ==
    [i \in DOMAIN tab.columns |->
        Max({BytesOf(v) : v \in {Heading(tab.columns[i])} \cup Cells(tab, i)})]

(* Text is padded to a number of runes, and never cut. *)
Padded(tab, row) ==
    [i \in DOMAIN row |-> Max({widths(tab)[i], RunesOf(row[i])})]

(* The lines of a table, as the room that each takes for each column: the  *)
(* headings, the separator, and the rows.                                  *)
Table(tab) ==
    <<Padded(tab, [i \in DOMAIN tab.columns |-> Heading(tab.columns[i])]),
      widths(tab)>>
        \o [r \in DOMAIN tab.data |-> Padded(tab, tab.data[r])]

-----------------------------------------------------------------------------
(* main *)

(* A faulty Script, of a command that runs what could be parsed. *)
ScriptSoFar ==
    SubSeq(built, 1, Cardinality({i \in 1 .. pos - 1 : input[i].kind = ";"}))

(* Nothing is evaluated unless all of the input has been parsed. *)
Script == IF parsed.status = "ok" THEN parsed.nodes ELSE <<>>

Answer(what, lines) == [of |-> done, what |-> what, lines |-> lines]

Answered == outcome # Pending /\ (done = 0 \/ \E k \in DOMAIN printed :
                printed[k].of = done /\ printed[k].what # "error")

ParseAll == P!Next /\ UNCHANGED <<vars, done, printed>>

(* A faulty EvaluateNext, which may leave an answer unprinted. *)
EvaluateAhead ==
    /\ parsed.status # "pending" /\ outcome # Pending
    /\ done < Len(Script)
    /\ Submit(Script[done + 1])
    /\ done' = done + 1
    /\ UNCHANGED <<parserVars, printed>>

(* A faulty EvaluateNext, which takes the statements from the end. *)
EvaluateLast ==
    /\ parsed.status # "pending" /\ Answered
    /\ done < Len(Script)
    /\ Submit(Script[Len(Script) - done])
    /\ done' = done + 1
    /\ UNCHANGED <<parserVars, printed>>

EvaluateNext ==
    /\ parsed.status # "pending" /\ Answered
    /\ done < Len(Script)
    /\ Submit(Script[done + 1])
    /\ done' = done + 1
    /\ UNCHANGED <<parserVars, printed>>

EvaluateOn == Evaluate /\ UNCHANGED <<parserVars, done, printed>>

(* A faulty PrintAnswer, which gives up at an error. *)
PrintAndStop ==
    /\ ~Answered /\ outcome \notin {Pending, Failed}
    /\ printed' = Append(printed,
            IF outcome.table # NoTable THEN Answer("table", Table(outcome.table))
            ELSE Answer("OK", <<>>))
    /\ UNCHANGED <<vars, parserVars, done>>

(* An error is printed, and then what an INSERT that succeeds prints too:  *)
(* only the result is looked at.                                           *)
PrintAnswer ==
    /\ ~Answered /\ outcome # Pending
    /\ printed' = printed
            \o (IF outcome = Failed THEN <<Answer("error", <<>>)>> ELSE <<>>)
            \o (IF outcome.table # NoTable
                THEN <<Answer("table", Table(outcome.table))>>
                ELSE <<Answer("OK", <<>>)>>)
    /\ UNCHANGED <<vars, parserVars, done>>

ProgramNext == ParseAll \/ EvaluateNext \/ EvaluateOn \/ PrintAnswer

(* The command is one goroutine that waits for nothing once it has read    *)
(* its input.                                                              *)
ProgramSpec ==
    ProgramInit /\ [][ProgramNext]_programVars /\ WF_programVars(ProgramNext)

-----------------------------------------------------------------------------
(* The properties. *)

(* Whatever fails, every statement that has been evaluated has one answer, *)
(* OK or a table, in the order of the input; an error comes before the OK  *)
(* of the same statement and never with a table.                           *)
AnswersTo(n) == {k \in DOMAIN printed : printed[k].of = n}

Ended == parsed.status # "pending" /\ Answered /\ done = Len(Script)

OneAnswerEach ==
    /\ \A j, k \in DOMAIN printed : j < k => printed[j].of <= printed[k].of
    /\ \A n \in 1 .. done : LET answers == {printed[k].what : k \in AnswersTo(n)} IN
        /\ n < done \/ Answered =>
             answers \in {{"OK"}, {"table"}, {"error", "OK"}}
        /\ Cardinality(AnswersTo(n)) = Cardinality(answers)

(* The command does to the tables what the statements of its input do, one *)
(* after the other and each as a whole: while nothing is parsed, and while *)
(* answers are printed, nothing is done to them.                           *)
ScriptIsAtomic ==
    /\ Atomic!Init
    /\ [][\/ /\ done' = done + 1 /\ done' \in DOMAIN Script
             /\ Atomic!Submit(Script[done'])
          \/ UNCHANGED done /\ Atomic!Answer(stmt)]_<<Atomic!vars, done>>

(* The lines of a table that is printed give every column the same room,   *)
(* although it is measured in bytes and filled in runes.                   *)
TablesAreAligned ==
    \A k \in DOMAIN printed : \A i, j \in DOMAIN printed[k].lines :
        printed[k].lines[i] = printed[k].lines[j]

(* The command ends, whatever its input.                                   *)
ScriptEnds == <>[]Ended

=============================================================================
