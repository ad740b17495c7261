# A TLA+ model of toysqleval

toysqleval reads SQL from its standard input, parses it, and evaluates the
statements one after the other in one environment of tables. This directory
holds TLA+ modules that model its lexer, its parser, its evaluator and the
command that runs them, configurations that check them with TLC, and theorems
that the TLA+ proof system checks.

    tlc -config MCDatabase.cfg MCDatabase         # database
    tlc -config MCNotNull.cfg MCDatabase          # not_null, finds a violation
    tlc -config MCAggregates.cfg MCAggregates     # aggregates
    tlc -config MCFloatExtremes.cfg MCAggregates  # float_extremes, finds a violation
    tlc -config MCLexer.cfg MCLexer               # lexer
    tlc -config MCWideWord.cfg MCLexer            # wide_word, finds a violation
    tlc -config MCStringLines.cfg MCLexer         # string_lines, finds a violation
    tlc -config MCForeignDigit.cfg MCLexer        # foreign_digit, finds a violation
    tlc -config MCParser.cfg MCParser             # parser
    tlc -config MCSwallowedError.cfg MCParser     # swallowed_error, finds a violation
    tlc -config MCProgram.cfg MCProgram           # program
    tlc -config MCValueLaws.cfg MCValueLaws       # values
    for m in Lemmas DatabaseProofs DatabaseRefinement AggregateProofs \
             ValueLawProofs LexerProofs ParserProofs ProgramProofs; do tlapm $m.tla; done

## The system

| part | source | state | operations | uses |
| --- | --- | --- | --- | --- |
| lexer | `lexer/` | input, position, line, one token, error | `Scan`, `Token`, `Err` | tokens |
| parser | `parser/` | none of its own: the lexer's token | `Parse`, one method per production | lexer, syntax tree |
| syntax tree | `ast/` | none | nodes, `Walk`, `PrettyPrinter` | tokens |
| values | `eval/value.go`, `datatype.go` | none | casts, comparison, arithmetic, `\|\|`, AND and OR | |
| tables, environment | `eval/db.go`, `env.go`, `namespace.go` | tables by name; columns with auto-increment counters; rows | `CreateTable`, `lookupTable`, `colIndex`, `insert`, `lookup` | values |
| statement evaluator | `eval/eval.go` | the loop of the statement that runs | `EvalStmt` and one function per statement, `evalExpr` | all of `eval`, syntax tree |
| aggregate functions | `eval/funcs.go` | an accumulator per call | validation, rewriting, `step`, `finalize` | values, `Walk` |
| result printing | `pprint/` | none | `Table` | tables |
| command | `cmd/evaluate` | the environment | reads, parses, evaluates, prints | all |

The parts call each other and nothing else: no goroutines, no locks, no
persistence, no timeouts. One mechanism makes control flow hard. Every error in
`eval` is a Go panic, raised anywhere below a statement and recovered at its top
in `EvalStmt` (in the parser, in `Parse`), and nothing that was done before it
is undone. So what a statement leaves behind when it fails depends on the order
in which its loop reads, checks and writes. What is hard here:

- **statements that fail halfway.** UPDATE writes rows in place, DELETE swaps
  the rows at its end, INSERT takes auto-increment values before it checks
  constraints;
- **state that is read while it is written.** The namespace of UPDATE is the row
  that its SET clause is changing;
- **sequences of legal statements.** UPDATE does not check what INSERT checks,
  so later statements meet values that no INSERT would have stored;
- **accumulators that change their representation.** MIN, MAX and SUM turn from
  integers to floats at the first float, whichever row has it;
- **numeric edges.** `int64` wraps, floats need not equal themselves, and the
  lexer and the printer count bytes, runes and lines;
- **errors that are met early.** The parser looks one token ahead, so what the
  lexer refuses is met while an earlier statement is being finished;
- **a bound that recursion hands down** is all that groups operators.

What makes each part correct:

- *tables*: rows fit their columns; columns hold what their type and NOT NULL
  allow; nothing changes a schema.
- *statement evaluator*: a whole statement has the effect and result that can be
  stated on the rows before it; a failed one changes nothing (UPDATE: exactly a
  prefix of its work); every statement ends.
- *aggregate functions*: the result is that of the rows that match, whatever
  their order and mix of types; it depends on no single row.
- *values*: comparisons are those of the values, arithmetic is that of `int64`
  and `float64`, casts are of their type or fail.
- *lexer*: positions are those of the text, no input is skipped, every input
  ends in tokens or an error.
- *parser*: exactly the scripts of the grammar are accepted; the trees are those
  of precedence and associativity; what the lexer refuses is an error; what the
  evaluator takes for granted of a statement holds.
- *command*: all of the input is parsed or nothing is run; one answer per
  statement, in order.
- *result printing*: every line of a table has the same columns.

## The modules

| module | what it is |
| --- | --- |
| `Ast` | expression nodes |
| `Values` | the values, their casts and operators (`eval/value.go`) |
| `Tables` | what is computed on one table or row (`db.go`, `namespace.go`, helpers of `eval.go`) |
| `Exprs` | `evalExpr`; recursive, so no module with a theorem uses it |
| `Database` | the state machine of `EvalStmt` over the environment |
| `AtomicDatabase` | what a statement promises as a whole; `Database` implements it |
| `AggFuncs` | the accumulators of COUNT, MIN, MAX and SUM |
| `Aggregates` | the state machine of a SELECT with aggregates |
| `AggExprs` | the walks over an expression with aggregates; recursive too |
| `Lexer` | the state machine of `Scan` over a text |
| `Parser` | the state machine of `Parse` over the tokens the lexer finds |
| `Grammar` | what the parser is to compute, and its properties |
| `Program` | the command: `Parser`, then `Database`, and the printer |
| `Scripts` | what the command promises of a whole input, with `Grammar` |
| `ValueLaws` | one expression with every operator, both ways round |
| `Lemmas` | what the proofs share: induction over intervals, sequences, sums over finite sets, `Wrap` and `Quotient` |
| `DatabaseProofs`, `DatabaseRefinement` | theorems about `Database`; the second, that it implements `AtomicDatabase` |
| `AggregateProofs`, `ValueLawProofs`, `LexerProofs`, `ParserProofs` | theorems about the module of that name |
| `ProgramProofs` | theorems about `Program`, from those about `Database` and `Parser` |
| `MCValues`, `MCTokens`, `MCDatabase`, `MCAggregates`, `MCLexer`, `MCParser`, `MCProgram`, `MCValueLaws` | instances for TLC |

**Panics.** An evaluation that panics has the value `Panic`; each caller hands
it on, and an action that meets one is `Fail`, which is the recovery in
`EvalStmt`. `Null` is the nil `Value`: a method call on it panics, as in Go.

**Parameters.** The width of an integer is `IntBits`; arithmetic wraps there.
What `strconv`, `time`, `float64` and string order compute is a CONSTANT
operator of `Values`: the code decides only where each is used. `Eval`, a
parameter of `Tables`, is `evalExpr`; the runs give it `EvalExpr` of `Exprs`,
and the proofs assume nothing about it. Parameters are also what keeps recursive
operators out of the modules that are proved about.

**Database.** `tables` is `Environment.tables`, each table a record of its
columns and rows. `Submit` is a call of `EvalStmt` (or of
`Environment.CreateTable` by a program that embeds the package: only such a
table can have auto-increment columns and defaults, for the grammar has
neither). CREATE TABLE and INSERT are one action each, since they write once and
nothing runs in between. SELECT, UPDATE and DELETE are one action per iteration
(`SelectRow`, `UpdateRow`, `DeleteRow`), one per assignment of a SET clause
(`UpdateSet`), one at the end of the loop, and `WherePanics` or `NoSuchTable`
where they fail. `scan` is the loop: the row, the assignment within the row, and
the rows collected (`results` of SELECT, `newData` of DELETE). `base` and
`touched` are history: the tables at `Submit`, and which columns any UPDATE has
written. No action reads them.

**AtomicDatabase** answers a statement in one step whose effect is stated with
no loop: SELECT returns the projections of the rows that match; DELETE keeps
those that differ; both fail, and change nothing, if any row panics; UPDATE
replaces each row that matches by its SET clause applied left to right and stops
at the first panic. `Database` implements it under the mapping that shows the
tables of a statement that still runs as those it started from (`Atomic`, at the
end of `Database`).

**Aggregates.** The table is fixed, since this path writes none. `Rewrite` is
validation and rewriting, `SkipRow` and `StepRow` the loop, `Finish` the result
row. The code makes an accumulator for each call; two calls that are written
alike see the same rows, so they share one here, and `funcs` is indexed by the
call. All columns of the result are called `?`, so only rows are kept. What is
found by a walk over an expression is a parameter (`HasCall`, `Accepts`,
`CallsIn`, `Replace`); the runs give them the walks of `AggExprs`, which are
`containsAggFunc`, `validateAggExpr` and both halves of the rewriter.

**Lexer.** The text is chosen at the start. `Scan`, the next-state relation, is a
call of `Scan`, with an action for each way it returns: `ScanPair` and `ScanRune`
for operators, `ScanNumber`, `ScanString` and `ScanWord`, each with the error it may end
in, `Unexpected`, `EndOfInput`, and `NumberPanics`. White space before a token
is skipped in the same call: `Start` and `StartLine` are where `skipSpace` stops
and what its `lineTracker` makes of the lines. `line` is `lex.line` and
`lex.linePos`. A loop over runes is the set of runes it passes: the line ends
that a tracker has counted are those in the piece of text, and a run ends where
`EndOfRun` says. `tokens` is history. A panic leaves `Scan` as an error does,
since the parser lets it through to the command. Positions are offsets in runes,
except that a word advances by the bytes of its letters in lower case, as the
code has it.

**Parser.** The methods of the parser call each other; what they have still to
do, innermost first, is `todo`, and the nodes they have made and not yet used
are `built`. Each method is the sequence of steps that its code takes, chosen by
the current token as its `switch` or `if` chooses: match a token (`MatchToken`,
which is `match`, `skip` and `next`, with the scan ahead and the error it may
meet), call another method or go round a loop (`CallMethod`), make a node
(`MakeNode`). `NoMatch` is `expected`. `ParseInput` is the beginning of `Parse`
and `parseStmtList` its loop. The input is a sequence of tokens whose last one
says how they end: in the end of the text, in an error of the lexer, or in its
panic. The nodes are the statements and expressions that `Database` evaluates.

**Grammar** knows nothing of methods or of a current token. Each phrase is an
operator from the positions at which it may begin to those at which it may have
ended, and `IsScript` is that of a script. `Reads` is a relation between a tree
and a stretch of tokens: precedence and associativity are conditions on the
levels of a tree and of its operands, lists are cut at the commas that are in no
parentheses.

**Program** extends `Database` and takes `Parser` as an
instance, with `parsed` for its outcome. `ParseAll` is a step of the parser;
once it has returned, `EvaluateNext` gives the next statement to `EvalStmt`,
`EvaluateOn` is a step of it, and `PrintAnswer` prints, an error and then OK too
as `main` does. `Script` is empty when parsing failed, for the command then
exits. Of a printed table the room is kept that each line gives each column.
The statements of this module are those without aggregates, as in `Database`.

**Scripts** adds `Grammar` to it, which tells a script from any other input.

**ValueLaws** computes `lhs op rhs` and `rhs op lhs` for every operator with
`binaryOp` of `Values`, the `switch` of `evalBinaryExpr`.

Definitions marked "faulty" are what the code might have been; the runs use them
to see that each property can fail. No specification uses them.

## The runs

**database** checks any sequence of 21 statements, submitted in any order and
without end: two CREATE TABLE (one with a repeated column), a host's table with
auto-increment and a default, and INSERTs, SELECTs, UPDATEs and DELETEs chosen
to fail halfway as often as they succeed: unknown columns in a SET clause,
division by zero in one row, nulls and non-Booleans in WHERE, too few values,
repeated names, values that must be coerced and values that cannot be.

- `TypeOK`: rows fit columns, loops stay within the table, no panic is stored.
- `ColumnConstraints`: a value that its column forbids is there only if an
  UPDATE has written the column.
- `FailureKeepsRows`: a failed statement that is no UPDATE left all rows alone.
- `UpdateFrame`: at each point of an UPDATE, also after a panic, what differs
  from the start is in a named column, in a row the loop has reached, and that
  row matched as it was at the start.
- `SchemaIsStable`: no step drops a table or changes a schema.
- `StatementsAreAtomic`: `Database` implements `AtomicDatabase`.
- `StatementEnds`: every statement ends.

Bounds: integers of two bits, so that negation and division meet -2 and sums
wrap; `MaxRows = 2`, enough for one row to succeed before the next panics and
for DELETE to keep one of two; two table names, of which the second is never
created; three column names, of which `c` is no column. A third row adds no new
pair of (row done, row that fails); the theorems hold for any number.

**not_null** asks `NotNullEnforced`, which is what `eval/db.go:77` and the
message at `eval/db.go:83` say of a stored row. TLC finds an INSERT and an UPDATE
that sets the column to NULL: `eval/eval.go:182` writes the value unchecked.

**aggregates** starts from every table of up to three rows over the four
integers of two bits, two floats and NULL (and a string in tables of one row),
with ten queries: three that have a result, five that validation or rewriting
refuses and two that fail in the loop. Three rows give every order of integer,
float and null, and sums that leave the range before and after the first float.

- `CountsMatches`: COUNT counts rows that matched and are not null, COUNT of
  `*` all that matched, and the result has a row only if one matched.
- `ExtremesOfIntegers`: MIN and MAX are a value that was seen and bound all.
- `SumIsExact`: SUM is the sum of what was seen, over any order of types, unless
  the integers before the first float have left their range.
- `SumFollowsRows`: SUM is what the code makes of the rows in every case: the
  integers before the first float in whatever order, wrapped, and then the
  floats in the order of the rows. `SumIsExact` rests on the exact floats of the
  run, while this is also true of those that round.
- `ProjectionIsClosed`: what is accepted depends on no row once rewritten.
- `QueryEnds`: every SELECT returns. The run allows deadlock, for a query that
  has returned is over.

**float_extremes** asks of floats what `ExtremesOfIntegers` says of integers.
TLC finds a table with a single float: `setFloat` compares the other way round
(`eval/funcs.go:79` and `:83`), though `eval/funcs.go:44` says that the type
implements MIN and MAX.

**lexer** scans every text of at most four runes out of thirteen: letters (one of
them `e`, one of two bytes), a digit and one that is not ASCII, point, quote,
space, CR, LF, and operators that begin, end or are no pair; and every text of
at most six quotes, CRs, LFs and letters. Two tokens with something between them
fit into four runes, and a string with a line end or a doubled quote in it,
followed by another token, into six.

- `NothingIsSkipped`: tokens follow each other and leave out white space only.
- `PositionsAreReal`: line and column of each token are those of the text,
  counted independently of how the lexer got there.
- `TokensAreWhole`: no token could have been longer.
- `ScanEnds`: Scan returns false in the end.

The first two leave out what follows a wide word, and the second what follows a
string with a CRLF, which are the questions of their own: **wide_word** asks
`NextTokenIsNext` and TLC finds a two-byte letter followed by a point, which is
skipped (`lexer/lexer.go:129`, and `:123` for keywords); **string_lines** asks
`StringLinesAreReal` and TLC finds a string of a CRLF followed by a letter, on
line 3 instead of 2 (`lexer/lexer.go:260`); **foreign_digit** asks
`FailuresAreErrors` and TLC finds the digit alone (`lexer/lexer.go:216`). All
four runs allow deadlock: a text that has been scanned is over.

**parser** parses 21936 inputs: every sequence of up to five tokens of
identifiers, parentheses, `*`, `+` and commas, and of up to three of other
kinds, where a WHERE clause is due; chains of three operators of any of the five
levels, with at most one sign; seven scripts of eight statements that use every
production, and these with any one token left out, put in or replaced by any of
eleven; the scripts broken off after any token by the end of the text, an error
or a panic of the lexer, and those with a wrong token broken off in the same
ways at that token or the next one. Three operators are enough for each to be
looser, as tight or tighter than those on both sides of it, and five tokens for
a parenthesis or a call around an operator's operand; one edit at every place
meets every match. The parser looks one token ahead, so that is where a wrong
token and a refused one meet: which of the two is reported depends on whether
the wrong one is matched first.

- `ParsesTheGrammar`: Parse accepts exactly the scripts of `Grammar`; the one
  exception is a first token that the lexer refuses. A later one that it refuses
  is never accepted, whether or not the first begins a statement.
- `TreesAreRead`: the nodes are those that are written. A sign takes all that
  follows it (`parser/parser.go:285`), so `-1 + 2` is `-(1 + 2)`, and integers
  that leave their range are clamped (`:314`).
- `StmtsAreOK`: `StmtOK`, which `Database` assumes of statements (`StmtsParsed`).
- `AllIsRead`: when Parse succeeds it has read all of its input, and made one
  statement of it for every semicolon.
- `ParseEnds`: Parse returns.

**swallowed_error** asks `RefusalsAreReported`, and TLC finds an input of nothing
but a token that the lexer refuses: Parse returns no statements and no error
(`parser/parser.go:37`), although `lexer/lexer.go:54-56` says when to ask `Err`.

**program** runs 731 inputs: a CREATE TABLE, an INSERT and any three of eight
statements, of which one is no statement and the others fail or succeed with
what the table holds (NOT NULL, a division by zero, a table that exists), and
up to two statements that end in an error or a panic of the lexer. Three
statements after the first two are enough for one to fail between two others, or
to put right or wrong what the next one meets. `MaxRows` is five, so that no
INSERT is held back.

- `AllOrNothing`: an input that is no script leaves no table and prints nothing,
  and of a script every statement is evaluated.
- `OneAnswerEach`: every statement that is evaluated is answered once, OK or with
  a table, in order; an error comes just before its OK.
- `TablesAreAligned`: the lines of a printed table give each column equal room.
- `ScriptIsAtomic`: to the tables the command is the abstract database: the
  statements of the script, one after the other, each as a whole; parsing and
  printing do nothing to them.
- `ScriptEnds`: the command ends.

**values** takes every pair of 32 values of five types and null: the integers of
three bits and their texts, floats with the one that is no number and its text,
Booleans, times in two zones, texts of times and of nothing.

- `ComparisonsAgree`: the six comparisons describe one order, the same one with
  the operands swapped, for mixed types too, except that a String on the left of
  a number passes for that number (`eval/value.go:176-182`): `'5' = 7` is true.
- `IntegersAddUp`: subtraction undoes addition, and quotient and remainder make
  up the dividend, whatever wraps; what fits is exact.
- `OperandsMaySwap`: sums, products, AND and OR do not depend on the order of
  their operands, nor do their panics.

These four runs allow deadlock: an input that has been parsed or run, and an
expression that has been evaluated, is over.

Floats in the runs are whole numbers of halves, so sums are exact; what rounding
does is not modelled.

**Fairness.** The evaluator is a single goroutine without anything to wait for:
a statement that it has begun goes on. So `Database` assumes weak fairness of
`Evaluate`, and none of `Submit`: nobody need send another statement. It is
written out as `Fairness`, since TLC evaluates ENABLED of these actions slowly:
`Evaluate` has a step exactly while the outcome is pending. The run `database`
checks deadlock, and `Submit` is disabled while the outcome is pending, so it
would find a pending statement without a step. `Aggregates` assumes `WF_vars(Next)`, and
`Lexer` `WF_vars(Scan)`: the parser scans on while there are tokens. `Parser` and
`Program` assume weak fairness of their whole next-state relation: the command
is one goroutine, and once it has read its input it waits for nothing.

## What is proved

For all values of the constants, that is for all tables, statements, texts,
tokens, operands and widths:

| module | theorem | statement |
| --- | --- | --- |
| `DatabaseProofs` | `TypeCorrect` | `Spec => []TypeOK` |
| | `SchemaStable` | `Spec => SchemaIsStable` |
| | `FailuresKeepRows` | `Spec => []FailureKeepsRows` |
| | `ConstraintsHold` | `Spec => []ColumnConstraints` |
| | `UpdatesKeepFrame` | `Spec => []UpdateFrame` |
| `DatabaseRefinement` | `LoopsMakeProgress` | `Spec => []Progress` |
| | `DatabaseImplementsAtomic` | `Spec => StatementsAreAtomic` |
| `AggregateProofs` | `CountsAreExact` | `Spec => []CountsMatches` |
| | `ExtremesAreValues` | `Spec => []ExtremesOfIntegers` |
| | `SumsFollowRows` | `Spec => []SumFollowsRows` |
| `ValueLawProofs` | `SumsAndProductsSwap` | `Spec => []OperandsMaySwap` |
| | `IntegersCanBeUndone` | `Spec => []IntegersAddUp` |
| | `ComparisonsDescribeOneOrder` | `Spec => []ComparisonsAgree` |
| `LexerProofs` | `ScanFindsWholeTokens` | `Spec => []TokensAreWhole` |
| | `ScanSkipsOnlySpace` | `Spec => []NothingIsSkipped` |
| | `ScanTracksLines` | `Spec => []PositionsAreReal` |
| `ParserProofs` | `StatementsAreWhole` | `Spec => []StmtsAreOK` |
| | `AllInputIsRead` | `Spec => []AllIsRead` |
| `ProgramProofs` | `CommandIsTyped` | `ProgramSpec => []TypeOK` |
| | `CommandKeepsSchema` | `ProgramSpec => SchemaIsStable` |
| | `CommandKeepsRows` | `ProgramSpec => []FailureKeepsRows` |
| | `CommandKeepsConstraints` | `ProgramSpec => []ColumnConstraints` |
| | `CommandKeepsFrame` | `ProgramSpec => []UpdateFrame` |
| | `CommandIsAtomic` | `ProgramSpec => ScriptIsAtomic` |
| | `AllOfTheInputOrNothing` | `ProgramSpec => []ParsedOrNothing` |
| | `StatementsAreAnswered` | `ProgramSpec => []OneAnswerEach` |
| | `PrintedTablesAreAligned` | `ProgramSpec => []TablesAreAligned` |

### From which assumptions

TLC evaluates each of these on the runs of its module, except for the last: it is
a hypothesis of one theorem, and of no module.

| assumption | module | what it says |
| --- | --- | --- |
| `IntBitsAssumption`, `PowersOfTwo` | `Values` | integers have a width, and powers of two are natural numbers that double; the provers know no exponentiation |
| `StmtsParsed` | `Database` | what the parser guarantees of a statement (`StmtOK`) |
| `QueriesAggregate` | `Aggregates` | rows are sequences as wide as the table; a query that takes this path calls an aggregate; what it aggregates is in the range of integers |
| `OperandsAreValues` | `ValueLaws` | operands are values of their type, and so are their casts |
| `FloatsAreOrdered`, `FloatsCommute` | `ValueLaws` | IEEE 754: floats are ordered, but for NaN; sums and products commute |
| `StringsAreOrdered` | `ValueLaws` | Go's order of strings is one |
| `RunesAreUnicode` | `Lexer` | a rune takes at least a byte; a line end is neither letter nor digit |
| `TokensAreLexed` | `Parser` | the last token, and no other, is an ending; an identifier has a text |
| `InputIsLexed`, `NamesAreStrings` | `Program` | the same of the command's input; the names of tables and columns are any strings |
| `TextIsMeasured` | hypothesis of `PrintedTablesAreAligned` | a text has no more runes than bytes |

`StmtsParsed` asks `StmtOK` of the statements that may be submitted. For the
command it is not used: `StatementsAreWhole` proves it of what the parser
returns, and the theorems of `ProgramProofs` take it from there (see *The command
as a whole*). Nothing is assumed of `Eval`, of the casts' parsers or of what the
floats compute in `Database` and `Aggregates`: an expression may evaluate to
anything, a panic included, and a sum of floats to any float.

### Along which argument

*Tables.* `TypeOK` is inductive. `ScanOK`, its part on the loop, is needed for
it: an assignment of UPDATE keeps rows well formed since the loop is within the
table, the position of a column is a position of the row, and panics are not
stored. `FailureKeepsRows` needs `PendingKeepsTables`: until it returns, a
statement other than UPDATE has changed no table. `ColumnConstraints` needs
`CollectedConstraints`: the rows that DELETE has collected are as good as those
it scans, for they become the table. The step of INSERT rests on
`StoredIsAccepted` and `CoerceIsTyped`: a cast gives a value of its own type or
panics. `UpdateFrame` needs `UpdateLoop`: rows that are not reached are as they
were, and the row that is being written matched before its first assignment.
The first is why WHERE reads old values although rows are written in place.

*Whole statements.* `Progress` is the loop invariant of the three loops, said in
the terms of `AtomicDatabase`: SELECT has collected the projections of the rows
passed that match (`SelectProgress`), DELETE those that differ
(`DeleteProgress`), in order; UPDATE has replaced the rows passed by their SET
clause on the old row, and the row it is in by a part of it (`UpdateProgress`);
no row that was passed has panicked. With it each action of `Database` is a
stutter, or, where it returns or fails, the whole answer under the mapping
`Atomic`. That rows are collected in order is stated with the number of those
before them (`InOrder`), and `InOrderAppend` is the step that collects one; that
the function in which `AtomicDatabase` makes the assignments of a SET clause
exists, and makes them one by one, is `AssignedOneByOne`.

*Aggregates.* At row `r` an accumulator is that of the rows before: its count is
the cardinality of the rows seen (`CountsAreExact`), and as long as it has not
become a float its integer is the greatest or least of those seen, or the end of
the range that it began with if there were none (`ExtremesOK`). For SUM the rows
seen are divided into those before the first float and the others (`Early` and
`Late`), and the invariant (`SumsOK`) is about both parts: the integer is the sum
over the first, wrapped, and never changes again once the accumulator is a float;
the float is then what the second adds to it. A row that matches joins one of
the parts or neither (`AddedRowsGrow`). A fold of the community modules takes the
elements in an order of its own, by a recursion over all subsets: `TotalExists`
shows, by adding elements one by one, that there is a function that can be taken
apart at *any* element, `SumIsTotal` that the fold is that function, and so
`SumGrows` that one more element adds what it should. The fold of the floats
takes the greatest row last, and has the same lemmas without the freedom of
order (`OrderedExists`, `AddedIsOrdered`, `OneMoreAdded`), since floats need not
commute. Integers may be wrapped at each step by `WrapInSum`.

*Values.* Everything about wrapping comes from two facts: `Wrap(n)` is in range,
and differs from `n` by a multiple of the modulus; no two numbers in range do
(`WrapIsUnique`). So sums and products may be wrapped at any time. Division is
the definition of a quotient that is cut off toward zero (`QuotientIs`). For
comparisons every pair of types is shown to describe exactly one of less, equal
and greater (or none, for NaN), of either operand against the other.

*Lexer.* `LexerOK` types the tokens and keeps the offset in the text. Where a
quoted string closes is a function defined by its own later values; that there
is one is `ClosingExists`, and `ClosingIs` says which. Each way that Scan ends
finds a token that could not go on (`TokensAreWhole`); a token begins where
skipping space from the end of the last one stops (`NothingIsSkipped`). For
positions the invariant is `LineIsReal`: what the tracker has at the offset is
the number of line ends before it and the last one of them, up to a wide word
and a string with a CRLF (`Tame`), after which the code does not keep it.

*Parser.* The steps that are to do are typed. A node has types (`Is`): an
identifier, a column, a list of assignments, a statement; and a step takes a
stack of types to another (`StepTyped`). What each method does is typed as its
call is (`MethodsLead`), so a call may be replaced by its steps. The invariant
`ParserOK` says that, until Parse returns, the nodes built have types from which
what is to do leads to statements only (`Leads`). A token that matches leaves a
node of the type its step says, and what is made of nodes of the types that a
step takes is of the type it leaves (`TwoNodes`, `ThreeNodes`): there the SET
clause, of which columns and values are taken one by one, gives as many of each.
When nothing is left to do, all that was built are statements.

That all is read (`AllIsRead`) is part of `ParserOK` too. A statement on the stack
is whole once its semicolon has been passed, by the one step that matches one,
and no other step makes or uses a whole one (`StepWholes`); so the built nodes
hold as many whole statements (`Wholes`) as semicolons have been passed. The loop
of `parseStmtList` returns only at an ending, which is the last token
(`EndingIsLast`), when nothing is left to do and so nothing but whole statements
has been built.

*The command as a whole.* The parser's theorems are taken over as instances
(`PP`), for `Program` is a step of the parser or leaves it alone (`ParserBegins`,
`ParserGoesOn`). So in every state the statements of the script are what the
evaluator takes for granted (`ScriptIsEvaluable`), and what is submitted next is
(`Evaluable`). The step lemmas of `DatabaseProofs` and `DatabaseRefinement` are
stated for such a step (`Step`), be the statement out of a given set or out of a
parser: a step of `Spec` is one (`NextIsStep`), and so is one of the command
(`CommandIsStep`). That gives all invariants of `Database` for the command, and
`AtomicStep` that it does what the abstract database does. `ParsedOrNothing` says
that nothing is evaluated or printed before all of the input is parsed, and that
in the end one statement was for every semicolon. With `ParsesTheGrammar`,
which says which inputs parse and which is only checked, this is `AllOrNothing`.

*Answers.* `AnswersOK` says which answers there are in every state: none of a
statement that has not begun, none of the last one before it returns, and of
every other one alone or an error with its OK behind it. `ResultsOK` says that
what is collected while a SELECT runs has as many cells in a row as there are
headings, so that the widths of the printed table are defined for all of them;
with them every line is padded to the same room (`Fits`).

`Lemmas` gets round what the provers cannot do: an induction over an interval is
one over the set of the numbers for which a statement holds
(`BoundedInduction`), which needs no operator as a parameter.

### What is only model-checked

`StatementEnds`, `QueryEnds`, `ScanEnds`, `ParseEnds` and `ScriptEnds`, for they
are liveness. `ParsesTheGrammar`, `TreesAreRead` and `AllOrNothing`, for
`Grammar` is recursive; of `AllOrNothing` all but the grammar is proved, as
`ParsedOrNothing`. `ProjectionIsClosed`, for it is about the walks of `AggExprs`,
which are recursive too. `SumIsExact`, for it is true of floats only as long as
they do not round, which no proof may assume; `SumFollowsRows` is what is true of
all.

## What is not modelled

Left out for good: error texts and their positions in `eval` and `parser`;
`ast/pprint.go`, one line of text per node for the verbose mode (it prints
`nullable=N` for a column that is nullable, `ast/pprint.go:34-38`); `Walk` over
statements, which has no caller; the texts of tokens and values, the keyword
table, and what `strconv`, `time`, `unicode` and `float64` compute, which are
parameters. The lexer hands the parser its tokens as an input of `Parser`: the
two are not composed, since a token's text is not part of `Lexer`. A SELECT with
aggregates is in `Aggregates` only, and not in `Program`.
