------------------------------- MODULE Lexer -------------------------------
(***************************************************************************)
(* The lexical analyzer of lexer/lexer.go: Scan, called until it returns   *)
(* false, one action for each way it ends.  Nothing runs between the steps *)
(* of one Scan, so a call is one step.                                     *)
(*                                                                         *)
(* The input is a sequence of runes and positions are offsets in it, from  *)
(* zero as in the code.  A rune is a string, its own character or the name *)
(* of one; what package unicode and strconv.ParseFloat say is a parameter. *)
(* Which words are keywords is a table and does not matter here.           *)
(***************************************************************************)
EXTENDS Naturals, Sequences, FiniteSetsExt

CONSTANTS
    Input,              \* the texts that may be scanned
    IsSpace(_),         \* unicode.IsSpace
    IsLetter(_),        \* unicode.IsLetter
    IsDigit(_),         \* unicode.IsDigit
    LowerBytes(_),      \* the bytes that encode a rune in lower case
    ParsesFloat(_)      \* whether strconv.ParseFloat accepts some runes

(* Of runes, package unicode says that one takes at least a byte and that  *)
(* a line end is neither a letter nor a digit.                             *)
RunesAssumption ==
    /\ \A text \in Input :
        /\ text \in Seq(STRING)
        /\ \A i \in DOMAIN text : LowerBytes(text[i]) \in Nat \ {0}
    /\ \A r \in {"LF", "CR"} : ~IsLetter(r) /\ ~IsDigit(r)

ASSUME RunesAreUnicode == RunesAssumption

VARIABLES
    input,      \* the text
    pos,        \* the offset of the next rune
    line,       \* lex.line and lex.linePos: number and start of the line
    tok,        \* the token found last
    result,     \* what Scan returned; it is called again after TRUE
    err,        \* lex.err with its position, or that Scan has panicked
    tokens      \* history: every token that was found

vars == <<input, pos, line, tok, result, err, tokens>>

NoError == [kind |-> "none"]
Invalid == [kind |-> "Invalid"]

Init ==
    /\ input \in Input
    /\ pos = 0
    /\ line = [number |-> 1, start |-> 0]
    /\ tok = Invalid
    /\ result = TRUE
    /\ err = NoError
    /\ tokens = <<>>

-----------------------------------------------------------------------------
(* Where things are in the input. *)

Size == Len(input)
Offset == 0 .. Size - 1
At(i) == input[i + 1]
Followed(i, r) == i + 1 < Size /\ At(i + 1) = r

(* The first offset from i on that is not in run. *)
EndOfRun(i, run) ==
    CHOOSE j \in i .. Size : i .. j - 1 \subseteq run /\ j \notin run

(* What lineTracker makes of line ends at some offsets. *)
Track(from, ends) ==
    [number |-> from.number + Cardinality(ends),
     start |-> IF ends = {} THEN from.start ELSE Max(ends) + 1]

(* The line ends of white space: LF, CR, or CR and LF together. *)
LineEnds(i, j) ==
    {k \in i .. j - 1 : At(k) = "LF" \/ (At(k) = "CR" /\ ~Followed(k, "LF"))}

(* Those of a quoted string, of which CR and LF always end a line each. *)
LineEndsInString(i, j) == {k \in i .. j - 1 : At(k) \in {"LF", "CR"}}

(* skipSpace: whether any input remains, where, and on which line. *)
MoreInput == \E i \in pos .. Size - 1 : ~IsSpace(At(i))
Start == EndOfRun(pos, {i \in Offset : IsSpace(At(i))})

(* A faulty StartLine, of the line that the white space is on. *)
LineBeforeSpace == line

StartLine == Track(line, LineEnds(pos, Start))

First == At(Start)

-----------------------------------------------------------------------------
(* How Scan ends. *)

Scanning == result /\ MoreInput

(* A token of the runes before end, after which Scan goes on at next. *)
Found(kind, end, next) ==
    /\ tok' = [kind |-> kind, from |-> Start, end |-> end,
               line |-> StartLine.number, column |-> Start - StartLine.start]
    /\ tokens' = Append(tokens, tok')
    /\ pos' = next
    /\ UNCHANGED <<input, result, err>>

Refuse(kind) ==
    /\ err' = [kind |-> kind, line |-> StartLine.number,
               column |-> Start - StartLine.start]
    /\ result' = FALSE
    /\ tok' = Invalid
    /\ pos' = Start
    /\ line' = StartLine
    /\ UNCHANGED <<input, tokens>>

(* The line is not brought up to date when no input remains. *)
EndOfInput ==
    /\ result /\ ~MoreInput
    /\ result' = FALSE
    /\ tok' = Invalid
    /\ pos' = IF pos < Size THEN Size ELSE pos
    /\ UNCHANGED <<input, line, err, tokens>>

-----------------------------------------------------------------------------
(* Operators of one or two runes. *)

Operators == {",", "/", ".", "=", ">", "(", "<", "-", "*", "+", ")", ";"}
Pairs == {<<"|", "|">>, <<">", "=">>, <<"<", ">">>, <<"<", "=">>, <<"!", "=">>}

BeginsNumber ==
    \/ IsDigit(First)
    \/ First = "." /\ Start + 1 < Size /\ IsDigit(At(Start + 1))

(* matchString. *)
BeginsPair == \E p \in Pairs : First = p[1] /\ Followed(Start, p[2])

ScanPair ==
    /\ Scanning /\ BeginsPair
    /\ Found("Operator", Start + 2, Start + 2)
    /\ line' = StartLine

(* consumeRune. *)
ScanRune ==
    /\ Scanning /\ First \in Operators /\ ~BeginsPair /\ ~BeginsNumber
    /\ Found("Operator", Start + 1, Start + 1)
    /\ line' = StartLine

-----------------------------------------------------------------------------
(* Numbers. *)

IsNumeric(r) == r \in {"0", "1", "2", "3", "4", "5", "6", "7", "8", "9", ".", "e"}

NumberEnd == EndOfRun(Start, {i \in Offset : IsNumeric(At(i))})
ValidNumber == ParsesFloat(SubSeq(input, Start + 1, NumberEnd))

(* A faulty ScanNumber, which goes on one rune late, as after a string. *)
ScanNumberPast ==
    /\ Scanning /\ BeginsNumber /\ NumberEnd > Start
    /\ \/ /\ ValidNumber
          /\ Found("Number", NumberEnd, NumberEnd + 1)
          /\ line' = StartLine
       \/ ~ValidNumber /\ Refuse("number")

(* A faulty ScanNumber, which does not advance. *)
ScanNumberAgain ==
    /\ Scanning /\ BeginsNumber /\ NumberEnd > Start
    /\ \/ ValidNumber /\ UNCHANGED vars
       \/ ~ValidNumber /\ Refuse("number")

(* consumeNumber. *)
ScanNumber ==
    /\ Scanning /\ BeginsNumber /\ NumberEnd > Start
    /\ \/ /\ ValidNumber
          /\ Found("Number", NumberEnd, NumberEnd)
          /\ line' = StartLine
       \/ ~ValidNumber /\ Refuse("number")

(* It panics on a digit that is none of the ten above. *)
NumberPanics ==
    /\ Scanning /\ BeginsNumber /\ NumberEnd = Start
    /\ Refuse("panic")

-----------------------------------------------------------------------------
(* Strings and words. *)

Quote == "'"

(* A faulty Closing, to which a doubled quote is the end of the string. *)
ClosingFirst ==
    EndOfRun(Start + 1, {i \in Offset : At(i) # Quote})

(* The offset of the quote that ends the string, Size when there is none:  *)
(* a quote followed by another one stands for a quote in the string.       *)
Closing ==
    LET closing[i \in 0 .. Size] ==
            IF i < Size /\ At(i) # Quote THEN closing[i + 1]
            ELSE IF i < Size /\ Followed(i, Quote) THEN closing[i + 2]
            ELSE i
    IN  closing[Start + 1]

(* consumeQuotedString. *)
ScanString ==
    /\ Scanning /\ First = Quote
    /\ \/ /\ Closing < Size
          /\ Found("String", Closing + 1, Closing + 1)
          /\ line' = Track(StartLine, LineEndsInString(Start, Closing))
       \/ Closing = Size /\ Refuse("unterminated")

IsIdentRune(r) == IsLetter(r) \/ IsDigit(r) \/ r = "_"
BeginsWord == IsLetter(First) \/ First = "_"

WordEnd == EndOfRun(Start, {i \in Offset : IsIdentRune(At(i))})

(* A word advances the offset, in runes, by its length in bytes. *)
ScanWord ==
    /\ Scanning /\ BeginsWord
    /\ Found("Word", WordEnd,
             Start + MapThenSumSet(LAMBDA i : LowerBytes(At(i)), Start .. WordEnd - 1))
    /\ line' = StartLine

Unexpected ==
    /\ Scanning
    /\ First \notin Operators \cup {Quote}
    /\ ~BeginsPair /\ ~BeginsNumber /\ ~BeginsWord
    /\ Refuse("unexpected")

-----------------------------------------------------------------------------

Scan ==
    \/ ScanPair \/ ScanRune \/ ScanNumber \/ NumberPanics
    \/ ScanString \/ ScanWord \/ Unexpected \/ EndOfInput

(* The parser scans on while there are tokens. *)
Spec == Init /\ [][Scan]_vars /\ WF_vars(Scan)

-----------------------------------------------------------------------------
(* The properties. *)

(* What two of the properties set apart: a word of runes that take more   *)
(* than a byte, and a string with a CR and LF in it.                       *)
IsWideWord(t) ==
    t.kind = "Word" /\ \E i \in t.from .. t.end - 1 : LowerBytes(At(i)) > 1

IsStringWithCRLF(t) ==
    /\ t.kind = "String"
    /\ \E i \in t.from .. t.end - 1 : At(i) = "CR" /\ Followed(i, "LF")

(* Everything the lexer has passed is white space or in a token. *)
Covered ==
    \A i \in Offset :
        \/ i >= pos
        \/ IsSpace(At(i))
        \/ \E n \in DOMAIN tokens : i \in tokens[n].from .. tokens[n].end - 1

(* The tokens do not overlap and the lexer is past them. *)
InOrder ==
    \A n \in DOMAIN tokens :
        /\ tokens[n].from < tokens[n].end
        /\ tokens[n].end <= IF n < Len(tokens) THEN tokens[n + 1].from ELSE pos

(* The tokens that successive calls of Scan find are pieces of the input   *)
(* one after the other with white space between them, unless a wide word   *)
(* is among them (see NextTokenIsNext).                                    *)
NothingIsSkipped ==
    (\A n \in DOMAIN tokens : ~IsWideWord(tokens[n])) =>
        InOrder /\ Covered /\ pos <= Size

(* Whether a token's line and column are those of the text, in which LF,   *)
(* CR, and CR and LF together each end a line.                             *)
BeginsLine(i) ==
    \/ i = 0
    \/ At(i - 1) = "LF"
    \/ At(i - 1) = "CR" /\ ~(i < Size /\ At(i) = "LF")

IsAt(t) ==
    LET lines == {i \in 0 .. t.from : BeginsLine(i)}
    IN  t.line = Cardinality(lines) /\ t.column = t.from - Max(lines)

(* What skipSpace and consumeQuotedString count of lines, and keep or give *)
(* up with a lineTracker, gives every token its place in the text, unless  *)
(* it follows a wide word or a string with a CRLF (see StringLinesAreReal).*)
PositionsAreReal ==
    \A n \in DOMAIN tokens :
        (\A m \in 1 .. n - 1 : ~IsWideWord(tokens[m]) /\ ~IsStringWithCRLF(tokens[m]))
            => IsAt(tokens[n])

(* The rune after a token could have been part of it. *)
CouldGoOn(t) ==
    LET r == At(t.end)
    IN  CASE t.kind = "Operator" ->
                t.end = t.from + 1 /\ <<At(t.from), r>> \in Pairs
          [] t.kind = "Number" -> IsNumeric(r)
          [] t.kind = "Word" -> IsIdentRune(r)
          [] t.kind = "String" -> r = Quote

(* Each token is as long as it can be: what follows an operator does not   *)
(* make a longer one of it, what follows a word or a number is no part of  *)
(* one, and the quote that ends a string is not followed by another.       *)
TokensAreWhole ==
    \A n \in DOMAIN tokens : tokens[n].end < Size => ~CouldGoOn(tokens[n])

(* Called again and again, Scan returns false in the end. *)
ScanEnds == <>~result

(* Scan goes on with the next token, after a word of any letters too. *)
NextTokenIsNext == Covered

(* A CRLF in a string ends one line, as it does elsewhere. *)
StringLinesAreReal ==
    \A n \in DOMAIN tokens :
        (\A m \in 1 .. n - 1 : ~IsWideWord(tokens[m])) => IsAt(tokens[n])

(* A number that cannot be read is an error of the lexer, never a panic. *)
FailuresAreErrors == err.kind # "panic"

=============================================================================
