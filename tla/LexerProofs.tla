---------------------------- MODULE LexerProofs ----------------------------
(***************************************************************************)
(* Theorems about Lexer, for all texts and whatever runes are letters,     *)
(* digits and space: the tokens are whole, nothing is skipped between      *)
(* them, and each is where its line and column say.                        *)
(***************************************************************************)
EXTENDS Lexer, Lemmas

-----------------------------------------------------------------------------
(* The text. *)

TokenKind == {"Operator", "Number", "String", "Word"}
Token == [kind : TokenKind, from : Nat, end : Nat, line : Nat, column : Int]

(* The type of the lexer's state. *)
LexerOK ==
    /\ input \in Input
    /\ pos \in Nat
    /\ line \in [number : Nat, start : Nat]
    /\ tokens \in Seq(Token)

(* The runes of the text, and the bytes of each. *)
LEMMA TextIsOK ==
    ASSUME LexerOK
    PROVE  /\ Size \in Nat /\ DOMAIN input = 1 .. Size
           /\ \A i \in Offset : LowerBytes(At(i)) \in Nat \ {0}
<1>1. input \in Seq(STRING) /\ \A i \in DOMAIN input : LowerBytes(input[i]) \in Nat \ {0}
  BY RunesAreUnicode DEF LexerOK, RunesAssumption
<1>2. Size \in Nat /\ DOMAIN input = 1 .. Size
  BY <1>1 DEF Size
<1>3. \A i \in Offset : i + 1 \in DOMAIN input
  BY <1>2 DEF Offset
<1> QED
  BY <1>1, <1>2, <1>3 DEF At

(* A run of offsets ends at the first that is not in it. *)
LEMMA RunEnds ==
    ASSUME LexerOK, NEW i \in 0 .. Size, NEW run, run \subseteq Offset
    PROVE  LET j == EndOfRun(i, run)
           IN  j \in i .. Size /\ i .. j - 1 \subseteq run /\ j \notin run
<1> DEFINE S == {j \in i .. Size : j \notin run}
           Ends(j) == i .. j - 1 \subseteq run /\ j \notin run
<1>1. Size \in Nat /\ Size \notin Offset
  BY TextIsOK DEF Offset
<1>2. S \subseteq Nat /\ S # {}
  BY <1>1
<1>3. PICK m \in S : \A k \in S : m <= k
  BY <1>2, LeastNatural
<1>4. ASSUME NEW k \in i .. m - 1
      PROVE  k \in run
  BY <1>1, <1>3
<1>5. m \in i .. Size /\ Ends(m)
  BY <1>3, <1>4
<1> HIDE DEF Ends
<1>6. Ends(CHOOSE j \in i .. Size : Ends(j)) /\ (CHOOSE j \in i .. Size : Ends(j)) \in i .. Size
  BY <1>5
<1> QED
  BY <1>6 DEF Ends, EndOfRun

(* Scan begins at the first rune that is not white space. *)
LEMMA StartIsFirst ==
    ASSUME LexerOK, MoreInput
    PROVE  /\ Start \in pos .. Size - 1 /\ Start \in Nat /\ Start \in Offset
           /\ pos < Size /\ Size \in Nat
           /\ \A i \in pos .. Start - 1 : IsSpace(At(i))
           /\ ~IsSpace(First)
<1> DEFINE space == {i \in Offset : IsSpace(At(i))}
<1>1. Size \in Nat /\ pos \in Nat
  BY TextIsOK DEF LexerOK
<1>2. PICK k \in pos .. Size - 1 : ~IsSpace(At(k))
  BY DEF MoreInput
<1>3. pos \in 0 .. Size /\ space \subseteq Offset
  BY <1>1, <1>2
<1> HIDE DEF space
<1>4. Start \in pos .. Size /\ pos .. Start - 1 \subseteq space /\ Start \notin space
  BY <1>3, RunEnds DEF Start, space
<1>5. Start <= k
  BY <1>1, <1>2, <1>4 DEF space
<1>6. Start \in Offset
  BY <1>1, <1>2, <1>4, <1>5 DEF Offset
<1> QED
  BY <1>1, <1>2, <1>4, <1>5, <1>6 DEF space, First

(* The runs of a number and of a word, from a rune that belongs to it. *)
LEMMA RunFromStart ==
    ASSUME LexerOK, MoreInput, NEW run, run \subseteq Offset
    PROVE  LET j == EndOfRun(Start, run)
           IN  /\ j \in Start .. Size /\ Start .. j - 1 \subseteq run /\ j \notin run
               /\ Start \in run => j > Start
<1>1. Start \in 0 .. Size /\ Start \in Nat /\ Size \in Nat
  BY StartIsFirst
<1> DEFINE j == EndOfRun(Start, run)
<1>2. j \in Start .. Size /\ Start .. j - 1 \subseteq run /\ j \notin run
  BY <1>1, RunEnds
<1> HIDE DEF j
<1>3. j > Start \/ j = Start
  BY <1>1, <1>2
<1> QED
  BY <1>2, <1>3 DEF j

-----------------------------------------------------------------------------
(* The end of a string. *)

(* One step of the search for the quote that ends a string. *)
ClosingFrom(f, i) ==
    IF i < Size /\ At(i) # Quote THEN f[i + 1]
    ELSE IF i < Size /\ Followed(i, Quote) THEN f[i + 2]
    ELSE i

(* The search is defined from the end of the text backwards. *)
LEMMA ClosingExists ==
    ASSUME LexerOK
    PROVE  \E f : f = [i \in 0 .. Size |-> ClosingFrom(f, i)]
<1> DEFINE Rest(m) == Size - m .. Size
           Searches(m, f) == \A i \in Rest(m) : f[i] = ClosingFrom(f, i)
           S == {m \in 0 .. Size : \E f : Searches(m, f)}
<1>1. Size \in Nat
  BY TextIsOK
<1>2. 0 \in S
  <2>1. Searches(0, [i \in {Size} |-> Size])
    BY <1>1 DEF ClosingFrom
  <2> HIDE DEF Searches
  <2> QED
    BY <1>1, <2>1
<1>3. ASSUME NEW m \in 0 .. Size - 1, m \in S
      PROVE  m + 1 \in S
  <2>1. PICK f : Searches(m, f)
    BY <1>3
  <2> DEFINE new == Size - (m + 1)
             g == [i \in Rest(m + 1) |-> IF i = new THEN ClosingFrom(f, new) ELSE f[i]]
  <2>2. /\ Rest(m + 1) = Rest(m) \cup {new} /\ new \notin Rest(m) /\ new < Size
        /\ new \in Int
    BY <1>1
  <2>3. \A i \in Rest(m) : g[i] = f[i]
    BY <2>2
  <2>4. ASSUME NEW i \in Rest(m + 1)
        PROVE  ClosingFrom(g, i) = ClosingFrom(f, i)
    <3>1. i < Size => i + 1 \in Rest(m)
      BY <1>1
    <3>2. Followed(i, Quote) => i + 2 \in Rest(m)
      BY <1>1 DEF Followed
    <3>3. i = Size \/ i < Size
      BY <1>1
    <3> HIDE DEF g, Rest
    <3> QED
      BY <2>3, <3>1, <3>2, <3>3 DEF ClosingFrom
  <2>5. Searches(m + 1, g)
    <3> HIDE DEF Rest
    <3> QED
      BY <2>1, <2>2, <2>3, <2>4
  <2> HIDE DEF Searches, g
  <2>6. m + 1 \in 0 .. Size
    BY <1>1
  <2> QED
    BY <2>5, <2>6
<1>4. PICK f : Searches(Size, f)
  <2> HIDE DEF Searches, S
  <2>1. 0 .. Size \subseteq S
    BY <1>1, <1>2, <1>3, BoundedInduction
  <2>2. Size \in S
    BY <1>1, <2>1
  <2> QED
    BY <2>2 DEF S
<1> DEFINE h == [i \in 0 .. Size |-> f[i]]
<1>5. ASSUME NEW i \in 0 .. Size
      PROVE  h[i] = ClosingFrom(h, i)
  <2>1. f[i] = ClosingFrom(f, i)
    BY <1>1, <1>4
  <2>2. i < Size => i + 1 \in 0 .. Size
    BY <1>1
  <2>3. Followed(i, Quote) => i + 2 \in 0 .. Size
    BY <1>1 DEF Followed
  <2>4. i = Size \/ i < Size
    BY <1>1
  <2> QED
    BY <2>1, <2>2, <2>3, <2>4 DEF ClosingFrom
<1>6. h = [i \in 0 .. Size |-> ClosingFrom(h, i)]
  <2>1. h = [i \in 0 .. Size |-> h[i]]
    OBVIOUS
  <2> HIDE DEF h
  <2> QED
    BY <1>5, <2>1
<1> QED
  BY <1>6

(* The search ends at a quote that no other one follows, or at the end.    *)
LEMMA ClosingIs ==
    ASSUME LexerOK, Start \in Offset
    PROVE  /\ Closing \in Start + 1 .. Size
           /\ Closing < Size => At(Closing) = Quote /\ ~Followed(Closing, Quote)
<1> DEFINE closing == CHOOSE f : f = [i \in 0 .. Size |-> ClosingFrom(f, i)]
           Ends(i) == /\ closing[i] \in i .. Size
                      /\ closing[i] < Size =>
                            At(closing[i]) = Quote /\ ~Followed(closing[i], Quote)
           S == {m \in 0 .. Size : \A i \in Size - m .. Size : Ends(i)}
<1>1. Size \in Nat
  BY TextIsOK
<1>2. Closing = closing[Start + 1]
  BY DEF Closing, ClosingFrom
<1>3. closing = [i \in 0 .. Size |-> ClosingFrom(closing, i)]
  BY ClosingExists
<1> HIDE DEF closing
<1>4. \A i \in 0 .. Size : closing[i] = ClosingFrom(closing, i)
  BY <1>3
<1>5. 0 \in S
  <2>1. Size - 0 .. Size = {Size}
    BY <1>1
  <2>2. closing[Size] = Size
    BY <1>1, <1>4 DEF ClosingFrom
  <2> QED
    BY <1>1, <2>1, <2>2
<1>6. ASSUME NEW m \in 0 .. Size - 1, m \in S
      PROVE  m + 1 \in S
  <2> DEFINE new == Size - (m + 1)
  <2>1. \A i \in Size - m .. Size : Ends(i)
    BY <1>6
  <2>2. new \in 0 .. Size - 1 /\ new + 1 \in Size - m .. Size /\ m + 1 \in 0 .. Size
    BY <1>1
  <2>3. Ends(new)
    <3>1. CASE At(new) # Quote
      <4>1. closing[new] = closing[new + 1]
        BY <1>1, <1>4, <2>2, <3>1 DEF ClosingFrom
      <4>2. Ends(new + 1)
        BY <2>1, <2>2
      <4> HIDE DEF new
      <4> QED
        BY <1>1, <2>2, <4>1, <4>2
    <3>2. CASE At(new) = Quote /\ Followed(new, Quote)
      <4>1. closing[new] = closing[new + 2] /\ new + 2 \in Size - m .. Size
        BY <1>1, <1>4, <2>2, <3>2 DEF ClosingFrom, Followed
      <4>2. Ends(new + 2)
        BY <2>1, <4>1
      <4> HIDE DEF new
      <4> QED
        BY <1>1, <2>2, <4>1, <4>2
    <3>3. CASE At(new) = Quote /\ ~Followed(new, Quote)
      <4>1. closing[new] = new
        BY <1>1, <1>4, <2>2, <3>3 DEF ClosingFrom
      <4> HIDE DEF new
      <4> QED
        BY <1>1, <2>2, <3>3, <4>1
    <3> QED
      BY <3>1, <3>2, <3>3
  <2>4. \A i \in Size - (m + 1) .. Size : i = new \/ i \in Size - m .. Size
    BY <1>1
  <2> HIDE DEF Ends, new
  <2> QED
    BY <2>1, <2>2, <2>3, <2>4
<1>7. Ends(Start + 1)
  <2> HIDE DEF Ends, S
  <2>1. 0 .. Size \subseteq S
    BY <1>1, <1>5, <1>6, BoundedInduction
  <2>2. Size \in S /\ Start + 1 \in Size - Size .. Size
    BY <1>1, <2>1 DEF Offset
  <2> QED
    BY <2>2 DEF S
<1> QED
  BY <1>2, <1>7

-----------------------------------------------------------------------------
(* The length of a word. *)

(* One step of adding up the bytes of some runes. *)
BytesFrom(f, s) ==
    IF s = {} THEN 0
    ELSE LowerBytes(At(CHOOSE x \in s : TRUE)) + f[s \ {CHOOSE x \in s : TRUE}]

(* The bytes of a set of runes are added one after the other. *)
LEMMA BytesExist ==
    ASSUME NEW S, IsFiniteSet(S)
    PROVE  \E f : f = [s \in SUBSET S |-> BytesFrom(f, s)]
<1> DEFINE n == Cardinality(S)
           Sums(m, f) == \A s \in SUBSET S : Cardinality(s) <= m => f[s] = BytesFrom(f, s)
           T == {m \in 0 .. n : \E f : Sums(m, f)}
<1>1. /\ n \in Nat
      /\ \A s \in SUBSET S : IsFiniteSet(s) /\ Cardinality(s) \in 0 .. n
  BY FS_Subset, FS_CardinalityType
<1>2. \A s \in SUBSET S : s # {} =>
         LET x == CHOOSE y \in s : TRUE
         IN  s \ {x} \in SUBSET S /\ Cardinality(s \ {x}) = Cardinality(s) - 1
  BY <1>1, FS_RemoveElement
<1>3. 0 \in T
  <2>1. \A s \in SUBSET S : Cardinality(s) <= 0 => s = {}
    BY <1>1, FS_EmptySet
  <2>2. Sums(0, [s \in SUBSET S |-> 0])
    BY <2>1 DEF BytesFrom
  <2> HIDE DEF Sums
  <2> QED
    BY <1>1, <2>2
<1>4. ASSUME NEW m \in 0 .. n - 1, m \in T
      PROVE  m + 1 \in T
  <2>1. PICK f : Sums(m, f)
    BY <1>4
  <2> DEFINE g == [s \in SUBSET S |->
                     IF Cardinality(s) <= m THEN f[s] ELSE BytesFrom(f, s)]
  <2>2. ASSUME NEW s \in SUBSET S, Cardinality(s) <= m + 1
        PROVE  g[s] = BytesFrom(g, s)
    <3>1. g[s] = BytesFrom(f, s)
      BY <2>1
    <3>2. CASE s = {}
      BY <3>1, <3>2 DEF BytesFrom
    <3>3. CASE s # {}
      <4> DEFINE r == s \ {CHOOSE x \in s : TRUE}
      <4>1. r \in SUBSET S /\ Cardinality(r) <= m
        BY <1>1, <1>2, <2>2, <3>3
      <4>2. g[r] = f[r]
        BY <4>1
      <4> HIDE DEF g
      <4> QED
        BY <3>1, <3>3, <4>2 DEF BytesFrom
    <3> QED
      BY <3>2, <3>3
  <2>3. Sums(m + 1, g)
    BY <2>2
  <2>4. m + 1 \in 0 .. n
    BY <1>1
  <2> HIDE DEF Sums, g
  <2> QED
    BY <2>3, <2>4
<1>5. PICK f : Sums(n, f)
  <2> HIDE DEF Sums, T, n
  <2>1. 0 .. n \subseteq T
    BY <1>1, <1>3, <1>4, BoundedInduction
  <2>2. n \in T
    BY <1>1, <2>1
  <2> QED
    BY <2>2 DEF T
<1> DEFINE h == [s \in SUBSET S |-> f[s]]
<1>6. ASSUME NEW s \in SUBSET S
      PROVE  h[s] = BytesFrom(h, s)
  <2>1. f[s] = BytesFrom(f, s)
    BY <1>1, <1>5
  <2>2. h[s] = f[s] /\ h[s \ {CHOOSE x \in s : TRUE}] = f[s \ {CHOOSE x \in s : TRUE}]
    OBVIOUS
  <2> HIDE DEF h
  <2> QED
    BY <2>1, <2>2 DEF BytesFrom
<1>7. h = [s \in SUBSET S |-> BytesFrom(h, s)]
  <2>1. h = [s \in SUBSET S |-> h[s]]
    OBVIOUS
  <2> HIDE DEF h
  <2> QED
    BY <1>6, <2>1
<1> QED
  BY <1>7

(* A word is as long in bytes as in runes when each takes one byte. *)
LEMMA BytesAre ==
    ASSUME NEW S, IsFiniteSet(S), \A i \in S : LowerBytes(At(i)) \in Nat \ {0}
    PROVE  LET bytes == MapThenSumSet(LAMBDA i : LowerBytes(At(i)), S)
           IN  /\ bytes \in Nat
               /\ (\A i \in S : LowerBytes(At(i)) = 1) => bytes = Cardinality(S)
<1> DEFINE n == Cardinality(S)
           sum == CHOOSE f : f = [s \in SUBSET S |-> BytesFrom(f, s)]
           Single == \A i \in S : LowerBytes(At(i)) = 1
           Holds(s) == sum[s] \in Nat /\ (Single => sum[s] = Cardinality(s))
           T == {m \in 0 .. n : \A s \in SUBSET S : Cardinality(s) <= m => Holds(s)}
<1>1. MapThenSumSet(LAMBDA i : LowerBytes(At(i)), S) = sum[S]
  BY DEF MapThenSumSet, MapThenFoldSet, BytesFrom
<1>2. sum = [s \in SUBSET S |-> BytesFrom(sum, s)]
  BY BytesExist
<1> HIDE DEF sum
<1>3. \A s \in SUBSET S : sum[s] = BytesFrom(sum, s)
  BY <1>2
<1>4. /\ n \in Nat
      /\ \A s \in SUBSET S : IsFiniteSet(s) /\ Cardinality(s) \in 0 .. n
  BY FS_Subset, FS_CardinalityType
<1>5. \A s \in SUBSET S : s # {} =>
         LET x == CHOOSE y \in s : TRUE
         IN  /\ x \in S
             /\ s \ {x} \in SUBSET S /\ Cardinality(s \ {x}) = Cardinality(s) - 1
  BY <1>4, FS_RemoveElement
<1>6. 0 \in T
  <2>1. \A s \in SUBSET S : Cardinality(s) <= 0 => s = {}
    BY <1>4, FS_EmptySet
  <2>2. sum[{}] = 0 /\ Cardinality({}) = 0
    BY <1>3, FS_EmptySet DEF BytesFrom
  <2> QED
    BY <1>4, <2>1, <2>2
<1>7. ASSUME NEW m \in 0 .. n - 1, m \in T
      PROVE  m + 1 \in T
  <2>1. ASSUME NEW s \in SUBSET S, Cardinality(s) <= m + 1
        PROVE  Holds(s)
    <3>1. CASE s = {}
      <4>1. sum[{}] = 0 /\ Cardinality({}) = 0
        BY <1>3, FS_EmptySet DEF BytesFrom
      <4> QED
        BY <3>1, <4>1
    <3>2. CASE s # {}
      <4> DEFINE x == CHOOSE y \in s : TRUE
                 r == s \ {x}
      <4>1. x \in S /\ r \in SUBSET S /\ Cardinality(r) = Cardinality(s) - 1
        BY <1>5, <3>2
      <4>2. sum[s] = LowerBytes(At(x)) + sum[r]
        BY <1>3, <3>2 DEF BytesFrom
      <4>3. LowerBytes(At(x)) \in Nat /\ (Single => LowerBytes(At(x)) = 1)
        BY <4>1
      <4>4. Cardinality(s) \in Nat /\ Cardinality(r) <= m
        BY <1>4, <2>1, <4>1
      <4>5. Holds(r)
        BY <1>7, <4>1, <4>4
      <4> HIDE DEF x, r, Single
      <4> QED
        BY <4>1, <4>2, <4>3, <4>4, <4>5
    <3> QED
      BY <3>1, <3>2
  <2>2. m + 1 \in 0 .. n
    BY <1>4
  <2> HIDE DEF Holds
  <2> QED
    BY <2>1, <2>2
<1>8. Holds(S)
  <2> HIDE DEF Holds, T, n
  <2>1. 0 .. n \subseteq T
    BY <1>4, <1>6, <1>7, BoundedInduction
  <2>2. n \in T
    BY <1>4, <2>1
  <2> QED
    BY <2>2, <1>4 DEF T, n
<1> QED
  BY <1>1, <1>8

-----------------------------------------------------------------------------
(* What one Scan does. *)

(* What lineTracker makes of some line ends is a line again. *)
LEMMA TrackIsLine ==
    ASSUME NEW from \in [number : Nat, start : Nat],
           NEW a \in Nat, NEW b \in Int, NEW ends \in SUBSET (a .. b)
    PROVE  /\ Track(from, ends) \in [number : Nat, start : Nat]
           /\ ends = {} => Track(from, ends) = from
<1>1. IsFiniteSet(ends) /\ Cardinality(ends) \in Nat
  <2>1. a \in Int
    OBVIOUS
  <2> QED
    BY <2>1, IntervalIsFinite
<1>2. ends # {} => Max(ends) \in a .. b
  <2>1. ends \subseteq Int /\ ends \subseteq a .. b
    OBVIOUS
  <2> QED
    BY <1>1, <2>1, MaxIs
<1>3. ends = {} => Cardinality(ends) = 0
  BY FS_EmptySet
<1> QED
  BY <1>1, <1>2, <1>3 DEF Track

(* A token begins on a line. *)
LEMMA StartLineIsLine ==
    ASSUME LexerOK, MoreInput
    PROVE  StartLine \in [number : Nat, start : Nat]
<1>1. LineEnds(pos, Start) \in SUBSET (pos .. Start - 1) /\ pos \in Nat /\ Start - 1 \in Int
  BY StartIsFirst DEF LineEnds, LexerOK
<1>2. line \in [number : Nat, start : Nat]
  BY DEF LexerOK
<1> QED
  BY <1>1, <1>2, TrackIsLine DEF StartLine

(* Scan finds a token: where it ends, where Scan goes on, which is not at  *)
(* its end only after a wide word, and the lines that end in it.           *)
Finds(kind, end, next) ==
    LET t == [kind |-> kind, from |-> Start, end |-> end]
    IN  /\ Scanning
        /\ Found(kind, end, next)
        /\ end \in Start + 1 .. Size
        /\ next \in Nat
        /\ next = end \/ IsWideWord(t)
        /\ end < Size => ~CouldGoOn(t)
        /\ kind = "String" \/ \A i \in Start .. end - 1 : At(i) \notin {"LF", "CR"}
        /\ line' = Track(StartLine, LineEndsInString(Start, end))

(* Scan finds no token. *)
FindsNone ==
    /\ result /\ ~result'
    /\ UNCHANGED <<input, tokens>>
    /\ \/ MoreInput /\ pos' = Start /\ line' = StartLine
       \/ ~MoreInput /\ line' = line /\ pos' = IF pos < Size THEN Size ELSE pos

(* A token without line ends leaves the lexer on the line it begins on. *)
LEMMA NoLineEnds ==
    ASSUME LexerOK, MoreInput, NEW end \in Start + 1 .. Size,
           \A i \in Start .. end - 1 : At(i) \notin {"LF", "CR"}
    PROVE  Track(StartLine, LineEndsInString(Start, end)) = StartLine
<1>1. LineEndsInString(Start, end) = {}
  BY DEF LineEndsInString
<1>2. StartLine \in [number : Nat, start : Nat] /\ {} \in SUBSET (0 .. 0)
  BY StartLineIsLine
<1> QED
  BY <1>1, <1>2, TrackIsLine

(* An operator of two runes, neither of which ends a line. *)
LEMMA PairFinds ==
    ASSUME LexerOK, ScanPair
    PROVE  \E kind \in TokenKind : \E end, next : Finds(kind, end, next)
<1> PICK kind \in TokenKind : kind = "Operator"
  BY DEF TokenKind
<1>1. PICK p \in Pairs : First = p[1] /\ Followed(Start, p[2])
  BY DEF ScanPair, BeginsPair
<1>2. MoreInput /\ Start \in Nat /\ Size \in Nat
  BY StartIsFirst DEF ScanPair, Scanning
<1> PICK end \in Nat : end = Start + 2
  BY <1>2
<1> DEFINE t == [kind |-> kind, from |-> Start, end |-> end]
<1>3. end \in Start + 1 .. Size
  BY <1>1, <1>2 DEF Followed
<1>4. p[1] \notin {"LF", "CR"} /\ p[2] \notin {"LF", "CR"}
  BY DEF Pairs
<1>5. \A i \in Start .. end - 1 : At(i) \notin {"LF", "CR"}
  <2>1. \A i \in Start .. end - 1 : i = Start \/ i = Start + 1
    BY <1>2
  <2> QED
    BY <1>1, <1>4, <2>1 DEF First, Followed
<1>6. ~CouldGoOn(t)
  BY <1>2 DEF CouldGoOn
<1>7. line' = Track(StartLine, LineEndsInString(Start, end))
  BY <1>2, <1>3, <1>5, NoLineEnds DEF ScanPair
<1>8. Scanning /\ Found(kind, end, end)
  BY DEF ScanPair, Found
<1>9. Finds(kind, end, end)
  BY <1>2, <1>3, <1>5, <1>6, <1>7, <1>8 DEF Finds
<1> QED
  BY <1>9

(* An operator of one rune, with which the next makes no longer one. *)
LEMMA RuneFinds ==
    ASSUME LexerOK, ScanRune
    PROVE  \E kind \in TokenKind : \E end, next : Finds(kind, end, next)
<1> PICK kind \in TokenKind : kind = "Operator"
  BY DEF TokenKind
<1>1. MoreInput /\ Start \in Nat /\ Size \in Nat /\ Start \in Offset
  BY StartIsFirst DEF ScanRune, Scanning
<1> PICK end \in Nat : end = Start + 1
  BY <1>1
<1> DEFINE t == [kind |-> kind, from |-> Start, end |-> end]
<1>2. end \in Start + 1 .. Size
  BY <1>1 DEF Offset
<1>3. First \notin {"LF", "CR"}
  BY DEF ScanRune, Operators
<1>4. \A i \in Start .. end - 1 : At(i) \notin {"LF", "CR"}
  <2>1. \A i \in Start .. end - 1 : i = Start
    BY <1>1
  <2> QED
    BY <1>3, <2>1 DEF First
<1>5. end < Size => ~CouldGoOn(t)
  <2> SUFFICES ASSUME end < Size, <<At(Start), At(Start + 1)>> \in Pairs
               PROVE  FALSE
    BY DEF CouldGoOn
  <2>1. BeginsPair
    BY DEF BeginsPair, First, Followed
  <2> QED
    BY <2>1 DEF ScanRune
<1>6. line' = Track(StartLine, LineEndsInString(Start, end))
  BY <1>1, <1>2, <1>4, NoLineEnds DEF ScanRune
<1>7. Scanning /\ Found(kind, end, end)
  BY DEF ScanRune, Found
<1>8. Finds(kind, end, end)
  BY <1>2, <1>4, <1>5, <1>6, <1>7 DEF Finds
<1> QED
  BY <1>8

(* A number ends before the first rune that belongs to none. *)
LEMMA NumberFinds ==
    ASSUME LexerOK, ScanNumber, result'
    PROVE  \E kind \in TokenKind : \E end, next : Finds(kind, end, next)
<1> PICK kind \in TokenKind : kind = "Number"
  BY DEF TokenKind
<1> PICK end : end = NumberEnd
  OBVIOUS
<1> DEFINE run == {i \in Offset : IsNumeric(At(i))}
           t == [kind |-> kind, from |-> Start, end |-> end]
<1>1. /\ Scanning /\ end > Start
      /\ Found(kind, end, end) /\ line' = StartLine
  BY DEF ScanNumber, Refuse, Found
<1>2. MoreInput /\ Start \in Nat /\ Size \in Nat
  BY <1>1, StartIsFirst DEF Scanning
<1>3. end \in Start .. Size /\ Start .. end - 1 \subseteq run /\ end \notin run
  BY <1>2, RunFromStart DEF NumberEnd
<1>4. end \in Start + 1 .. Size /\ end \in Nat
  BY <1>1, <1>2, <1>3
<1>5. \A i \in Start .. end - 1 : At(i) \notin {"LF", "CR"}
  BY <1>3 DEF IsNumeric
<1>6. end < Size => ~CouldGoOn(t)
  <2>1. end < Size => end \in Offset
    BY <1>2, <1>4 DEF Offset
  <2> QED
    BY <1>3, <2>1 DEF CouldGoOn
<1>7. line' = Track(StartLine, LineEndsInString(Start, end))
  BY <1>1, <1>2, <1>4, <1>5, NoLineEnds
<1>8. Finds(kind, end, end)
  BY <1>1, <1>4, <1>5, <1>6, <1>7 DEF Finds
<1> QED
  BY <1>8

(* A string ends with a quote that no other follows. *)
LEMMA StringFinds ==
    ASSUME LexerOK, ScanString, result'
    PROVE  \E kind \in TokenKind : \E end, next : Finds(kind, end, next)
<1> PICK kind \in TokenKind : kind = "String"
  BY DEF TokenKind
<1> PICK end : end = Closing + 1
  OBVIOUS
<1> DEFINE t == [kind |-> kind, from |-> Start, end |-> end]
<1>1. /\ Scanning /\ Closing < Size
      /\ Found(kind, end, end)
      /\ line' = Track(StartLine, LineEndsInString(Start, Closing))
  BY DEF ScanString, Refuse, Found
<1>2. MoreInput /\ Start \in Nat /\ Size \in Nat /\ Start \in Offset
  BY <1>1, StartIsFirst DEF Scanning
<1>3. Closing \in Start + 1 .. Size /\ At(Closing) = Quote /\ ~Followed(Closing, Quote)
  BY <1>1, <1>2, ClosingIs
<1>4. end \in Start + 1 .. Size /\ end \in Nat
  BY <1>1, <1>2, <1>3
<1>5. end < Size => ~CouldGoOn(t)
  BY <1>3 DEF CouldGoOn, Followed
<1>6. LineEndsInString(Start, end) = LineEndsInString(Start, Closing)
  <2>1. \A k \in Start .. end - 1 : k = Closing \/ k \in Start .. Closing - 1
    BY <1>2, <1>3
  <2>2. Start .. Closing - 1 \subseteq Start .. end - 1
    BY <1>2, <1>3
  <2>3. At(Closing) \notin {"LF", "CR"}
    BY <1>3 DEF Quote
  <2> QED
    BY <2>1, <2>2, <2>3 DEF LineEndsInString
<1>7. Finds(kind, end, end)
  BY <1>1, <1>4, <1>5, <1>6 DEF Finds
<1> QED
  BY <1>7

(* A word ends before the first rune that belongs to none, and unless it   *)
(* is wide Scan goes on there.                                             *)
LEMMA WordFinds ==
    ASSUME LexerOK, ScanWord
    PROVE  \E kind \in TokenKind : \E end, next : Finds(kind, end, next)
<1> PICK kind \in TokenKind : kind = "Word"
  BY DEF TokenKind
<1> PICK end : end = WordEnd
  OBVIOUS
<1> DEFINE run == {i \in Offset : IsIdentRune(At(i))}
           bytes == MapThenSumSet(LAMBDA i : LowerBytes(At(i)), Start .. end - 1)
           t == [kind |-> kind, from |-> Start, end |-> end]
<1> PICK next : next = Start + bytes
  OBVIOUS
<1>1. Scanning /\ BeginsWord /\ Found(kind, end, next) /\ line' = StartLine
  BY DEF ScanWord, Found
<1>2. MoreInput /\ Start \in Nat /\ Size \in Nat /\ Start \in Offset
  BY <1>1, StartIsFirst DEF Scanning
<1>3. Start \in run
  BY <1>1, <1>2 DEF BeginsWord, First, IsIdentRune
<1>4. /\ end \in Start .. Size /\ Start .. end - 1 \subseteq run /\ end \notin run
      /\ end > Start
  BY <1>2, <1>3, RunFromStart DEF WordEnd
<1>5. end \in Start + 1 .. Size
  BY <1>2, <1>4
<1>6. \A i \in Start .. end - 1 : At(i) \notin {"LF", "CR"}
  BY <1>4, RunesAreUnicode DEF RunesAssumption, IsIdentRune
<1>7. end < Size => ~CouldGoOn(t)
  <2>1. end < Size => end \in Offset
    BY <1>2, <1>5 DEF Offset
  <2> QED
    BY <1>4, <2>1 DEF CouldGoOn
<1>8. line' = Track(StartLine, LineEndsInString(Start, end))
  BY <1>1, <1>2, <1>5, <1>6, NoLineEnds
<1>9. /\ IsFiniteSet(Start .. end - 1) /\ Cardinality(Start .. end - 1) = end - Start
      /\ \A i \in Start .. end - 1 : LowerBytes(At(i)) \in Nat \ {0}
  <2>1. Start \in Int /\ end - 1 \in Int
    BY <1>2, <1>5
  <2>2. IsFiniteSet(Start .. end - 1) /\ Cardinality(Start .. end - 1) = end - 1 - Start + 1
    BY <1>2, <1>5, <2>1, FS_Interval
  <2>3. Start .. end - 1 \subseteq Offset
    BY <1>4
  <2> QED
    BY <1>2, <1>5, <2>2, <2>3, TextIsOK
<1>10. /\ bytes \in Nat
       /\ (\A i \in Start .. end - 1 : LowerBytes(At(i)) = 1) => bytes = end - Start
  BY <1>9, BytesAre
<1> HIDE DEF bytes
<1>11. next \in Nat /\ (next = end \/ IsWideWord(t))
  <2>1. \A n \in Nat \ {0} : n = 1 \/ n > 1
    OBVIOUS
  <2>2. IsWideWord(t) \/ \A i \in Start .. end - 1 : LowerBytes(At(i)) = 1
    BY <1>9, <2>1 DEF IsWideWord
  <2> QED
    BY <1>2, <1>5, <1>10, <2>2
<1>12. Finds(kind, end, next)
  BY <1>1, <1>5, <1>6, <1>7, <1>8, <1>11 DEF Finds
<1> QED
  BY <1>12

(* Each Scan finds a token of the text or ends. *)
LEMMA ScanStep ==
    ASSUME LexerOK, Scan
    PROVE  FindsNone \/ \E kind \in TokenKind : \E end, next : Finds(kind, end, next)
<1>1. ASSUME NEW kind, Scanning, Refuse(kind)
      PROVE  FindsNone
  BY <1>1 DEF Refuse, FindsNone, Scanning
<1>2. CASE ScanPair
  BY <1>2, PairFinds
<1>3. CASE ScanRune
  BY <1>3, RuneFinds
<1>4. CASE ScanNumber
  <2>1. CASE result'
    BY <1>4, <2>1, NumberFinds
  <2>2. CASE ~result'
    BY <1>1, <1>4, <2>2 DEF ScanNumber, Found, Scanning
  <2> QED
    BY <2>1, <2>2
<1>5. CASE NumberPanics
  BY <1>1, <1>5 DEF NumberPanics
<1>6. CASE ScanString
  <2>1. CASE result'
    BY <1>6, <2>1, StringFinds
  <2>2. CASE ~result'
    BY <1>1, <1>6, <2>2 DEF ScanString, Found, Scanning
  <2> QED
    BY <2>1, <2>2
<1>7. CASE ScanWord
  BY <1>7, WordFinds
<1>8. CASE Unexpected
  BY <1>1, <1>8 DEF Unexpected
<1>9. CASE EndOfInput
  BY <1>9 DEF EndOfInput, FindsNone
<1> QED
  BY <1>2, <1>3, <1>4, <1>5, <1>6, <1>7, <1>8, <1>9 DEF Scan

(* A token that was found, and where Scan goes on. *)
Takes(t, next) ==
    /\ Scanning
    /\ tokens' = Append(tokens, t)
    /\ pos' = next
    /\ UNCHANGED <<input, result>>
    /\ t.from = Start /\ t.end \in Start + 1 .. Size
    /\ t.line = StartLine.number /\ t.column = Start - StartLine.start
    /\ next = t.end \/ IsWideWord(t)
    /\ t.end < Size => ~CouldGoOn(t)
    /\ t.kind = "String" \/ \A i \in Start .. t.end - 1 : At(i) \notin {"LF", "CR"}
    /\ line' = Track(StartLine, LineEndsInString(Start, t.end))

(* Each step takes a token, ends the scan or changes nothing. *)
LEMMA StepTakes ==
    ASSUME LexerOK, [Scan]_vars
    PROVE  \/ UNCHANGED vars
           \/ FindsNone
           \/ \E t \in Token, next \in Nat : Takes(t, next)
<1> SUFFICES ASSUME NEW kind \in TokenKind, NEW end, NEW next, Finds(kind, end, next)
             PROVE  \E t \in Token : next \in Nat /\ Takes(t, next)
  BY ScanStep
<1> DEFINE s == [kind |-> kind, from |-> Start, end |-> end]
<1> PICK t : t = [kind |-> kind, from |-> Start, end |-> end,
                  line |-> StartLine.number, column |-> Start - StartLine.start]
  OBVIOUS
<1>1. /\ Start \in Nat /\ Size \in Nat
      /\ StartLine \in [number : Nat, start : Nat]
  BY StartIsFirst, StartLineIsLine DEF Finds, Scanning
<1>2. end \in Start + 1 .. Size /\ next \in Nat /\ Scanning
  BY DEF Finds
<1>3. t \in Token
  BY <1>1, <1>2 DEF Token
<1>4. /\ tokens' = Append(tokens, t) /\ pos' = next
      /\ UNCHANGED <<input, result>>
  BY DEF Finds, Found
<1>5. next = t.end \/ IsWideWord(t)
  <2>1. next = end \/ IsWideWord(s)
    BY DEF Finds
  <2> QED
    BY <2>1 DEF IsWideWord
<1>6. t.end < Size => ~CouldGoOn(t)
  <2>1. end < Size => ~CouldGoOn(s)
    BY DEF Finds
  <2>2. CouldGoOn(t) = CouldGoOn(s)
    BY DEF CouldGoOn
  <2> QED
    BY <2>1, <2>2
<1>7. t.kind = "String" \/ \A i \in Start .. t.end - 1 : At(i) \notin {"LF", "CR"}
  BY DEF Finds
<1>8. line' = Track(StartLine, LineEndsInString(Start, t.end))
  BY DEF Finds
<1>9. Takes(t, next)
  BY <1>2, <1>4, <1>5, <1>6, <1>7, <1>8 DEF Takes
<1> QED
  BY <1>2, <1>3, <1>9

(* The state keeps its type. *)
LEMMA InitType == Init => LexerOK
BY DEF Init, LexerOK

(* So it does in each way that Scan ends. *)
LEMMA NextType ==
    ASSUME LexerOK, [Scan]_vars
    PROVE  LexerOK'
<1>1. CASE UNCHANGED vars
  BY <1>1 DEF LexerOK, vars
<1>2. CASE FindsNone
  <2>1. Size \in Nat
    BY TextIsOK
  <2>2. MoreInput => Start \in Nat /\ StartLine \in [number : Nat, start : Nat]
    BY StartIsFirst, StartLineIsLine
  <2> QED
    BY <1>2, <2>1, <2>2 DEF LexerOK, FindsNone
<1>3. ASSUME NEW t \in Token, NEW next \in Nat, Takes(t, next)
      PROVE  LexerOK'
  <2>1. Start \in Nat /\ StartLine \in [number : Nat, start : Nat] /\ t.end \in Nat
    BY <1>3, StartIsFirst, StartLineIsLine DEF Takes, Scanning, Token
  <2>2. LineEndsInString(Start, t.end) \in SUBSET (Start .. t.end - 1) /\ t.end - 1 \in Int
    BY <2>1 DEF LineEndsInString
  <2>3. line' \in [number : Nat, start : Nat]
    BY <1>3, <2>1, <2>2, TrackIsLine DEF Takes
  <2> QED
    BY <1>3, <2>3 DEF LexerOK, Takes
<1> QED
  BY <1>1, <1>2, <1>3, StepTakes

-----------------------------------------------------------------------------
(* Tokens are whole. *)

(* Each token is as long as it can be. *)
LEMMA NextWhole ==
    ASSUME LexerOK, TokensAreWhole, [Scan]_vars
    PROVE  TokensAreWhole'
<1>1. input' = input
  BY StepTakes DEF vars, FindsNone, Takes
<1>2. TokensAreWhole' <=>
        \A n \in DOMAIN tokens' : tokens'[n].end < Size => ~CouldGoOn(tokens'[n])
  BY <1>1 DEF TokensAreWhole, CouldGoOn, At, Size
<1>3. CASE tokens' = tokens
  BY <1>2, <1>3 DEF TokensAreWhole
<1>4. ASSUME NEW t \in Token, NEW next \in Nat, Takes(t, next)
      PROVE  TokensAreWhole'
  <2> SUFFICES ASSUME NEW n \in DOMAIN tokens', tokens'[n].end < Size
               PROVE  ~CouldGoOn(tokens'[n])
    BY <1>2
  <2>1. /\ tokens' = Append(tokens, t) /\ tokens \in Seq(Token)
        /\ t.end < Size => ~CouldGoOn(t)
    BY <1>4 DEF Takes, LexerOK
  <2>2. CASE n \in DOMAIN tokens
    <3>1. tokens'[n] = tokens[n]
      BY <2>1, <2>2
    <3> QED
      BY <2>2, <3>1 DEF TokensAreWhole
  <2>3. CASE n \notin DOMAIN tokens
    <3>1. tokens'[n] = t
      BY <2>1, <2>3
    <3> QED
      BY <2>1, <3>1
  <2> QED
    BY <2>2, <2>3
<1> QED
  BY <1>3, <1>4, StepTakes DEF vars, FindsNone

(* TokensAreWhole: each token Scan finds is as long as it can be. *)
THEOREM ScanFindsWholeTokens == Spec => []TokensAreWhole
<1>1. Init => LexerOK /\ TokensAreWhole
  BY InitType DEF Init, TokensAreWhole
<1>2. LexerOK /\ TokensAreWhole /\ [Scan]_vars => LexerOK' /\ TokensAreWhole'
  BY NextType, NextWhole
<1> QED
  BY <1>1, <1>2, PTL DEF Spec

-----------------------------------------------------------------------------
(* Nothing is skipped. *)

(* The tokens with one more at the end. *)
LEMMA TokensWithOneMore ==
    ASSUME LexerOK, NEW t \in Token, NEW next, Takes(t, next)
    PROVE  /\ Len(tokens) \in Nat /\ Len(tokens') = Len(tokens) + 1
           /\ DOMAIN tokens = 1 .. Len(tokens) /\ DOMAIN tokens' = 1 .. Len(tokens')
           /\ \A n \in DOMAIN tokens : n \in DOMAIN tokens' /\ tokens'[n] = tokens[n]
           /\ tokens'[Len(tokens')] = t
BY DEF LexerOK, Takes

(* What lies before one position, but not between another and it, lies before the other. *)
LEMMA BelowBoth ==
    ASSUME NEW i \in Nat, NEW from \in Nat, NEW next \in Int,
           ~(i >= next), ~(i \in from .. next - 1)
    PROVE  ~(i >= from)
  OBVIOUS

(* The next token begins where the white space after the last one ends. *)
LEMMA NextSkipsNothing ==
    ASSUME LexerOK, NothingIsSkipped, [Scan]_vars
    PROVE  NothingIsSkipped'
<1> DEFINE Narrow == \A n \in DOMAIN tokens : ~IsWideWord(tokens[n])
<1>1. CASE UNCHANGED vars
  BY <1>1 DEF vars, NothingIsSkipped, IsWideWord, InOrder, Covered, Offset, At, Size
<1>2. input' = input
  BY StepTakes DEF vars, FindsNone, Takes
<1>3. /\ Size' = Size /\ Offset' = Offset
      /\ \A i : At(i)' = At(i)
      /\ \A t : IsWideWord(t)' = IsWideWord(t)
  BY <1>2 DEF Size, Offset, At, IsWideWord
<1>4. Size \in Nat /\ pos \in Nat
  BY TextIsOK DEF LexerOK
<1>5. CASE FindsNone
  <2> SUFFICES ASSUME Narrow PROVE (InOrder /\ Covered /\ pos <= Size)'
    BY <1>2, <1>5 DEF FindsNone, NothingIsSkipped, IsWideWord, At
  <2>1. InOrder /\ Covered /\ pos <= Size
    BY DEF NothingIsSkipped
  <2>2. /\ pos' \in pos .. Size
        /\ \A i \in pos .. pos' - 1 : IsSpace(At(i))
    <3>1. CASE MoreInput
      BY <1>4, <1>5, <3>1, StartIsFirst DEF FindsNone
    <3>2. CASE ~MoreInput
      BY <1>4, <1>5, <2>1, <3>2 DEF FindsNone, MoreInput
    <3> QED
      BY <3>1, <3>2
  <2>3. tokens' = tokens
    BY <1>5 DEF FindsNone
  <2>4. InOrder'
    <3> SUFFICES ASSUME NEW n \in DOMAIN tokens
                 PROVE  /\ tokens[n].from < tokens[n].end
                        /\ tokens[n].end <=
                             IF n < Len(tokens) THEN tokens[n + 1].from ELSE pos'
      BY <2>3 DEF InOrder
    <3>1. tokens[n] \in Token
      BY DEF LexerOK
    <3> QED
      BY <1>4, <2>1, <2>2, <3>1 DEF InOrder, Token
  <2>5. Covered'
    <3> SUFFICES ASSUME NEW i \in Offset, ~(i >= pos'), ~IsSpace(At(i))
                 PROVE  \E n \in DOMAIN tokens : i \in tokens[n].from .. tokens[n].end - 1
      BY <1>3, <2>3 DEF Covered
    <3>1. i \in Nat
      BY <1>4 DEF Offset
    <3>2. ~(i \in pos .. pos' - 1)
      BY <2>2
    <3>3. pos' \in Int
      BY <1>4, <2>2
    <3>4. ~(i >= pos)
      BY <1>4, <3>1, <3>2, <3>3, BelowBoth
    <3> QED
      BY <2>1, <3>4 DEF Covered
  <2> QED
    BY <1>3, <2>2, <2>4, <2>5
<1>6. ASSUME NEW t \in Token, NEW next \in Nat, Takes(t, next)
      PROVE  NothingIsSkipped'
  <2>1. /\ Len(tokens) \in Nat /\ Len(tokens') = Len(tokens) + 1
        /\ DOMAIN tokens = 1 .. Len(tokens) /\ DOMAIN tokens' = 1 .. Len(tokens')
        /\ \A n \in DOMAIN tokens : n \in DOMAIN tokens' /\ tokens'[n] = tokens[n]
        /\ tokens'[Len(tokens')] = t
    BY <1>6, TokensWithOneMore
  <2> SUFFICES ASSUME \A n \in DOMAIN tokens' : ~IsWideWord(tokens'[n])
               PROVE  (InOrder /\ Covered /\ pos <= Size)'
    BY <1>2 DEF NothingIsSkipped, IsWideWord, At
  <2>2. InOrder /\ Covered /\ pos <= Size
    <3>1. Narrow
      BY <2>1
    <3> QED
      BY <3>1 DEF NothingIsSkipped
  <2>3. ~IsWideWord(t) /\ pos' = t.end
    <3>1. Len(tokens') \in DOMAIN tokens'
      BY <2>1
    <3> QED
      BY <1>6, <2>1, <3>1 DEF Takes
  <2>4. /\ Start \in pos .. Size - 1 /\ \A i \in pos .. Start - 1 : IsSpace(At(i))
        /\ t.from = Start /\ t.end \in Start + 1 .. Size
    BY <1>6, StartIsFirst DEF Takes, Scanning
  <2>5. InOrder'
    <3> SUFFICES ASSUME NEW n \in DOMAIN tokens'
                 PROVE  /\ tokens'[n].from < tokens'[n].end
                        /\ tokens'[n].end <=
                             IF n < Len(tokens') THEN tokens'[n + 1].from ELSE pos'
      BY DEF InOrder
    <3>1. CASE n = Len(tokens')
      BY <1>4, <2>1, <2>3, <2>4, <3>1
    <3>2. CASE n < Len(tokens)
      BY <2>1, <2>2, <3>2 DEF InOrder
    <3>3. CASE n = Len(tokens)
      <4>1. n \in DOMAIN tokens /\ tokens[n] \in Token
        BY <2>1, <3>3 DEF LexerOK
      <4>2. tokens[n].from < tokens[n].end /\ tokens[n].end <= pos
        BY <2>1, <2>2, <3>3, <4>1 DEF InOrder
      <4>3. tokens'[n + 1] = t /\ n < Len(tokens') /\ tokens'[n] = tokens[n]
        BY <2>1, <3>3, <4>1
      <4> QED
        BY <1>4, <2>4, <4>1, <4>2, <4>3 DEF Token
    <3> QED
      BY <2>1, <3>1, <3>2, <3>3
  <2>6. Covered'
    <3> SUFFICES ASSUME NEW i \in Offset, ~(i >= pos'), ~IsSpace(At(i))
                 PROVE  \E n \in DOMAIN tokens' : i \in tokens'[n].from .. tokens'[n].end - 1
      BY <1>3 DEF Covered
    <3>1. CASE i < pos
      <4>1. PICK n \in DOMAIN tokens : i \in tokens[n].from .. tokens[n].end - 1
        BY <1>4, <2>2, <3>1 DEF Covered, Offset
      <4> QED
        BY <2>1, <4>1
    <3>2. CASE i >= pos
      <4>1. i \in t.from .. t.end - 1 /\ Len(tokens') \in DOMAIN tokens'
        BY <1>4, <2>1, <2>3, <2>4, <3>2 DEF Offset
      <4> QED
        BY <2>1, <4>1
    <3> QED
      BY <1>4, <3>1, <3>2 DEF Offset
  <2> QED
    BY <1>3, <1>4, <2>3, <2>4, <2>5, <2>6
<1> QED
  BY <1>1, <1>5, <1>6, StepTakes

(* NothingIsSkipped: tokens are pieces of the text one after the other and *)
(* only white space is between them, if no word is wide.                   *)
THEOREM ScanSkipsOnlySpace == Spec => []NothingIsSkipped
<1>1. Init => LexerOK /\ NothingIsSkipped
  <2> SUFFICES ASSUME Init PROVE NothingIsSkipped
    BY InitType
  <2>1. Size \in Nat /\ pos = 0 /\ tokens = <<>>
    BY InitType, TextIsOK DEF Init
  <2>2. \A i \in Offset : i >= pos
    BY <2>1 DEF Offset
  <2> QED
    BY <2>1, <2>2 DEF NothingIsSkipped, InOrder, Covered
<1>2. LexerOK /\ NothingIsSkipped /\ [Scan]_vars => LexerOK' /\ NothingIsSkipped'
  BY NextType, NextSkipsNothing
<1> QED
  BY <1>1, <1>2, PTL DEF Spec

-----------------------------------------------------------------------------
(* Positions are real. *)

(* Where lines begin, as far as an offset. *)
Lines(i) == {j \in 0 .. i : BeginsLine(j)}

(* As many lines begin as end: moved one on, a set is as large. *)
LEMMA MovedOn ==
    ASSUME NEW a \in Int, NEW b \in Int, NEW S \in SUBSET (a .. b)
    PROVE  LET T == {k + 1 : k \in S}
           IN  IsFiniteSet(T) /\ Cardinality(T) = Cardinality(S)
<1> DEFINE T == {k + 1 : k \in S}
           f == [k \in S |-> k + 1]
<1>1. IsFiniteSet(S) /\ S \subseteq Int
  <2>1. IsFiniteSet(S)
    BY IntervalIsFinite
  <2>2. a .. b \subseteq Int
    OBVIOUS
  <2> QED
    BY <2>1, <2>2
<1>2. f \in [S -> T] /\ \A x, y \in S : f[x] = f[y] => x = y
  BY <1>1
<1>3. \A t \in T : \E x \in S : f[x] = t
  OBVIOUS
<1>4. f \in Bijection(S, T)
  BY <1>2, <1>3 DEF Bijection, Injection, Surjection, IsInjective
<1> QED
  BY <1>1, <1>4, FS_Bijection DEF ExistsBijection

(* The number and the start of the line at a, and the line ends from there *)
(* to b, give those of the line at b.                                      *)
LEMMA TrackLines ==
    ASSUME LexerOK, NEW a \in Nat, NEW b \in Nat, a <= b, b <= Size,
           NEW from, from.number = Cardinality(Lines(a)), from.start = Max(Lines(a)),
           NEW ends, ends = {k \in a .. b - 1 : BeginsLine(k + 1)}
    PROVE  LET new == Track(from, ends)
           IN  new.number = Cardinality(Lines(b)) /\ new.start = Max(Lines(b))
<1> DEFINE T == {k + 1 : k \in ends}
<1>1. ends \in SUBSET (a .. b - 1) /\ b - 1 \in Int /\ a \in Int
  OBVIOUS
<1>2. IsFiniteSet(T) /\ Cardinality(T) = Cardinality(ends)
  BY <1>1, MovedOn
<1>3. Lines(b) = Lines(a) \cup T
  <2>1. ASSUME NEW j \in Lines(b)
        PROVE  j \in Lines(a) \cup T
    <3>1. j \in 0 .. b /\ BeginsLine(j)
      BY <2>1 DEF Lines
    <3>2. CASE j <= a
      BY <3>1, <3>2 DEF Lines
    <3>3. CASE j > a
      <4>1. j - 1 \in a .. b - 1 /\ j = j - 1 + 1
        BY <3>1, <3>3
      <4>2. j - 1 \in ends
        BY <3>1, <4>1
      <4> QED
        BY <4>1, <4>2
    <3> QED
      BY <3>1, <3>2, <3>3
  <2>2. Lines(a) \subseteq Lines(b)
    BY DEF Lines
  <2>3. T \subseteq Lines(b)
    <3> SUFFICES ASSUME NEW k \in ends PROVE k + 1 \in Lines(b)
      OBVIOUS
    <3>1. k + 1 \in 0 .. b
      BY <1>1
    <3> QED
      BY <3>1 DEF Lines
  <2> QED
    BY <2>1, <2>2, <2>3
<1>4. Lines(a) \cap T = {}
  <2>1. \A x \in T : x > a
    BY <1>1
  <2>2. \A x \in Lines(a) : ~(x > a)
    BY DEF Lines
  <2> QED
    BY <2>1, <2>2
<1>5. IsFiniteSet(Lines(a)) /\ Cardinality(Lines(a)) \in Nat
  <2>1. Lines(a) \in SUBSET (0 .. a) /\ 0 \in Int /\ a \in Int
    BY DEF Lines
  <2> QED
    BY <2>1, IntervalIsFinite
<1> HIDE DEF T
<1>6. Cardinality(Lines(b)) = Cardinality(Lines(a)) + Cardinality(T)
  <2>1. Cardinality(Lines(b)) =
          Cardinality(Lines(a)) + Cardinality(T) - Cardinality(Lines(a) \cap T)
    BY <1>2, <1>3, <1>5, FS_Union
  <2>2. Cardinality(Lines(a) \cap T) = 0 /\ Cardinality(T) \in Nat
    BY <1>2, <1>4, FS_EmptySet, FS_CardinalityType
  <2> QED
    BY <1>5, <2>1, <2>2
<1>7. Track(from, ends).number = Cardinality(Lines(b))
  BY <1>2, <1>6 DEF Track
<1>8. Track(from, ends).start = Max(Lines(b))
  <2>1. CASE ends = {}
    <3>1. Lines(b) = Lines(a)
      BY <1>3, <2>1 DEF T
    <3> QED
      BY <2>1, <3>1 DEF Track
  <2>2. CASE ends # {}
    <3> DEFINE m == Max(ends) + 1
    <3>1. IsFiniteSet(ends) /\ ends \subseteq Int
      <4>1. IsFiniteSet(ends)
        BY <1>1, IntervalIsFinite
      <4>2. a .. b - 1 \subseteq Int
        OBVIOUS
      <4> QED
        BY <1>1, <4>1, <4>2
    <3>2. Max(ends) \in ends /\ \A x \in ends : x <= Max(ends)
      BY <2>2, <3>1, MaxIs
    <3>3. m \in T /\ \A x \in T : x <= m
      <4>1. \A k \in ends : k + 1 <= Max(ends) + 1
        BY <3>1, <3>2
      <4> QED
        BY <3>2, <4>1 DEF T
    <3>4. m \in Int /\ m > a
      BY <1>1, <3>2
    <3>5. \A x \in Lines(a) : x <= m
      BY <3>4 DEF Lines
    <3> HIDE DEF m
    <3>6. m \in Lines(b) /\ \A x \in Lines(b) : x <= m
      BY <1>3, <3>3, <3>5
    <3>7. Lines(b) \subseteq Int /\ IsFiniteSet(Lines(b)) /\ Lines(b) # {}
      <4>1. Lines(b) \in SUBSET (0 .. b) /\ 0 \in Int /\ b \in Int
        BY DEF Lines
      <4>2. IsFiniteSet(Lines(b))
        BY <4>1, IntervalIsFinite
      <4>3. 0 .. b \subseteq Int
        OBVIOUS
      <4> QED
        BY <3>6, <4>1, <4>2, <4>3
    <3>8. Max(Lines(b)) \in Lines(b) /\ m <= Max(Lines(b))
      BY <3>6, <3>7, MaxIs
    <3>9. m = Max(Lines(b))
      BY <3>4, <3>6, <3>7, <3>8
    <3> QED
      BY <2>2, <3>9 DEF Track, m
  <2> QED
    BY <2>1, <2>2
<1> QED
  BY <1>7, <1>8

(* No word is wide, and no string has a CR and LF in it. *)
Tame == \A n \in DOMAIN tokens : ~IsWideWord(tokens[n]) /\ ~IsStringWithCRLF(tokens[n])

(* Unless Scan has ended, the line is the one that the lexer is on. *)
LineIsReal ==
    Tame /\ result =>
        /\ pos <= Size
        /\ line.number = Cardinality(Lines(pos)) /\ line.start = Max(Lines(pos))

(* After the white space the line is that of the next token. *)
LEMMA StartLineIsReal ==
    ASSUME LexerOK, LineIsReal, Tame, Scanning
    PROVE  StartLine.number = Cardinality(Lines(Start)) /\ StartLine.start = Max(Lines(Start))
<1>1. /\ pos \in Nat /\ Start \in Nat /\ pos <= Start /\ Start <= Size
      /\ line.number = Cardinality(Lines(pos)) /\ line.start = Max(Lines(pos))
  BY StartIsFirst DEF LexerOK, LineIsReal, Scanning
<1>2. LineEnds(pos, Start) = {k \in pos .. Start - 1 : BeginsLine(k + 1)}
  <2>1. ASSUME NEW k \in pos .. Start - 1
        PROVE  BeginsLine(k + 1) <=>
                  At(k) = "LF" \/ (At(k) = "CR" /\ ~Followed(k, "LF"))
    <3>1. k + 1 # 0 /\ k + 1 - 1 = k
      BY <1>1
    <3> QED
      BY <3>1 DEF BeginsLine, Followed
  <2> QED
    BY <2>1 DEF LineEnds
<1> QED
  BY <1>1, <1>2, TrackLines DEF StartLine

(* After a token the line is the one that it ends on. *)
LEMMA NextLineIsReal ==
    ASSUME LexerOK, LineIsReal, Tame, NEW t \in Token, NEW next \in Nat, Takes(t, next),
           ~IsWideWord(t), ~IsStringWithCRLF(t)
    PROVE  next <= Size /\ line'.number = Cardinality(Lines(next))
                        /\ line'.start = Max(Lines(next))
<1>1. /\ Start \in Nat /\ Size \in Nat /\ Start <= next /\ next <= Size
      /\ t.from = Start /\ next = t.end
      /\ line' = Track(StartLine, LineEndsInString(Start, next))
  BY StartIsFirst DEF Takes, Scanning
<1>2. LineEndsInString(Start, next) = {k \in Start .. next - 1 : BeginsLine(k + 1)}
  <2>1. ASSUME NEW k \in Start .. next - 1
        PROVE  BeginsLine(k + 1) <=> At(k) \in {"LF", "CR"}
    <3>1. k + 1 # 0 /\ k + 1 - 1 = k
      BY <1>1
    <3>2. At(k) = "CR" => ~Followed(k, "LF")
      <4>1. CASE t.kind = "String"
        BY <1>1, <4>1 DEF IsStringWithCRLF
      <4>2. CASE t.kind # "String"
        BY <1>1, <4>2 DEF Takes
      <4> QED
        BY <4>1, <4>2
    <3> QED
      BY <3>1, <3>2 DEF BeginsLine, Followed
  <2> QED
    BY <2>1 DEF LineEndsInString
<1>3. StartLine.number = Cardinality(Lines(Start)) /\ StartLine.start = Max(Lines(Start))
  BY StartLineIsReal DEF Takes
<1> QED
  BY <1>1, <1>2, <1>3, TrackLines

(* The line of the lexer is real, and with it that of the next token. *)
LEMMA NextIsReal ==
    ASSUME LexerOK, LineIsReal, PositionsAreReal, [Scan]_vars
    PROVE  LineIsReal' /\ PositionsAreReal'
<1>1. CASE UNCHANGED vars
  BY <1>1 DEF vars, LineIsReal, Tame, PositionsAreReal, IsWideWord, IsStringWithCRLF,
              IsAt, Lines, BeginsLine, Followed, At, Size
<1>2. input' = input
  BY StepTakes DEF vars, FindsNone, Takes
<1>3. PositionsAreReal' <=>
        \A n \in DOMAIN tokens' :
            (\A m \in 1 .. n - 1 : ~IsWideWord(tokens'[m]) /\ ~IsStringWithCRLF(tokens'[m]))
                => IsAt(tokens'[n])
  BY <1>2 DEF PositionsAreReal, IsWideWord, IsStringWithCRLF, IsAt, BeginsLine,
              Followed, At, Size
<1>4. LineIsReal' <=>
        ((\A n \in DOMAIN tokens' :
            ~IsWideWord(tokens'[n]) /\ ~IsStringWithCRLF(tokens'[n])) /\ result' =>
          /\ pos' <= Size
          /\ line'.number = Cardinality(Lines(pos')) /\ line'.start = Max(Lines(pos')))
  BY <1>2 DEF LineIsReal, Tame, IsWideWord, IsStringWithCRLF, Lines, BeginsLine,
              Followed, At, Size
<1>5. CASE FindsNone
  BY <1>3, <1>4, <1>5 DEF FindsNone, PositionsAreReal
<1>6. ASSUME NEW t \in Token, NEW next \in Nat, Takes(t, next)
      PROVE  LineIsReal' /\ PositionsAreReal'
  <2>1. /\ Len(tokens) \in Nat /\ Len(tokens') = Len(tokens) + 1
        /\ DOMAIN tokens = 1 .. Len(tokens) /\ DOMAIN tokens' = 1 .. Len(tokens')
        /\ \A n \in DOMAIN tokens : n \in DOMAIN tokens' /\ tokens'[n] = tokens[n]
        /\ tokens'[Len(tokens')] = t /\ Len(tokens') \in DOMAIN tokens'
    BY <1>6, TokensWithOneMore
  <2>2. LineIsReal'
    <3> SUFFICES ASSUME \A n \in DOMAIN tokens' :
                            ~IsWideWord(tokens'[n]) /\ ~IsStringWithCRLF(tokens'[n])
                 PROVE  /\ pos' <= Size
                        /\ line'.number = Cardinality(Lines(pos'))
                        /\ line'.start = Max(Lines(pos'))
      BY <1>4
    <3>1. Tame /\ ~IsWideWord(t) /\ ~IsStringWithCRLF(t)
      BY <2>1 DEF Tame
    <3> QED
      BY <1>6, <3>1, NextLineIsReal DEF Takes
  <2>3. PositionsAreReal'
    <3> SUFFICES ASSUME NEW n \in DOMAIN tokens',
                        \A m \in 1 .. n - 1 :
                            ~IsWideWord(tokens'[m]) /\ ~IsStringWithCRLF(tokens'[m])
                 PROVE  IsAt(tokens'[n])
      BY <1>3
    <3>1. CASE n \in DOMAIN tokens
      <4>1. \A m \in 1 .. n - 1 : tokens'[m] = tokens[m]
        BY <2>1, <3>1
      <4> QED
        BY <2>1, <3>1, <4>1 DEF PositionsAreReal
    <3>2. CASE n \notin DOMAIN tokens
      <4>1. n = Len(tokens') /\ 1 .. n - 1 = DOMAIN tokens
        BY <2>1, <3>2
      <4>2. Tame
        BY <2>1, <4>1 DEF Tame
      <4>3. /\ StartLine.number = Cardinality(Lines(Start))
            /\ StartLine.start = Max(Lines(Start))
        BY <1>6, <4>2, StartLineIsReal DEF Takes
      <4>4. IsAt(t)
        BY <1>6, <4>3 DEF Takes, IsAt, Lines
      <4> QED
        BY <2>1, <4>1, <4>4
    <3> QED
      BY <3>1, <3>2
  <2> QED
    BY <2>2, <2>3
<1> QED
  BY <1>1, <1>5, <1>6, StepTakes

(* PositionsAreReal: a token has its line and column in the text, unless a *)
(* wide word or a string with CR and LF comes before it.                   *)
THEOREM ScanTracksLines == Spec => []PositionsAreReal
<1>1. Init => LexerOK /\ LineIsReal /\ PositionsAreReal
  <2> SUFFICES ASSUME Init PROVE LineIsReal /\ PositionsAreReal
    BY InitType
  <2>1. /\ Size \in Nat /\ pos = 0 /\ tokens = <<>>
        /\ line.number = 1 /\ line.start = 0
    BY InitType, TextIsOK DEF Init
  <2>2. Lines(pos) = {0}
    BY <2>1 DEF Lines, BeginsLine
  <2>3. Cardinality({0}) = 1 /\ Max({0}) = 0
    <3>1. IsFiniteSet({0}) /\ Cardinality({0}) = 1
      BY FS_Singleton
    <3>2. {0} \subseteq Int /\ {0} # {}
      OBVIOUS
    <3>3. Max({0}) \in {0}
      BY <3>1, <3>2, MaxIs
    <3> QED
      BY <3>1, <3>3
  <2>4. LineIsReal
    <3>1. Cardinality(Lines(pos)) = 1 /\ Max(Lines(pos)) = 0
      BY <2>2, <2>3
    <3>2. pos <= Size /\ line.number = 1 /\ line.start = 0
      BY <2>1
    <3> QED
      BY <3>1, <3>2 DEF LineIsReal
  <2>5. PositionsAreReal
    BY <2>1 DEF PositionsAreReal
  <2> QED
    BY <2>4, <2>5
<1>2. LexerOK /\ LineIsReal /\ PositionsAreReal /\ [Scan]_vars
        => LexerOK' /\ LineIsReal' /\ PositionsAreReal'
  BY NextType, NextIsReal
<1> QED
  BY <1>1, <1>2, PTL DEF Spec

=============================================================================
