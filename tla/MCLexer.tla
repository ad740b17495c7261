------------------------------ MODULE MCLexer ------------------------------
(***************************************************************************)
(* The lexer on every text of at most four runes, one or two of each class *)
(* that it tells apart, and on longer ones of quotes and line ends.  "wide"*)
(* is a letter of two bytes and "digit" a digit that is not ASCII.         *)
(***************************************************************************)
EXTENDS Lexer

MCRune == {"a", "e", "wide", "1", "digit", ".", "'", "SP", "CR", "LF", "<", "=", "|"}

Texts(runes, size) == UNION {[1 .. n -> runes] : n \in 0 .. size}

MCInput == Texts(MCRune, 4) \cup Texts({"'", "CR", "LF", "a"}, 6)

MCIsSpace(r) == r \in {"SP", "CR", "LF"}
MCIsLetter(r) == r \in {"a", "e", "wide"}
MCIsDigit(r) == r \in {"1", "digit"}
MCLowerBytes(r) == IF r = "wide" THEN 2 ELSE 1

(* Digits with at most one point, and digits after an e. *)
MCParsesFloat(s) ==
    LET es == {i \in DOMAIN s : s[i] = "e"}
        points == {i \in DOMAIN s : s[i] = "."}
    IN  /\ Cardinality(es) <= 1 /\ Cardinality(points) <= 1
        /\ \A i \in es : i < Len(s) /\ \A p \in points : p < i
        /\ \E i \in DOMAIN s : s[i] = "1" /\ \A j \in es : i < j

=============================================================================
