------------------------------ MODULE MCParser ------------------------------
(***************************************************************************)
(* The inputs of the parser runs: every short sequence of tokens where an  *)
(* expression is due, long chains of operators of every level, and scripts *)
(* that are right but for one token, break off, or both.                   *)
(***************************************************************************)
EXTENDS Grammar, Exprs, MCTokens

Condition(words) ==
    <<"DELETE", "FROM", "t", "WHERE">> \o words \o <<";", "end">>

SeqsUpTo(S, n) == UNION {[1 .. k -> S] : k \in 0 .. n}

Short == {Condition(words) :
            words \in SeqsUpTo({"a", "(", ")", "*", "+", ","}, 5)
                        \cup SeqsUpTo({"1", "9", "-", "a", "=", ".", "NOT"}, 3)}

(* a op b op c op a, of operators of any level, with at most one sign. *)
OneOfEach == {"OR", "AND", "<", "-", "/"}

Signed(sign, i, word) == IF sign = i THEN <<"-", word>> ELSE <<word>>

Chains == {
    Condition(Signed(sign, 1, "a") \o <<ops[1]>> \o Signed(sign, 2, "b")
                \o <<ops[2]>> \o Signed(sign, 3, "c") \o <<ops[3]>> \o <<"a">>) :
    ops \in [1 .. 3 -> OneOfEach], sign \in 0 .. 3}

Samples == {
    <<"CREATE", "TABLE", "t", "(", "a", "INTEGER", "NOT", "NULL", ",",
      "b", "VARCHAR", "NULL", ",", "c", "NUMBER", ")", ";">>,
    <<"INSERT", "INTO", "t", "VALUES", "(", "1", ",", "'x'", ",", "NULL", ")", ";">>,
    <<"INSERT", "INTO", "t", "(", "a", ",", "b", ")", "VALUES", "(", ".5", "||", "1",
      ")", ";">>,
    <<"SELECT", "*", ",", "a", "(", "*", ")", ",", "b", "(", "a", ",", "9", ")",
      "FROM", "t", "WHERE", "(", "a", "OR", "TRUE", ")", "AND", "FALSE", ";">>,
    <<"UPDATE", "t", "SET", "a", "=", "b", "=", "c", ",", "a", "=", "1", ";">>,
    <<"UPDATE", "t", "SET", "(", "a", "=", "1", ",", "b", "=", "a", ")", "WHERE", "a",
      ";">>,
    <<"DELETE", "FROM", "t", ";", "SELECT", "a", "FROM", "t", ";">> }

Extra == {"a", "1", "(", ")", ",", ";", "NOT", "*", "=", "WHERE", "SELECT"}

(* A token left out, another one in its place, or one too many. *)
EditsAt(words, i) ==
    {RemoveAt(words, i)} \cup {[words EXCEPT ![i] = x] : x \in Extra}
        \cup {InsertAt(words, i, x) : x \in Extra}

Whole == {Append(words, "end") :
            words \in Samples \cup
                UNION {UNION {EditsAt(w, i) : i \in DOMAIN w} : w \in Samples}}

(* The input ends, the lexer refuses it or it panics, after n tokens. *)
BreaksOff(words, lengths) ==
    {Append(SubSeq(words, 1, n), ending) :
        n \in lengths \cap (0 .. Len(words)), ending \in Endings}

(* A script that is right so far breaks off after any token, and one that  *)
(* is not soon after what is wrong with it.                                *)
Broken ==
    UNION {BreaksOff(w, 0 .. Len(w)) : w \in Samples}
        \cup UNION {UNION {UNION {BreaksOff(edited, {i, i + 1}) :
                                    edited \in EditsAt(w, i)} :
                              i \in DOMAIN w} : w \in Samples}

MCInput == {LexAll(words) : words \in Short \cup Chains \cup Whole \cup Broken}

=============================================================================
