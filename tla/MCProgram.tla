----------------------------- MODULE MCProgram -----------------------------
(***************************************************************************)
(* The command on scripts of up to five statements, of which any may fail  *)
(* to parse or to evaluate.                                                *)
(***************************************************************************)
EXTENDS Scripts, Exprs, MCTokens

MCTableName == STRING
MCColumnName == STRING

(* t (a integer not null, b varchar) *)
CreateT == <<"CREATE", "TABLE", "t", "(", "a", "INTEGER", "NOT", "NULL", ",",
             "b", "VARCHAR", ")", ";">>
InsertX == <<"INSERT", "INTO", "t", "VALUES", "(", "1", ",", "'x'", ")", ";">>

Others == {
    <<"INSERT", "INTO", "t", "(", "b", ",", "a", ")", "VALUES",
      "(", "NULL", ",", "-", "1", ")", ";">>,
    <<"INSERT", "INTO", "t", "(", "b", ")", "VALUES", "(", "'x'", ")", ";">>,
    <<"SELECT", "*", ",", "1", "/", "(", "a", "+", "1", ")", "FROM", "t", ";">>,
    <<"UPDATE", "t", "SET", "a", "=", "a", "+", "a", ",", "b", "=", "1", "/", "a",
      "WHERE", "a", "<=", "1", ";">>,
    <<"DELETE", "FROM", "t", "WHERE", "b", "=", "'x'", ";">>,
    <<"DELETE", "t", ";">> }    \* no statement

Words == {CreateT, InsertX} \cup Others

Ending(words, ending) == LexAll(Append(words, ending))

MCInput ==
    {Ending(FlattenSeq(<<CreateT, InsertX>> \o s), "end") : s \in [1 .. 3 -> Words]}
        \cup {Ending(FlattenSeq(s), ending) :
                s \in UNION {[1 .. n -> Words] : n \in 0 .. 2},
                ending \in {"end", "error", "panic"}}

(* 'x' is a letter of two bytes, in two quotes; the heading of b is longer *)
(* than its values.                                                        *)
MCRunes(cell) ==
    CASE cell.type = "Heading" -> IF cell.val = "b" THEN 5 ELSE 1
      [] cell.type = "String" -> 3
      [] OTHER -> IF cell.val < 0 THEN 2 ELSE 1

MCBytes(cell) == IF cell.type = "String" THEN 4 ELSE MCRunes(cell)

=============================================================================
