------------------------------ MODULE MCTokens ------------------------------
(***************************************************************************)
(* Tokens for the runs, written as words: a letter is an identifier, and   *)
(* every word that is no literal is a kind of its own.                     *)
(***************************************************************************)
EXTENDS MCValues

Letters == {"a", "b", "c", "t"}
Numbers == ("1" :> [digits |-> TRUE, val |-> 1]) @@
           ("9" :> [digits |-> TRUE, val |-> 9]) @@     \* beyond MaxInt
           (".5" :> [digits |-> FALSE, val |-> 1])

Lex(word) ==
    CASE word \in Letters -> [kind |-> "Ident", lit |-> word]
      [] word \in DOMAIN Numbers -> [kind |-> "NumberLiteral", lit |-> Numbers[word]]
      [] word = "'x'" -> [kind |-> "StringLiteral", lit |-> "x"]
      [] OTHER -> [kind |-> word]

LexAll(words) == [i \in DOMAIN words |-> Lex(words[i])]

=============================================================================
