------------------------------ MODULE Scripts ------------------------------
(***************************************************************************)
(* What the command of Program promises of its input as a whole, with the  *)
(* Grammar to tell a script from any other input.                          *)
(***************************************************************************)
EXTENDS Program

G == INSTANCE Grammar WITH outcome <- parsed

(* An input that is no script, wherever it goes wrong, has no effect and   *)
(* no answer: not even the statements before the one that is wrong.  Of a  *)
(* script every statement has been evaluated when the command ends.        *)
AllOrNothing ==
    /\ ~G!IsScript => DOMAIN tables = {} /\ done = 0 /\ printed = <<>>
    /\ Ended /\ G!IsScript =>
         done = Cardinality({i \in DOMAIN input : input[i].kind = ";"})

=============================================================================
