---------------------------- MODULE MCValueLaws ----------------------------
(***************************************************************************)
(* Every pair of the integers of three bits, halves and the float that is  *)
(* no number, Booleans, texts of all these and of times, times, and null.  *)
(***************************************************************************)
EXTENDS ValueLaws, MCValues

(* A time is an instant and a zone. *)
Time(instant, zone) == [instant |-> instant, zone |-> zone]
Clock == ("noon" :> Time(12, "UTC")) @@ ("dusk" :> Time(18, "UTC"))

MCInstantOf(t) == t.instant

(* A float that is no number, and what it does to the others. *)
NaN == 100

MCParsesAny(type, s) ==
    \/ type = "Timestamp" /\ s \in DOMAIN Clock
    \/ type = "Number" /\ s = "NaN"
    \/ MCParses(type, s)

MCParseAny(type, s) ==
    CASE type = "Timestamp" -> Clock[s]
      [] type = "Number" /\ s = "NaN" -> NaN
      [] OTHER -> MCParse(type, s)

MCFloatOpNaN(op, x, y) == IF NaN \in {x, y} THEN NaN ELSE MCFloatOp(op, x, y)
MCFloatLessNaN(x, y) == NaN \notin {x, y} /\ x < y
MCFloatEqNaN(x, y) == NaN \notin {x, y} /\ x = y

Texts == <<"-1", "-2", "-3", "-4", "0", "1", "2", "3", "NaN", "dusk", "noon", "x">>
MCTextLess(s, t) == \E i, j \in DOMAIN Texts : i < j /\ Texts[i] = s /\ Texts[j] = t

MCValue ==
    {IntegerValue(n) : n \in IntRange}
        \cup {NumberValue(x) : x \in {-8, -1, 0, 1, 2, 6, NaN}}
        \cup {BooleanValue(b) : b \in BOOLEAN}
        \cup {StringValue(Texts[k]) : k \in DOMAIN Texts}
        \cup {TimestampValue(Time(12, "CET")), TimestampValue(Time(18, "UTC")), Null}

=============================================================================
