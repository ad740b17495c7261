---------------------------- MODULE ParserProofs ----------------------------
(***************************************************************************)
(* The theorems that whatever Parse returns is what the evaluator takes    *)
(* for granted and all of its input, for all sequences of tokens.  They    *)
(* rest on a type system: every step takes nodes of some types from the    *)
(* top of built and leaves others, and what is still to do is typed from   *)
(* the nodes that are built to a sequence of whole statements, of which    *)
(* only a semicolon makes one.                                             *)
(***************************************************************************)
EXTENDS Parser, Lemmas

-----------------------------------------------------------------------------
(* The types of nodes.  Only what a statement is made of has one; an       *)
(* expression may be anything.  A statement is whole after its semicolon.  *)

Tag == {"any", "ident", "type", "bool", "column", "assignment",
        "empty", "exprs", "names", "columns", "assignments", "stmt", "whole"}

Column == [name : STRING, type : Type, nullable : BOOLEAN]

Is(tag, v) ==
    /\ tag = "ident" => v.name \in STRING
    /\ tag = "type" => v \in Type
    /\ tag = "bool" => v \in BOOLEAN
    /\ tag = "column" => v \in Column
    /\ tag = "assignment" => v.column \in STRING
    /\ tag = "empty" => v = <<>>
    /\ tag = "exprs" => IsSeq(v) /\ v # <<>>
    /\ tag = "names" => IsSeq(v) /\ \A k \in DOMAIN v : v[k].name \in STRING
    /\ tag = "columns" => IsSeq(v) /\ v # <<>> /\ \A k \in DOMAIN v : v[k] \in Column
    /\ tag = "assignments" =>
         IsSeq(v) /\ v # <<>> /\ \A k \in DOMAIN v : v[k].column \in STRING
    /\ tag \in {"stmt", "whole"} => StmtOK(v, STRING, STRING)

(* The types of a stack of nodes, the last one on top. *)
Typed(nodes, S) ==
    /\ IsSeq(nodes) /\ S \in Seq(Tag)
    /\ Len(nodes) = Len(S)
    /\ \A i \in 1 .. Len(S) : Is(S[i], nodes[i])

(* What a list of items is. *)
ListTag(item) ==
    CASE item = "ident" -> "names"
      [] item = "column" -> "columns"
      [] item = "assignment" -> "assignments"
      [] OTHER -> "exprs"

-----------------------------------------------------------------------------
(* The types of steps. *)

Literals == {"NumberLiteral", "StringLiteral"}

(* The semicolon, which most of the proofs need only the name of. *)
Semicolon == ";"

(* A token of a kind that there is none of is never matched, and types as  *)
(* anything; one that ends the input is not matched either.                *)
MatchTyped(kind, S, T) ==
    \/ kind = "none"
    \/ kind = "Ident" /\ T = Append(S, "ident")
    \/ kind \in Literals /\ T = Append(S, "any")
    \/ /\ kind = Semicolon
       /\ \E base \in Seq(Tag) : S = Append(base, "stmt") /\ T = Append(base, "whole")
    \/ kind \notin Endings \cup Literals \cup {"Ident", Semicolon} /\ T = S

CallTag ==
    { <<"stmt", "stmt">>, <<"columnDefinition", "column">>, <<"dataType", "type">>,
      <<"nullable", "bool">>, <<"where", "any">>, <<"insertColumns", "names">>,
      <<"setClause", "assignments">>, <<"assignment", "assignment">>,
      <<"exprOrStar", "any">>, <<"unaryExpr", "any">> }

(* An identifier that is no name of a function is an expression itself. *)
CallTyped(method, S, T) ==
    \/ \E tag \in Tag : <<method, tag>> \in CallTag /\ T = Append(S, tag)
    \/ /\ method = "arguments"
       /\ \E base \in Seq(Tag) : S = Append(base, "ident") /\ T = Append(base, "any")

(* The items that lists are made of. *)
ItemTyped(item, tag) ==
    \/ item = Match("Ident") /\ tag = "ident"
    \/ item = Call("columnDefinition") /\ tag = "column"
    \/ item = Call("assignment") /\ tag = "assignment"
    \/ item = Call("exprOrStar") /\ tag = "any"
    \/ item = Expr /\ tag = "any"

(* The nodes that are made of one, two or three others. *)
MakeOne == {<<"UnaryExpr", "any", "any">>}

MakeTwo ==
    { <<"list", "empty", "any", "exprs">>, <<"list", "exprs", "any", "exprs">>,
      <<"list", "empty", "ident", "names">>, <<"list", "names", "ident", "names">>,
      <<"list", "empty", "column", "columns">>,
      <<"list", "columns", "column", "columns">>,
      <<"list", "empty", "assignment", "assignments">>,
      <<"list", "assignments", "assignment", "assignments">>,
      <<"assignment", "ident", "any", "assignment">>,
      <<"call", "ident", "exprs", "any">>, <<"BinaryExpr", "any", "any", "any">>,
      <<"create", "ident", "columns", "stmt">>, <<"delete", "ident", "any", "stmt">> }

MakeThree ==
    { <<"column", "ident", "type", "bool", "column">>,
      <<"select", "exprs", "ident", "any", "stmt">>,
      <<"insert", "ident", "names", "exprs", "stmt">>,
      <<"update", "ident", "assignments", "any", "stmt">> }

MakeTyped(name, size, S, T) ==
    \E base \in Seq(Tag) : \E a, b, c, made \in Tag :
        /\ T = Append(base, made)
        /\ \/ /\ size = 1 /\ <<name, a, made>> \in MakeOne
              /\ S = Append(base, a)
           \/ /\ size = 2 /\ <<name, a, b, made>> \in MakeTwo
              /\ S = Append(Append(base, a), b)
           \/ /\ size = 3 /\ <<name, a, b, c, made>> \in MakeThree
              /\ S = Append(Append(Append(base, a), b), c)

(* A step takes a stack of the types S to one of the types T. *)
StepTyped(step, S, T) ==
    /\ S \in Seq(Tag) /\ T \in Seq(Tag)
    /\ \/ step.do = "match" /\ MatchTyped(step.kind, S, T)
       \/ /\ step.do = "push"
          /\ \E tag \in Tag \ {"whole"} : Is(tag, step.value) /\ T = Append(S, tag)
       \/ step.do = "make" /\ MakeTyped(step.part.node, step.size, S, T)
       \/ step.do = "call" /\ CallTyped(step.method, S, T)
       \/ step.do = "binary" /\ step.min \in Nat \ {0} /\ T = Append(S, "any")
       \/ /\ step.do = "operators" /\ step.min \in Nat \ {0} /\ T = S
          /\ \E base \in Seq(Tag) : S = Append(base, "any")
       \/ /\ step.do = "more" /\ T = S
          /\ \E base \in Seq(Tag) : \E tag \in Tag :
               ItemTyped(step.item, tag) /\ S = Append(base, ListTag(tag))

(* Steps one after the other, with the types in between. *)
Leads(steps, S, T) ==
    /\ IsSeq(steps)
    /\ \E f \in [1 .. Len(steps) + 1 -> Seq(Tag)] :
         /\ f[1] = S /\ f[Len(steps) + 1] = T
         /\ \A k \in 1 .. Len(steps) : StepTyped(steps[k], f[k], f[k + 1])

(* No steps change nothing. *)
LEMMA LeadsNowhere ==
    ASSUME NEW S \in Seq(Tag)
    PROVE  Leads(<<>>, S, S) /\ \A T : Leads(<<>>, S, T) => T = S
<1>1. IsSeq(<<>>) /\ Len(<<>>) = 0
  BY EmptyIsSeq
<1>2. Leads(<<>>, S, S)
  <2> DEFINE f == [k \in 1 .. 1 |-> S]
  <2>1. f \in [1 .. 0 + 1 -> Seq(Tag)] /\ f[1] = S /\ f[0 + 1] = S
    OBVIOUS
  <2> HIDE DEF f
  <2> QED
    BY <1>1, <2>1 DEF Leads
<1> QED
  BY <1>1, <1>2 DEF Leads

(* The first step of some leads to where the others begin. *)
LEMMA LeadsByHead ==
    ASSUME NEW steps, steps # <<>>, NEW S, NEW U, Leads(steps, S, U)
    PROVE  \E T : StepTyped(Head(steps), S, T) /\ Leads(Tail(steps), T, U)
<1> DEFINE n == Len(steps)
<1>1. IsSeq(steps) /\ n \in Nat /\ DOMAIN steps = 1 .. n /\ steps \in Seq(Range(steps))
  BY SeqDomain, SeqOverRange DEF Leads
<1>2. n >= 1
  BY <1>1
<1>3. Head(steps) = steps[1]
  BY <1>1
<1>4. /\ IsSeq(Tail(steps)) /\ Len(Tail(steps)) = n - 1
      /\ \A k \in 1 .. n - 1 : Tail(steps)[k] = steps[k + 1]
  <2>1. Tail(steps) \in Seq(Range(steps)) /\ Len(Tail(steps)) = n - 1
    BY <1>1, <1>2
  <2>2. \A k \in 1 .. n - 1 : Tail(steps)[k] = steps[k + 1]
    BY <1>1, <1>2
  <2> QED
    BY <2>1, <2>2, SeqIsSeq
<1>5. PICK f \in [1 .. n + 1 -> Seq(Tag)] :
        /\ f[1] = S /\ f[n + 1] = U
        /\ \A k \in 1 .. n : StepTyped(steps[k], f[k], f[k + 1])
  BY DEF Leads
<1> DEFINE g == [k \in 1 .. (n - 1) + 1 |-> f[k + 1]]
<1>6. StepTyped(Head(steps), S, f[2])
  BY <1>2, <1>3, <1>5
<1>7. /\ g \in [1 .. (n - 1) + 1 -> Seq(Tag)] /\ g[1] = f[2] /\ g[(n - 1) + 1] = U
      /\ \A k \in 1 .. n - 1 : StepTyped(Tail(steps)[k], g[k], g[k + 1])
  <2>1. \A k \in 1 .. n - 1 : k + 1 \in 1 .. n /\ g[k] = f[k + 1] /\ g[k + 1] = f[(k + 1) + 1]
    BY <1>1
  <2>2. \A k \in 1 .. n - 1 : StepTyped(Tail(steps)[k], g[k], g[k + 1])
    BY <1>4, <1>5, <2>1
  <2> QED
    BY <1>1, <1>2, <1>5, <2>2
<1> HIDE DEF g, n
<1>8. Leads(Tail(steps), f[2], U)
  BY <1>4, <1>7 DEF Leads
<1> QED
  BY <1>6, <1>8

(* Steps that lead to where others begin lead to where they end. *)
LEMMA LeadsOn ==
    ASSUME NEW s, NEW t, NEW S, NEW T, NEW U, Leads(s, S, T), Leads(t, T, U)
    PROVE  Leads(s \o t, S, U)
<1> DEFINE m == Len(s)
           n == Len(t)
<1>1. /\ IsSeq(s) /\ IsSeq(t) /\ m \in Nat /\ n \in Nat
      /\ DOMAIN s = 1 .. m /\ DOMAIN t = 1 .. n
  BY SeqDomain DEF Leads
<1>2. /\ IsSeq(s \o t) /\ Len(s \o t) = m + n
      /\ \A k \in 1 .. m : (s \o t)[k] = s[k]
      /\ \A k \in 1 .. n : (s \o t)[m + k] = t[k]
  <2>1. /\ IsSeq(s \o t) /\ DOMAIN (s \o t) = 1 .. m + n
        /\ \A k \in 1 .. m : (s \o t)[k] = s[k]
        /\ \A k \in 1 .. n : (s \o t)[m + k] = t[k]
    BY <1>1, ConcatIsSeq
  <2>2. Len(s \o t) \in Nat /\ 1 .. Len(s \o t) = 1 .. m + n
    BY <2>1, SeqDomain
  <2>3. Len(s \o t) = m + n
    BY <1>1, <2>2
  <2> QED
    BY <2>1, <2>3
<1>3. PICK f \in [1 .. m + 1 -> Seq(Tag)] :
        /\ f[1] = S /\ f[m + 1] = T
        /\ \A k \in 1 .. m : StepTyped(s[k], f[k], f[k + 1])
  BY DEF Leads
<1>4. PICK g \in [1 .. n + 1 -> Seq(Tag)] :
        /\ g[1] = T /\ g[n + 1] = U
        /\ \A k \in 1 .. n : StepTyped(t[k], g[k], g[k + 1])
  BY DEF Leads
<1> DEFINE h == [k \in 1 .. (m + n) + 1 |-> IF k <= m THEN f[k] ELSE g[k - m]]
<1>5. h \in [1 .. (m + n) + 1 -> Seq(Tag)]
  BY <1>1, <1>3, <1>4
<1>6. h[1] = S /\ h[(m + n) + 1] = U
  BY <1>1, <1>3, <1>4
<1>7. ASSUME NEW k \in 1 .. m + n
      PROVE  StepTyped((s \o t)[k], h[k], h[k + 1])
  <2>1. CASE k < m
    BY <1>1, <1>2, <1>3, <2>1
  <2>2. CASE k = m
    <3>1. h[k] = f[m] /\ h[k + 1] = g[1] /\ (s \o t)[k] = s[m] /\ m \in 1 .. m
      BY <1>1, <1>2, <2>2
    <3> QED
      BY <1>3, <1>4, <3>1
  <2>3. CASE k > m
    <3> DEFINE j == k - m
    <3>1. j \in 1 .. n /\ k = m + j /\ h[k] = g[j] /\ h[k + 1] = g[j + 1]
      BY <1>1, <2>3
    <3>2. (s \o t)[k] = t[j]
      BY <1>2, <3>1
    <3> HIDE DEF j, h
    <3> QED
      BY <1>4, <3>1, <3>2
  <2>4. k < m \/ k = m \/ k > m
    <3> HIDE DEF h, m, n
    <3> QED
      BY <1>1
  <2> QED
    BY <2>1, <2>2, <2>3, <2>4, Zenon
<1> HIDE DEF h, m, n
<1> QED
  BY <1>2, <1>5, <1>6, <1>7 DEF Leads

(* One step leads where it leads. *)
LEMMA LeadsOne ==
    ASSUME NEW a, NEW S, NEW T, StepTyped(a, S, T)
    PROVE  Leads(<<a>>, S, T)
<1>1. IsSeq(<<a>>) /\ Len(<<a>>) = 1 /\ <<a>>[1] = a
  <2>1. <<a>> \in Seq({a})
    OBVIOUS
  <2> QED
    BY <2>1, SeqIsSeq
<1> DEFINE f == [k \in 1 .. 2 |-> IF k = 1 THEN S ELSE T]
<1>2. f \in [1 .. 1 + 1 -> Seq(Tag)] /\ f[1] = S /\ f[1 + 1] = T
  BY DEF StepTyped
<1>3. \A k \in 1 .. 1 : StepTyped(<<a>>[k], f[k], f[k + 1])
  BY <1>1, <1>2
<1> HIDE DEF f
<1> QED
  BY <1>1, <1>2, <1>3 DEF Leads

(* Two steps: the type in between is what the first one says. *)
LEMMA LeadsTwo ==
    ASSUME NEW a, NEW b,
           NEW S, NEW T, NEW U,
           StepTyped(a, S, T), StepTyped(b, T, U)
    PROVE  Leads(<<a, b>>, S, U)
<1> DEFINE s == <<a, b>>
<1>1. /\ IsSeq(s) /\ Len(s) = 2
      /\ s[1] = a /\ s[2] = b
  <2>1. s \in Seq({a, b})
    OBVIOUS
  <2> QED
    BY <2>1, SeqIsSeq
<1> DEFINE g == [k \in 1 .. 3 |->
                   CASE k = 1 -> S [] k = 2 -> T [] OTHER -> U]
<1>2. /\ g \in [1 .. 2 + 1 -> Seq(Tag)]
      /\ g[1] = S /\ g[2] = T /\ g[2 + 1] = U
  BY DEF StepTyped
<1> HIDE DEF g, s
<1>3. \A k \in 1 .. 2 : StepTyped(s[k], g[k], g[k + 1])
  <2>1. g[1 + 1] = T
    BY <1>2
  <2>2. /\ StepTyped(s[1], g[1], g[1 + 1])
        /\ StepTyped(s[2], g[2], g[2 + 1])
    BY <1>1, <1>2, <2>1
  <2> QED
    BY <2>2
<1>4. Leads(s, S, U)
  BY <1>1, <1>2, <1>3 DEF Leads
<1> QED
  BY <1>4 DEF s

(* Three steps. *)
LEMMA LeadsThree ==
    ASSUME NEW a, NEW b, NEW c,
           NEW S, NEW T, NEW U, NEW V,
           StepTyped(a, S, T), StepTyped(b, T, U), StepTyped(c, U, V)
    PROVE  Leads(<<a, b, c>>, S, V)
<1> DEFINE s == <<a, b, c>>
<1>1. /\ IsSeq(s) /\ Len(s) = 3
      /\ s[1] = a /\ s[2] = b /\ s[3] = c
  <2>1. s \in Seq({a, b, c})
    OBVIOUS
  <2> QED
    BY <2>1, SeqIsSeq
<1> DEFINE g == [k \in 1 .. 4 |->
                   CASE k = 1 -> S [] k = 2 -> T [] k = 3 -> U [] OTHER -> V]
<1>2. /\ g \in [1 .. 3 + 1 -> Seq(Tag)]
      /\ g[1] = S /\ g[2] = T /\ g[3] = U /\ g[3 + 1] = V
  BY DEF StepTyped
<1> HIDE DEF g, s
<1>3. \A k \in 1 .. 3 : StepTyped(s[k], g[k], g[k + 1])
  <2>1. g[1 + 1] = T /\ g[2 + 1] = U
    BY <1>2
  <2>2. /\ StepTyped(s[1], g[1], g[1 + 1])
        /\ StepTyped(s[2], g[2], g[2 + 1])
        /\ StepTyped(s[3], g[3], g[3 + 1])
    BY <1>1, <1>2, <2>1
  <2> QED
    BY <2>2
<1>4. Leads(s, S, V)
  BY <1>1, <1>2, <1>3 DEF Leads
<1> QED
  BY <1>4 DEF s

(* Four steps. *)
LEMMA LeadsFour ==
    ASSUME NEW a, NEW b, NEW c, NEW d,
           NEW S, NEW T, NEW U, NEW V, NEW W,
           StepTyped(a, S, T), StepTyped(b, T, U), StepTyped(c, U, V),
           StepTyped(d, V, W)
    PROVE  Leads(<<a, b, c, d>>, S, W)
<1> DEFINE s == <<a, b, c, d>>
<1>1. /\ IsSeq(s) /\ Len(s) = 4
      /\ s[1] = a /\ s[2] = b /\ s[3] = c /\ s[4] = d
  <2>1. s \in Seq({a, b, c, d})
    OBVIOUS
  <2> QED
    BY <2>1, SeqIsSeq
<1> DEFINE g == [k \in 1 .. 5 |->
                   CASE k = 1 -> S [] k = 2 -> T [] k = 3 -> U [] k = 4 -> V [] OTHER -> W]
<1>2. /\ g \in [1 .. 4 + 1 -> Seq(Tag)]
      /\ g[1] = S /\ g[2] = T /\ g[3] = U /\ g[4] = V /\ g[4 + 1] = W
  BY DEF StepTyped
<1> HIDE DEF g, s
<1>3. \A k \in 1 .. 4 : StepTyped(s[k], g[k], g[k + 1])
  <2>1. g[1 + 1] = T /\ g[2 + 1] = U /\ g[3 + 1] = V
    BY <1>2
  <2>2. /\ StepTyped(s[1], g[1], g[1 + 1])
        /\ StepTyped(s[2], g[2], g[2 + 1])
        /\ StepTyped(s[3], g[3], g[3 + 1])
        /\ StepTyped(s[4], g[4], g[4 + 1])
    BY <1>1, <1>2, <2>1
  <2> QED
    BY <2>2
<1>4. Leads(s, S, W)
  BY <1>1, <1>2, <1>3 DEF Leads
<1> QED
  BY <1>4 DEF s

(* Five steps. *)
LEMMA LeadsFive ==
    ASSUME NEW a, NEW b, NEW c, NEW d, NEW e,
           NEW S, NEW T, NEW U, NEW V, NEW W, NEW X,
           StepTyped(a, S, T), StepTyped(b, T, U), StepTyped(c, U, V),
           StepTyped(d, V, W), StepTyped(e, W, X)
    PROVE  Leads(<<a, b, c, d, e>>, S, X)
<1> DEFINE s == <<a, b, c, d, e>>
<1>1. /\ IsSeq(s) /\ Len(s) = 5
      /\ s[1] = a /\ s[2] = b /\ s[3] = c /\ s[4] = d /\ s[5] = e
  <2>1. s \in Seq({a, b, c, d, e})
    OBVIOUS
  <2> QED
    BY <2>1, SeqIsSeq
<1> DEFINE g == [k \in 1 .. 6 |->
                   CASE k = 1 -> S [] k = 2 -> T [] k = 3 -> U
                     [] k = 4 -> V [] k = 5 -> W [] OTHER -> X]
<1>2. /\ g \in [1 .. 5 + 1 -> Seq(Tag)]
      /\ g[1] = S /\ g[2] = T /\ g[3] = U /\ g[4] = V /\ g[5] = W /\ g[5 + 1] = X
  BY DEF StepTyped
<1> HIDE DEF g, s
<1>3. \A k \in 1 .. 5 : StepTyped(s[k], g[k], g[k + 1])
  <2>1. g[1 + 1] = T /\ g[2 + 1] = U /\ g[3 + 1] = V /\ g[4 + 1] = W
    BY <1>2
  <2>2. /\ StepTyped(s[1], g[1], g[1 + 1])
        /\ StepTyped(s[2], g[2], g[2 + 1])
        /\ StepTyped(s[3], g[3], g[3 + 1])
        /\ StepTyped(s[4], g[4], g[4 + 1])
        /\ StepTyped(s[5], g[5], g[5 + 1])
    BY <1>1, <1>2, <2>1
  <2> QED
    BY <2>2
<1>4. Leads(s, S, X)
  BY <1>1, <1>2, <1>3 DEF Leads
<1> QED
  BY <1>4 DEF s

(* Six steps. *)
LEMMA LeadsSix ==
    ASSUME NEW a, NEW b, NEW c, NEW d, NEW e, NEW f,
           NEW S, NEW T, NEW U, NEW V, NEW W, NEW X, NEW Y,
           StepTyped(a, S, T), StepTyped(b, T, U), StepTyped(c, U, V),
           StepTyped(d, V, W), StepTyped(e, W, X), StepTyped(f, X, Y)
    PROVE  Leads(<<a, b, c, d, e, f>>, S, Y)
<1> DEFINE s == <<a, b, c, d, e, f>>
<1>1. /\ IsSeq(s) /\ Len(s) = 6
      /\ s[1] = a /\ s[2] = b /\ s[3] = c /\ s[4] = d /\ s[5] = e /\ s[6] = f
  <2>1. s \in Seq({a, b, c, d, e, f})
    OBVIOUS
  <2> QED
    BY <2>1, SeqIsSeq
<1> DEFINE g == [k \in 1 .. 7 |->
                   CASE k = 1 -> S [] k = 2 -> T [] k = 3 -> U
                     [] k = 4 -> V [] k = 5 -> W [] k = 6 -> X [] OTHER -> Y]
<1>2. /\ g \in [1 .. 6 + 1 -> Seq(Tag)]
      /\ g[1] = S /\ g[2] = T /\ g[3] = U /\ g[4] = V /\ g[5] = W /\ g[6] = X /\ g[6 + 1] = Y
  BY DEF StepTyped
<1> HIDE DEF g, s
<1>3. \A k \in 1 .. 6 : StepTyped(s[k], g[k], g[k + 1])
  <2>1. g[1 + 1] = T /\ g[2 + 1] = U /\ g[3 + 1] = V /\ g[4 + 1] = W /\ g[5 + 1] = X
    BY <1>2
  <2>2. /\ StepTyped(s[1], g[1], g[1 + 1])
        /\ StepTyped(s[2], g[2], g[2 + 1])
        /\ StepTyped(s[3], g[3], g[3 + 1])
        /\ StepTyped(s[4], g[4], g[4 + 1])
        /\ StepTyped(s[5], g[5], g[5 + 1])
        /\ StepTyped(s[6], g[6], g[6 + 1])
    BY <1>1, <1>2, <2>1
  <2> QED
    BY <2>2
<1>4. Leads(s, S, Y)
  BY <1>1, <1>2, <1>3 DEF Leads
<1> QED
  BY <1>4 DEF s

-----------------------------------------------------------------------------
(* What each kind of step does to the types. *)

(* Keywords, operators and punctuation leave nothing behind. *)
LEMMA MatchPlain ==
    ASSUME NEW S \in Seq(Tag), NEW kind, kind \notin Endings \cup Literals \cup {"Ident", ";"}
    PROVE  StepTyped(Match(kind), S, S)
<1>1. kind \notin Endings \cup Literals \cup {"Ident", Semicolon}
  BY Zenon DEF Semicolon
<1> QED
  BY <1>1 DEF StepTyped, MatchTyped, Match

(* What is never matched leads anywhere. *)
LEMMA MatchNothing ==
    ASSUME NEW S \in Seq(Tag), NEW T \in Seq(Tag)
    PROVE  StepTyped(Match("none"), S, T)
BY DEF StepTyped, MatchTyped, Match

(* An identifier leaves its node. *)
LEMMA MatchIdent ==
    ASSUME NEW S \in Seq(Tag)
    PROVE  StepTyped(Match("Ident"), S, Append(S, "ident"))
BY DEF StepTyped, MatchTyped, Match, Tag

(* A literal leaves its node. *)
LEMMA MatchLiteral ==
    ASSUME NEW S \in Seq(Tag), NEW kind \in Literals
    PROVE  StepTyped(Match(kind), S, Append(S, "any"))
<1>1. Append(S, "any") \in Seq(Tag)
  BY DEF Tag
<1>2. MatchTyped(kind, S, Append(S, "any"))
  BY DEF MatchTyped
<1> QED
  BY <1>1, <1>2 DEF StepTyped, Match

(* A semicolon is none of the tokens that are special in another way. *)
LEMMA SemicolonIsNoEnding == Semicolon \notin Endings \cup Literals \cup {"Ident", "none"}
BY Zenon DEF Semicolon, Endings, Literals

(* The semicolon makes a statement whole. *)
LEMMA MatchSemicolon ==
    ASSUME NEW S \in Seq(Tag)
    PROVE  StepTyped(Match(";"), Append(S, "stmt"), Append(S, "whole"))
<1>1. "stmt" \in Tag /\ "whole" \in Tag
  BY DEF Tag
<1>2. Append(S, "stmt") \in Seq(Tag) /\ Append(S, "whole") \in Seq(Tag)
  BY <1>1
<1>3. MatchTyped(";", Append(S, "stmt"), Append(S, "whole"))
  BY Zenon DEF MatchTyped, Semicolon
<1> QED
  BY <1>2, <1>3 DEF StepTyped, Match

(* A value that is pushed is a node. *)
LEMMA PushLeads ==
    ASSUME NEW S \in Seq(Tag), NEW v, NEW tag \in Tag \ {"whole"}, Is(tag, v)
    PROVE  StepTyped(Push(v), S, Append(S, tag))
BY DEF StepTyped, Push

(* A method makes a node of its type. *)
LEMMA CallLeads ==
    ASSUME NEW S \in Seq(Tag), NEW method, NEW tag \in Tag, <<method, tag>> \in CallTag
    PROVE  StepTyped(Call(method), S, Append(S, tag))
<1>1. CallTyped(method, S, Append(S, tag))
  BY DEF CallTyped
<1> QED
  BY <1>1 DEF StepTyped, Call

(* The arguments make an expression of the identifier before them. *)
LEMMA ArgumentsLead ==
    ASSUME NEW S \in Seq(Tag)
    PROVE  StepTyped(Call("arguments"), Append(S, "ident"), Append(S, "any"))
<1>1. "ident" \in Tag /\ "any" \in Tag
  BY DEF Tag
<1>2. Append(S, "ident") \in Seq(Tag) /\ Append(S, "any") \in Seq(Tag)
  BY <1>1
<1>3. CallTyped("arguments", Append(S, "ident"), Append(S, "any"))
  BY DEF CallTyped
<1> QED
  BY <1>2, <1>3 DEF StepTyped, Call

(* parseBinaryExpr makes an expression. *)
LEMMA BinaryLeads ==
    ASSUME NEW S \in Seq(Tag), NEW min \in Nat \ {0}
    PROVE  StepTyped(Binary(min), S, Append(S, "any"))
BY DEF StepTyped, Binary, Tag

(* Its loop makes an expression of an expression. *)
LEMMA OperatorsLead ==
    ASSUME NEW S \in Seq(Tag), NEW min \in Nat \ {0}
    PROVE  StepTyped(Operators(min), Append(S, "any"), Append(S, "any"))
<1>1. Append(S, "any") \in Seq(Tag)
  BY DEF Tag
<1> QED
  BY <1>1 DEF StepTyped, Operators

(* The loop of a list makes a list of a list. *)
LEMMA MoreLeads ==
    ASSUME NEW S \in Seq(Tag), NEW item, NEW tag \in Tag, ItemTyped(item, tag)
    PROVE  StepTyped(More(item), Append(S, ListTag(tag)), Append(S, ListTag(tag)))
<1>1. ListTag(tag) \in Tag
  BY DEF ListTag, Tag
<1>2. Append(S, ListTag(tag)) \in Seq(Tag)
  BY <1>1
<1> QED
  BY <1>2 DEF StepTyped, More

(* A node of one other. *)
LEMMA MakeOneLeads ==
    ASSUME NEW S \in Seq(Tag), NEW part, NEW a \in Tag, NEW made \in Tag,
           <<part.node, a, made>> \in MakeOne
    PROVE  StepTyped(Make(part, 1), Append(S, a), Append(S, made))
<1>1. Append(S, made) \in Seq(Tag) /\ Append(S, a) \in Seq(Tag)
  OBVIOUS
<1>2. MakeTyped(part.node, 1, Append(S, a), Append(S, made))
  BY DEF MakeTyped
<1>3. /\ Make(part, 1).do = "make" /\ Make(part, 1).part = part
      /\ Make(part, 1).size = 1
  BY DEF Make
<1> QED
  BY <1>1, <1>2, <1>3 DEF StepTyped

(* A node of two others. *)
LEMMA MakeTwoLeads ==
    ASSUME NEW S \in Seq(Tag), NEW part, NEW a \in Tag, NEW b \in Tag, NEW made \in Tag,
           <<part.node, a, b, made>> \in MakeTwo
    PROVE  StepTyped(Make(part, 2), Append(Append(S, a), b), Append(S, made))
<1>1. Append(S, made) \in Seq(Tag) /\ Append(Append(S, a), b) \in Seq(Tag)
  OBVIOUS
<1>2. MakeTyped(part.node, 2, Append(Append(S, a), b), Append(S, made))
  BY DEF MakeTyped
<1>3. /\ Make(part, 2).do = "make" /\ Make(part, 2).part = part
      /\ Make(part, 2).size = 2
  BY DEF Make
<1> QED
  BY <1>1, <1>2, <1>3 DEF StepTyped

(* A node of three others. *)
LEMMA MakeThreeLeads ==
    ASSUME NEW S \in Seq(Tag), NEW part, NEW a \in Tag, NEW b \in Tag, NEW c \in Tag, NEW made \in Tag,
           <<part.node, a, b, c, made>> \in MakeThree
    PROVE  StepTyped(Make(part, 3), Append(Append(Append(S, a), b), c), Append(S, made))
<1>1. Append(S, made) \in Seq(Tag) /\ Append(Append(Append(S, a), b), c) \in Seq(Tag)
  OBVIOUS
<1>2. MakeTyped(part.node, 3, Append(Append(Append(S, a), b), c), Append(S, made))
  BY DEF MakeTyped
<1>3. /\ Make(part, 3).do = "make" /\ Make(part, 3).part = part
      /\ Make(part, 3).size = 3
  BY DEF Make
<1> QED
  BY <1>1, <1>2, <1>3 DEF StepTyped

(* An item makes a node of its type. *)
LEMMA ItemLeads ==
    ASSUME NEW S \in Seq(Tag), NEW item, NEW tag \in Tag, ItemTyped(item, tag)
    PROVE  StepTyped(item, S, Append(S, tag))
<1>1. CASE item = Match("Ident") /\ tag = "ident"
  BY <1>1, MatchIdent
<1>2. CASE item = Call("columnDefinition") /\ tag = "column"
  BY <1>2, CallLeads DEF CallTag
<1>3. CASE item = Call("assignment") /\ tag = "assignment"
  BY <1>3, CallLeads DEF CallTag
<1>4. CASE item = Call("exprOrStar") /\ tag = "any"
  BY <1>4, CallLeads DEF CallTag
<1>5. CASE item = Expr /\ tag = "any"
  BY <1>5, BinaryLeads DEF Expr
<1> QED
  BY <1>1, <1>2, <1>3, <1>4, <1>5 DEF ItemTyped

(* A list is of the type that its items have it be. *)
LEMMA ListLeads ==
    ASSUME NEW S \in Seq(Tag), NEW item, NEW tag \in Tag, ItemTyped(item, tag)
    PROVE  Leads(ListOf(item), S, Append(S, ListTag(tag)))
<1> DEFINE first == Append(S, "empty")
           list == Append(S, ListTag(tag))
<1>1. "empty" \in Tag /\ ListTag(tag) \in Tag
  BY DEF Tag, ListTag
<1>2. first \in Seq(Tag) /\ list \in Seq(Tag)
  BY <1>1
<1>3. StepTyped(Push(<<>>), S, first)
  BY <1>1, PushLeads DEF Is
<1>4. StepTyped(item, first, Append(first, tag))
  BY <1>2, ItemLeads
<1>5. <<"list", "empty", tag, ListTag(tag)>> \in MakeTwo
  BY DEF ItemTyped, MakeTwo, ListTag
<1>6. StepTyped(Make(Part("list"), 2), Append(first, tag), list)
  BY <1>1, <1>5, MakeTwoLeads DEF Part
<1>7. StepTyped(More(item), list, list)
  BY MoreLeads
<1> HIDE DEF first, list
<1>8. Leads(<<Push(<<>>), item, Make(Part("list"), 2), More(item)>>, S, list)
  BY <1>3, <1>4, <1>6, <1>7, LeadsFour
<1> QED
  BY <1>8 DEF ListOf, list

-----------------------------------------------------------------------------
(* What each method does to the types: as much as its call. *)

(* Tags are tags. *)
LEMMA TagsAre ==
    /\ "any" \in Tag /\ "ident" \in Tag /\ "type" \in Tag /\ "bool" \in Tag
    /\ "column" \in Tag /\ "assignment" \in Tag /\ "empty" \in Tag /\ "exprs" \in Tag
    /\ "names" \in Tag /\ "columns" \in Tag /\ "assignments" \in Tag /\ "stmt" \in Tag
    /\ "whole" \in Tag
BY DEF Tag

(* A token that is not of the kind that is due leads to no statement. *)
LEMMA ExpectedLeads ==
    ASSUME NEW S \in Seq(Tag), NEW T \in Seq(Tag)
    PROVE  Leads(Expected, S, T)
BY MatchNothing, LeadsOne DEF Expected

(* An expression is one node, whatever it is. *)
LEMMA ExprLeads ==
    ASSUME NEW S \in Seq(Tag)
    PROVE  StepTyped(Expr, S, Append(S, "any"))
BY BinaryLeads DEF Expr

(* A column definition is a column. *)
LEMMA ColumnDefinitionLeads ==
    ASSUME NEW S \in Seq(Tag)
    PROVE  Leads(parseColumnDefinition, S, Append(S, "column"))
<1> DEFINE S1 == Append(S, "ident")
           S2 == Append(S1, "type")
           S3 == Append(S2, "bool")
<1>1. S1 \in Seq(Tag) /\ S2 \in Seq(Tag) /\ S3 \in Seq(Tag)
  BY TagsAre
<1>2. StepTyped(Match("Ident"), S, S1)
  BY MatchIdent
<1>3. StepTyped(Make(Part("column"), 3), S3, Append(S, "column"))
  BY TagsAre, MakeThreeLeads DEF Part, MakeThree
<1> HIDE DEF S1, S2
<1>4. StepTyped(Call("dataType"), S1, S2)
  BY <1>1, TagsAre, CallLeads DEF CallTag, S2
<1> HIDE DEF S3
<1>5. StepTyped(Call("nullable"), S2, S3)
  BY <1>1, TagsAre, CallLeads DEF CallTag, S3
<1> QED
  BY <1>2, <1>3, <1>4, <1>5, LeadsFour DEF parseColumnDefinition

(* A data type is a type. *)
LEMMA DataTypeLeads ==
    ASSUME NEW S \in Seq(Tag)
    PROVE  Leads(parseDataType, S, Append(S, "type"))
<1>1. CASE Kind \in DataTypes
  <2>1. dataTypeFromToken[Kind] \in Type
    BY <1>1 DEF DataTypes, dataTypeFromToken, Type
  <2>2. StepTyped(Push(dataTypeFromToken[Kind]), S, Append(S, "type"))
    BY <2>1, TagsAre, PushLeads DEF Is
  <2>3. StepTyped(Match(Kind), S, S)
    BY <1>1, MatchPlain DEF DataTypes, dataTypeFromToken, Endings, Literals
  <2> QED
    BY <1>1, <2>2, <2>3, LeadsTwo DEF parseDataType
<1>2. CASE Kind \notin DataTypes
  <2>1. parseDataType = Expected
    BY <1>2 DEF parseDataType
  <2>2. Append(S, "type") \in Seq(Tag)
    BY TagsAre
  <2> QED
    BY <2>1, <2>2, ExpectedLeads
<1> QED
  BY <1>1, <1>2

(* Whether a column is nullable is a Boolean. *)
LEMMA NullableLeads ==
    ASSUME NEW S \in Seq(Tag)
    PROVE  Leads(parseNullable, S, Append(S, "bool"))
<1>1. \A v \in BOOLEAN : StepTyped(Push(v), S, Append(S, "bool"))
  BY TagsAre, PushLeads DEF Is
<1>2. StepTyped(Match("NOT"), S, S) /\ StepTyped(Match("NULL"), S, S)
  BY MatchPlain DEF Endings, Literals
<1>3. Leads(<<Match("NOT"), Match("NULL"), Push(FALSE)>>, S, Append(S, "bool"))
  BY <1>1, <1>2, LeadsThree
<1>4. Leads(<<Match("NULL"), Push(TRUE)>>, S, Append(S, "bool"))
  BY <1>1, <1>2, LeadsTwo
<1>5. Leads(<<Push(TRUE)>>, S, Append(S, "bool"))
  BY <1>1, LeadsOne
<1> QED
  BY <1>3, <1>4, <1>5 DEF parseNullable

(* A WHERE clause is one node, whether it is there or not. *)
LEMMA WhereLeads ==
    ASSUME NEW S \in Seq(Tag)
    PROVE  Leads(parseWhere, S, Append(S, "any"))
<1>1. Leads(<<Match("WHERE"), Expr>>, S, Append(S, "any"))
  BY ExprLeads, MatchPlain, LeadsTwo DEF Endings, Literals
<1>2. StepTyped(Push(NoWhere), S, Append(S, "any"))
  BY TagsAre, PushLeads DEF Is
<1>3. Leads(<<Push(NoWhere)>>, S, Append(S, "any"))
  BY <1>2, LeadsOne
<1> QED
  BY <1>1, <1>3 DEF parseWhere

(* The columns of an INSERT are names, or none. *)
LEMMA InsertColumnsLead ==
    ASSUME NEW S \in Seq(Tag)
    PROVE  Leads(parseInsertColumns, S, Append(S, "names"))
<1> DEFINE T == Append(S, "names")
<1>1. T \in Seq(Tag)
  BY TagsAre
<1>2. Leads(ListOf(Match("Ident")), S, T)
  BY TagsAre, ListLeads DEF ItemTyped, ListTag
<1>3. StepTyped(Match("("), S, S)
  BY MatchPlain DEF Endings, Literals
<1>4. StepTyped(Push(<<>>), S, T)
  <2>1. Is("names", <<>>)
    BY EmptyIsSeq DEF Is
  <2> QED
    BY <2>1, TagsAre, PushLeads
<1> HIDE DEF T
<1>5. StepTyped(Match(")"), T, T)
  BY <1>1, MatchPlain DEF Endings, Literals
<1>6. Leads(<<Match("(")>>, S, S) /\ Leads(<<Match(")")>>, T, T)
  BY <1>3, <1>5, LeadsOne
<1>7. Leads(<<Match("(")>> \o ListOf(Match("Ident")), S, T)
  BY <1>2, <1>6, LeadsOn
<1>8. Leads((<<Match("(")>> \o ListOf(Match("Ident"))) \o <<Match(")")>>, S, T)
  BY <1>6, <1>7, LeadsOn
<1>9. Leads(<<Push(<<>>)>>, S, T)
  BY <1>4, LeadsOne
<1> QED
  BY <1>8, <1>9 DEF parseInsertColumns, T

(* A SET clause is a list of assignments, in parentheses or not. *)
LEMMA SetClauseLeads ==
    ASSUME NEW S \in Seq(Tag)
    PROVE  Leads(parseSetClause, S, Append(S, "assignments"))
<1> DEFINE T == Append(S, "assignments")
<1>1. T \in Seq(Tag)
  BY TagsAre
<1>2. Leads(ListOf(Call("assignment")), S, T)
  BY TagsAre, ListLeads DEF ItemTyped, ListTag
<1>3. StepTyped(Match("("), S, S)
  BY MatchPlain DEF Endings, Literals
<1> HIDE DEF T
<1>4. StepTyped(Match(")"), T, T)
  BY <1>1, MatchPlain DEF Endings, Literals
<1>5. Leads(<<Match("(")>>, S, S) /\ Leads(<<Match(")")>>, T, T)
  BY <1>3, <1>4, LeadsOne
<1>6. Leads(<<Match("(")>> \o ListOf(Call("assignment")), S, T)
  BY <1>2, <1>5, LeadsOn
<1>7. Leads((<<Match("(")>> \o ListOf(Call("assignment"))) \o <<Match(")")>>, S, T)
  BY <1>5, <1>6, LeadsOn
<1> QED
  BY <1>2, <1>7 DEF parseSetClause, T

(* An assignment names its column. *)
LEMMA AssignmentLeads ==
    ASSUME NEW S \in Seq(Tag)
    PROVE  Leads(parseAssignment, S, Append(S, "assignment"))
<1> DEFINE S1 == Append(S, "ident")
           S2 == Append(S1, "any")
<1>1. S1 \in Seq(Tag)
  BY TagsAre
<1>2. StepTyped(Match("Ident"), S, S1)
  BY MatchIdent
<1>3. StepTyped(Make(Part("assignment"), 2), S2, Append(S, "assignment"))
  BY TagsAre, MakeTwoLeads DEF Part, MakeTwo
<1> HIDE DEF S1
<1>4. StepTyped(Match("="), S1, S1)
  BY <1>1, MatchPlain DEF Endings, Literals
<1>5. StepTyped(Expr, S1, S2)
  BY <1>1, ExprLeads
<1> HIDE DEF S2
<1> QED
  BY <1>2, <1>3, <1>4, <1>5, LeadsFour DEF parseAssignment

(* Steps, a list, and steps that end the phrase. *)
LEMMA PhraseLeads ==
    ASSUME NEW s, NEW t, NEW u, NEW S, NEW T, NEW U, NEW V,
           Leads(s, S, T), Leads(t, T, U), Leads(u, U, V)
    PROVE  Leads(s \o t \o u, S, V)
<1>1. Leads(s \o t, S, U)
  BY LeadsOn
<1> QED
  BY <1>1, LeadsOn

(* CREATE TABLE is a statement. *)
LEMMA CreateLeads ==
    ASSUME NEW S \in Seq(Tag)
    PROVE  Leads(parseCreateTableStmt, S, Append(S, "stmt"))
<1> DEFINE S1 == Append(S, "ident")
           S2 == Append(S1, "columns")
           begin == <<Match("CREATE"), Match("TABLE"), Match("Ident"), Match("(")>>
           end == <<Match(")"), Make(Part("create"), 2)>>
<1>1. S1 \in Seq(Tag) /\ S2 \in Seq(Tag)
  BY TagsAre
<1>2. StepTyped(Match("Ident"), S, S1)
  BY MatchIdent
<1>3. StepTyped(Make(Part("create"), 2), S2, Append(S, "stmt"))
  BY TagsAre, MakeTwoLeads DEF Part, MakeTwo
<1> HIDE DEF S1
<1>4. StepTyped(Match("("), S1, S1)
  BY <1>1, MatchPlain DEF Endings, Literals
<1>5. StepTyped(Match("CREATE"), S, S) /\ StepTyped(Match("TABLE"), S, S)
  BY MatchPlain DEF Endings, Literals
<1>6. Leads(begin, S, S1)
  BY <1>2, <1>4, <1>5, LeadsFour
<1>7. Leads(ListOf(Call("columnDefinition")), S1, S2)
  BY <1>1, TagsAre, ListLeads DEF ItemTyped, ListTag
<1> HIDE DEF S2
<1>8. StepTyped(Match(")"), S2, S2)
  BY <1>1, MatchPlain DEF Endings, Literals
<1>9. Leads(end, S2, Append(S, "stmt"))
  BY <1>3, <1>8, LeadsTwo
<1> HIDE DEF begin, end
<1>10. Leads(begin \o ListOf(Call("columnDefinition")) \o end, S, Append(S, "stmt"))
  BY <1>6, <1>7, <1>9, PhraseLeads
<1> QED
  BY <1>10 DEF parseCreateTableStmt, begin, end

(* SELECT is a statement. *)
LEMMA SelectLeads ==
    ASSUME NEW S \in Seq(Tag)
    PROVE  Leads(parseSelectStmt, S, Append(S, "stmt"))
<1> DEFINE S1 == Append(S, "exprs")
           S2 == Append(S1, "ident")
           S3 == Append(S2, "any")
           begin == <<Match("SELECT")>>
           end == <<Match("FROM"), Match("Ident"), Call("where"), Make(Part("select"), 3)>>
<1>1. S1 \in Seq(Tag) /\ S2 \in Seq(Tag)
  BY TagsAre
<1>2. StepTyped(Make(Part("select"), 3), S3, Append(S, "stmt"))
  BY TagsAre, MakeThreeLeads DEF Part, MakeThree
<1>3. StepTyped(Match("SELECT"), S, S)
  BY MatchPlain DEF Endings, Literals
<1>4. Leads(begin, S, S)
  BY <1>3, LeadsOne
<1>5. Leads(ListOf(Call("exprOrStar")), S, S1)
  BY TagsAre, ListLeads DEF ItemTyped, ListTag
<1> HIDE DEF S1
<1>6. StepTyped(Match("FROM"), S1, S1)
  BY <1>1, MatchPlain DEF Endings, Literals
<1>7. StepTyped(Match("Ident"), S1, S2)
  BY <1>1, MatchIdent
<1> HIDE DEF S2
<1>8. StepTyped(Call("where"), S2, S3)
  BY <1>1, TagsAre, CallLeads DEF CallTag
<1> HIDE DEF S3
<1>9. Leads(end, S1, Append(S, "stmt"))
  BY <1>2, <1>6, <1>7, <1>8, LeadsFour
<1> HIDE DEF begin, end
<1>10. Leads(begin \o ListOf(Call("exprOrStar")) \o end, S, Append(S, "stmt"))
  BY <1>4, <1>5, <1>9, PhraseLeads
<1> QED
  BY <1>10 DEF parseSelectStmt, begin, end

(* INSERT is a statement. *)
LEMMA InsertLeads ==
    ASSUME NEW S \in Seq(Tag)
    PROVE  Leads(parseInsertStmt, S, Append(S, "stmt"))
<1> DEFINE S1 == Append(S, "ident")
           S2 == Append(S1, "names")
           S3 == Append(S2, "exprs")
           begin == <<Match("INSERT"), Match("INTO"), Match("Ident"),
                      Call("insertColumns"), Match("VALUES"), Match("(")>>
           end == <<Match(")"), Make(Part("insert"), 3)>>
<1>1. S1 \in Seq(Tag) /\ S2 \in Seq(Tag) /\ S3 \in Seq(Tag)
  BY TagsAre
<1>2. StepTyped(Make(Part("insert"), 3), S3, Append(S, "stmt"))
  BY TagsAre, MakeThreeLeads DEF Part, MakeThree
<1>3. StepTyped(Match("INSERT"), S, S) /\ StepTyped(Match("INTO"), S, S)
  BY MatchPlain DEF Endings, Literals
<1>4. StepTyped(Match("Ident"), S, S1)
  BY MatchIdent
<1> HIDE DEF S1
<1>5. StepTyped(Call("insertColumns"), S1, S2)
  BY <1>1, TagsAre, CallLeads DEF CallTag
<1>6. Leads(ListOf(Expr), S2, S3)
  BY <1>1, TagsAre, ListLeads DEF ItemTyped, ListTag
<1> HIDE DEF S2, S3
<1>7. StepTyped(Match("VALUES"), S2, S2) /\ StepTyped(Match("("), S2, S2)
  BY <1>1, MatchPlain DEF Endings, Literals
<1>8. Leads(begin, S, S2)
  BY <1>3, <1>4, <1>5, <1>7, LeadsSix
<1>9. StepTyped(Match(")"), S3, S3)
  BY <1>1, MatchPlain DEF Endings, Literals
<1>10. Leads(end, S3, Append(S, "stmt"))
  BY <1>2, <1>9, LeadsTwo
<1> HIDE DEF begin, end
<1>11. Leads(begin \o ListOf(Expr) \o end, S, Append(S, "stmt"))
  BY <1>6, <1>8, <1>10, PhraseLeads
<1> QED
  BY <1>11 DEF parseInsertStmt, begin, end

(* UPDATE is a statement. *)
LEMMA UpdateLeads ==
    ASSUME NEW S \in Seq(Tag)
    PROVE  Leads(parseUpdateStmt, S, Append(S, "stmt"))
<1> DEFINE S1 == Append(S, "ident")
           S2 == Append(S1, "assignments")
           S3 == Append(S2, "any")
<1>1. S1 \in Seq(Tag) /\ S2 \in Seq(Tag)
  BY TagsAre
<1>2. StepTyped(Make(Part("update"), 3), S3, Append(S, "stmt"))
  BY TagsAre, MakeThreeLeads DEF Part, MakeThree
<1>3. StepTyped(Match("UPDATE"), S, S)
  BY MatchPlain DEF Endings, Literals
<1>4. StepTyped(Match("Ident"), S, S1)
  BY MatchIdent
<1> HIDE DEF S1
<1>5. StepTyped(Match("SET"), S1, S1)
  BY <1>1, MatchPlain DEF Endings, Literals
<1>6. StepTyped(Call("setClause"), S1, S2)
  BY <1>1, TagsAre, CallLeads DEF CallTag
<1> HIDE DEF S2
<1>7. StepTyped(Call("where"), S2, S3)
  BY <1>1, TagsAre, CallLeads DEF CallTag
<1> HIDE DEF S3
<1> QED
  BY <1>2, <1>3, <1>4, <1>5, <1>6, <1>7, LeadsSix DEF parseUpdateStmt

(* DELETE is a statement. *)
LEMMA DeleteLeads ==
    ASSUME NEW S \in Seq(Tag)
    PROVE  Leads(parseDeleteStmt, S, Append(S, "stmt"))
<1> DEFINE S1 == Append(S, "ident")
           S2 == Append(S1, "any")
<1>1. S1 \in Seq(Tag)
  BY TagsAre
<1>2. StepTyped(Make(Part("delete"), 2), S2, Append(S, "stmt"))
  BY TagsAre, MakeTwoLeads DEF Part, MakeTwo
<1>3. StepTyped(Match("DELETE"), S, S) /\ StepTyped(Match("FROM"), S, S)
  BY MatchPlain DEF Endings, Literals
<1>4. StepTyped(Match("Ident"), S, S1)
  BY MatchIdent
<1> HIDE DEF S1
<1>5. StepTyped(Call("where"), S1, S2)
  BY <1>1, TagsAre, CallLeads DEF CallTag
<1> HIDE DEF S2
<1> QED
  BY <1>2, <1>3, <1>4, <1>5, LeadsFive DEF parseDeleteStmt

(* Whatever the token, parseStmt makes one statement or none. *)
LEMMA StmtLeads ==
    ASSUME NEW S \in Seq(Tag)
    PROVE  Leads(parseStmt, S, Append(S, "stmt"))
<1>1. Append(S, "stmt") \in Seq(Tag)
  BY TagsAre
<1>2. parseStmt \in {parseCreateTableStmt, parseSelectStmt, parseInsertStmt,
                     parseUpdateStmt, parseDeleteStmt, Expected}
  BY DEF parseStmt
<1> QED
  BY <1>1, <1>2, CreateLeads, SelectLeads, InsertLeads, UpdateLeads, DeleteLeads,
     ExpectedLeads, Zenon

(* What a SELECT or a call lists is one node. *)
LEMMA ExprOrStarLeads ==
    ASSUME NEW S \in Seq(Tag)
    PROVE  Leads(parseExprOrStar, S, Append(S, "any"))
<1>1. StepTyped(Match("*"), S, S)
  BY MatchPlain DEF Endings, Literals
<1>2. StepTyped(Push(SelectStar), S, Append(S, "any"))
  BY TagsAre, PushLeads DEF Is
<1>3. Leads(<<Match("*"), Push(SelectStar)>>, S, Append(S, "any"))
  BY <1>1, <1>2, LeadsTwo
<1>4. Leads(<<Expr>>, S, Append(S, "any"))
  BY ExprLeads, LeadsOne
<1> QED
  BY <1>3, <1>4 DEF parseExprOrStar

(* An expression is a left operand that operators may make another of. *)
LEMMA BinaryExprLeads ==
    ASSUME NEW S \in Seq(Tag), NEW min \in Nat \ {0}
    PROVE  Leads(parseBinaryExpr(min), S, Append(S, "any"))
<1>1. StepTyped(Call("unaryExpr"), S, Append(S, "any"))
  BY TagsAre, CallLeads DEF CallTag
<1>2. StepTyped(Operators(min), Append(S, "any"), Append(S, "any"))
  BY OperatorsLead
<1> QED
  BY <1>1, <1>2, LeadsTwo DEF parseBinaryExpr

(* Only operators have a precedence. *)
LEMMA OperatorsHavePrecedence ==
    ASSUME NEW kind, NEW min \in Nat \ {0}, ~(Precedence(kind) < min)
    PROVE  /\ Precedence(kind) + 1 \in Nat \ {0}
           /\ kind \notin Endings \cup Literals \cup {"Ident", ";"}
<1>1. Precedence(kind) \in 0 .. 5
  BY DEF Precedence
<1>2. Precedence(kind) # 0
  BY <1>1
<1>3. kind \in ComparisonOps \cup {"OR", "AND", "+", "-", "||", "*", "/"}
  BY <1>2 DEF Precedence
<1>4. kind \notin Endings \cup Literals
  BY <1>3 DEF ComparisonOps, Endings, Literals
<1>5. kind # "Ident" /\ kind # ";"
  BY <1>3 DEF ComparisonOps
<1>6. Precedence(kind) + 1 \in Nat \ {0}
  BY <1>1
<1>7. kind \notin Endings \cup Literals \cup {"Ident", ";"}
  BY <1>4, <1>5, Zenon
<1> QED
  BY <1>6, <1>7

(* An operator takes its two operands. *)
LEMMA OperatorStepsLead ==
    ASSUME NEW S \in Seq(Tag), NEW min \in Nat \ {0}
    PROVE  Leads(parseOperators(min), Append(S, "any"), Append(S, "any"))
<1> DEFINE S1 == Append(S, "any")
           S2 == Append(S1, "any")
<1>1. S1 \in Seq(Tag)
  BY TagsAre
<1>2. CASE Precedence(Kind) < min
  <2>1. parseOperators(min) = <<>>
    BY <1>2 DEF parseOperators
  <2> HIDE DEF S1
  <2>2. Leads(<<>>, S1, S1)
    BY <1>1, LeadsNowhere
  <2> QED
    BY <2>1, <2>2 DEF S1
<1>3. CASE ~(Precedence(Kind) < min)
  <2> DEFINE op == BinaryExpr(Kind, "lhs", "rhs")
             tighter == Precedence(Kind) + 1
  <2>1. /\ tighter \in Nat \ {0}
        /\ Kind \notin Endings \cup Literals \cup {"Ident", ";"}
    BY <1>3, OperatorsHavePrecedence
  <2>2. op.node = "BinaryExpr"
    BY DEF BinaryExpr
  <2>3. parseOperators(min) = <<Match(Kind), Binary(tighter), Make(op, 2), Operators(min)>>
    BY <1>3 DEF parseOperators
  <2> HIDE DEF op, tighter
  <2>4. StepTyped(Operators(min), S1, S1)
    BY OperatorsLead
  <2>5. StepTyped(Make(op, 2), S2, S1)
    BY <2>2, TagsAre, MakeTwoLeads DEF MakeTwo
  <2> HIDE DEF S1
  <2>6. StepTyped(Match(Kind), S1, S1)
    BY <1>1, <2>1, MatchPlain
  <2>7. StepTyped(Binary(tighter), S1, S2)
    BY <1>1, <2>1, BinaryLeads
  <2> HIDE DEF S2
  <2>8. Leads(parseOperators(min), S1, S1)
    BY <2>3, <2>4, <2>5, <2>6, <2>7, LeadsFour
  <2> QED
    BY <2>8 DEF S1
<1> QED
  BY <1>2, <1>3

(* An operand is one node. *)
LEMMA UnaryExprLeads ==
    ASSUME NEW S \in Seq(Tag)
    PROVE  Leads(parseUnaryExpr, S, Append(S, "any"))
<1> DEFINE S1 == Append(S, "any")
<1>1. S1 \in Seq(Tag)
  BY TagsAre
<1>2. CASE Kind = "("
  <2>1. parseUnaryExpr = <<Match("("), Expr, Match(")")>>
    BY <1>2 DEF parseUnaryExpr
  <2>2. StepTyped(Match("("), S, S)
    BY MatchPlain DEF Endings, Literals
  <2>3. StepTyped(Expr, S, S1)
    BY ExprLeads
  <2> HIDE DEF S1
  <2>4. StepTyped(Match(")"), S1, S1)
    BY <1>1, MatchPlain DEF Endings, Literals
  <2>5. Leads(parseUnaryExpr, S, S1)
    BY <2>1, <2>2, <2>3, <2>4, LeadsThree
  <2> QED
    BY <2>5 DEF S1
<1>3. CASE Kind = "Ident"
  <2>1. parseUnaryExpr = <<Match("Ident"), Call("arguments")>>
    BY <1>3 DEF parseUnaryExpr
  <2> QED
    BY <2>1, MatchIdent, ArgumentsLead, LeadsTwo
<1>4. CASE Kind \in {"+", "-"}
  <2> DEFINE op == UnaryExpr(Kind, "expr")
  <2>1. parseUnaryExpr = <<Match(Kind), Expr, Make(op, 1)>>
    BY <1>4 DEF parseUnaryExpr
  <2>2. op.node = "UnaryExpr"
    BY DEF UnaryExpr
  <2>3. StepTyped(Match(Kind), S, S)
    BY <1>4, MatchPlain DEF Endings, Literals
  <2> HIDE DEF op
  <2>4. StepTyped(Make(op, 1), S1, S1)
    BY <2>2, TagsAre, MakeOneLeads DEF MakeOne
  <2>5. StepTyped(Expr, S, S1)
    BY ExprLeads
  <2> HIDE DEF S1
  <2>6. Leads(parseUnaryExpr, S, S1)
    BY <2>1, <2>3, <2>4, <2>5, LeadsThree
  <2> QED
    BY <2>6 DEF S1
<1>5. CASE Kind \in Literals
  <2>1. parseUnaryExpr = <<Match(Kind)>>
    BY <1>5 DEF parseUnaryExpr, Literals
  <2>2. StepTyped(Match(Kind), S, S1)
    BY <1>5, MatchLiteral
  <2> HIDE DEF S1
  <2>3. Leads(parseUnaryExpr, S, S1)
    BY <2>1, <2>2, LeadsOne
  <2> QED
    BY <2>3 DEF S1
<1>6. ASSUME NEW kind \in {"TRUE", "FALSE", "NULL"}, NEW v
      PROVE  Leads(<<Match(kind), Push(v)>>, S, S1)
  <2>1. StepTyped(Match(kind), S, S)
    BY MatchPlain DEF Endings, Literals
  <2>2. StepTyped(Push(v), S, S1)
    BY TagsAre, PushLeads DEF Is
  <2> HIDE DEF S1
  <2> QED
    BY <2>1, <2>2, LeadsTwo
<1>7. CASE Kind \in {"TRUE", "FALSE", "NULL"}
  <2>1. \E v : parseUnaryExpr = <<Match(Kind), Push(v)>>
    BY <1>7 DEF parseUnaryExpr
  <2> QED
    BY <1>6, <1>7, <2>1
<1>8. CASE Kind \notin {"(", "Ident", "+", "-", "TRUE", "FALSE", "NULL"} \cup Literals
  <2>1. parseUnaryExpr = Expected
    BY <1>8 DEF parseUnaryExpr, Literals
  <2> QED
    BY <1>1, <2>1, ExpectedLeads
<1>9. \/ Kind = "(" \/ Kind = "Ident" \/ Kind \in {"+", "-"} \/ Kind \in Literals
      \/ Kind \in {"TRUE", "FALSE", "NULL"}
      \/ Kind \notin {"(", "Ident", "+", "-", "TRUE", "FALSE", "NULL"} \cup Literals
  OBVIOUS
<1> QED
  BY <1>2, <1>3, <1>4, <1>5, <1>7, <1>8, <1>9, Zenon

(* The arguments make a call of the identifier before them. *)
LEMMA ArgumentStepsLead ==
    ASSUME NEW S \in Seq(Tag), Kind = "("
    PROVE  Leads(parseArguments, Append(S, "ident"), Append(S, "any"))
<1> DEFINE S1 == Append(S, "ident")
           S2 == Append(S1, "exprs")
           begin == <<Match("(")>>
           end == <<Match(")"), Make(Part("call"), 2)>>
<1>1. S1 \in Seq(Tag) /\ S2 \in Seq(Tag)
  BY TagsAre
<1>2. StepTyped(Make(Part("call"), 2), S2, Append(S, "any"))
  BY TagsAre, MakeTwoLeads DEF Part, MakeTwo
<1> HIDE DEF S1
<1>3. StepTyped(Match("("), S1, S1)
  BY <1>1, MatchPlain DEF Endings, Literals
<1>4. Leads(begin, S1, S1)
  BY <1>3, LeadsOne
<1>5. Leads(ListOf(Call("exprOrStar")), S1, S2)
  BY <1>1, TagsAre, ListLeads DEF ItemTyped, ListTag
<1> HIDE DEF S2
<1>6. StepTyped(Match(")"), S2, S2)
  BY <1>1, MatchPlain DEF Endings, Literals
<1>7. Leads(end, S2, Append(S, "any"))
  BY <1>2, <1>6, LeadsTwo
<1> HIDE DEF begin, end
<1>8. Leads(begin \o ListOf(Call("exprOrStar")) \o end, S1, Append(S, "any"))
  BY <1>4, <1>5, <1>7, PhraseLeads
<1>9. parseArguments = begin \o ListOf(Call("exprOrStar")) \o end
  BY DEF parseArguments, begin, end
<1> QED
  BY <1>8, <1>9 DEF S1

(* A list goes on with a comma, an item, and more. *)
LEMMA MoreStepsLead ==
    ASSUME NEW S \in Seq(Tag), NEW step, step.do = "more",
           NEW tag \in Tag, ItemTyped(step.item, tag)
    PROVE  Leads(Steps(step), Append(S, ListTag(tag)), Append(S, ListTag(tag)))
<1> DEFINE list == Append(S, ListTag(tag))
           next == Append(list, tag)
<1>1. ListTag(tag) \in Tag
  BY DEF Tag, ListTag
<1>2. list \in Seq(Tag)
  BY <1>1
<1>3. CASE Kind = ","
  <2>1. Steps(step) = <<Match(","), step.item, Make(Part("list"), 2), step>>
    BY <1>3 DEF Steps
  <2>2. <<"list", ListTag(tag), tag, ListTag(tag)>> \in MakeTwo
    BY DEF ItemTyped, MakeTwo, ListTag
  <2>3. StepTyped(Make(Part("list"), 2), next, list)
    BY <1>1, <2>2, MakeTwoLeads DEF Part
  <2>4. StepTyped(step, list, list)
    BY <1>2 DEF StepTyped
  <2> HIDE DEF list
  <2>5. StepTyped(Match(","), list, list)
    BY <1>2, MatchPlain DEF Endings, Literals
  <2>6. StepTyped(step.item, list, next)
    BY <1>2, ItemLeads
  <2> HIDE DEF next
  <2>7. Leads(Steps(step), list, list)
    BY <2>1, <2>3, <2>4, <2>5, <2>6, LeadsFour
  <2> QED
    BY <2>7 DEF list
<1>4. CASE Kind # ","
  <2>1. Steps(step) = <<>>
    BY <1>4 DEF Steps
  <2> HIDE DEF list
  <2>2. Leads(<<>>, list, list)
    BY <1>2, LeadsNowhere
  <2> QED
    BY <2>1, <2>2 DEF list
<1> QED
  BY <1>3, <1>4

(* Each method does to the types what its call does. *)
LEMMA MethodsLead ==
    ASSUME NEW S \in Seq(Tag), NEW step, step.do = "call", NEW tag \in Tag,
           <<step.method, tag>> \in CallTag
    PROVE  Leads(Steps(step), S, Append(S, tag))
<1>1. \/ step.method = "stmt" /\ tag = "stmt"
      \/ step.method = "columnDefinition" /\ tag = "column"
      \/ step.method = "dataType" /\ tag = "type"
      \/ step.method = "nullable" /\ tag = "bool"
      \/ step.method = "where" /\ tag = "any"
      \/ step.method = "insertColumns" /\ tag = "names"
      \/ step.method = "setClause" /\ tag = "assignments"
      \/ step.method = "assignment" /\ tag = "assignment"
      \/ step.method = "exprOrStar" /\ tag = "any"
      \/ step.method = "unaryExpr" /\ tag = "any"
  BY DEF CallTag
<1>2. CASE step.method = "stmt" /\ tag = "stmt"
  <2>1. Steps(step) = parseStmt
    BY <1>2 DEF Steps
  <2> QED
    BY <1>2, <2>1, StmtLeads
<1>3. CASE step.method = "columnDefinition" /\ tag = "column"
  <2>1. Steps(step) = parseColumnDefinition
    BY <1>3 DEF Steps
  <2> QED
    BY <1>3, <2>1, ColumnDefinitionLeads
<1>4. CASE step.method = "dataType" /\ tag = "type"
  <2>1. Steps(step) = parseDataType
    BY <1>4 DEF Steps
  <2> QED
    BY <1>4, <2>1, DataTypeLeads
<1>5. CASE step.method = "nullable" /\ tag = "bool"
  <2>1. Steps(step) = parseNullable
    BY <1>5 DEF Steps
  <2> QED
    BY <1>5, <2>1, NullableLeads
<1>6. CASE step.method = "where" /\ tag = "any"
  <2>1. Steps(step) = parseWhere
    BY <1>6 DEF Steps
  <2> QED
    BY <1>6, <2>1, WhereLeads
<1>7. CASE step.method = "insertColumns" /\ tag = "names"
  <2>1. Steps(step) = parseInsertColumns
    BY <1>7 DEF Steps
  <2> QED
    BY <1>7, <2>1, InsertColumnsLead
<1>8. CASE step.method = "setClause" /\ tag = "assignments"
  <2>1. Steps(step) = parseSetClause
    BY <1>8 DEF Steps
  <2> QED
    BY <1>8, <2>1, SetClauseLeads
<1>9. CASE step.method = "assignment" /\ tag = "assignment"
  <2>1. Steps(step) = parseAssignment
    BY <1>9 DEF Steps
  <2> QED
    BY <1>9, <2>1, AssignmentLeads
<1>10. CASE step.method = "exprOrStar" /\ tag = "any"
  <2>1. Steps(step) = parseExprOrStar
    BY <1>10 DEF Steps
  <2> QED
    BY <1>10, <2>1, ExprOrStarLeads
<1>11. CASE step.method = "unaryExpr" /\ tag = "any"
  <2>1. Steps(step) = parseUnaryExpr
    BY <1>11 DEF Steps
  <2> QED
    BY <1>11, <2>1, UnaryExprLeads
<1> QED
  BY <1>1, <1>2, <1>3, <1>4, <1>5, <1>6, <1>7, <1>8, <1>9, <1>10, <1>11, Zenon

(* The node on top may be of another type, and none is different for it. *)
LEMMA TypedAs ==
    ASSUME NEW nodes, NEW S \in Seq(Tag), NEW a \in Tag, NEW b \in Tag,
           Typed(nodes, Append(S, a)), \A v : Is(a, v) => Is(b, v)
    PROVE  Typed(nodes, Append(S, b))
<1> DEFINE S1 == Append(S, a)
           S2 == Append(S, b)
<1>1. S1 \in Seq(Tag) /\ S2 \in Seq(Tag)
  OBVIOUS
<1>2. /\ Len(S1) = Len(S) + 1 /\ Len(S2) = Len(S) + 1
      /\ \A i \in 1 .. Len(S) : S2[i] = S1[i]
      /\ S1[Len(S) + 1] = a /\ S2[Len(S) + 1] = b
  OBVIOUS
<1> HIDE DEF S1, S2
<1>3. IsSeq(nodes) /\ Len(nodes) = Len(S1) /\ \A i \in 1 .. Len(S1) : Is(S1[i], nodes[i])
  BY DEF Typed, S1
<1>4. \A i \in 1 .. Len(S2) : Is(S2[i], nodes[i])
  <2>1. Len(S) \in Nat
    OBVIOUS
  <2> TAKE i \in 1 .. Len(S2)
  <2>2. CASE i \in 1 .. Len(S)
    BY <1>2, <1>3, <2>1, <2>2
  <2>3. CASE i = Len(S) + 1
    <3>1. Is(a, nodes[i])
      BY <1>2, <1>3, <2>1, <2>3
    <3> QED
      BY <1>2, <2>3, <3>1
  <2> QED
    BY <1>2, <2>1, <2>2, <2>3
<1>5. Typed(nodes, S2)
  BY <1>1, <1>2, <1>3, <1>4 DEF Typed
<1> QED
  BY <1>5 DEF S2

-----------------------------------------------------------------------------
(* How many statements are whole in a stack.  Only a semicolon makes one.  *)

Wholes(S) == Cardinality({i \in 1 .. Len(S) : S[i] = "whole"})

(* A stack has one more with a whole statement on top of it. *)
LEMMA WholesAppend ==
    ASSUME NEW S \in Seq(Tag), NEW tag \in Tag
    PROVE  /\ Wholes(S) \in Nat
           /\ tag = "whole" => Wholes(Append(S, tag)) = Wholes(S) + 1
           /\ tag # "whole" => Wholes(Append(S, tag)) = Wholes(S)
<1> DEFINE n == Len(S)
           in == {i \in 1 .. n : S[i] = "whole"}
           S1 == Append(S, tag)
           in1 == {i \in 1 .. Len(S1) : S1[i] = "whole"}
<1>1. n \in Nat /\ Len(S1) = n + 1 /\ S1[n + 1] = tag /\ \A i \in 1 .. n : S1[i] = S[i]
  OBVIOUS
<1> HIDE DEF S1
<1>2. IsFiniteSet(in)
  <2>1. IsFiniteSet(1 .. n)
    BY <1>1, FS_Interval
  <2> QED
    BY <2>1, FS_Subset
<1>3. Cardinality(in) \in Nat
  BY <1>2, FS_CardinalityType
<1>4. n + 1 \notin in
  BY <1>1
<1> HIDE DEF n
<1>5. ASSUME tag = "whole" PROVE in1 = in \cup {n + 1}
  BY <1>1, <1>5
<1>6. ASSUME tag # "whole" PROVE in1 = in
  BY <1>1, <1>6
<1>7. Wholes(S) = Cardinality(in) /\ Wholes(S1) = Cardinality(in1)
  BY DEF Wholes, n
<1> HIDE DEF in, in1
<1>8. Cardinality(in \cup {n + 1}) = Cardinality(in) + 1
  BY <1>2, <1>4, FS_AddElement
<1> QED
  BY <1>3, <1>5, <1>6, <1>7, <1>8 DEF S1

(* A stack of whole statements is that many high. *)
LEMMA AllAreWhole ==
    ASSUME NEW S \in Seq({"whole"})
    PROVE  Wholes(S) = Len(S)
<1>1. Len(S) \in Nat /\ \A i \in 1 .. Len(S) : S[i] = "whole"
  OBVIOUS
<1>2. {i \in 1 .. Len(S) : S[i] = "whole"} = 1 .. Len(S)
  BY <1>1
<1>3. Cardinality(1 .. Len(S)) = Len(S)
  BY <1>1, FS_Interval
<1> QED
  BY <1>2, <1>3 DEF Wholes

(* What a step comes to does to the nodes what the step does. *)
LEMMA StepsLead ==
    ASSUME NEW step, NEW S, NEW T, StepTyped(step, S, T), Typed(built, S),
           step.do \in {"call", "binary", "operators", "more"}
    PROVE  \E R : Typed(built, R) /\ Leads(Steps(step), R, T) /\ Wholes(R) = Wholes(S)
<1>1. S \in Seq(Tag) /\ T \in Seq(Tag)
  BY DEF StepTyped
<1>2. CASE step.do = "call"
  <2>1. CallTyped(step.method, S, T)
    BY <1>2 DEF StepTyped
  <2>2. CASE \E tag \in Tag : <<step.method, tag>> \in CallTag /\ T = Append(S, tag)
    <3>1. PICK tag \in Tag : <<step.method, tag>> \in CallTag /\ T = Append(S, tag)
      BY <2>2
    <3>2. Leads(Steps(step), S, Append(S, tag))
      BY <1>1, <1>2, <3>1, MethodsLead
    <3> QED
      BY <3>1, <3>2
  <2>3. CASE step.method = "arguments"
             /\ \E base \in Seq(Tag) : S = Append(base, "ident") /\ T = Append(base, "any")
    <3>1. PICK base \in Seq(Tag) : S = Append(base, "ident") /\ T = Append(base, "any")
      BY <2>3
    <3>2. Steps(step) = parseArguments
      BY <1>2, <2>3 DEF Steps
    <3>3. CASE Kind = "("
      <4>1. Leads(parseArguments, Append(base, "ident"), Append(base, "any"))
        BY <3>3, ArgumentStepsLead
      <4> QED
        BY <3>1, <3>2, <4>1
    <3>4. CASE Kind # "("
      <4>1. Steps(step) = <<>>
        BY <3>2, <3>4 DEF parseArguments
      <4>2. Typed(built, T)
        BY <3>1, TagsAre, TypedAs DEF Is
      <4>4. Wholes(T) = Wholes(S)
        BY <3>1, TagsAre, WholesAppend
      <4>3. Leads(<<>>, T, T)
        BY <1>1, LeadsNowhere
      <4> QED
        BY <4>1, <4>2, <4>3, <4>4
    <3> QED
      BY <3>3, <3>4
  <2> QED
    BY <2>1, <2>2, <2>3 DEF CallTyped
<1>3. CASE step.do = "binary"
  <2>1. step.min \in Nat \ {0} /\ T = Append(S, "any")
    BY <1>3 DEF StepTyped
  <2>2. Steps(step) = parseBinaryExpr(step.min)
    BY <1>3 DEF Steps
  <2>3. Leads(parseBinaryExpr(step.min), S, Append(S, "any"))
    BY <1>1, <2>1, BinaryExprLeads
  <2> QED
    BY <2>1, <2>2, <2>3
<1>4. CASE step.do = "operators"
  <2>1. step.min \in Nat \ {0} /\ T = S /\ \E base \in Seq(Tag) : S = Append(base, "any")
    BY <1>4 DEF StepTyped
  <2>2. PICK base \in Seq(Tag) : S = Append(base, "any")
    BY <2>1
  <2>3. Steps(step) = parseOperators(step.min)
    BY <1>4 DEF Steps
  <2>4. Leads(parseOperators(step.min), Append(base, "any"), Append(base, "any"))
    BY <2>1, OperatorStepsLead
  <2> QED
    BY <2>1, <2>2, <2>3, <2>4
<1>5. CASE step.do = "more"
  <2>1. T = S /\ \E base \in Seq(Tag) : \E tag \in Tag :
                    ItemTyped(step.item, tag) /\ S = Append(base, ListTag(tag))
    BY <1>5 DEF StepTyped
  <2>2. PICK base \in Seq(Tag), tag \in Tag :
          ItemTyped(step.item, tag) /\ S = Append(base, ListTag(tag))
    BY <2>1
  <2>3. Leads(Steps(step), Append(base, ListTag(tag)), Append(base, ListTag(tag)))
    BY <1>5, <2>2, MoreStepsLead
  <2> QED
    BY <2>1, <2>2, <2>3
<1> QED
  BY <1>2, <1>3, <1>4, <1>5

-----------------------------------------------------------------------------
(* The nodes that steps take and leave. *)

(* A part of a sequence is a sequence, whatever its elements are. *)
LEMMA SubSeqIsSeq ==
    ASSUME NEW s, IsSeq(s), NEW m \in 1 .. Len(s) + 1, NEW n \in m - 1 .. Len(s)
    PROVE  /\ IsSeq(SubSeq(s, m, n)) /\ Len(SubSeq(s, m, n)) = n - m + 1
           /\ \A i \in 1 .. n - m + 1 : SubSeq(s, m, n)[i] = s[m + i - 1]
<1>1. s \in Seq(Range(s)) /\ Len(s) \in Nat
  BY SeqOverRange, SeqDomain
<1>2. SubSeq(s, m, n) \in Seq(Range(s))
  BY <1>1, SubSeqProperties
<1>3. /\ Len(SubSeq(s, m, n)) = IF m <= n THEN n - m + 1 ELSE 0
      /\ \A i \in 1 .. n - m + 1 : SubSeq(s, m, n)[i] = s[m + i - 1]
  BY <1>1, SubSeqProperties
<1>4. (IF m <= n THEN n - m + 1 ELSE 0) = n - m + 1
  BY <1>1
<1>5. IsSeq(SubSeq(s, m, n))
  BY <1>2, SeqIsSeq
<1> QED
  BY <1>3, <1>4, <1>5

(* One more node, on top of others. *)
LEMMA TypedOneMore ==
    ASSUME NEW nodes, NEW S, Typed(nodes, S), NEW tag \in Tag, NEW v, Is(tag, v),
           NEW next, IsSeq(next), DOMAIN next = 1 .. Len(nodes) + 1,
           \A i \in 1 .. Len(nodes) : next[i] = nodes[i], next[Len(nodes) + 1] = v
    PROVE  Typed(next, Append(S, tag))
<1> DEFINE U == Append(S, tag)
<1>1. /\ IsSeq(nodes) /\ S \in Seq(Tag) /\ Len(nodes) = Len(S) /\ Len(S) \in Nat
      /\ \A i \in 1 .. Len(S) : Is(S[i], nodes[i])
  BY DEF Typed
<1>2. /\ U \in Seq(Tag) /\ Len(U) = Len(S) + 1 /\ U[Len(S) + 1] = tag
      /\ \A i \in 1 .. Len(S) : U[i] = S[i]
  BY <1>1
<1>3. /\ next[Len(S) + 1] = v
      /\ \A i \in 1 .. Len(S) : next[i] = nodes[i]
  BY <1>1
<1> HIDE DEF U
<1>4. Len(next) = Len(S) + 1
  BY <1>1, SeqDomain
<1>5. \A i \in 1 .. Len(U) : Is(U[i], next[i])
  <2> TAKE i \in 1 .. Len(U)
  <2>1. i \in 1 .. Len(S) \/ i = Len(S) + 1
    BY <1>1, <1>2
  <2>2. CASE i \in 1 .. Len(S)
    BY <1>1, <1>2, <1>3, <2>2
  <2>3. CASE i = Len(S) + 1
    BY <1>1, <1>2, <1>3, <2>3
  <2> QED
    BY <2>1, <2>2, <2>3
<1>6. Typed(next, U)
  BY <1>2, <1>4, <1>5 DEF Typed
<1> QED
  BY <1>6 DEF U

(* A node that is made, and one that a token leaves. *)
LEMMA TypedPush ==
    ASSUME NEW nodes, NEW S, Typed(nodes, S), NEW tag \in Tag, NEW v, Is(tag, v)
    PROVE  Typed(Append(nodes, v), Append(S, tag)) /\ Typed(nodes \o <<v>>, Append(S, tag))
<1> DEFINE made == Append(nodes, v)
           left == nodes \o <<v>>
<1>1. IsSeq(nodes) /\ DOMAIN nodes = 1 .. Len(nodes)
  BY SeqDomain DEF Typed
<1>2. /\ IsSeq(made) /\ DOMAIN made = 1 .. Len(nodes) + 1
      /\ \A i \in 1 .. Len(nodes) : made[i] = nodes[i]
      /\ made[Len(nodes) + 1] = v
  BY <1>1, AppendIsSeq
<1>3. /\ IsSeq(left) /\ DOMAIN left = 1 .. Len(nodes) + 1
      /\ \A i \in 1 .. Len(nodes) : left[i] = nodes[i]
      /\ left[Len(nodes) + 1] = v
  BY <1>1, ConcatOne
<1> HIDE DEF made, left
<1>4. Typed(made, Append(S, tag)) /\ Typed(left, Append(S, tag))
  BY <1>2, <1>3, TypedOneMore
<1> QED
  BY <1>4 DEF made, left

(* The nodes below the last ones, and the last ones. *)
LEMMA TypedPop ==
    ASSUME NEW nodes, NEW S, Typed(nodes, S), NEW base \in Seq(Tag), NEW size \in Nat,
           Len(S) = Len(base) + size, \A i \in 1 .. Len(base) : S[i] = base[i]
    PROVE  LET kept == Len(nodes) - size
           IN  /\ Typed(SubSeq(nodes, 1, kept), base)
               /\ \A i \in 1 .. size :
                    Is(S[Len(base) + i], SubSeq(nodes, kept + 1, Len(nodes))[i])
<1> DEFINE k == Len(base)
           n == Len(nodes)
           lower == SubSeq(nodes, 1, k)
           upper == SubSeq(nodes, k + 1, n)
<1>1. /\ IsSeq(nodes) /\ n = k + size /\ n \in Nat /\ k \in Nat /\ n - size = k
      /\ \A i \in 1 .. n : Is(S[i], nodes[i])
  BY DEF Typed
<1>2. IsSeq(lower) /\ Len(lower) = k /\ \A i \in 1 .. k : lower[i] = nodes[i]
  <2>1. 1 \in 1 .. n + 1 /\ k \in 1 - 1 .. n /\ k - 1 + 1 = k
    BY <1>1
  <2>2. IsSeq(lower) /\ Len(lower) = k /\ \A i \in 1 .. k : lower[i] = nodes[1 + i - 1]
    <3> HIDE DEF k
    <3> QED
      BY <1>1, <2>1, SubSeqIsSeq
  <2> HIDE DEF lower, k
  <2>3. \A i \in 1 .. k : 1 + i - 1 = i
    BY <1>1
  <2> QED
    BY <2>2, <2>3
<1>3. \A i \in 1 .. size : upper[i] = nodes[k + i]
  <2>1. k + 1 \in 1 .. n + 1 /\ n \in (k + 1) - 1 .. n /\ n - (k + 1) + 1 = size
    BY <1>1
  <2>2. \A i \in 1 .. size : upper[i] = nodes[(k + 1) + i - 1]
    <3> HIDE DEF k
    <3> QED
      BY <1>1, <2>1, SubSeqIsSeq
  <2> HIDE DEF upper, k
  <2>3. \A i \in 1 .. size : (k + 1) + i - 1 = k + i
    BY <1>1
  <2> QED
    BY <2>2, <2>3
<1> HIDE DEF lower, upper
<1>4. Typed(lower, base)
  <2>1. \A i \in 1 .. k : i \in 1 .. n /\ S[i] = base[i]
    BY <1>1
  <2> QED
    BY <1>1, <1>2, <2>1 DEF Typed
<1>5. \A i \in 1 .. size : Is(S[k + i], upper[i])
  <2>1. \A i \in 1 .. size : k + i \in 1 .. n
    BY <1>1
  <2> QED
    BY <1>1, <1>3, <2>1
<1> QED
  BY <1>1, <1>4, <1>5 DEF lower, upper

(* What is appended to a list is in it. *)
LEMMA AppendIs ==
    ASSUME NEW s, IsSeq(s), NEW e
    PROVE  /\ IsSeq(Append(s, e)) /\ Append(s, e) # <<>>
           /\ \A k \in DOMAIN Append(s, e) :
                Append(s, e)[k] = e \/ (k \in DOMAIN s /\ Append(s, e)[k] = s[k])
<1> DEFINE t == Append(s, e)
<1>1. /\ IsSeq(t) /\ DOMAIN t = 1 .. Len(s) + 1 /\ t[Len(s) + 1] = e
      /\ \A i \in DOMAIN s : t[i] = s[i]
      /\ Len(s) \in Nat /\ DOMAIN s = 1 .. Len(s)
  BY AppendIsSeq, SeqDomain
<1> HIDE DEF t
<1>2. t # <<>>
  <2>1. 1 \in DOMAIN t /\ DOMAIN <<>> = {}
    BY <1>1
  <2> QED
    BY <2>1
<1>3. \A k \in DOMAIN t : k = Len(s) + 1 \/ k \in DOMAIN s
  BY <1>1
<1> QED
  BY <1>1, <1>2, <1>3 DEF t

(* Elements of a set, in a sequence. *)
LEMMA ElementsIn ==
    ASSUME NEW s, IsSeq(s), NEW X, \A k \in DOMAIN s : s[k] \in X
    PROVE  s \in Seq(X)
<1>1. Len(s) \in Nat /\ DOMAIN s = 1 .. Len(s) /\ s = [i \in 1 .. Len(s) |-> s[i]]
  BY SeqDomain DEF IsSeq
<1>2. s \in [1 .. Len(s) -> X]
  BY <1>1
<1> QED
  BY <1>1, <1>2

(* A sequence of what is taken from each element. *)
LEMMA FieldsOf ==
    ASSUME NEW s, IsSeq(s), NEW g, DOMAIN g = DOMAIN s, g = [k \in DOMAIN s |-> g[k]]
    PROVE  IsSeq(g) /\ Len(g) = Len(s) /\ (s # <<>> => g # <<>>)
<1>1. Len(s) \in Nat /\ DOMAIN s = 1 .. Len(s)
  BY SeqDomain
<1>2. IsSeq(g)
  BY <1>1, FunctionIsSeq
<1>3. Len(g) \in Nat /\ DOMAIN g = 1 .. Len(g)
  BY <1>2, SeqDomain
<1>4. Len(g) = Len(s)
  BY <1>1, <1>3
<1>5. s # <<>> => g # <<>>
  <2>1. ASSUME g = <<>> PROVE s = <<>>
    <3>1. Len(s) = 0
      BY <1>4, <2>1
    <3>2. s \in Seq(Range(s))
      BY SeqOverRange
    <3> QED
      BY <3>1, <3>2, EmptySeq
  <2> QED
    BY <2>1
<1> QED
  BY <1>2, <1>4, <1>5

-----------------------------------------------------------------------------
(* What is made of nodes of the types that a step takes is of the type it  *)
(* leaves.                                                                 *)

(* A list and an item make a list. *)
LEMMA ListNode ==
    ASSUME NEW part, part.node = "list", NEW v, NEW a, NEW b, NEW made,
           <<"list", a, b, made>> \in MakeTwo, Is(a, v[1]), Is(b, v[2])
    PROVE  Is(made, Node(part, v))
<1> DEFINE before == v[1]
           item == v[2]
           list == Append(before, item)
<1>1. Node(part, v) = list
  BY DEF Node
<1>2. /\ a \in {"empty", made} /\ made \in {"exprs", "names", "columns", "assignments"}
      /\ made = "names" => b = "ident"
      /\ made = "columns" => b = "column"
      /\ made = "assignments" => b = "assignment"
  BY DEF MakeTwo
<1> HIDE DEF before, item
<1>3. Is(a, before) /\ Is(b, item)
  BY DEF before, item
<1>4. IsSeq(before)
  BY <1>2, <1>3, EmptyIsSeq DEF Is
<1>5. /\ IsSeq(list) /\ list # <<>>
      /\ \A k \in DOMAIN list : list[k] = item \/ (k \in DOMAIN before /\ list[k] = before[k])
  BY <1>4, AppendIs
<1> HIDE DEF list
<1>6. DOMAIN <<>> = {}
  OBVIOUS
<1>7. ASSUME made = "exprs" PROVE Is(made, list)
  BY <1>5, <1>7 DEF Is
<1>8. ASSUME made = "names" PROVE Is(made, list)
  <2>1. \A k \in DOMAIN before : before[k].name \in STRING
    BY <1>2, <1>3, <1>6, <1>8 DEF Is
  <2>2. item.name \in STRING
    BY <1>2, <1>3, <1>8 DEF Is
  <2>3. \A k \in DOMAIN list : list[k].name \in STRING
    BY <1>5, <2>1, <2>2
  <2> QED
    BY <1>5, <1>8, <2>3 DEF Is
<1>9. ASSUME made = "columns" PROVE Is(made, list)
  <2>1. \A k \in DOMAIN before : before[k] \in Column
    BY <1>2, <1>3, <1>6, <1>9 DEF Is
  <2>2. item \in Column
    BY <1>2, <1>3, <1>9 DEF Is
  <2>3. \A k \in DOMAIN list : list[k] \in Column
    BY <1>5, <2>1, <2>2
  <2> QED
    BY <1>5, <1>9, <2>3 DEF Is
<1>10. ASSUME made = "assignments" PROVE Is(made, list)
  <2>1. \A k \in DOMAIN before : before[k].column \in STRING
    BY <1>2, <1>3, <1>6, <1>10 DEF Is
  <2>2. item.column \in STRING
    BY <1>2, <1>3, <1>10 DEF Is
  <2>3. \A k \in DOMAIN list : list[k].column \in STRING
    BY <1>5, <2>1, <2>2
  <2> QED
    BY <1>5, <1>10, <2>3 DEF Is
<1>11. Is(made, list)
  BY <1>2, <1>7, <1>8, <1>9, <1>10
<1> QED
  BY <1>1, <1>11

(* A CREATE TABLE has columns. *)
LEMMA CreateNode ==
    ASSUME NEW part, part.node = "create", NEW v, Is("ident", v[1]), Is("columns", v[2])
    PROVE  Is("stmt", Node(part, v))
<1> DEFINE stmt == [kind |-> "create", table |-> v[1].name, columns |-> v[2]]
           columns == v[2]
<1>1. Node(part, v) = stmt
  BY DEF Node
<1>2. v[1].name \in STRING
  BY DEF Is
<1>3. IsSeq(columns) /\ columns # <<>> /\ \A k \in DOMAIN columns : columns[k] \in Column
  BY DEF Is
<1>4. stmt.kind = "create" /\ stmt.table = v[1].name /\ stmt.columns = columns
  OBVIOUS
<1> HIDE DEF columns, stmt
<1>5. columns \in Seq(Column)
  BY <1>3, ElementsIn
<1>6. StmtOK(stmt, STRING, STRING)
  BY <1>2, <1>3, <1>4, <1>5 DEF StmtOK, Column
<1> QED
  BY <1>1, <1>6 DEF Is

(* A DELETE names its table. *)
LEMMA DeleteNode ==
    ASSUME NEW part, part.node = "delete", NEW v, Is("ident", v[1])
    PROVE  Is("stmt", Node(part, v))
<1> DEFINE stmt == [kind |-> "delete", table |-> v[1].name, where |-> v[2]]
<1>1. Node(part, v) = stmt
  BY DEF Node
<1>2. v[1].name \in STRING
  BY DEF Is
<1>3. stmt.kind = "delete" /\ stmt.table = v[1].name
  OBVIOUS
<1> HIDE DEF stmt
<1>4. StmtOK(stmt, STRING, STRING)
  BY <1>2, <1>3 DEF StmtOK
<1> QED
  BY <1>1, <1>4 DEF Is

(* A SELECT names its table. *)
LEMMA SelectNode ==
    ASSUME NEW part, part.node = "select", NEW v, Is("ident", v[2])
    PROVE  Is("stmt", Node(part, v))
<1> DEFINE stmt == [kind |-> "select", table |-> v[2].name, exprs |-> v[1], where |-> v[3]]
<1>1. Node(part, v) = stmt
  BY DEF Node
<1>2. v[2].name \in STRING
  BY DEF Is
<1>3. stmt.kind = "select" /\ stmt.table = v[2].name
  OBVIOUS
<1> HIDE DEF stmt
<1>4. StmtOK(stmt, STRING, STRING)
  BY <1>2, <1>3 DEF StmtOK
<1> QED
  BY <1>1, <1>4 DEF Is

(* An INSERT names columns or none, and has values. *)
LEMMA InsertNode ==
    ASSUME NEW part, part.node = "insert", NEW v,
           Is("ident", v[1]), Is("names", v[2]), Is("exprs", v[3])
    PROVE  Is("stmt", Node(part, v))
<1> DEFINE stmt == [kind |-> "insert", table |-> v[1].name, columns |-> NamesOf(v[2]),
                    values |-> v[3]]
           idents == v[2]
           names == NamesOf(idents)
           values == v[3]
<1>1. Node(part, v) = stmt
  BY DEF Node
<1>2. v[1].name \in STRING
  BY DEF Is
<1>3. IsSeq(idents) /\ \A k \in DOMAIN idents : idents[k].name \in STRING
  BY DEF Is
<1>4. IsSeq(values) /\ values # <<>>
  BY DEF Is
<1>5. /\ stmt.kind = "insert" /\ stmt.table = v[1].name
      /\ stmt.columns = names /\ stmt.values = values
  OBVIOUS
<1> HIDE DEF idents, values, stmt
<1>6. /\ DOMAIN names = DOMAIN idents /\ names = [k \in DOMAIN idents |-> names[k]]
      /\ \A k \in DOMAIN idents : names[k] = idents[k].name
  BY DEF NamesOf
<1> HIDE DEF names
<1>7. IsSeq(names)
  BY <1>3, <1>6, FieldsOf
<1>8. names \in Seq(STRING)
  BY <1>3, <1>6, <1>7, ElementsIn
<1>9. StmtOK(stmt, STRING, STRING)
  BY <1>2, <1>4, <1>5, <1>8 DEF StmtOK
<1> QED
  BY <1>1, <1>9 DEF Is

(* An UPDATE has as many values as columns. *)
LEMMA UpdateNode ==
    ASSUME NEW part, part.node = "update", NEW v,
           Is("ident", v[1]), Is("assignments", v[2])
    PROVE  Is("stmt", Node(part, v))
<1> DEFINE stmt == [kind |-> "update", table |-> v[1].name, columns |-> Targets(v[2]),
                    values |-> Assigned(v[2]), where |-> v[3]]
           list == v[2]
           targets == Targets(list)
           values == Assigned(list)
<1>1. Node(part, v) = stmt
  BY DEF Node
<1>2. v[1].name \in STRING
  BY DEF Is
<1>3. IsSeq(list) /\ list # <<>> /\ \A k \in DOMAIN list : list[k].column \in STRING
  BY DEF Is
<1>4. /\ stmt.kind = "update" /\ stmt.table = v[1].name
      /\ stmt.columns = targets /\ stmt.values = values
  OBVIOUS
<1> HIDE DEF list, stmt
<1>5. /\ DOMAIN targets = DOMAIN list /\ targets = [k \in DOMAIN list |-> targets[k]]
      /\ \A k \in DOMAIN list : targets[k] = list[k].column
      /\ DOMAIN values = DOMAIN list /\ values = [k \in DOMAIN list |-> values[k]]
  BY DEF Targets, Assigned
<1> HIDE DEF targets, values
<1>6. IsSeq(targets) /\ targets # <<>> /\ Len(targets) = Len(list)
  BY <1>3, <1>5, FieldsOf
<1>7. Len(values) = Len(list)
  BY <1>3, <1>5, FieldsOf
<1>8. targets \in Seq(STRING)
  BY <1>3, <1>5, <1>6, ElementsIn
<1>9. StmtOK(stmt, STRING, STRING)
  BY <1>2, <1>4, <1>6, <1>7, <1>8 DEF StmtOK
<1> QED
  BY <1>1, <1>9 DEF Is

(* What is made of two nodes. *)
LEMMA TwoNodes ==
    ASSUME NEW part, NEW v, NEW a, NEW b, NEW made,
           <<part.node, a, b, made>> \in MakeTwo, Is(a, v[1]), Is(b, v[2])
    PROVE  Is(made, Node(part, v))
<1>1. \/ part.node = "list"
      \/ part.node = "assignment" /\ a = "ident" /\ made = "assignment"
      \/ made = "any"
      \/ part.node = "create" /\ a = "ident" /\ b = "columns" /\ made = "stmt"
      \/ part.node = "delete" /\ a = "ident" /\ made = "stmt"
  BY DEF MakeTwo
<1>2. CASE part.node = "list"
  BY <1>2, ListNode
<1>3. CASE part.node = "assignment" /\ a = "ident" /\ made = "assignment"
  <2>1. Node(part, v) = [column |-> v[1].name, value |-> v[2]]
    BY <1>3 DEF Node
  <2>2. v[1].name \in STRING
    BY <1>3 DEF Is
  <2>3. Node(part, v).column \in STRING
    BY <2>1, <2>2
  <2> QED
    BY <1>3, <2>3 DEF Is
<1>4. CASE made = "any"
  BY <1>4 DEF Is
<1>5. CASE part.node = "create" /\ a = "ident" /\ b = "columns" /\ made = "stmt"
  BY <1>5, CreateNode
<1>6. CASE part.node = "delete" /\ a = "ident" /\ made = "stmt"
  BY <1>6, DeleteNode
<1> QED
  BY <1>1, <1>2, <1>3, <1>4, <1>5, <1>6, Zenon

(* What is made of three. *)
LEMMA ThreeNodes ==
    ASSUME NEW part, NEW v, NEW a, NEW b, NEW c, NEW made,
           <<part.node, a, b, c, made>> \in MakeThree,
           Is(a, v[1]), Is(b, v[2]), Is(c, v[3])
    PROVE  Is(made, Node(part, v))
<1>1. \/ /\ part.node = "column" /\ a = "ident" /\ b = "type" /\ c = "bool"
         /\ made = "column"
      \/ part.node = "select" /\ b = "ident" /\ made = "stmt"
      \/ /\ part.node = "insert" /\ a = "ident" /\ b = "names" /\ c = "exprs"
         /\ made = "stmt"
      \/ part.node = "update" /\ a = "ident" /\ b = "assignments" /\ made = "stmt"
  BY DEF MakeThree
<1>2. CASE /\ part.node = "column" /\ a = "ident" /\ b = "type" /\ c = "bool"
           /\ made = "column"
  <2>1. Node(part, v) = [name |-> v[1].name, type |-> v[2], nullable |-> v[3]]
    BY <1>2 DEF Node
  <2>2. v[1].name \in STRING /\ v[2] \in Type /\ v[3] \in BOOLEAN
    BY <1>2 DEF Is
  <2>3. Node(part, v) \in Column
    BY <2>1, <2>2 DEF Column
  <2> QED
    BY <1>2, <2>3 DEF Is
<1>3. CASE part.node = "select" /\ b = "ident" /\ made = "stmt"
  BY <1>3, SelectNode
<1>4. CASE /\ part.node = "insert" /\ a = "ident" /\ b = "names" /\ c = "exprs"
           /\ made = "stmt"
  BY <1>4, InsertNode
<1>5. CASE part.node = "update" /\ a = "ident" /\ b = "assignments" /\ made = "stmt"
  BY <1>5, UpdateNode
<1> QED
  BY <1>1, <1>2, <1>3, <1>4, <1>5, Zenon

(* What a step makes takes the place of what it is made of. *)
LEMMA MakeIsTyped ==
    ASSUME NEW step, NEW S, NEW T, StepTyped(step, S, T), step.do = "make",
           NEW nodes, Typed(nodes, S), NEW kept, kept = Len(nodes) - step.size
    PROVE  Typed(Append(SubSeq(nodes, 1, kept),
                        Node(step.part, SubSeq(nodes, kept + 1, Len(nodes)))), T)
<1> DEFINE lower == SubSeq(nodes, 1, kept)
           upper == SubSeq(nodes, kept + 1, Len(nodes))
<1>1. MakeTyped(step.part.node, step.size, S, T)
  BY DEF StepTyped
<1>2. PICK base \in Seq(Tag), a \in Tag, b \in Tag, c \in Tag, made \in Tag :
        /\ T = Append(base, made)
        /\ \/ /\ step.size = 1 /\ <<step.part.node, a, made>> \in MakeOne
              /\ S = Append(base, a)
           \/ /\ step.size = 2 /\ <<step.part.node, a, b, made>> \in MakeTwo
              /\ S = Append(Append(base, a), b)
           \/ /\ step.size = 3 /\ <<step.part.node, a, b, c, made>> \in MakeThree
              /\ S = Append(Append(Append(base, a), b), c)
  BY <1>1 DEF MakeTyped
<1>3. ASSUME NEW size \in Nat, step.size = size, Len(S) = Len(base) + size,
             \A i \in 1 .. Len(base) : S[i] = base[i]
      PROVE  /\ Typed(lower, base)
             /\ \A i \in 1 .. size : Is(S[Len(base) + i], upper[i])
  BY <1>3, TypedPop
<1>4. \A v : Is("any", v)
  BY DEF Is
<1>5. CASE step.size = 1 /\ <<step.part.node, a, made>> \in MakeOne /\ S = Append(base, a)
  <2>1. Len(S) = Len(base) + 1 /\ \A i \in 1 .. Len(base) : S[i] = base[i]
    BY <1>5
  <2> HIDE DEF lower, upper
  <2>2. Typed(lower, base)
    BY <1>3, <1>5, <2>1
  <2>3. made = "any"
    BY <1>5 DEF MakeOne
  <2> QED
    BY <1>2, <1>4, <2>2, <2>3, TypedPush DEF lower, upper
<1>6. CASE /\ step.size = 2 /\ <<step.part.node, a, b, made>> \in MakeTwo
           /\ S = Append(Append(base, a), b)
  <2>1. /\ Len(S) = Len(base) + 2 /\ \A i \in 1 .. Len(base) : S[i] = base[i]
        /\ S[Len(base) + 1] = a /\ S[Len(base) + 2] = b
    BY <1>6
  <2> HIDE DEF lower, upper
  <2>2. Typed(lower, base) /\ Is(S[Len(base) + 1], upper[1]) /\ Is(S[Len(base) + 2], upper[2])
    BY <1>3, <1>6, <2>1
  <2>3. Is(made, Node(step.part, upper))
    BY <1>6, <2>1, <2>2, TwoNodes
  <2> QED
    BY <1>2, <2>2, <2>3, TypedPush DEF lower, upper
<1>7. CASE /\ step.size = 3 /\ <<step.part.node, a, b, c, made>> \in MakeThree
           /\ S = Append(Append(Append(base, a), b), c)
  <2>1. /\ Len(S) = Len(base) + 3 /\ \A i \in 1 .. Len(base) : S[i] = base[i]
        /\ S[Len(base) + 1] = a /\ S[Len(base) + 2] = b /\ S[Len(base) + 3] = c
    BY <1>7
  <2> HIDE DEF lower, upper
  <2>2. /\ Typed(lower, base) /\ Is(S[Len(base) + 1], upper[1])
        /\ Is(S[Len(base) + 2], upper[2]) /\ Is(S[Len(base) + 3], upper[3])
    BY <1>3, <1>7, <2>1
  <2>3. Is(made, Node(step.part, upper))
    BY <1>7, <2>1, <2>2, ThreeNodes
  <2> QED
    BY <1>2, <2>2, <2>3, TypedPush DEF lower, upper
<1> QED
  BY <1>2, <1>5, <1>6, <1>7, Zenon

(* What a token that is matched leaves is of the type that its step says. *)
LEMMA MatchIsTyped ==
    ASSUME NEW step, NEW S, NEW T, StepTyped(step, S, T), step.do = "match",
           NEW nodes, Typed(nodes, S), NEW token, token.kind = step.kind,
           token.kind # "none", token.kind = "Ident" => token.lit \in STRING
    PROVE  Typed(nodes \o Leaf(token), T) /\ token.kind \notin Endings
<1>1. MatchTyped(step.kind, S, T)
  BY DEF StepTyped
<1>2. CASE step.kind = "Ident" /\ T = Append(S, "ident")
  <2>1. Leaf(token) = <<Ident(token.lit)>>
    BY <1>2 DEF Leaf
  <2>2. Is("ident", Ident(token.lit))
    BY <1>2 DEF Is, Ident
  <2>3. Typed(nodes \o <<Ident(token.lit)>>, T)
    BY <1>2, <2>2, TagsAre, TypedPush
  <2> QED
    BY <1>2, <2>1, <2>3 DEF Endings
<1>3. CASE step.kind \in Literals /\ T = Append(S, "any")
  <2>1. \E v : Leaf(token) = <<v>>
    BY <1>3 DEF Leaf, Literals
  <2>2. PICK v : Leaf(token) = <<v>>
    BY <2>1
  <2>3. Is("any", v)
    BY DEF Is
  <2>4. Typed(nodes \o <<v>>, T)
    BY <1>3, <2>3, TagsAre, TypedPush
  <2> QED
    BY <1>3, <2>2, <2>4 DEF Endings, Literals
<1>4. CASE step.kind \notin Endings \cup Literals \cup {"Ident", Semicolon} /\ T = S
  <2>1. Leaf(token) = <<>>
    BY <1>4 DEF Leaf, Literals
  <2>2. nodes \in Seq(Range(nodes))
    BY SeqOverRange DEF Typed
  <2>3. nodes \o <<>> = nodes
    BY <2>2, ConcatEmptySeq
  <2> QED
    BY <1>4, <2>1, <2>3
<1>5. CASE step.kind = Semicolon
           /\ \E base \in Seq(Tag) : S = Append(base, "stmt") /\ T = Append(base, "whole")
  <2>1. PICK base \in Seq(Tag) : S = Append(base, "stmt") /\ T = Append(base, "whole")
    BY <1>5
  <2>2. Leaf(token) = <<>>
    BY <1>5, SemicolonIsNoEnding DEF Leaf, Literals
  <2>3. nodes \in Seq(Range(nodes))
    BY SeqOverRange DEF Typed
  <2>4. nodes \o <<>> = nodes
    BY <2>3, ConcatEmptySeq
  <2>5. Typed(nodes, T)
    BY <2>1, TagsAre, TypedAs DEF Is
  <2> QED
    BY <1>5, <2>2, <2>4, <2>5, SemicolonIsNoEnding
<1> QED
  BY <1>1, <1>2, <1>3, <1>4, <1>5, Zenon DEF MatchTyped

-----------------------------------------------------------------------------
(* What steps do to the number of whole statements. *)
LEMMA StepWholes ==
    ASSUME NEW step, NEW S, NEW T, StepTyped(step, S, T),
           step.do \in {"match", "make", "push"}
    PROVE  /\ step.do = "match" /\ step.kind = Semicolon => Wholes(T) = Wholes(S) + 1
           /\ step.do # "match" \/ step.kind \notin {Semicolon, "none"} => Wholes(T) = Wholes(S)
<1>1. S \in Seq(Tag) /\ T \in Seq(Tag)
  BY DEF StepTyped
<1>2. ASSUME NEW base \in Seq(Tag), NEW tag \in Tag \ {"whole"}
      PROVE  /\ Append(base, tag) \in Seq(Tag)
             /\ Wholes(Append(base, tag)) = Wholes(base)
  BY WholesAppend
<1>3. CASE step.do = "match"
  <2>1. MatchTyped(step.kind, S, T)
    BY <1>3 DEF StepTyped
  <2>2. CASE step.kind = Semicolon
           /\ \E base \in Seq(Tag) : S = Append(base, "stmt") /\ T = Append(base, "whole")
    <3>1. PICK base \in Seq(Tag) : S = Append(base, "stmt") /\ T = Append(base, "whole")
      BY <2>2
    <3>2. Wholes(S) = Wholes(base) /\ Wholes(T) = Wholes(base) + 1
      BY <3>1, TagsAre, WholesAppend
    <3> QED
      BY <1>3, <2>2, <3>2
  <2>3. CASE step.kind = "none"
    BY <1>3, <2>3, SemicolonIsNoEnding
  <2>4. CASE step.kind = "Ident" /\ T = Append(S, "ident")
    <3>1. Wholes(T) = Wholes(S)
      BY <1>1, <1>2, <2>4, TagsAre
    <3> QED
      BY <1>3, <2>4, <3>1, SemicolonIsNoEnding
  <2>5. CASE step.kind \in Literals /\ T = Append(S, "any")
    <3>1. Wholes(T) = Wholes(S)
      BY <1>1, <1>2, <2>5, TagsAre
    <3> QED
      BY <1>3, <2>5, <3>1, SemicolonIsNoEnding
  <2>6. CASE step.kind \notin Endings \cup Literals \cup {"Ident", Semicolon} /\ T = S
    BY <1>3, <2>6
  <2> QED
    BY <2>1, <2>2, <2>3, <2>4, <2>5, <2>6 DEF MatchTyped
<1>4. CASE step.do = "push"
  <2>1. PICK tag \in Tag \ {"whole"} : T = Append(S, tag)
    BY <1>4 DEF StepTyped
  <2>2. Wholes(T) = Wholes(S)
    BY <1>1, <1>2, <2>1
  <2> QED
    BY <1>4, <2>2
<1>5. CASE step.do = "make"
  <2>1. MakeTyped(step.part.node, step.size, S, T)
    BY <1>5 DEF StepTyped
  <2>2. PICK base \in Seq(Tag) : \E a, b, c, made \in Tag :
          /\ T = Append(base, made)
          /\ \/ /\ step.size = 1 /\ <<step.part.node, a, made>> \in MakeOne
                /\ S = Append(base, a)
             \/ /\ step.size = 2 /\ <<step.part.node, a, b, made>> \in MakeTwo
                /\ S = Append(Append(base, a), b)
             \/ /\ step.size = 3 /\ <<step.part.node, a, b, c, made>> \in MakeThree
                /\ S = Append(Append(Append(base, a), b), c)
    BY <2>1, Zenon DEF MakeTyped
  <2>3. PICK a \in Tag, b \in Tag, c \in Tag, made \in Tag :
          /\ T = Append(base, made)
          /\ \/ <<step.part.node, a, made>> \in MakeOne /\ S = Append(base, a)
             \/ /\ <<step.part.node, a, b, made>> \in MakeTwo
                /\ S = Append(Append(base, a), b)
             \/ /\ <<step.part.node, a, b, c, made>> \in MakeThree
                /\ S = Append(Append(Append(base, a), b), c)
    BY <2>2
  <2>4. CASE <<step.part.node, a, made>> \in MakeOne /\ S = Append(base, a)
    <3>1. a # "whole" /\ made # "whole"
      BY <2>4 DEF MakeOne
    <3> QED
      BY <1>2, <1>5, <2>3, <2>4, <3>1
  <2>5. CASE /\ <<step.part.node, a, b, made>> \in MakeTwo
             /\ S = Append(Append(base, a), b)
    <3>1. a # "whole" /\ b # "whole" /\ made # "whole"
      BY <2>5 DEF MakeTwo
    <3> QED
      BY <1>2, <1>5, <2>3, <2>5, <3>1
  <2>6. CASE /\ <<step.part.node, a, b, c, made>> \in MakeThree
             /\ S = Append(Append(Append(base, a), b), c)
    <3> DEFINE S1 == Append(base, a)
               S2 == Append(S1, b)
    <3>1. a # "whole" /\ b # "whole" /\ c # "whole" /\ made # "whole"
      BY <2>6 DEF MakeThree
    <3>2. S1 \in Seq(Tag) /\ Wholes(S1) = Wholes(base)
      BY <1>2, <3>1
    <3> HIDE DEF S1
    <3>3. S2 \in Seq(Tag) /\ Wholes(S2) = Wholes(S1)
      BY <1>2, <3>1, <3>2
    <3> HIDE DEF S2
    <3>4. Wholes(Append(S2, c)) = Wholes(S2)
      BY <1>2, <3>1, <3>3
    <3>5. S = Append(S2, c)
      BY <2>6 DEF S1, S2
    <3>6. Wholes(T) = Wholes(base)
      BY <1>2, <2>3, <3>1
    <3> QED
      BY <1>5, <3>2, <3>3, <3>4, <3>5, <3>6
  <2> QED
    BY <2>3, <2>4, <2>5, <2>6
<1> QED
  BY <1>3, <1>4, <1>5

-----------------------------------------------------------------------------
(* The invariant: until Parse returns, the nodes that are built have types *)
(* from which what is to do leads to whole statements and nothing else,    *)
(* and as many statements are whole as there are semicolons behind.        *)

Statement == {"whole"}

SemicolonsTo(n) == {i \in 1 .. n : input[i].kind = Semicolon}

Leading(steps, nodes, n) ==
    \E S : \E T \in Seq(Statement) :
        Typed(nodes, S) /\ Leads(steps, S, T) /\ Wholes(S) = Cardinality(SemicolonsTo(n))

ParserOK ==
    /\ input \in Input
    /\ pos \in 0 .. Len(input)
    /\ pos = 0 => outcome = Pending
    /\ outcome = Pending => Leading(todo, built, pos - 1)
    /\ IsSeq(outcome.nodes)
    /\ StmtsAreOK
    /\ AllIsRead

(* Only statements are returned. *)
LEMMA StatementsAreOK ==
    ASSUME NEW nodes, NEW T \in Seq(Statement), Typed(nodes, T)
    PROVE  \A n \in DOMAIN nodes : StmtOK(nodes[n], STRING, STRING)
<1>1. IsSeq(nodes) /\ Len(nodes) = Len(T) /\ \A n \in 1 .. Len(T) : Is(T[n], nodes[n])
  BY DEF Typed
<1>2. DOMAIN nodes = 1 .. Len(T)
  BY <1>1, SeqDomain
<1>3. \A n \in 1 .. Len(T) : T[n] = "whole"
  BY DEF Statement
<1>4. \A n \in 1 .. Len(T) : Is("whole", nodes[n])
  BY <1>1, <1>3
<1> QED
  BY <1>2, <1>4 DEF Is

(* What has failed, or has returned nothing, has returned no bad statement. *)
LEMMA NothingIsReturned ==
    /\ Pending.nodes = <<>> /\ Pending.status = "pending"
    /\ \A status : Failed(status).nodes = <<>> /\ Failed(status).status = status
    /\ \A nodes : Returned(nodes).nodes = nodes /\ Returned(nodes).status = "ok"
    /\ DOMAIN <<>> = {} /\ IsSeq(<<>>)
BY EmptyIsSeq DEF Pending, Failed, Returned

(* A token more is a semicolon more, or it is none. *)
LEMMA SemicolonsAfter ==
    ASSUME NEW n \in Nat
    PROVE  /\ Cardinality(SemicolonsTo(n)) \in Nat
           /\ SemicolonsTo(0) = {}
           /\ input[n + 1].kind = Semicolon =>
                Cardinality(SemicolonsTo(n + 1)) = Cardinality(SemicolonsTo(n)) + 1
           /\ input[n + 1].kind # Semicolon => SemicolonsTo(n + 1) = SemicolonsTo(n)
<1>1. IsFiniteSet(SemicolonsTo(n))
  <2>1. IsFiniteSet(1 .. n)
    BY FS_Interval
  <2> QED
    BY <2>1, FS_Subset DEF SemicolonsTo
<1>2. Cardinality(SemicolonsTo(n)) \in Nat
  BY <1>1, FS_CardinalityType
<1>3. n + 1 \notin SemicolonsTo(n)
  BY DEF SemicolonsTo
<1>4. ASSUME input[n + 1].kind = Semicolon
      PROVE  SemicolonsTo(n + 1) = SemicolonsTo(n) \cup {n + 1}
  BY <1>4 DEF SemicolonsTo
<1>5. ASSUME input[n + 1].kind # Semicolon PROVE SemicolonsTo(n + 1) = SemicolonsTo(n)
  BY <1>5 DEF SemicolonsTo
<1>6. Cardinality(SemicolonsTo(n) \cup {n + 1}) = Cardinality(SemicolonsTo(n)) + 1
  BY <1>1, <1>3, FS_AddElement
<1>7. SemicolonsTo(0) = {}
  BY DEF SemicolonsTo
<1> QED
  BY <1>2, <1>4, <1>5, <1>6, <1>7

(* Nothing is built and nothing is to do when Parse begins. *)
LEMMA ParserInit == Init => ParserOK
<1> SUFFICES ASSUME Init PROVE ParserOK
  OBVIOUS
<1>1. /\ input \in Input /\ pos = 0 /\ todo = <<>> /\ built = <<>>
      /\ outcome = Pending
  BY DEF Init
<1>2. pos \in 0 .. Len(input)
  BY <1>1, TokensAreLexed, SeqDomain DEF InputAssumption
<1>3. <<>> \in Seq(Tag) /\ <<>> \in Seq(Statement) /\ Len(<<>>) = 0
  OBVIOUS
<1>4. Typed(<<>>, <<>>)
  BY <1>3, EmptyIsSeq DEF Typed
<1>5. Leads(<<>>, <<>>, <<>>)
  BY <1>3, LeadsNowhere
<1>6. Wholes(<<>>) = 0
  BY <1>3, AllAreWhole DEF Statement
<1>7. Cardinality(SemicolonsTo(pos - 1)) = 0
  <2>1. SemicolonsTo(pos - 1) = {}
    BY <1>1 DEF SemicolonsTo
  <2> QED
    BY <2>1, FS_EmptySet
<1>8. Leading(todo, built, pos - 1)
  BY <1>1, <1>3, <1>4, <1>5, <1>6, <1>7 DEF Leading
<1>9. StmtsAreOK /\ AllIsRead /\ IsSeq(outcome.nodes)
  BY <1>1, NothingIsReturned DEF StmtsAreOK, AllIsRead
<1> QED
  BY <1>1, <1>2, <1>8, <1>9 DEF ParserOK

(* There is always a token before the end to go on to. *)
LEMMA TokensEnd ==
    ASSUME input \in Input
    PROVE  /\ Len(input) \in Nat \ {0} /\ DOMAIN input = 1 .. Len(input)
           /\ \A i \in 1 .. Len(input) :
                /\ input[i].kind \in Endings <=> i = Len(input)
                /\ input[i].kind # "none"
                /\ input[i].kind = "Ident" => input[i].lit \in STRING
<1>1. /\ IsSeq(input) /\ input # <<>>
      /\ \A i \in DOMAIN input :
           /\ input[i].kind \in Endings <=> i = Len(input)
           /\ input[i].kind # "none"
           /\ input[i].kind = "Ident" => input[i].lit \in STRING
  BY TokensAreLexed DEF InputAssumption
<1>2. input \in Seq(Range(input)) /\ DOMAIN input = 1 .. Len(input)
  BY <1>1, SeqOverRange, SeqDomain
<1>3. Len(input) \in Nat \ {0}
  BY <1>1, <1>2, EmptySeq
<1> QED
  BY <1>1, <1>2, <1>3

(* At an ending all tokens have been read. *)
LEMMA EndingIsLast ==
    ASSUME input \in Input, pos \in 1 .. Len(input), Kind \in Endings
    PROVE  /\ pos = Len(input)
           /\ {i \in DOMAIN input : input[i].kind = ";"} = SemicolonsTo(pos - 1)
<1>1. /\ Len(input) \in Nat \ {0} /\ DOMAIN input = 1 .. Len(input)
      /\ \A i \in 1 .. Len(input) : input[i].kind \in Endings <=> i = Len(input)
  BY TokensEnd
<1>2. pos = Len(input)
  BY <1>1 DEF Kind
<1>3. input[Len(input)].kind # Semicolon
  BY <1>2, SemicolonIsNoEnding DEF Kind
<1>4. {i \in 1 .. Len(input) : input[i].kind = Semicolon} = SemicolonsTo(Len(input) - 1)
  <2> DEFINE n == Len(input)
  <2>1. n \in Nat \ {0} /\ input[n].kind # Semicolon
    BY <1>1, <1>3
  <2> HIDE DEF n
  <2>2. {i \in 1 .. n : input[i].kind = Semicolon} = SemicolonsTo(n - 1)
    BY <2>1 DEF SemicolonsTo
  <2> QED
    BY <2>2 DEF n
<1>5. {i \in DOMAIN input : input[i].kind = ";"}
        = {i \in 1 .. Len(input) : input[i].kind = Semicolon}
  BY <1>1, Zenon DEF Semicolon
<1> QED
  BY <1>2, <1>4, <1>5

(* Every step of the parser keeps the invariant. *)
LEMMA ParserStep == ParserOK /\ [Next]_vars => ParserOK'
<1> SUFFICES ASSUME ParserOK, [Next]_vars PROVE ParserOK'
  OBVIOUS
<1>1. /\ input \in Input /\ pos \in 0 .. Len(input)
      /\ pos = 0 => outcome = Pending
      /\ outcome = Pending => Leading(todo, built, pos - 1)
      /\ \A n \in DOMAIN outcome.nodes : StmtOK(outcome.nodes[n], STRING, STRING)
      /\ IsSeq(outcome.nodes) /\ AllIsRead
  BY DEF ParserOK, StmtsAreOK
<1>2. /\ Len(input) \in Nat \ {0}
      /\ \A i \in 1 .. Len(input) :
           /\ input[i].kind \in Endings <=> i = Len(input)
           /\ input[i].kind # "none"
           /\ input[i].kind = "Ident" => input[i].lit \in STRING
  BY <1>1, TokensEnd
<1>3. Len(input) \in Nat /\ pos \in Nat /\ pos <= Len(input)
  BY <1>1, <1>2
<1> DEFINE AnswersOK == StmtsAreOK /\ AllIsRead /\ IsSeq(outcome.nodes)
<1>0. ASSUME outcome'.nodes = <<>>, outcome'.status # "ok" PROVE AnswersOK'
  BY <1>0, NothingIsReturned DEF StmtsAreOK, AllIsRead
<1>00. ASSUME outcome' = outcome, outcome = Pending PROVE AnswersOK'
  BY <1>0, <1>00, NothingIsReturned
<1> HIDE DEF AnswersOK
<1>4. CASE ParseInput
  <2>1. /\ pos = 0 /\ pos' = 1 /\ input' = input /\ todo' = todo /\ built' = built
        /\ \/ input[1].kind \in {"end", "error"} /\ outcome' = Returned(<<>>)
           \/ outcome' \in {Failed("panic"), Pending}
    BY <1>4 DEF ParseInput
  <2>2. CASE input[1].kind \in {"end", "error"} /\ outcome' = Returned(<<>>)
    <3>1. outcome'.nodes = <<>> /\ outcome' # Pending
      BY <2>2, NothingIsReturned
    <3>2. 1 \in 1 .. Len(input) /\ input[1].kind \in Endings
      BY <1>2, <2>2 DEF Endings
    <3>3. 1 = Len(input)
      BY <1>2, <3>2
    <3>4. {i \in DOMAIN input : input[i].kind = ";"} = {}
      <4>1. DOMAIN input = 1 .. 1
        BY <1>1, <3>3, TokensEnd
      <4>2. \A i \in 1 .. 1 : input[i].kind # Semicolon
        BY <3>2, SemicolonIsNoEnding
      <4>3. {i \in 1 .. 1 : input[i].kind = Semicolon} = {}
        BY <4>2
      <4> QED
        BY <4>1, <4>3, Zenon DEF Semicolon
    <3>5. Cardinality({i \in DOMAIN input : input[i].kind = ";"}) = 0
      BY <3>4, FS_EmptySet
    <3>6. AllIsRead'
      BY <2>1, <3>1, <3>3, <3>5 DEF AllIsRead
    <3>7. StmtsAreOK' /\ IsSeq(outcome'.nodes)
      BY <3>1, NothingIsReturned DEF StmtsAreOK
    <3>8. pos' \in 0 .. Len(input') /\ pos' # 0
      BY <1>2, <2>1
    <3> QED
      BY <1>1, <2>1, <3>1, <3>6, <3>7, <3>8 DEF ParserOK
  <2>3. CASE outcome' \in {Failed("panic"), Pending}
    <3>1. AnswersOK'
      BY <1>0, <2>3, NothingIsReturned
    <3>2. pos' \in 0 .. Len(input') /\ pos' # 0
      BY <1>2, <2>1
    <3>3. SemicolonsTo(pos - 1) = SemicolonsTo(pos' - 1)
      BY <2>1 DEF SemicolonsTo
    <3>4. SemicolonsTo(pos - 1)' = SemicolonsTo(pos' - 1)
      BY <2>1 DEF SemicolonsTo
    <3>5. Leading(todo, built, pos - 1)'
      <4>1. Leading(todo, built, pos - 1)
        BY <1>1, <2>1
      <4> QED
        BY <2>1, <3>3, <3>4, <4>1 DEF Leading
    <3> QED
      BY <1>1, <2>1, <3>1, <3>2, <3>5 DEF ParserOK, AnswersOK
  <2> QED
    BY <2>1, <2>2, <2>3
<1>5. CASE parseStmtList
  <2>1. /\ outcome = Pending /\ pos > 0 /\ todo = <<>>
        /\ input' = input /\ pos' = pos /\ built' = built
    BY <1>5 DEF parseStmtList, Parsing
  <2>2. PICK S, T : /\ T \in Seq(Statement) /\ Typed(built, S) /\ Leads(todo, S, T)
                    /\ Wholes(S) = Cardinality(SemicolonsTo(pos - 1))
    BY <1>1, <2>1 DEF Leading
  <2>3. S \in Seq(Tag)
    BY <2>2 DEF Typed
  <2>4. T = S
    BY <2>1, <2>2, <2>3, LeadsNowhere
  <2>5. CASE Kind = "end"
    <3>1. outcome' = Returned(built) /\ outcome'.nodes = built /\ outcome' # Pending
      BY <1>5, <2>5, NothingIsReturned DEF parseStmtList
    <3>2. \A n \in DOMAIN built : StmtOK(built[n], STRING, STRING)
      BY <2>2, <2>4, StatementsAreOK
    <3>3. StmtsAreOK'
      BY <3>1, <3>2 DEF StmtsAreOK
    <3>4. Len(built) = Cardinality(SemicolonsTo(pos - 1)) /\ IsSeq(built)
      BY <2>2, <2>4, AllAreWhole DEF Typed, Statement
    <3>5. pos \in 1 .. Len(input) /\ Kind \in Endings
      BY <1>3, <2>1, <2>5 DEF Endings
    <3>6. /\ pos = Len(input)
          /\ {i \in DOMAIN input : input[i].kind = ";"} = SemicolonsTo(pos - 1)
      BY <1>1, <3>5, EndingIsLast
    <3>7. AllIsRead'
      BY <2>1, <3>1, <3>4, <3>6 DEF AllIsRead
    <3> QED
      BY <1>1, <2>1, <3>1, <3>3, <3>4, <3>7 DEF ParserOK
  <2>6. CASE Kind # "end"
    <3> DEFINE U == Append(T, "stmt")
               V == Append(T, "whole")
    <3>1. todo' = <<Call("stmt"), Match(";")>> /\ outcome' = outcome
      BY <1>5, <2>6 DEF parseStmtList
    <3>2. V \in Seq(Statement) /\ U \in Seq(Tag)
      <4>1. T \in Seq(Statement) /\ "whole" \in Statement
        BY <2>2 DEF Statement
      <4>2. T \in Seq(Tag) /\ "stmt" \in Tag
        BY <2>3, <2>4, TagsAre
      <4> QED
        BY <4>1, <4>2
    <3>3. StepTyped(Call("stmt"), S, U)
      BY <2>3, <2>4, TagsAre, CallLeads DEF CallTag
    <3>4. StepTyped(Match(";"), U, V)
      BY <2>3, <2>4, MatchSemicolon
    <3> HIDE DEF U, V
    <3>5. Leads(todo', S, V)
      BY <3>1, <3>3, <3>4, LeadsTwo
    <3>6. Leading(todo, built, pos - 1)'
      BY <2>1, <2>2, <3>2, <3>5 DEF Leading, SemicolonsTo
    <3>7. AnswersOK'
      BY <1>00, <2>1, <3>1
    <3> QED
      BY <1>1, <2>1, <3>1, <3>6, <3>7 DEF ParserOK, AnswersOK
  <2> QED
    BY <2>5, <2>6
<1>6. ASSUME outcome = Pending, pos > 0, todo # <<>>
      PROVE  \E S, R : \E T \in Seq(Statement) :
               /\ Typed(built, S) /\ StepTyped(Head(todo), S, R) /\ Leads(Tail(todo), R, T)
               /\ Wholes(S) = Cardinality(SemicolonsTo(pos - 1))
  <2>1. PICK S, T : /\ T \in Seq(Statement) /\ Typed(built, S) /\ Leads(todo, S, T)
                    /\ Wholes(S) = Cardinality(SemicolonsTo(pos - 1))
    BY <1>1, <1>6 DEF Leading
  <2>2. \E R : StepTyped(Head(todo), S, R) /\ Leads(Tail(todo), R, T)
    BY <1>6, <2>1, LeadsByHead
  <2> QED
    BY <2>1, <2>2
<1>7. CASE CallMethod
  <2> DEFINE step == Head(todo)
  <2>1. /\ outcome = Pending /\ pos > 0 /\ todo # <<>>
        /\ step.do \in {"call", "binary", "operators", "more"}
        /\ todo' = Steps(step) \o Tail(todo)
        /\ input' = input /\ pos' = pos /\ built' = built /\ outcome' = outcome
    BY <1>7 DEF CallMethod, Doing, Parsing
  <2>2. PICK S, R, T : /\ T \in Seq(Statement) /\ Typed(built, S)
                       /\ StepTyped(step, S, R) /\ Leads(Tail(todo), R, T)
                       /\ Wholes(S) = Cardinality(SemicolonsTo(pos - 1))
    BY <1>6, <2>1
  <2> HIDE DEF step
  <2>3. PICK Q : Typed(built, Q) /\ Leads(Steps(step), Q, R) /\ Wholes(Q) = Wholes(S)
    BY <2>1, <2>2, StepsLead
  <2>4. Leads(todo', Q, T)
    BY <2>1, <2>2, <2>3, LeadsOn
  <2>5. Leading(todo, built, pos - 1)'
    BY <2>1, <2>2, <2>3, <2>4 DEF Leading, SemicolonsTo
  <2>6. AnswersOK'
    BY <1>00, <2>1
  <2> QED
    BY <1>1, <2>1, <2>5, <2>6 DEF ParserOK, AnswersOK
<1>8. CASE MakeNode
  <2> DEFINE step == Head(todo)
  <2>1. /\ outcome = Pending /\ pos > 0 /\ todo # <<>> /\ step.do \in {"make", "push"}
        /\ todo' = Tail(todo)
        /\ input' = input /\ pos' = pos /\ outcome' = outcome
    BY <1>8 DEF MakeNode, Doing, Parsing
  <2>2. PICK S, R, T : /\ T \in Seq(Statement) /\ Typed(built, S)
                       /\ StepTyped(step, S, R) /\ Leads(Tail(todo), R, T)
                       /\ Wholes(S) = Cardinality(SemicolonsTo(pos - 1))
    BY <1>6, <2>1
  <2>3. ASSUME step.do = "push" PROVE Typed(built', R)
    <3>1. built' = Append(SubSeq(built, 1, Len(built) - 0), step.value)
      BY <1>8, <2>3 DEF MakeNode
    <3> HIDE DEF step
    <3>2. built \in Seq(Range(built)) /\ Len(built) \in Nat
      BY <2>2, SeqOverRange, SeqDomain DEF Typed
    <3>3. SubSeq(built, 1, Len(built) - 0) = built
      BY <3>2
    <3>4. built' = Append(built, step.value)
      BY <3>1, <3>3
    <3>5. PICK tag \in Tag : Is(tag, step.value) /\ R = Append(S, tag)
      BY <2>2, <2>3 DEF StepTyped
    <3> QED
      BY <2>2, <3>4, <3>5, TypedPush
  <2>4. ASSUME step.do = "make" PROVE Typed(built', R)
    <3> DEFINE kept == Len(built) - step.size
               node == Node(step.part, SubSeq(built, kept + 1, Len(built)))
    <3>1. built' = Append(SubSeq(built, 1, kept), node)
      BY <1>8, <2>4 DEF MakeNode
    <3> HIDE DEF step
    <3>2. Typed(Append(SubSeq(built, 1, kept), node), R)
      BY <2>2, <2>4, MakeIsTyped
    <3> HIDE DEF kept, node
    <3> QED
      BY <3>1, <3>2
  <2>5. Typed(built', R)
    BY <2>1, <2>3, <2>4
  <2>6. Wholes(R) = Wholes(S)
    <3> HIDE DEF step
    <3> QED
      BY <2>1, <2>2, StepWholes
  <2>7. Leading(todo, built, pos - 1)'
    BY <2>1, <2>2, <2>5, <2>6 DEF Leading, SemicolonsTo
  <2>8. AnswersOK'
    BY <1>00, <2>1
  <2> QED
    BY <1>1, <2>1, <2>7, <2>8 DEF ParserOK, AnswersOK
<1>9. CASE MatchToken
  <2> DEFINE step == Head(todo)
             token == input[pos]
  <2>1. /\ outcome = Pending /\ pos > 0 /\ todo # <<>> /\ step.do = "match"
        /\ token.kind = step.kind /\ pos' = pos + 1
        /\ built' = built \o Leaf(token) /\ todo' = Tail(todo)
        /\ outcome' \in {Failed("lexer error"), Failed("panic"), outcome}
        /\ input' = input
    BY <1>9 DEF MatchToken, Doing, Parsing, Kind
  <2>2. PICK S, R, T : /\ T \in Seq(Statement) /\ Typed(built, S)
                       /\ StepTyped(step, S, R) /\ Leads(Tail(todo), R, T)
                       /\ Wholes(S) = Cardinality(SemicolonsTo(pos - 1))
    BY <1>6, <2>1
  <2>3. token.kind # "none" /\ (token.kind = "Ident" => token.lit \in STRING)
    <3>1. pos > 0
      BY <2>1
    <3>2. pos \in 1 .. Len(input)
      BY <1>3, <3>1
    <3> HIDE DEF step
    <3> QED
      BY <1>2, <3>2
  <2> HIDE DEF step
  <2>4. Typed(built \o Leaf(token), R) /\ token.kind \notin Endings
    <3> HIDE DEF token
    <3> QED
      BY <2>1, <2>2, <2>3, MatchIsTyped
  <2>5. pos' \in 0 .. Len(input') /\ pos' # 0
    <3>1. pos # Len(input)
      BY <1>2, <2>4
    <3>2. pos + 1 \in 0 .. Len(input) /\ pos + 1 # 0
      BY <1>3, <3>1
    <3>3. pos' = pos + 1 /\ input' = input
      BY <2>1
    <3> QED
      BY <3>2, <3>3
  <2>6. Wholes(R) = Cardinality(SemicolonsTo(pos))
    <3>1. pos - 1 \in Nat /\ pos - 1 + 1 = pos
      <4>1. pos > 0
        BY <2>1
      <4> QED
        BY <1>3, <4>1
    <3>2. /\ token.kind = Semicolon => Cardinality(SemicolonsTo(pos))
                                  = Cardinality(SemicolonsTo(pos - 1)) + 1
          /\ token.kind # Semicolon => SemicolonsTo(pos) = SemicolonsTo(pos - 1)
      BY <3>1, SemicolonsAfter
    <3>3. /\ step.kind = Semicolon => Wholes(R) = Wholes(S) + 1
          /\ step.kind # Semicolon => Wholes(R) = Wholes(S)
      <4>1. step.kind # "none"
        BY <2>1, <2>3
      <4> HIDE DEF token
      <4> QED
        BY <2>1, <2>2, <4>1, StepWholes
    <3> HIDE DEF token
    <3> QED
      BY <2>1, <2>2, <3>2, <3>3
  <2>7. Leading(todo, built, pos - 1)'
    <3>1. SemicolonsTo(pos - 1)' = SemicolonsTo(pos)
      <4>1. pos' = pos + 1 /\ input' = input
        BY <2>1
      <4>2. pos' - 1 = pos
        BY <1>3, <4>1
      <4> QED
        BY <4>1, <4>2 DEF SemicolonsTo
    <3> QED
      BY <2>1, <2>2, <2>4, <2>6, <3>1 DEF Leading
  <2>8. AnswersOK'
    BY <1>0, <1>00, <2>1, NothingIsReturned
  <2> QED
    BY <1>1, <2>1, <2>5, <2>7, <2>8 DEF ParserOK, AnswersOK
<1>10. CASE NoMatch
  <2>1. /\ outcome' = Failed("parser error") /\ pos > 0
        /\ input' = input /\ pos' = pos /\ todo' = todo /\ built' = built
    BY <1>10 DEF NoMatch, Doing, Parsing
  <2>2. outcome'.nodes = <<>> /\ outcome'.status # "ok" /\ outcome' # Pending
    BY <2>1, NothingIsReturned
  <2>3. AnswersOK'
    BY <1>0, <2>2
  <2>4. pos' # 0
    <3>1. pos' = pos /\ pos > 0
      BY <2>1
    <3> QED
      BY <1>3, <3>1
  <2> QED
    BY <1>1, <2>1, <2>2, <2>3, <2>4 DEF ParserOK, AnswersOK
<1>11. CASE UNCHANGED vars
  <2>1. /\ input' = input /\ pos' = pos /\ todo' = todo /\ built' = built
        /\ outcome' = outcome
    BY <1>11 DEF vars
  <2>2. outcome = Pending => Leading(todo, built, pos - 1)'
    BY <1>1, <2>1 DEF Leading, SemicolonsTo
  <2>3. AllIsRead'
    BY <1>1, <2>1 DEF AllIsRead
  <2> QED
    BY <1>1, <2>1, <2>2, <2>3 DEF ParserOK, StmtsAreOK
<1> QED
  BY <1>4, <1>5, <1>7, <1>8, <1>9, <1>10, <1>11 DEF Next

(* Every statement that Parse returns is what the evaluator takes for      *)
(* granted: an UPDATE has as many values as columns, a CREATE TABLE has    *)
(* columns, an INSERT has values, and names are names.                     *)
THEOREM StatementsAreWhole == Spec => []StmtsAreOK
<1>1. ParserOK => StmtsAreOK
  BY DEF ParserOK
<1> QED
  BY <1>1, ParserInit, ParserStep, PTL DEF Spec

(* What Parse returns without an error is all of its input: it has read    *)
(* every token, and has made one statement of what is before each          *)
(* semicolon.                                                              *)
THEOREM AllInputIsRead == Spec => []AllIsRead
<1>1. ParserOK => AllIsRead
  BY DEF ParserOK
<1> QED
  BY <1>1, ParserInit, ParserStep, PTL DEF Spec

=============================================================================
