------------------------------- MODULE Lemmas -------------------------------
(***************************************************************************)
(* What the proofs of several modules rest on: induction over the naturals *)
(* and finite sets of numbers, sequences, and the integer arithmetic of    *)
(* Values.  Induction is stated with sets, since the provers instantiate   *)
(* no theorem that takes a predicate.                                      *)
(***************************************************************************)
EXTENDS Tables, FiniteSetTheorems, SequenceTheorems, WellFoundedInduction, TLAPS

-----------------------------------------------------------------------------
(* Induction, and the finite sets of numbers that loops run over. *)

(* A set of naturals that is not empty has a least element. *)
LEMMA LeastNatural ==
    ASSUME NEW S, S \subseteq Nat, S # {}
    PROVE  \E m \in S : \A k \in S : m <= k
<1> DEFINE R == {p \in Nat \X Nat : p[1] < p[2]}
<1>1. \A x, y \in Nat : <<y, x>> \in R <=> y < x
  OBVIOUS
<1>2. IsWellFoundedOn(R, Nat)
  BY NatLessThanWellFounded, Zenon DEF OpToRel
<1> HIDE DEF R
<1>3. PICK m \in S : \A y \in S : ~(<<y, m>> \in R)
  BY <1>2, WFMin, Zenon
<1>4. \A y \in S : ~(y < m)
  BY <1>1, <1>3
<1>5. \A y \in S : m <= y
  BY <1>4
<1> QED
  BY <1>5

(* A set with 0 in it, and with each successor below a bound, has all. *)
LEMMA BoundedInduction ==
    ASSUME NEW n \in Nat, NEW S, 0 \in S, \A m \in 0 .. n - 1 : m \in S => m + 1 \in S
    PROVE  0 .. n \subseteq S
<1> SUFFICES ASSUME ~(0 .. n \subseteq S) PROVE FALSE
  OBVIOUS
<1> DEFINE T == (0 .. n) \ S
<1>1. T \subseteq Nat /\ T # {} /\ 0 \notin T
  OBVIOUS
<1> HIDE DEF T
<1>2. PICK m \in T : \A k \in T : m <= k
  BY <1>1, LeastNatural
<1>3. m - 1 \in 0 .. n - 1 /\ m - 1 \notin T
  BY <1>1, <1>2 DEF T
<1> QED
  BY <1>2, <1>3 DEF T

(* A set of numbers below a bound is finite. *)
LEMMA IntervalIsFinite ==
    ASSUME NEW a \in Int, NEW b \in Int, NEW S \in SUBSET (a .. b)
    PROVE  IsFiniteSet(S) /\ Cardinality(S) \in Nat
<1>1. IsFiniteSet(a .. b)
  BY FS_Interval
<1>2. IsFiniteSet(S)
  BY <1>1, FS_Subset
<1> QED
  BY <1>2, FS_CardinalityType

(* A finite set of integers that is not empty has a greatest element. *)
LEMMA FiniteHasGreatest ==
    ASSUME NEW S, IsFiniteSet(S), S \subseteq Int, S # {}
    PROVE  \E x \in S : \A y \in S : x >= y
<1> DEFINE n == Cardinality(S)
           Top(s) == s # {} => \E x \in s : \A y \in s : x >= y
           T == {m \in 0 .. n : \A s \in SUBSET S : Cardinality(s) <= m => Top(s)}
<1>1. /\ n \in Nat
      /\ \A s \in SUBSET S : IsFiniteSet(s) /\ Cardinality(s) \in 0 .. n
  <2>1. \A s \in SUBSET S : IsFiniteSet(s) /\ Cardinality(s) <= n
    BY FS_Subset
  <2>2. n \in Nat /\ \A s \in SUBSET S : Cardinality(s) \in Nat
    BY <2>1, FS_CardinalityType
  <2> QED
    BY <2>1, <2>2
<1>2. 0 \in T
  <2>1. \A s \in SUBSET S : Cardinality(s) <= 0 => s = {}
    BY <1>1, FS_EmptySet
  <2>2. \A s \in SUBSET S : Cardinality(s) <= 0 => Top(s)
    BY <2>1
  <2> HIDE DEF Top
  <2>3. 0 \in 0 .. n
    BY <1>1
  <2> QED
    BY <2>2, <2>3
<1>3. ASSUME NEW m \in 0 .. n - 1, m \in T
      PROVE  m + 1 \in T
  <2>1. ASSUME NEW s \in SUBSET S, Cardinality(s) <= m + 1
        PROVE  Top(s)
    <3>1. SUFFICES ASSUME s # {} PROVE \E x \in s : \A y \in s : x >= y
      OBVIOUS
    <3>2. PICK a : a \in s
      BY <3>1
    <3>3. s \ {a} \in SUBSET S /\ Cardinality(s \ {a}) <= m
      BY <1>1, <2>1, <3>2, FS_RemoveElement
    <3>4. Top(s \ {a})
      BY <1>3, <3>3
    <3>5. CASE s \ {a} = {}
      BY <3>2, <3>5
    <3>6. CASE s \ {a} # {}
      <4>1. PICK b \in s \ {a} : \A y \in s \ {a} : b >= y
        BY <3>4, <3>6
      <4>2. a \in Int /\ b \in Int /\ s \subseteq Int
        BY <3>2, <4>1
      <4>3. CASE a >= b
        BY <3>2, <4>1, <4>2, <4>3
      <4>4. CASE b >= a
        BY <3>2, <4>1, <4>2, <4>4
      <4> QED
        BY <4>2, <4>3, <4>4
    <3> QED
      BY <3>5, <3>6
  <2>2. m + 1 \in 0 .. n
    BY <1>1
  <2> HIDE DEF Top
  <2> QED
    BY <2>1, <2>2
<1>4. Top(S)
  <2> HIDE DEF Top, T, n
  <2>1. 0 .. n \subseteq T
    BY <1>1, <1>2, <1>3, BoundedInduction
  <2>2. n \in T
    BY <1>1, <2>1
  <2> QED
    BY <2>2, <1>1 DEF T, n
<1> QED
  BY <1>4

(* The greatest element of a set that has one. *)
LEMMA MaxIs ==
    ASSUME NEW S, IsFiniteSet(S), S \subseteq Int, S # {}
    PROVE  Max(S) \in S /\ \A x \in S : x <= Max(S)
<1>1. \E x \in S : \A y \in S : x >= y
  BY FiniteHasGreatest
<1> QED
  BY <1>1 DEF Max

(* A number that is in a set of numbers and bounds it is its Min or Max. *)
LEMMA ExtremeIs ==
    ASSUME NEW S, S \subseteq Int, NEW m \in S
    PROVE  /\ (\A x \in S : m <= x) => Min(S) = m
           /\ (\A x \in S : x <= m) => Max(S) = m
<1>1. ASSUME \A x \in S : m <= x
      PROVE  Min(S) = m
  <2>1. \E x \in S : \A y \in S : x <= y
    BY <1>1
  <2>2. Min(S) \in S /\ \A y \in S : Min(S) <= y
    BY <2>1 DEF Min
  <2>3. Min(S) \in Int /\ m \in Int
    BY <2>2
  <2>4. Min(S) <= m /\ m <= Min(S)
    BY <1>1, <2>2, <2>3
  <2> QED
    BY <2>3, <2>4
<1>2. ASSUME \A x \in S : x <= m
      PROVE  Max(S) = m
  <2>1. \E x \in S : \A y \in S : x >= y
    BY <1>2
  <2>2. Max(S) \in S /\ \A y \in S : Max(S) >= y
    BY <2>1 DEF Max
  <2>3. Max(S) \in Int /\ m \in Int
    BY <2>2
  <2>4. Max(S) <= m /\ m <= Max(S)
    BY <1>2, <2>2, <2>3
  <2> QED
    BY <2>3, <2>4
<1> QED
  BY <1>1, <1>2

-----------------------------------------------------------------------------
(* Sums over finite sets.  SumFunctionOnSet takes the elements in an order *)
(* that it does not say: a total that can be taken apart at any element is *)
(* what it computes, whatever that order.                                  *)

(* h is the sum of f over every subset of S. *)
Total(h, f, S) ==
    /\ h \in [SUBSET S -> Int] /\ h[{}] = 0
    /\ \A s \in SUBSET S : \A x \in s : h[s] = f[x] + h[s \ {x}]

(* One more element: the totals of its subsets. *)
LEMMA TotalGrows ==
    ASSUME NEW S, NEW a, a \notin S, NEW f, \A x \in S \cup {a} : f[x] \in Int,
           NEW h, Total(h, f, S)
    PROVE  \E g : Total(g, f, S \cup {a})
<1> DEFINE T == S \cup {a}
           g == [s \in SUBSET T |-> IF a \in s THEN f[a] + h[s \ {a}] ELSE h[s]]
<1>1. /\ h \in [SUBSET S -> Int] /\ h[{}] = 0
      /\ \A s \in SUBSET S : \A x \in s : h[s] = f[x] + h[s \ {x}]
  BY DEF Total
<1>2. \A s \in SUBSET T : s \ {a} \in SUBSET S /\ (a \notin s => s \in SUBSET S)
  OBVIOUS
<1>3. \A s \in SUBSET T : h[s \ {a}] \in Int /\ (a \notin s => h[s] \in Int)
  BY <1>1, <1>2
<1>4. g \in [SUBSET T -> Int]
  <2>1. f[a] \in Int
    OBVIOUS
  <2>2. \A s \in SUBSET T : (IF a \in s THEN f[a] + h[s \ {a}] ELSE h[s]) \in Int
    BY <1>3, <2>1
  <2> QED
    BY <2>2
<1>5. g[{}] = 0
  BY <1>1
<1>6. ASSUME NEW s \in SUBSET T, NEW x \in s
      PROVE  g[s] = f[x] + g[s \ {x}]
  <2>1. s \ {x} \in SUBSET T
    OBVIOUS
  <2>2. CASE x = a
    BY <2>1, <2>2
  <2>3. CASE x # a /\ a \in s
    <3>1. g[s] = f[a] + h[s \ {a}] /\ g[s \ {x}] = f[a] + h[(s \ {x}) \ {a}]
      BY <2>1, <2>3
    <3>2. (s \ {x}) \ {a} = (s \ {a}) \ {x} /\ x \in s \ {a}
      BY <2>3
    <3>3. h[s \ {a}] = f[x] + h[(s \ {a}) \ {x}]
      BY <1>1, <1>2, <3>2
    <3>4. (s \ {a}) \ {x} \in SUBSET S
      BY <1>2
    <3>5. h[s \ {a}] \in Int /\ h[(s \ {a}) \ {x}] \in Int
      BY <1>1, <1>2, <3>4
    <3>6. f[x] \in Int /\ f[a] \in Int
      BY <2>3
    <3>7. g[s \ {x}] = f[a] + h[(s \ {a}) \ {x}]
      BY <3>1, <3>2
    <3>8. g[s] = f[a] + (f[x] + h[(s \ {a}) \ {x}])
      BY <3>1, <3>3
    <3> HIDE DEF g
    <3> QED
      BY <3>5, <3>6, <3>7, <3>8
  <2>4. CASE a \notin s
    <3>1. s \in SUBSET S /\ a \notin s \ {x}
      BY <1>2, <2>4
    <3>2. g[s] = h[s] /\ g[s \ {x}] = h[s \ {x}]
      BY <2>1, <2>4, <3>1
    <3> HIDE DEF g
    <3> QED
      BY <1>1, <3>1, <3>2
  <2> QED
    BY <2>2, <2>3, <2>4
<1> HIDE DEF g
<1>7. Total(g, f, T)
  BY <1>4, <1>5, <1>6 DEF Total
<1> QED
  BY <1>7

(* A finite set has totals. *)
LEMMA TotalExists ==
    ASSUME NEW S, IsFiniteSet(S), NEW f, \A x \in S : f[x] \in Int
    PROVE  \E h : Total(h, f, S)
<1> DEFINE N == Cardinality(S)
           P == {n \in Nat : \A T \in SUBSET S :
                               Cardinality(T) = n => \E h : Total(h, f, T)}
<1>1. N \in Nat
  BY FS_CardinalityType
<1>2. \A T \in SUBSET S : IsFiniteSet(T)
  BY FS_Subset
<1>3. 0 \in P
  <2>1. SUFFICES \E h : Total(h, f, {})
    BY <1>2, FS_EmptySet
  <2>2. Total([s \in SUBSET {} |-> 0], f, {})
    BY DEF Total
  <2> QED
    BY <2>2
<1>4. ASSUME NEW m \in 0 .. N - 1, m \in P
      PROVE  m + 1 \in P
  <2>1. ASSUME NEW T \in SUBSET S, Cardinality(T) = m + 1
        PROVE  \E h : Total(h, f, T)
    <3>1. T # {}
      BY <2>1, FS_EmptySet
    <3>2. PICK a \in T : TRUE
      BY <3>1
    <3>3. Cardinality(T \ {a}) = m
      <4>1. IsFiniteSet(T)
        BY <1>2
      <4>2. Cardinality(T \ {a}) = Cardinality(T) - 1
        BY <3>2, <4>1, FS_RemoveElement
      <4> QED
        BY <1>1, <2>1, <4>2
    <3>4. T \ {a} \in SUBSET S
      OBVIOUS
    <3>5. PICK h : Total(h, f, T \ {a})
      BY <1>4, <3>3, <3>4
    <3>6. \E g : Total(g, f, (T \ {a}) \cup {a})
      BY <3>2, <3>5, TotalGrows
    <3>7. (T \ {a}) \cup {a} = T
      BY <3>2
    <3> QED
      BY <3>6, <3>7
  <2> QED
    BY <2>1
<1> HIDE DEF P
<1>5. 0 .. N \subseteq P
  BY <1>1, <1>3, <1>4, BoundedInduction
<1>6. N \in P
  BY <1>1, <1>5
<1> QED
  BY <1>6 DEF P

(* What SumFunctionOnSet goes through is the total. *)
LEMMA SumIsTotal ==
    ASSUME NEW S, IsFiniteSet(S), NEW f, NEW h, Total(h, f, S)
    PROVE  SumFunctionOnSet(f, S) = h[S]
<1> DEFINE Goes(it) == it = [s \in SUBSET S |->
                               IF s = {} THEN 0
                               ELSE f[CHOOSE x \in s : TRUE]
                                      + it[s \ {CHOOSE x \in s : TRUE}]]
           iter == CHOOSE it : Goes(it)
<1>1. SumFunctionOnSet(f, S) = iter[S]
  BY Zenon DEF SumFunctionOnSet, FoldFunctionOnSet, MapThenFoldSet
<1>2. Goes(h)
  <2>1. \A s \in SUBSET S : s # {} => (CHOOSE x \in s : TRUE) \in s
    OBVIOUS
  <2>2. \A s \in SUBSET S :
           h[s] = IF s = {} THEN 0
                  ELSE f[CHOOSE x \in s : TRUE] + h[s \ {CHOOSE x \in s : TRUE}]
    BY <2>1 DEF Total
  <2>3. h = [s \in SUBSET S |-> h[s]]
    BY DEF Total
  <2> QED
    BY <2>2, <2>3
<1>3. Goes(iter)
  BY <1>2
<1> HIDE DEF iter
<1> DEFINE N == Cardinality(S)
           P == {n \in Nat : \A s \in SUBSET S : Cardinality(s) = n => iter[s] = h[s]}
<1>4. N \in Nat
  BY FS_CardinalityType
<1>5. \A s \in SUBSET S : IsFiniteSet(s)
  BY FS_Subset
<1>6. 0 \in P
  BY <1>2, <1>3, <1>5, FS_EmptySet
<1>7. ASSUME NEW m \in 0 .. N - 1, m \in P
      PROVE  m + 1 \in P
  <2>1. ASSUME NEW s \in SUBSET S, Cardinality(s) = m + 1
        PROVE  iter[s] = h[s]
    <3> DEFINE a == CHOOSE x \in s : TRUE
    <3>1. s # {}
      BY <2>1, FS_EmptySet
    <3>2. a \in s
      BY <3>1
    <3>3. /\ iter[s] = f[a] + iter[s \ {a}]
          /\ h[s] = f[a] + h[s \ {a}]
      BY <1>2, <1>3, <3>1
    <3> HIDE DEF a
    <3>4. Cardinality(s \ {a}) = m /\ s \ {a} \in SUBSET S
      BY <1>5, <2>1, <3>2, FS_RemoveElement
    <3>5. iter[s \ {a}] = h[s \ {a}]
      BY <1>7, <3>4
    <3> QED
      BY <3>3, <3>5
  <2> QED
    BY <2>1
<1> HIDE DEF P
<1>8. 0 .. N \subseteq P
  BY <1>4, <1>6, <1>7, BoundedInduction
<1>9. N \in P
  BY <1>4, <1>8
<1> QED
  BY <1>1, <1>9 DEF P

(* The empty sum is 0, a sum of integers is one, and it grows by what one  *)
(* more element adds.                                                      *)
LEMMA SumOfNone ==
    ASSUME NEW f
    PROVE  SumFunctionOnSet(f, {}) = 0
<1>1. PICK h : Total(h, f, {})
  BY TotalExists, FS_EmptySet
<1> QED
  BY <1>1, SumIsTotal, FS_EmptySet DEF Total

LEMMA SumIsInt ==
    ASSUME NEW S, IsFiniteSet(S), NEW f, \A x \in S : f[x] \in Int
    PROVE  SumFunctionOnSet(f, S) \in Int
<1>1. PICK h : Total(h, f, S)
  BY TotalExists
<1>2. h[S] \in Int
  BY <1>1 DEF Total
<1> QED
  BY <1>1, <1>2, SumIsTotal

LEMMA SumGrows ==
    ASSUME NEW S, IsFiniteSet(S), NEW a, a \notin S,
           NEW g, \A x \in S \cup {a} : g[x] \in Int
    PROVE  SumFunctionOnSet(g, S \cup {a}) =
               SumFunctionOnSet([x \in S |-> g[x]], S) + g[a]
<1> DEFINE T == S \cup {a}
           f == [x \in S |-> g[x]]
<1>1. IsFiniteSet(T)
  BY FS_AddElement
<1>2. PICK h : Total(h, g, T)
  BY <1>1, TotalExists
<1> DEFINE k == [s \in SUBSET S |-> h[s]]
<1>3. Total(k, f, S)
  <2>1. \A s \in SUBSET S : s \in SUBSET T
    OBVIOUS
  <2>2. \A x \in S : f[x] = g[x]
    OBVIOUS
  <2> HIDE DEF f
  <2> QED
    BY <1>2, <2>1, <2>2 DEF Total
<1>4. SumFunctionOnSet(g, T) = h[T] /\ SumFunctionOnSet(f, S) = k[S]
  BY <1>1, <1>2, <1>3, SumIsTotal
<1>5. T \ {a} = S /\ T \in SUBSET T /\ S \in SUBSET T
  OBVIOUS
<1>6. h[T] = g[a] + h[S] /\ h[S] \in Int
  <2>1. /\ h \in [SUBSET T -> Int]
        /\ \A s \in SUBSET T : \A x \in s : h[s] = g[x] + h[s \ {x}]
    BY <1>2 DEF Total
  <2>2. a \in T
    OBVIOUS
  <2>3. h[T] = g[a] + h[T \ {a}]
    BY <1>5, <2>1, <2>2
  <2> QED
    BY <1>5, <2>1, <2>3
<1>7. k[S] = h[S]
  OBVIOUS
<1> HIDE DEF k, f, T
<1>8. SumFunctionOnSet(g, T) = SumFunctionOnSet(f, S) + g[a]
  <2>1. g[a] \in Int
    BY DEF T
  <2> QED
    BY <1>4, <1>6, <1>7, <2>1
<1> QED
  BY <1>8 DEF T, f

-----------------------------------------------------------------------------
(* Sequences. *)

(* A sequence over some set is a sequence. *)
LEMMA SeqIsSeq ==
    ASSUME NEW S, NEW s \in Seq(S)
    PROVE  IsSeq(s)
BY DEF IsSeq

(* And a sequence is one over the set of its elements. *)
LEMMA SeqOverRange ==
    ASSUME NEW s, IsSeq(s)
    PROVE  s \in Seq(Range(s))
<1>1. Len(s) \in Nat /\ s = [i \in 1 .. Len(s) |-> s[i]]
  BY DEF IsSeq
<1>2. DOMAIN s = 1 .. Len(s)
  BY <1>1
<1>3. s \in [1 .. Len(s) -> Range(s)]
  BY <1>1, <1>2 DEF Range
<1> QED
  BY <1>1, <1>3

(* The rows of a new table, and of no result, are a sequence. *)
LEMMA EmptyIsSeq == IsSeq(<<>>)
<1>1. <<>> \in Seq({})
  OBVIOUS
<1> QED
  BY <1>1, SeqIsSeq

(* A sequence is indexed from 1 to its length. *)
LEMMA SeqDomain ==
    ASSUME NEW s, IsSeq(s)
    PROVE  Len(s) \in Nat /\ DOMAIN s = 1 .. Len(s)
BY DEF IsSeq

(* A function on 1 .. n is a sequence. *)
LEMMA FunctionIsSeq ==
    ASSUME NEW n \in Nat, NEW f, f = [i \in 1 .. n |-> f[i]]
    PROVE  IsSeq(f)
<1> DEFINE S == {f[i] : i \in 1 .. n}
<1>1. f \in [1 .. n -> S]
  OBVIOUS
<1>2. f \in Seq(S)
  BY <1>1
<1> QED
  BY <1>2, SeqIsSeq

(* Append, as of a row to a table, keeps every element in its place. *)
LEMMA AppendIsSeq ==
    ASSUME NEW s, IsSeq(s), NEW e
    PROVE  /\ IsSeq(Append(s, e))
           /\ DOMAIN Append(s, e) = 1 .. Len(s) + 1
           /\ \A i \in DOMAIN s : Append(s, e)[i] = s[i]
           /\ Append(s, e)[Len(s) + 1] = e
<1> DEFINE S == Range(s) \cup {e}
<1>1. s \in Seq(Range(s))
  BY SeqOverRange
<1>2. s \in Seq(S)
  BY <1>1
<1>3. e \in S
  OBVIOUS
<1>4. DOMAIN s = 1 .. Len(s) /\ Len(s) \in Nat
  BY SeqDomain
<1> HIDE DEF S
<1>5. /\ Append(s, e) \in Seq(S)
      /\ Len(Append(s, e)) = Len(s) + 1
      /\ \A i \in 1 .. Len(s) : Append(s, e)[i] = s[i]
      /\ Append(s, e)[Len(s) + 1] = e
  BY <1>2, <1>3, AppendProperties
<1>6. DOMAIN Append(s, e) = 1 .. Len(s) + 1
  BY <1>5
<1> QED
  BY <1>4, <1>5, <1>6, SeqIsSeq

(* Two sequences in a row, as the answers before and the new ones. *)
LEMMA ConcatIsSeq ==
    ASSUME NEW s, IsSeq(s), NEW t, IsSeq(t)
    PROVE  /\ IsSeq(s \o t)
           /\ DOMAIN (s \o t) = 1 .. Len(s) + Len(t)
           /\ \A i \in 1 .. Len(s) : (s \o t)[i] = s[i]
           /\ \A i \in 1 .. Len(t) : (s \o t)[Len(s) + i] = t[i]
<1> DEFINE S == Range(s) \cup Range(t)
<1>1. s \in Seq(S) /\ t \in Seq(S)
  BY SeqOverRange
<1>2. Len(s) \in Nat /\ Len(t) \in Nat
  BY SeqDomain
<1> HIDE DEF S
<1>3. /\ s \o t \in Seq(S)
      /\ Len(s \o t) = Len(s) + Len(t)
      /\ \A i \in 1 .. Len(s) + Len(t) :
            (s \o t)[i] = IF i <= Len(s) THEN s[i] ELSE t[i - Len(s)]
  BY <1>1, ConcatProperties
<1>4. IsSeq(s \o t)
  BY <1>3, SeqIsSeq
<1>5. DOMAIN (s \o t) = 1 .. Len(s) + Len(t)
  BY <1>3, <1>4, SeqDomain
<1>6. \A i \in 1 .. Len(s) : i \in 1 .. Len(s) + Len(t) /\ i <= Len(s)
  BY <1>2
<1>7. \A i \in 1 .. Len(t) :
        Len(s) + i \in 1 .. Len(s) + Len(t) /\ ~(Len(s) + i <= Len(s)) /\ Len(s) + i - Len(s) = i
  BY <1>2
<1> QED
  BY <1>3, <1>4, <1>5, <1>6, <1>7

(* One element more, as one answer. *)
LEMMA ConcatOne ==
    ASSUME NEW s, IsSeq(s), NEW e
    PROVE  /\ IsSeq(s \o <<e>>)
           /\ Len(s \o <<e>>) = Len(s) + 1
           /\ DOMAIN (s \o <<e>>) = 1 .. Len(s) + 1
           /\ \A i \in 1 .. Len(s) : (s \o <<e>>)[i] = s[i]
           /\ (s \o <<e>>)[Len(s) + 1] = e
<1>1. IsSeq(<<e>>) /\ Len(<<e>>) = 1 /\ <<e>>[1] = e
  <2>1. <<e>> \in Seq({e})
    OBVIOUS
  <2> QED
    BY <2>1, SeqIsSeq
<1>2. Len(s) \in Nat
  BY SeqDomain
<1>3. IsSeq(s \o <<e>>) /\ DOMAIN (s \o <<e>>) = 1 .. Len(s) + 1
  BY <1>1, ConcatIsSeq
<1> QED
  BY <1>1, <1>2, <1>3, ConcatIsSeq, SeqDomain

-----------------------------------------------------------------------------
(* Integers of a width: what wrapping around and division that truncates   *)
(* give, for every width.                                                  *)

(* The integers have bounds, with zero between them. *)
LEMMA IntsAreBounded ==
    /\ MinInt \in Int /\ MaxInt \in Int
    /\ MinInt < 0 /\ 0 <= MaxInt /\ MaxInt = -MinInt - 1
    /\ IntRange \subseteq Int
BY PowersOfTwo DEF MinInt, MaxInt, IntRange

(* Wrapping around ends in range, a multiple of the modulus away. *)
LEMMA WrapIs ==
    ASSUME NEW n \in Int
    PROVE  Wrap(n) \in IntRange /\ \E k \in Int : Wrap(n) = n + k * (2 * MinInt)
<1> DEFINE h == 2^(IntBits - 1)
<1>1. h \in Nat \ {0} /\ 2^IntBits = 2 * h
  BY PowersOfTwo
<1>2. MinInt = -h /\ MaxInt = h - 1
  BY DEF MinInt, MaxInt
<1> HIDE DEF h
<1> DEFINE e == n - (-h)
           w == 2 * h
<1>3. /\ e % w \in 0 .. w - 1 /\ e \div w \in Int
      /\ e = (w * (e \div w)) + (e % w)
  <2>1. e \in Int /\ w \in Int /\ w > 0
    BY <1>1
  <2> HIDE DEF e, w
  <2> QED
    BY <2>1
<1>4. Wrap(n) = (e % w) + (-h)
  BY <1>1, <1>2 DEF Wrap
<1>5. Wrap(n) \in IntRange
  BY <1>1, <1>2, <1>3, <1>4 DEF IntRange
<1>6. e \div w \in Int /\ Wrap(n) = n + (e \div w) * (2 * MinInt)
  <2> DEFINE p == e \div w
             r == e % w
  <2>1. p \in Int /\ r \in Int /\ n + h = (2 * h) * p + r
    BY <1>1, <1>3
  <2>2. Wrap(n) = r - h
    BY <1>1, <1>4, <2>1
  <2> HIDE DEF p, r
  <2>3. Wrap(n) = n + p * (2 * MinInt)
    BY <1>1, <1>2, <2>1, <2>2
  <2> QED
    BY <2>1, <2>3 DEF p
<1> HIDE DEF e, w
<1> QED
  BY <1>5, <1>6

(* One number in range is a multiple of the modulus away, and no other. *)
LEMMA WrapIsUnique ==
    ASSUME NEW n \in Int, NEW m \in IntRange, NEW k \in Int,
           m = n + k * (2 * MinInt)
    PROVE  Wrap(n) = m
<1>1. PICK j \in Int : Wrap(n) = n + j * (2 * MinInt)
  BY WrapIs
<1>2. Wrap(n) \in IntRange /\ MinInt \in Int /\ MinInt < 0 /\ MaxInt = -MinInt - 1
  BY WrapIs, IntsAreBounded
<1>3. /\ Wrap(n) \in Int /\ MinInt <= Wrap(n) /\ Wrap(n) <= -MinInt - 1
      /\ m \in Int /\ MinInt <= m /\ m <= -MinInt - 1
  BY <1>2 DEF IntRange
<1> DEFINE d == j - k
<1>4. d \in Int /\ Wrap(n) - m = d * (2 * MinInt)
  BY <1>1, <1>2, <1>3
<1> HIDE DEF d
<1>5. d = 0
  <2>1. CASE d >= 1
    <3>1. d * (2 * MinInt) <= 2 * MinInt
      BY <1>2, <1>4, <2>1
    <3> QED
      BY <1>2, <1>3, <1>4, <3>1
  <2>2. CASE d <= -1
    <3>1. d * (2 * MinInt) >= -(2 * MinInt)
      BY <1>2, <1>4, <2>2
    <3> QED
      BY <1>2, <1>3, <1>4, <3>1
  <2> QED
    BY <1>4, <2>1, <2>2
<1> QED
  BY <1>2, <1>3, <1>4, <1>5

(* What is in range is exact. *)
LEMMA WrapInRange ==
    ASSUME NEW n \in IntRange
    PROVE  Wrap(n) = n
<1>1. n \in Int /\ MinInt \in Int
  BY IntsAreBounded
<1>2. n = n + 0 * (2 * MinInt)
  BY <1>1
<1> QED
  BY <1>1, <1>2, WrapIsUnique

(* Numbers that are a multiple of the modulus apart wrap to the same. *)
LEMMA WrapIsModular ==
    ASSUME NEW m \in Int, NEW n \in Int, NEW j \in Int, m = n + j * (2 * MinInt)
    PROVE  Wrap(m) = Wrap(n)
<1>1. PICK k \in Int : Wrap(m) = m + k * (2 * MinInt)
  BY WrapIs
<1>2. Wrap(m) \in IntRange /\ MinInt \in Int
  BY WrapIs, IntsAreBounded
<1> DEFINE d == k + j
<1>3. d \in Int /\ Wrap(m) = n + d * (2 * MinInt)
  BY <1>1, <1>2
<1> HIDE DEF d
<1> QED
  BY <1>2, <1>3, WrapIsUnique

(* Wrapping a part of a sum or difference changes nothing. *)
LEMMA WrapInSum ==
    ASSUME NEW n \in Int, NEW c \in Int
    PROVE  /\ Wrap(Wrap(n) + c) = Wrap(n + c)
           /\ Wrap(Wrap(n) - c) = Wrap(n - c)
           /\ Wrap(c - Wrap(n)) = Wrap(c - n)
<1>1. PICK j \in Int : Wrap(n) = n + j * (2 * MinInt)
  BY WrapIs
<1>2. Wrap(n) \in Int /\ MinInt \in Int
  BY WrapIs, IntsAreBounded
<1>3. Wrap(n) + c = (n + c) + j * (2 * MinInt)
  BY <1>1, <1>2
<1>4. Wrap(n) - c = (n - c) + j * (2 * MinInt)
  BY <1>1, <1>2
<1>5. c - Wrap(n) = (c - n) + (-j) * (2 * MinInt)
  BY <1>1, <1>2
<1>6. n + c \in Int /\ n - c \in Int /\ c - n \in Int /\ -j \in Int
  OBVIOUS
<1>7. Wrap(n) + c \in Int /\ Wrap(n) - c \in Int /\ c - Wrap(n) \in Int
  BY <1>2
<1>8. Wrap(Wrap(n) + c) = Wrap(n + c)
  BY <1>3, <1>6, <1>7, WrapIsModular
<1>9. Wrap(Wrap(n) - c) = Wrap(n - c)
  BY <1>4, <1>6, <1>7, WrapIsModular
<1>10. Wrap(c - Wrap(n)) = Wrap(c - n)
  BY <1>5, <1>6, <1>7, WrapIsModular
<1> QED
  BY <1>8, <1>9, <1>10

(* Nor does wrapping a factor of a product. *)
LEMMA WrapInProduct ==
    ASSUME NEW n \in Int, NEW c \in Int
    PROVE  Wrap(Wrap(n) * c) = Wrap(n * c)
<1>1. PICK j \in Int : Wrap(n) = n + j * (2 * MinInt)
  BY WrapIs
<1>2. Wrap(n) \in Int /\ MinInt \in Int
  BY WrapIs, IntsAreBounded
<1> DEFINE M == 2 * MinInt
<1>3. M \in Int
  BY <1>2
<1> HIDE DEF M
<1>4. (n + j * M) * c = n * c + (j * c) * M
  BY <1>3
<1>5. Wrap(n) * c = n * c + (j * c) * (2 * MinInt)
  BY <1>1, <1>4 DEF M
<1>6. Wrap(n) * c \in Int /\ n * c \in Int /\ j * c \in Int
  BY <1>2
<1> QED
  BY <1>5, <1>6, WrapIsModular

(* A quotient times its divisor is the dividend up to a remainder that is  *)
(* smaller than the divisor and has the sign of the dividend.              *)
LEMMA QuotientIs ==
    ASSUME NEW x \in Int, NEW y \in Int, y # 0
    PROVE  /\ Quotient(x, y) \in Int
           /\ \E r \in Int :
                /\ x = Quotient(x, y) * y + r
                /\ (-y < r /\ r < y) \/ (y < r /\ r < -y)
                /\ x >= 0 => r >= 0
                /\ x <= 0 => r <= 0
<1> DEFINE m == IF x < 0 THEN -x ELSE x
           d == IF y < 0 THEN -y ELSE y
           q == m \div d
<1>1. m \in Nat /\ d \in Nat \ {0}
  OBVIOUS
<1>2. q \in Int /\ m % d \in 0 .. d - 1 /\ m = (d * q) + (m % d)
  <2> HIDE DEF m, d
  <2>1. m \in Int /\ d \in Int /\ d > 0
    BY <1>1
  <2>2. m \div d \in Int /\ m % d \in 0 .. d - 1 /\ m = (d * (m \div d)) + (m % d)
    BY <2>1
  <2> QED
    BY <2>2
<1>3. Quotient(x, y) = IF (x < 0) = (y < 0) THEN q ELSE -q
  BY DEF Quotient
<1> DEFINE r == IF x < 0 THEN -(m % d) ELSE m % d
<1> HIDE DEF q
<1>4. r \in Int /\ x = Quotient(x, y) * y + r
  BY <1>2, <1>3
<1>5. (-y < r /\ r < y) \/ (y < r /\ r < -y)
  BY <1>2
<1>6. (x >= 0 => r >= 0) /\ (x <= 0 => r <= 0)
  BY <1>2
<1>7. Quotient(x, y) \in Int
  BY <1>2, <1>3
<1> HIDE DEF r
<1> QED
  BY <1>4, <1>5, <1>6, <1>7

=============================================================================
