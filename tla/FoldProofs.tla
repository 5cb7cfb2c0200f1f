----------------------------- MODULE FoldProofs -----------------------------
(***************************************************************************)
(* Sequences as loops over data.  For any operator, a fold over the empty  *)
(* sequence is where it starts and a fold over one element more is one     *)
(* application more; and induction, over numbers and sequences, for sets.  *)
(*                                                                         *)
(* The operator is a constant: a module names the one of its loop in an    *)
(* INSTANCE of this one and has the lemmas of its loop.                    *)
(***************************************************************************)
EXTENDS Integers, Sequences, SequencesExt, WellFoundedInduction, TLAPS

CONSTANT Op(_, _)

Fold(start, s) == FoldLeft(Op, start, s)

-----------------------------------------------------------------------------
(* Induction. *)

\* A set with 0 in it, and with each number the next one, has every number in
\* it: well-foundedness of Nat, for sets instead of predicates.
LEMMA Counting ==
  ASSUME NEW S, 0 \in S, \A n \in Nat : n \in S => n + 1 \in S
  PROVE  Nat \subseteq S
<1> DEFINE T == Nat \ S
           R == OpToRel(<, Nat)
<1>1. SUFFICES ASSUME T # {} PROVE FALSE
  OBVIOUS
<1>2. IsWellFoundedOn(R, Nat) /\ T \subseteq Nat
  BY NatLessThanWellFounded
<1>3. PICK x \in T : \A y \in T : ~(<<y, x>> \in R)
  <2> HIDE DEF T, R
  <2>1. QED
    BY <1>1, <1>2, WFMin
<1>4. x \in Nat /\ x # 0 /\ x - 1 \in Nat /\ x - 1 < x /\ (x - 1) + 1 = x
  OBVIOUS
<1>5. x - 1 \in T
  BY <1>4
<1>6. <<x - 1, x>> \in R
  BY <1>4 DEF OpToRel
<1>7. QED
  BY <1>3, <1>5, <1>6

\* A set with the empty sequence in it, and with each sequence all that have
\* one element more, has every sequence in it.
LEMMA Appending ==
  ASSUME NEW T, NEW S, <<>> \in S, \A s \in Seq(T), e \in T : s \in S => Append(s, e) \in S
  PROVE  Seq(T) \subseteq S
<1> DEFINE Short(n) == \A s \in Seq(T) : Len(s) = n => s \in S
           M == {n \in Nat : Short(n)}
<1>1. 0 \in M
  <2>1. \A s \in Seq(T) : Len(s) = 0 => s = <<>>
    OBVIOUS
  <2>2. QED
    BY <2>1
<1>2. ASSUME NEW n \in Nat, n \in M PROVE n + 1 \in M
  <2> SUFFICES ASSUME NEW s \in Seq(T), Len(s) = n + 1
               PROVE  s \in S
    OBVIOUS
  <2> DEFINE r == SubSeq(s, 1, n)
  <2>1. /\ r \in Seq(T) /\ Len(r) = n /\ s[n + 1] \in T
        /\ s = Append(r, s[n + 1])
    OBVIOUS
  <2>2. r \in S
    BY <1>2, <2>1
  <2>3. QED
    BY <2>1, <2>2
<1>3. Nat \subseteq M
  <2> HIDE DEF M
  <2>1. QED
    BY <1>1, <1>2, Counting
<1>4. ASSUME NEW s \in Seq(T) PROVE s \in S
  <2>1. Len(s) \in M
    BY <1>3
  <2>2. QED
    BY <2>1
<1>5. QED
  BY <1>4

-----------------------------------------------------------------------------
(* The recursive function of a fold. *)

\* A set of numbers up to n that is not empty has a largest one.
LEMMA Largest ==
  ASSUME NEW n \in Nat, NEW t \in SUBSET (1..n), t # {}
  PROVE  /\ Max(t) \in t /\ \A x \in t : x <= Max(t)
         /\ t \ {Max(t)} \in SUBSET (1 .. Max(t) - 1)
<1> DEFINE Has(m) == \A u \in SUBSET (1..m) : u # {} => \E x \in u : \A y \in u : y <= x
           S == {m \in Nat : Has(m)}
<1>1. 0 \in S
  <2>1. 1..0 = {}
    OBVIOUS
  <2>2. QED
    BY <2>1
<1>2. ASSUME NEW m \in Nat, m \in S PROVE m + 1 \in S
  <2> SUFFICES ASSUME NEW u \in SUBSET (1 .. m + 1), u # {}
               PROVE  \E x \in u : \A y \in u : y <= x
    OBVIOUS
  <2>1. CASE m + 1 \in u
    BY <2>1
  <2>2. CASE m + 1 \notin u
    <3>1. u \in SUBSET (1..m)
      BY <2>2
    <3>2. QED
      BY <1>2, <3>1
  <2>3. QED
    BY <2>1, <2>2
<1>3. Has(n)
  <2> HIDE DEF Has
  <2>1. QED
    BY <1>1, <1>2, Counting
<1>4. \E x \in t : \A y \in t : y <= x
  BY <1>3
<1>5. Max(t) \in t /\ \A x \in t : x <= Max(t)
  BY <1>4 DEF Max
<1>6. \A x \in t \ {Max(t)} : x \in 1 .. Max(t) - 1
  <2> DEFINE x == Max(t)
  <2>1. t \subseteq Nat /\ \A y \in t : 1 <= y
    OBVIOUS
  <2>2. x \in Nat /\ \A y \in t : y <= x
    BY <1>5, <2>1
  <2> HIDE DEF x
  <2>3. \A y \in t \ {x} : y \in 1 .. x - 1
    BY <2>1, <2>2
  <2>4. QED
    BY <2>3 DEF x
<1>7. QED
  BY <1>5, <1>6

\* A set of numbers that is not empty has a smallest one.
LEMMA Smallest ==
  ASSUME NEW t \in SUBSET Nat, t # {}
  PROVE  Min(t) \in t /\ \A x \in t : Min(t) <= x
<1> DEFINE R == OpToRel(<, Nat)
<1>1. IsWellFoundedOn(R, Nat)
  BY NatLessThanWellFounded
<1> HIDE DEF R
<1>2. PICK x \in t : \A y \in t : ~(<<y, x>> \in R)
  BY <1>1, WFMin
<1>3. ASSUME NEW y \in t PROVE x <= y
  <2>1. x \in Nat /\ y \in Nat
    OBVIOUS
  <2>2. y < x => <<y, x>> \in R
    BY <2>1 DEF OpToRel, R
  <2>3. QED
    BY <1>2, <2>1, <2>2
<1>4. QED
  BY <1>3 DEF Min

\* g is the function that FoldLeft defines by recursion, up to place n of s.
Iterates(start, s, g, n) ==
    g = [t \in SUBSET (1..n) |->
            IF t = {} THEN start ELSE Op(g[t \ {Max(t)}], s[Max(t)])]

LEMMA IteratesExist == \A start, s : \A n \in Nat : \E g : Iterates(start, s, g, n)
<1> TAKE start, s
<1> DEFINE S == {n \in Nat : \E g : Iterates(start, s, g, n)}
<1>1. 0 \in S
  <2> DEFINE g == [t \in SUBSET (1..0) |-> start]
  <2>1. \A t \in SUBSET (1..0) : t = {}
    OBVIOUS
  <2>2. Iterates(start, s, g, 0)
    BY <2>1 DEF Iterates
  <2>3. QED
    BY <2>2
<1>2. ASSUME NEW n \in Nat, n \in S PROVE n + 1 \in S
  <2>1. PICK g : Iterates(start, s, g, n)
    BY <1>2
  <2> DEFINE F(t) == IF n + 1 \in t THEN Op(g[t \ {n + 1}], s[n + 1]) ELSE g[t]
             h == [t \in SUBSET (1 .. n + 1) |-> F(t)]
  <2>2. ASSUME NEW t \in SUBSET (1 .. n + 1)
        PROVE  h[t] = IF t = {} THEN start ELSE Op(h[t \ {Max(t)}], s[Max(t)])
    <3>1. n + 1 \in Nat /\ t \ {n + 1} \in SUBSET (1..n)
      OBVIOUS
    <3>2. CASE n + 1 \in t
      <4>1. Max(t) = n + 1
        <5>1. Max(t) \in t /\ n + 1 <= Max(t)
          BY <3>1, <3>2, Largest
        <5>2. Max(t) \in 1 .. n + 1
          BY <5>1
        <5> HIDE DEF h
        <5>3. QED
          BY <5>1, <5>2
      <4>2. h[t] = Op(g[t \ {n + 1}], s[n + 1])
        BY <3>2
      <4>3. h[t \ {n + 1}] = g[t \ {n + 1}]
        BY <3>1
      <4>4. QED
        BY <3>2, <4>1, <4>2, <4>3
    <3>3. CASE n + 1 \notin t
      <4>1. t \in SUBSET (1..n) /\ h[t] = g[t]
        BY <3>3
      <4>2. g[t] = IF t = {} THEN start ELSE Op(g[t \ {Max(t)}], s[Max(t)])
        BY <2>1, <4>1 DEF Iterates
      <4>3. h[t \ {Max(t)}] = g[t \ {Max(t)}]
        BY <3>3
      <4>4. QED
        BY <4>1, <4>2, <4>3
    <3>4. QED
      BY <3>2, <3>3
  <2>3. Iterates(start, s, h, n + 1)
    BY <2>2 DEF Iterates
  <2>4. QED
    BY <2>3
<1>3. QED
  <2> HIDE DEF S
  <2>1. Nat \subseteq S
    BY <1>1, <1>2, Counting
  <2>2. QED
    BY <2>1 DEF S

\* Sequences that begin alike are folded alike so far.
LEMMA IteratesAgree ==
  ASSUME NEW start, NEW s, NEW g, NEW n \in Nat, Iterates(start, s, g, n),
         NEW r, NEW h, NEW m \in Nat, Iterates(start, r, h, m),
         n <= m, \A i \in 1..n : s[i] = r[i]
  PROVE  g[1..n] = h[1..n]
<1> DEFINE Same(j) == \A t \in SUBSET (1..j) : g[t] = h[t]
           S == {j \in Nat : j <= n => Same(j)}
<1>1. 0 \in S
  <2>1. \A t \in SUBSET (1..0) : t = {} /\ t \in SUBSET (1..n) /\ t \in SUBSET (1..m)
    OBVIOUS
  <2>2. QED
    BY <2>1 DEF Iterates
<1>2. ASSUME NEW j \in Nat, j \in S PROVE j + 1 \in S
  <2> SUFFICES ASSUME j + 1 <= n
               PROVE  Same(j + 1)
    <3> HIDE DEF Same
    <3> QED
      OBVIOUS
  <2> SUFFICES ASSUME NEW t \in SUBSET (1 .. j + 1)
               PROVE  g[t] = h[t]
    OBVIOUS
  <2>1. t \in SUBSET (1..n) /\ t \in SUBSET (1..m)
    <3>1. j + 1 <= n /\ j + 1 <= m
      OBVIOUS
    <3>2. \A i \in 1 .. j + 1 : i \in 1..n /\ i \in 1..m
      BY <3>1
    <3>3. QED
      BY <3>2
  <2>2. /\ g[t] = IF t = {} THEN start ELSE Op(g[t \ {Max(t)}], s[Max(t)])
        /\ h[t] = IF t = {} THEN start ELSE Op(h[t \ {Max(t)}], r[Max(t)])
    BY <2>1 DEF Iterates
  <2>3. CASE t = {}
    BY <2>2, <2>3
  <2>4. CASE t # {}
    <3>1. j + 1 \in Nat
      OBVIOUS
    <3>2. Max(t) \in 1 .. j + 1 /\ t \ {Max(t)} \in SUBSET (1 .. Max(t) - 1)
      BY <2>4, <3>1, Largest
    <3>3. t \ {Max(t)} \in SUBSET (1..j) /\ Max(t) \in 1..n
      BY <3>2
    <3>4. g[t \ {Max(t)}] = h[t \ {Max(t)}] /\ s[Max(t)] = r[Max(t)]
      BY <1>2, <3>3
    <3>5. QED
      BY <2>2, <2>4, <3>4
  <2>5. QED
    BY <2>3, <2>4
<1>3. n \in S
  <2> HIDE DEF S
  <2>1. QED
    BY <1>1, <1>2, Counting
<1>4. QED
  <2>1. 1..n \in SUBSET (1..n)
    OBVIOUS
  <2>2. QED
    BY <1>3, <2>1

LEMMA FoldIterates ==
  ASSUME NEW start, NEW T, NEW s \in Seq(T)
  PROVE  \E g : Iterates(start, s, g, Len(s)) /\ Fold(start, s) = g[1 .. Len(s)]
<1> DEFINE g == CHOOSE f : Iterates(start, s, f, Len(s))
<1>1. DOMAIN s = 1 .. Len(s) /\ Len(s) \in Nat
  OBVIOUS
<1>2. Iterates(start, s, g, Len(s))
  BY <1>1, IteratesExist
<1>3. Fold(start, s) = g[1 .. Len(s)]
  BY <1>1 DEF Fold, FoldLeft, MapThenFoldSet, Iterates
<1>4. QED
  BY <1>2, <1>3

-----------------------------------------------------------------------------
(* The theorems. *)

\* FoldLeft over nothing is where it starts.
LEMMA FoldEmpty == \A start : Fold(start, <<>>) = start
<1> TAKE start
<1>1. <<>> \in Seq({}) /\ Len(<<>>) = 0
  OBVIOUS
<1>2. PICK g : Iterates(start, <<>>, g, 0) /\ Fold(start, <<>>) = g[1..0]
  BY <1>1, FoldIterates
<1>3. QED
  BY <1>2 DEF Iterates

\* FoldLeft over a sequence with one element more applies the operator once
\* more.
LEMMA FoldAppend ==
  ASSUME NEW start, NEW T, NEW s \in Seq(T), NEW e \in T
  PROVE  Fold(start, Append(s, e)) = Op(Fold(start, s), e)
<1> DEFINE n == Len(s)
           r == Append(s, e)
<1>1. n \in Nat /\ r \in Seq(T) /\ Len(r) = n + 1 /\ r[n + 1] = e /\ \A i \in 1..n : r[i] = s[i]
  OBVIOUS
<1>2. PICK g : Iterates(start, s, g, n) /\ Fold(start, s) = g[1..n]
  BY FoldIterates
<1>3. PICK h : Iterates(start, r, h, n + 1) /\ Fold(start, r) = h[1 .. n + 1]
  BY <1>1, FoldIterates
<1>4. Max(1 .. n + 1) = n + 1
  <2>1. /\ 1 .. n + 1 # {} /\ n + 1 \in 1 .. n + 1 /\ n + 1 \in Nat
        /\ 1 .. n + 1 \in SUBSET (1 .. n + 1)
    BY <1>1
  <2>2. Max(1 .. n + 1) \in 1 .. n + 1 /\ n + 1 <= Max(1 .. n + 1)
    BY <2>1, Largest
  <2>3. QED
    BY <1>1, <2>2
<1>5. (1 .. n + 1) \ {n + 1} = 1..n /\ 1 .. n + 1 # {}
  BY <1>1
<1>6. h[1 .. n + 1] = Op(h[1..n], e)
  <2>1. 1 .. n + 1 \in SUBSET (1 .. n + 1)
    OBVIOUS
  <2> HIDE DEF n, r
  <2>2. h[1 .. n + 1] = Op(h[(1 .. n + 1) \ {Max(1 .. n + 1)}], r[Max(1 .. n + 1)])
    BY <1>3, <1>5, <2>1 DEF Iterates
  <2>3. QED
    BY <1>1, <1>4, <1>5, <2>2
<1>7. h[1..n] = g[1..n]
  <2>1. \A i \in 1..n : s[i] = r[i]
    BY <1>1
  <2>2. n \in Nat /\ n + 1 \in Nat /\ n <= n + 1
    BY <1>1
  <2> HIDE DEF n, r
  <2>3. QED
    BY <1>2, <1>3, <2>1, <2>2, IteratesAgree
<1>8. QED
  BY <1>2, <1>3, <1>6, <1>7

\* A fold stays where every application of its operator stays.
LEMMA FoldType ==
  ASSUME NEW T, NEW Typ, NEW start \in Typ, \A x \in Typ, e \in T : Op(x, e) \in Typ,
         NEW s \in Seq(T)
  PROVE  Fold(start, s) \in Typ
<1> DEFINE S == {r \in Seq(T) : Fold(start, r) \in Typ}
<1>1. <<>> \in S
  BY FoldEmpty
<1>2. ASSUME NEW r \in Seq(T), r \in S, NEW e \in T
      PROVE  Append(r, e) \in S
  <2>1. Fold(start, Append(r, e)) = Op(Fold(start, r), e)
    BY FoldAppend
  <2>2. Append(r, e) \in Seq(T)
    OBVIOUS
  <2>3. QED
    BY <1>2, <2>1, <2>2
<1>3. Seq(T) \subseteq S
  <2> HIDE DEF S
  <2>1. QED
    BY <1>1, <1>2, Appending
<1>4. QED
  BY <1>3

\* A loop whose states before place i + 1 are in I[i] ends in the last of them.
LEMMA FoldSteps ==
  ASSUME NEW start, NEW T, NEW s \in Seq(T), NEW I, start \in I[0],
         \A i \in 0 .. Len(s) - 1 : \A x \in I[i] : Op(x, s[i + 1]) \in I[i + 1]
  PROVE  Fold(start, s) \in I[Len(s)]
<1> DEFINE At(i) == Fold(start, SubSeq(s, 1, i))
           S == {i \in Nat : i <= Len(s) => At(i) \in I[i]}
<1>1. 0 \in S
  <2>1. SubSeq(s, 1, 0) = <<>>
    OBVIOUS
  <2>2. At(0) = start
    BY <2>1, FoldEmpty
  <2>3. QED
    BY <2>2
<1>2. ASSUME NEW i \in Nat, i \in S PROVE i + 1 \in S
  <2> SUFFICES ASSUME i + 1 <= Len(s) PROVE At(i + 1) \in I[i + 1]
    OBVIOUS
  <2> DEFINE r == SubSeq(s, 1, i)
  <2>1. /\ r \in Seq(T) /\ s[i + 1] \in T /\ SubSeq(s, 1, i + 1) = Append(r, s[i + 1])
        /\ i \in 0 .. Len(s) - 1 /\ i <= Len(s)
    OBVIOUS
  <2>2. Fold(start, Append(r, s[i + 1])) = Op(Fold(start, r), s[i + 1])
    <3> HIDE DEF r
    <3>1. QED
      BY <2>1, FoldAppend
  <2>3. QED
    BY <1>2, <2>1, <2>2
<1>3. Len(s) \in S
  <2>1. Len(s) \in Nat
    OBVIOUS
  <2> HIDE DEF S
  <2>2. QED
    BY <1>1, <1>2, <2>1, Counting
<1>4. SubSeq(s, 1, Len(s)) = s /\ Len(s) \in Nat
  OBVIOUS
<1>5. Fold(start, SubSeq(s, 1, Len(s))) \in I[Len(s)]
  BY <1>3, <1>4
<1>6. QED
  BY <1>4, <1>5
=============================================================================
