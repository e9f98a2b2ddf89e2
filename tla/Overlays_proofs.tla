----------------------------- MODULE Overlays_proofs -----------------------------
(***************************************************************************)
(* What Overlay makes of sequences, for the proofs about the streams that  *)
(* write with it, and what these proofs need of numbers.                   *)
(***************************************************************************)
EXTENDS Overlays, Integers, SequenceTheorems, FiniteSetTheorems, WellFoundedInduction, TLAPS

\* The length of a sequence after d was written over it from p on.
Longer(a, b) == IF b > a THEN b ELSE a

\* o is s with d written over it from p on: d where it was written, and elsewhere what there was.
Written(o, s, p, d) ==
  /\ Len(o) = Longer(Len(s), p + Len(d))
  /\ \A i \in 1..Longer(Len(s), p + Len(d)) :
       o[i] = IF i \in (p + 1)..(p + Len(d)) THEN d[i - p] ELSE s[i]

LEMMA LeastType ==
  ASSUME NEW a \in Int, NEW b \in Int
  PROVE  /\ Least(a, b) \in Int /\ Least(a, b) <= a /\ Least(a, b) <= b
         /\ Least(a, b) = a \/ Least(a, b) = b
BY DEF Least

\* Writing at a position of a sequence gives a sequence.
LEMMA OverlayProperties ==
  ASSUME NEW S, NEW s \in Seq(S), NEW d \in Seq(S), NEW p \in 0..Len(s)
  PROVE  Overlay(s, p, d) \in Seq(S) /\ Written(Overlay(s, p, d), s, p, d)
<1> DEFINE n == Longer(Len(s), p + Len(d))
           o == Overlay(s, p, d)
<1>1. Len(s) \in Nat /\ Len(d) \in Nat /\ p \in Nat /\ p <= Len(s)
  BY LenProperties
<1>2. n \in Nat /\ n >= Len(s) /\ n >= p + Len(d) /\ (n = Len(s) \/ n = p + Len(d))
  BY <1>1 DEF Longer
<1>3. o = [i \in 1..n |-> IF i \in (p + 1)..(p + Len(d)) THEN d[i - p] ELSE s[i]]
  BY DEF Overlay, Longer
<1>4. ASSUME NEW i \in 1..n
      PROVE  (IF i \in (p + 1)..(p + Len(d)) THEN d[i - p] ELSE s[i]) \in S
  <2>1. CASE i \in (p + 1)..(p + Len(d))
    <3>1. i - p \in 1..Len(d)
      BY <1>1, <2>1
    <3>2. d[i - p] \in S
      BY <3>1, ElementOfSeq
    <3> QED
      BY <2>1, <3>2
  <2>2. CASE i \notin (p + 1)..(p + Len(d))
    <3>1. i \in 1..Len(s)
      BY <1>1, <1>2, <1>4, <2>2
    <3>2. s[i] \in S
      BY <3>1, ElementOfSeq
    <3> QED
      BY <2>2, <3>2
  <2> QED
    BY <2>1, <2>2
<1> HIDE DEF n, o
<1>5. o \in [1..n -> S] /\ DOMAIN o = 1..n
  BY <1>3, <1>4
<1>6. o \in Seq(S)
  BY <1>2, <1>5, SeqDef, Zenon
<1>7. Len(o) = n
  BY <1>2, <1>5, <1>6, LenProperties
<1>8. \A i \in 1..n : o[i] = IF i \in (p + 1)..(p + Len(d)) THEN d[i - p] ELSE s[i]
  BY <1>3
<1> QED
  BY <1>6, <1>7, <1>8, Zenon DEF n, o, Written

\* Writing nothing changes nothing.
LEMMA OverlayNothing ==
  ASSUME NEW S, NEW s \in Seq(S), NEW p \in 0..Len(s)
  PROVE  Overlay(s, p, <<>>) = s
<1>1. <<>> \in Seq(S) /\ Len(<<>>) = 0 /\ Len(s) \in Nat /\ p \in Nat /\ p <= Len(s)
  BY EmptySeq, LenProperties
<1>2. Longer(Len(s), p + 0) = Len(s)
  BY <1>1 DEF Longer
<1> DEFINE e == <<>>
<1>3. e \in Seq(S) /\ Len(e) = 0
  BY <1>1
<1> HIDE DEF e
<1>4. Overlay(s, p, e) \in Seq(S) /\ Written(Overlay(s, p, e), s, p, e)
  BY <1>3, OverlayProperties, Zenon
<1>5. Longer(Len(s), p + Len(e)) = Len(s) /\ \A i \in 1..Len(s) : i \notin (p + 1)..(p + Len(e))
  BY <1>1, <1>2, <1>3
<1>6. Len(Overlay(s, p, e)) = Len(s) /\ \A i \in 1..Len(s) : Overlay(s, p, e)[i] = s[i]
  BY <1>4, <1>5, Zenon DEF Written
<1>7. Overlay(s, p, e) = s
  BY <1>4, <1>6, SeqEqual, Zenon
<1> QED
  BY <1>7 DEF e

\* Writing into what is written over a sequence is writing over it further on.
LEMMA OverlayOverlay ==
  ASSUME NEW S, NEW s \in Seq(S), NEW w \in Seq(S), NEW d \in Seq(S),
         NEW p \in 0..Len(s), NEW q \in 0..Len(w)
  PROVE  Overlay(s, p, Overlay(w, q, d)) = Overlay(Overlay(s, p, w), p + q, d)
<1> DEFINE v == Overlay(w, q, d)
           t == Overlay(s, p, w)
           a == Overlay(s, p, v)
           b == Overlay(t, p + q, d)
<1>1. /\ Len(s) \in Nat /\ Len(w) \in Nat /\ Len(d) \in Nat /\ p \in Nat /\ q \in Nat
      /\ p <= Len(s) /\ q <= Len(w)
  BY LenProperties
<1>2. v \in Seq(S) /\ Written(v, w, q, d)
  BY OverlayProperties, Zenon
<1>3. t \in Seq(S) /\ Written(t, s, p, w)
  BY OverlayProperties, Zenon
<1> HIDE DEF v, t
<1>4. p + q \in 0..Len(t)
  BY <1>1, <1>3 DEF Longer, Written
<1>5. a \in Seq(S) /\ Written(a, s, p, v)
  BY <1>2, OverlayProperties, Zenon
<1>6. b \in Seq(S) /\ Written(b, t, p + q, d)
  BY <1>3, <1>4, OverlayProperties, Zenon
<1> HIDE DEF a, b
<1>7. Len(a) = Len(b) /\ Len(a) \in Nat
  BY <1>1, <1>2, <1>3, <1>5, <1>6 DEF Longer, Written
<1>8. ASSUME NEW i \in 1..Len(a) PROVE a[i] = b[i]
  <2>1. i \in Nat /\ i >= 1 /\ i <= Len(a)
    BY <1>7
  <2>2. CASE i \in (p + q + 1)..(p + q + Len(d))
    <3>1. i \in (p + 1)..(p + Len(v)) /\ i - p \in 1..Len(v) /\ i - p \in (q + 1)..(q + Len(d))
      BY <1>1, <1>2, <2>2 DEF Longer, Written
    <3>2. a[i] = v[i - p] /\ v[i - p] = d[(i - p) - q]
      BY <1>2, <1>5, <1>8, <3>1 DEF Written
    <3>3. b[i] = d[i - (p + q)] /\ i - (p + q) = (i - p) - q
      BY <1>1, <1>6, <1>7, <1>8, <2>1, <2>2 DEF Written
    <3> QED
      BY <3>2, <3>3
  <2>3. CASE i \notin (p + q + 1)..(p + q + Len(d)) /\ i \in (p + 1)..(p + Len(w))
    <3>1. i \in (p + 1)..(p + Len(v)) /\ i - p \in 1..Len(v) /\ i - p \notin (q + 1)..(q + Len(d))
      BY <1>1, <1>2, <2>1, <2>3 DEF Longer, Written
    <3>2. a[i] = v[i - p] /\ v[i - p] = w[i - p]
      BY <1>2, <1>5, <1>8, <3>1 DEF Written
    <3>3. i \in 1..Len(t)
      BY <1>1, <1>3, <2>1, <2>3 DEF Longer, Written
    <3>4. b[i] = t[i] /\ t[i] = w[i - p]
      BY <1>3, <1>6, <1>7, <1>8, <2>3, <3>3 DEF Written
    <3> QED
      BY <3>2, <3>4
  <2>4. CASE i \notin (p + q + 1)..(p + q + Len(d)) /\ i \notin (p + 1)..(p + Len(w))
    <3>1. i \notin (p + 1)..(p + Len(v)) /\ i \in 1..Len(t)
      BY <1>1, <1>2, <1>3, <1>5, <2>1, <2>4 DEF Longer, Written
    <3>2. a[i] = s[i]
      BY <1>5, <1>8, <3>1 DEF Written
    <3>3. b[i] = t[i] /\ t[i] = s[i]
      BY <1>3, <1>6, <1>7, <1>8, <2>4, <3>1 DEF Written
    <3> QED
      BY <3>2, <3>3
  <2> QED
    BY <2>2, <2>3, <2>4
<1>9. a = b
  BY <1>5, <1>6, <1>7, <1>8, SeqEqual
<1> QED
  BY <1>9 DEF a, b, v, t

-----------------------------------------------------------------------------
(* Parts of sequences *)

\* x is what f holds from behind its first a elements to its b-th.
IsPart(x, f, a, b) == Len(x) = b - a /\ \A i \in 1..(b - a) : x[i] = f[a + i]

LEMMA PartOfSeq ==
  ASSUME NEW S, NEW f \in Seq(S), NEW a \in Nat, NEW b \in 0..Len(f), a <= b
  PROVE  SubSeq(f, a + 1, b) \in Seq(S) /\ IsPart(SubSeq(f, a + 1, b), f, a, b)
<1> DEFINE m == a + 1
           x == SubSeq(f, m, b)
<1>1. m \in Int /\ b \in Int /\ Len(f) \in Nat /\ b - m + 1 = b - a
  BY LenProperties
<1>2. \A i \in m..b : f[i] \in S
  BY <1>1, ElementOfSeq
<1>3. \A i \in 1..(b - a) : m + i - 1 = a + i
  OBVIOUS
<1>4. m <= b \/ b - a = 0
  BY <1>1
<1> HIDE DEF m
<1>5. x \in Seq(S)
  BY <1>1, <1>2, SubSeqProperties
<1>6. Len(x) = IF m <= b THEN b - m + 1 ELSE 0
  BY <1>1, <1>2, SubSeqProperties
<1>7. \A i \in 1..(b - m + 1) : x[i] = f[m + i - 1]
  BY <1>1, <1>2, SubSeqProperties
<1> HIDE DEF x
<1>8. Len(x) = b - a
  <2>1. CASE m <= b
    BY <1>1, <1>6, <2>1
  <2>2. CASE ~(m <= b)
    BY <1>4, <1>6, <2>2
  <2> QED
    BY <2>1, <2>2
<1>9. \A i \in 1..(b - a) : x[i] = f[a + i]
  BY <1>1, <1>3, <1>7
<1>10. x \in Seq(S) /\ IsPart(x, f, a, b)
  BY <1>5, <1>8, <1>9, Zenon DEF IsPart
<1> QED
  BY <1>10, Zenon DEF x, m

\* The same elements make the same sequence.
LEMMA PartsEqual ==
  ASSUME NEW S, NEW x \in Seq(S), NEW y \in Seq(S), Len(x) = Len(y), \A i \in 1..Len(x) : x[i] = y[i]
  PROVE  x = y
BY SeqEqual, Zenon

\* There is one such part.
LEMMA PartIsSubSeq ==
  ASSUME NEW S, NEW f \in Seq(S), NEW a \in Nat, NEW b \in 0..Len(f), a <= b,
         NEW x \in Seq(S), IsPart(x, f, a, b)
  PROVE  x = SubSeq(f, a + 1, b)
<1> DEFINE y == SubSeq(f, a + 1, b)
<1>1. y \in Seq(S) /\ IsPart(y, f, a, b)
  BY PartOfSeq, Zenon
<1> HIDE DEF y
<1>2. Len(x) = b - a /\ Len(y) = b - a /\ \A i \in 1..(b - a) : x[i] = y[i]
  BY <1>1 DEF IsPart
<1>3. x = y
  BY <1>1, <1>2, PartsEqual
<1> QED
  BY <1>3 DEF y

\* A part of a part is the part of the whole that lies there.
LEMMA PartOfPart ==
  ASSUME NEW S, NEW f \in Seq(S), NEW b \in 0..Len(f), NEW m \in 0..b, NEW g \in Seq(S),
         IsPart(g, f, b - m, b), NEW r \in 0..m, NEW k \in 0..(m - r)
  PROVE  SubSeq(g, r + 1, r + k) = SubSeq(f, (b - m + r) + 1, (b - m + r) + k)
<1> DEFINE c == b - m + r
           x == SubSeq(g, r + 1, r + k)
           y == SubSeq(f, c + 1, c + k)
<1>1. Len(f) \in Nat /\ b \in Nat /\ m \in Nat /\ r \in Nat /\ k \in Nat /\ m <= b /\ r + k <= m /\ b <= Len(f)
  BY LenProperties
<1>2. b - m \in Nat /\ b - (b - m) = m
  BY <1>1
<1>3. Len(g) = m /\ \A i \in 1..m : g[i] = f[(b - m) + i]
  BY <1>2 DEF IsPart
<1>4. r + k \in 0..Len(g) /\ r <= r + k /\ c \in Nat /\ c + k \in 0..Len(f) /\ c <= c + k
      /\ (r + k) - r = k /\ (c + k) - c = k
  BY <1>1, <1>3
<1>5. \A i \in 1..k : r + i \in 1..m /\ (b - m) + (r + i) = c + i
  BY <1>1
<1> HIDE DEF c, x, y
<1>6. x \in Seq(S) /\ IsPart(x, g, r, r + k)
  BY <1>1, <1>4, PartOfSeq, Zenon DEF x
<1>7. y \in Seq(S) /\ IsPart(y, f, c, c + k)
  BY <1>4, PartOfSeq, Zenon DEF y
<1>8. Len(x) = k /\ \A i \in 1..k : x[i] = g[r + i]
  BY <1>4, <1>6 DEF IsPart
<1>9. Len(y) = k /\ \A i \in 1..k : y[i] = f[c + i]
  BY <1>4, <1>7 DEF IsPart
<1>10. ASSUME NEW i \in 1..k PROVE x[i] = y[i]
  <2>1. r + i \in 1..m /\ (b - m) + (r + i) = c + i
    BY <1>5
  <2>2. g[r + i] = f[c + i]
    BY <1>3, <2>1
  <2> QED
    BY <1>8, <1>9, <2>2
<1>11. x = y
  BY <1>6, <1>7, <1>8, <1>9, <1>10, PartsEqual, Zenon
<1> QED
  BY <1>11 DEF x, y, c

\* A part and the part behind it make one.
LEMMA PartsJoin ==
  ASSUME NEW S, NEW f \in Seq(S), NEW a \in Nat, NEW b \in Nat, NEW c \in 0..Len(f), a <= b, b <= c,
         NEW x \in Seq(S), NEW y \in Seq(S), IsPart(x, f, a, b), IsPart(y, f, b, c)
  PROVE  x \o y \in Seq(S) /\ IsPart(x \o y, f, a, c)
<1> DEFINE m == Len(x)
           n == Len(y)
           z == x \o y
<1>1. m \in Nat /\ n \in Nat /\ c \in Nat /\ m = b - a /\ n = c - b /\ m + n = c - a
  BY LenProperties DEF IsPart
<1>2. z \in Seq(S) /\ Len(z) = m + n /\ \A i \in 1..(m + n) : z[i] = IF i <= m THEN x[i] ELSE y[i - m]
  BY ConcatProperties
<1>3. (\A i \in 1..m : x[i] = f[a + i]) /\ (\A i \in 1..n : y[i] = f[b + i])
  BY <1>1 DEF IsPart
<1> HIDE DEF m, n, z
<1>4. ASSUME NEW i \in 1..(m + n) PROVE z[i] = f[a + i]
  <2>1. CASE i <= m
    <3>1. i \in 1..m
      BY <1>1, <1>4, <2>1
    <3> QED
      BY <1>2, <1>3, <2>1, <3>1
  <2>2. CASE ~(i <= m)
    <3>1. i - m \in 1..n /\ b + (i - m) = a + i
      BY <1>1, <1>4, <2>2
    <3> QED
      BY <1>2, <1>3, <2>2, <3>1
  <2> QED
    BY <2>1, <2>2
<1>5. z \in Seq(S) /\ Len(z) = c - a /\ \A i \in 1..(c - a) : z[i] = f[a + i]
  BY <1>1, <1>2, <1>4
<1>6. z \in Seq(S) /\ IsPart(z, f, a, c)
  BY <1>5, Zenon DEF IsPart
<1> QED
  BY <1>6 DEF z

-----------------------------------------------------------------------------
(* Writing at the end *)

\* The whole of a sequence.
LEMMA WholePart ==
  ASSUME NEW S, NEW s \in Seq(S)
  PROVE  SubSeq(s, 1, Len(s)) = s
<1>1. Len(s) \in Nat
  BY LenProperties
<1>2. 0 \in Nat /\ Len(s) \in 0..Len(s) /\ 0 <= Len(s) /\ 0 + 1 = 1
  BY <1>1
<1>3. IsPart(s, s, 0, Len(s))
  BY <1>1 DEF IsPart
<1>4. s = SubSeq(s, 0 + 1, Len(s))
  BY <1>2, <1>3, PartIsSubSeq, Zenon
<1> QED
  BY <1>2, <1>4

\* Writing at the end of a sequence appends.
LEMMA OverlayAtEnd ==
  ASSUME NEW S, NEW s \in Seq(S), NEW d \in Seq(S)
  PROVE  Overlay(s, Len(s), d) = s \o d
<1> DEFINE n == Len(s)
           o == Overlay(s, n, d)
           c == s \o d
<1>1. n \in Nat /\ n \in 0..Len(s) /\ Len(d) \in Nat
  BY LenProperties
<1>2. o \in Seq(S) /\ Written(o, s, n, d)
  BY <1>1, OverlayProperties, Zenon
<1>3. c \in Seq(S) /\ Len(c) = n + Len(d)
      /\ \A i \in 1..(n + Len(d)) : c[i] = IF i <= n THEN s[i] ELSE d[i - n]
  BY ConcatProperties
<1>4. Longer(n, n + Len(d)) = n + Len(d)
  BY <1>1 DEF Longer
<1>5. n = Len(s)
  OBVIOUS
<1> HIDE DEF n, o, c
<1>6. Len(o) = n + Len(d)
      /\ \A i \in 1..(n + Len(d)) : o[i] = IF i \in (n + 1)..(n + Len(d)) THEN d[i - n] ELSE s[i]
  BY <1>2, <1>4, <1>5 DEF Written
<1>7. ASSUME NEW i \in 1..(n + Len(d)) PROVE o[i] = c[i]
  <2>1. i \in (n + 1)..(n + Len(d)) <=> ~(i <= n)
    BY <1>1
  <2> QED
    BY <1>3, <1>6, <2>1, Zenon
<1>8. o = c
  BY <1>2, <1>3, <1>6, <1>7, PartsEqual, Zenon
<1> QED
  BY <1>8 DEF o, c, n

-----------------------------------------------------------------------------
(* Numbers *)

\* A set of numbers that is not empty has a least one: strict inclusion orders their initial
\* segments well.
LEMMA LeastInSet ==
  ASSUME NEW T \in SUBSET Nat, T # {}
  PROVE  \E x \in T : \A y \in T : x <= y
<1> DEFINE R == StrictSubsetOrdering(Nat)
           U == {1..x : x \in T}
<1>1. IsWellFoundedOn(R, FiniteSubsetsOf(Nat))
  BY FS_StrictSubsetOrderingWellFounded, Zenon
<1>2. U \subseteq FiniteSubsetsOf(Nat)
  <2>1. ASSUME NEW x \in T PROVE 1..x \in SUBSET Nat /\ IsFiniteSet(1..x)
    <3>1. x \in Nat /\ 1 \in Int /\ x \in Int
      OBVIOUS
    <3>2. IsFiniteSet(1..x)
      BY <3>1, FS_Interval, Zenon
    <3> QED
      BY <3>1, <3>2
  <2> QED
    BY <2>1, Zenon DEF FiniteSubsetsOf
<1>3. U # {}
  OBVIOUS
<1>4. ASSUME NEW x \in T, NEW y \in T, y < x PROVE <<1..y, 1..x>> \in R
  <2>1. 1..y \in SUBSET Nat /\ 1..x \in SUBSET Nat /\ 1..y \subseteq 1..x /\ x \in 1..x /\ x \notin 1..y
    BY <1>4
  <2>2. 1..y # 1..x
    BY <2>1
  <2> QED
    BY <2>1, <2>2 DEF StrictSubsetOrdering
<1> HIDE DEF R
<1>5. \E u \in U : \A v \in U : ~(<<v, u>> \in R)
  <2> HIDE DEF U
  <2> QED
    BY <1>1, <1>2, <1>3, WFMin, Zenon
<1>6. PICK x \in T : \A y \in T : ~(<<1..y, 1..x>> \in R)
  BY <1>5, Zenon
<1>7. \A y \in T : ~(y < x)
  BY <1>4, <1>6, Zenon
<1> QED
  BY <1>7

\* A set of numbers that has 0, and with each number up to m the next one, has all up to m.
LEMMA CountUp ==
  ASSUME NEW m \in Nat, NEW T, 0 \in T, \A i \in 0..(m - 1) : i \in T => i + 1 \in T
  PROVE  \A i \in 0..m : i \in T
<1> DEFINE N == {i \in 0..m : i \notin T}
<1> SUFFICES ASSUME N # {} PROVE FALSE
  OBVIOUS
<1>1. N \in SUBSET Nat
  OBVIOUS
<1>2. PICK x \in N : \A y \in N : x <= y
  BY <1>1, LeastInSet
<1>3. x \in 0..m /\ x \notin T /\ x # 0
  BY <1>2
<1>4. x - 1 \in 0..(m - 1) /\ x - 1 \in 0..m /\ (x - 1) + 1 = x /\ ~(x <= x - 1)
  BY <1>3
<1>5. x - 1 \in T
  BY <1>2, <1>4
<1> QED
  BY <1>3, <1>4, <1>5
=============================================================================
