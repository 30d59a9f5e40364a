------------------------------ MODULE ListLemmas ------------------------------
(***************************************************************************)
(* Facts about lists of any length that no theorem of the library states:  *)
(* what FlattenSeq and SumFunction of the community modules compute.       *)
(* Induction is over sets of numbers: a set that has 0 and with n also     *)
(* n + 1 is Nat.                                                           *)
(***************************************************************************)
EXTENDS Integers, SequencesExt, SequenceTheorems, FiniteSetTheorems,
        WellFoundedInduction, NaturalsInduction, TLAPS

-----------------------------------------------------------------------------
(* Induction *)

\* Every set of numbers that is not empty has a least one.
LEMMA LeastNumber ==
  ASSUME NEW T \in SUBSET Nat, T # {}
  PROVE  \E x \in T : \A y \in T : x <= y
  <1>1. \E x \in T : \A y \in T : ~(<<y, x>> \in OpToRel(<, Nat))
    BY NatLessThanWellFounded, WFMin, Zenon
  <1>2. \A x, y \in Nat : <<y, x>> \in OpToRel(<, Nat) <=> y < x
    BY DEF OpToRel
  <1>3. \E x \in T : \A y \in T : ~(y < x)
    BY <1>1, <1>2, Zenon
  <1> QED BY <1>3

\* A set that has 0 and the successor of each of its elements is Nat.
LEMMA Counting ==
  ASSUME NEW T \in SUBSET Nat, 0 \in T, \A n \in T : n + 1 \in T
  PROVE  T = Nat
  <1> SUFFICES ASSUME Nat \ T # {} PROVE FALSE
    OBVIOUS
  <1>1. PICK x \in Nat \ T : \A y \in Nat \ T : x <= y
    BY LeastNumber
  <1>2. x - 1 \in T
    BY <1>1
  <1> QED BY <1>1, <1>2

-----------------------------------------------------------------------------
(* Lists put together *)

\* FlattenSeq takes one list after the other.
Joins(f, ss, n) ==
  f = [i \in 1..n |-> IF i = 1 THEN ss[i] ELSE f[i - 1] \o ss[i]]

\* The recursion has a solution for lists of any number ...
LEMMA JoinsExists ==
  ASSUME NEW ss, NEW n \in Nat
  PROVE  \E f : Joins(f, ss, n)
  <1> DEFINE T == {m \in Nat : \E f : Joins(f, ss, m)}
  <1>1. 0 \in T
    <2>1. Joins(<<>>, ss, 0)
      BY DEF Joins
    <2> QED BY <2>1
  <1>2. ASSUME NEW m \in T PROVE m + 1 \in T
    <2>1. PICK f : Joins(f, ss, m)
      BY <1>2
    <2> DEFINE e == IF m = 0 THEN ss[1] ELSE f[m] \o ss[m + 1]
               g == [i \in 1..(m + 1) |-> IF i = m + 1 THEN e ELSE f[i]]
    <2>2. \A i \in 1..m : f[i] = IF i = 1 THEN ss[i] ELSE f[i - 1] \o ss[i]
      BY <2>1 DEF Joins
    <2> m \in Nat
      BY <1>2
    <2> HIDE DEF e, T
    <2>3. DOMAIN g = 1..(m + 1) /\ g[m + 1] = e /\ \A i \in 1..m : g[i] = f[i]
      OBVIOUS
    <2>4. ASSUME NEW i \in 1..(m + 1)
          PROVE  g[i] = IF i = 1 THEN ss[i] ELSE g[i - 1] \o ss[i]
      <3>1. CASE i \in 1..m
        <4>1. i # 1 => i - 1 \in 1..m
          BY <2>3, <3>1
        <4> HIDE DEF g
        <4> QED BY <2>2, <2>3, <3>1, <4>1
      <3>2. CASE i = m + 1
        <4>1. i = 1 <=> m = 0
          BY <2>3, <3>2
        <4>2. i # 1 => g[i - 1] = f[m]
          BY <2>3, <3>2
        <4> HIDE DEF g
        <4> QED BY <2>3, <3>2, <4>1, <4>2 DEF e
      <3> QED BY <2>3, <3>1, <3>2
    <2>5. g = [i \in 1..(m + 1) |-> g[i]]
      OBVIOUS
    <2> HIDE DEF g
    <2>6. Joins(g, ss, m + 1)
      BY <2>4, <2>5 DEF Joins
    <2> QED BY <2>6 DEF T
  <1> HIDE DEF T
  <1>3. T = Nat
    BY <1>1, <1>2, Counting DEF T
  <1> QED BY <1>3 DEF T

\* ... and FlattenSeq is its last value.
LEMMA FlattenJoins ==
  ASSUME NEW ss, Len(ss) \in Nat \ {0}
  PROVE  \E f : /\ FlattenSeq(ss) = f[Len(ss)]
                /\ \A i \in 1..Len(ss) :
                     f[i] = IF i = 1 THEN ss[i] ELSE f[i - 1] \o ss[i]
  <1> DEFINE n == Len(ss)
             f == CHOOSE f : f = [i \in 1..n |-> IF i = 1 THEN ss[i] ELSE f[i - 1] \o ss[i]]
  <1>1. FlattenSeq(ss) = f[n]
    BY DEF FlattenSeq
  <1>2. \E g : g = [i \in 1..n |-> IF i = 1 THEN ss[i] ELSE g[i - 1] \o ss[i]]
    BY JoinsExists DEF Joins
  <1>3. f = [i \in 1..n |-> IF i = 1 THEN ss[i] ELSE f[i - 1] \o ss[i]]
    BY <1>2
  <1> HIDE DEF f
  <1>4. \A i \in 1..n : f[i] = IF i = 1 THEN ss[i] ELSE f[i - 1] \o ss[i]
    BY <1>3
  <1> QED BY <1>1, <1>4

\* Element k of block w, with l blocks, is within the whole.
LEMMA PositionWithin ==
  ASSUME NEW size \in Nat, NEW l \in Nat, NEW w \in 1..l, NEW k \in 1..size
  PROVE  /\ (w - 1) * size \in Nat /\ l * size \in Nat
         /\ (w - 1) * size + k \in 1..(l * size)
  <1>1. (w - 1) * size \in Nat /\ l * size \in Nat /\ (l - w) * size \in Nat
    OBVIOUS
  <1>2. l * size = (w - 1) * size + size + (l - w) * size
    BY Z3
  <1> QED BY <1>1, <1>2

\* Two lists in a row.
LEMMA AppendAt ==
  ASSUME NEW S, NEW a \in Seq(S), NEW b \in Seq(S)
  PROVE  /\ a \o b \in Seq(S)
         /\ Len(a \o b) = Len(a) + Len(b)
         /\ \A i \in 1..Len(a) : (a \o b)[i] = a[i]
         /\ \A i \in 1..Len(b) : (a \o b)[Len(a) + i] = b[i]
  OBVIOUS

\* Lists of equal length: where each element ends up.
InRows(s, ss, size) ==
  /\ Len(s) = Len(ss) * size
  /\ \A w \in 1..Len(ss), k \in 1..size : s[(w - 1) * size + k] = ss[w][k]

LEMMA FlattenEqual ==
  ASSUME NEW S, NEW ss \in Seq(Seq(S)), NEW size \in Nat,
         \A w \in 1..Len(ss) : Len(ss[w]) = size
  PROVE  FlattenSeq(ss) \in Seq(S) /\ InRows(FlattenSeq(ss), ss, size)
  <1> DEFINE n == Len(ss)
  <1>1. CASE n = 0
    <2>1. FlattenSeq(ss) = <<>>
      BY <1>1 DEF FlattenSeq
    <2> QED BY <1>1, <2>1 DEF InRows
  <1>2. CASE n # 0
    <2> n \in Nat \ {0}
      BY <1>2
    <2>1. PICK f : /\ FlattenSeq(ss) = f[n]
                   /\ \A i \in 1..n : f[i] = IF i = 1 THEN ss[i] ELSE f[i - 1] \o ss[i]
      BY FlattenJoins
    <2> DEFINE Right(m) == /\ f[m] \in Seq(S)
                           /\ Len(f[m]) = m * size
                           /\ \A w \in 1..m, k \in 1..size :
                                f[m][(w - 1) * size + k] = ss[w][k]
               T == {m \in Nat : m + 1 \in 1..n => Right(m + 1)}
    <2>2. \A w \in 1..n : ss[w] \in Seq(S) /\ Len(ss[w]) = size
      OBVIOUS
    <2> HIDE DEF n
    <2>3. 0 \in T
      <3>1. f[1] = ss[1]
        BY <2>1
      <3>2. Right(1)
        BY <2>2, <3>1
      <3> QED BY <3>2
    <2>4. ASSUME NEW m \in T PROVE m + 1 \in T
      <3> m \in Nat
        BY <2>4
      <3> SUFFICES ASSUME m + 2 \in 1..n PROVE Right(m + 2)
        OBVIOUS
      <3> HIDE DEF Right
      <3> DEFINE l == m + 1
      <3> l \in Nat /\ l \in 1..n /\ l + 1 \in 1..n
        OBVIOUS
      <3>1. Right(l)
        BY DEF T
      <3>2. f[l + 1] = f[l] \o ss[l + 1]
        <4> HIDE DEF l
        <4>1. l + 1 # 1 /\ (l + 1) - 1 = l
          OBVIOUS
        <4> QED BY <2>1, <4>1
      <3>3. Right(l + 1)
        <4> HIDE DEF l, T
        <4>1. /\ f[l] \in Seq(S) /\ Len(f[l]) = l * size
              /\ ss[l + 1] \in Seq(S) /\ Len(ss[l + 1]) = size
          BY <2>2, <3>1 DEF Right
        <4>2. l * size \in Nat /\ (l + 1) * size = l * size + size
          BY Z3
        <4> DEFINE a == f[l]
                   b == ss[l + 1]
                   c == f[l + 1]
        <4>5. /\ c \in Seq(S) /\ Len(c) = Len(a) + Len(b)
              /\ \A i \in 1..Len(a) : c[i] = a[i]
              /\ \A i \in 1..Len(b) : c[Len(a) + i] = b[i]
          <5> SUFFICES /\ a \o b \in Seq(S) /\ Len(a \o b) = Len(a) + Len(b)
                       /\ \A i \in 1..Len(a) : (a \o b)[i] = a[i]
                       /\ \A i \in 1..Len(b) : (a \o b)[Len(a) + i] = b[i]
            BY <3>2
          <5> a \in Seq(S) /\ b \in Seq(S)
            BY <4>1
          <5> HIDE DEF a, b
          <5> QED BY AppendAt
        <4>3. /\ f[l + 1] \in Seq(S)
              /\ Len(f[l + 1]) = (l + 1) * size
          BY <4>1, <4>2, <4>5
        <4>4. ASSUME NEW w \in 1..(l + 1), NEW k \in 1..size
              PROVE  f[l + 1][(w - 1) * size + k] = ss[w][k]
          <5>1. CASE w \in 1..l
            <6>1. (w - 1) * size + k \in 1..(l * size)
              BY <5>1, PositionWithin
            <6>2. f[l][(w - 1) * size + k] = ss[w][k]
              BY <3>1, <5>1 DEF Right
            <6> DEFINE i == (w - 1) * size + k
            <6> HIDE DEF i
            <6>3. i \in 1..Len(f[l]) /\ f[l][i] = ss[w][k]
              BY <4>1, <6>1, <6>2 DEF i
            <6>4. f[l + 1][i] = ss[w][k]
              BY <4>5, <6>3
            <6> QED BY <6>4 DEF i
          <5>2. CASE w = l + 1
            <6>1. (w - 1) * size + k = Len(f[l]) + k
              <7>1. w - 1 = l
                BY <5>2
              <7> QED BY <4>1, <7>1
            <6>2. f[l + 1][Len(f[l]) + k] = ss[l + 1][k]
              BY <4>1, <4>5
            <6> QED BY <5>2, <6>1, <6>2
          <5> QED BY <5>1, <5>2
        <4> QED BY <4>3, <4>4 DEF Right
      <3> HIDE DEF Right
      <3> QED BY <3>3
    <2>5. T = Nat
      <3> HIDE DEF Right
      <3>1. T \in SUBSET Nat
        OBVIOUS
      <3> HIDE DEF T
      <3> QED BY <2>3, <2>4, <3>1, Counting
    <2>6. Right(n)
      <3> HIDE DEF Right
      <3>1. n - 1 \in Nat /\ (n - 1) + 1 = n /\ n \in 1..n
        OBVIOUS
      <3> HIDE DEF T
      <3>2. n - 1 \in T
        BY <2>5, <3>1
      <3> QED BY <3>1, <3>2 DEF T
    <2> QED BY <2>1, <2>6 DEF n, InRows
  <1> QED BY <1>1, <1>2

-----------------------------------------------------------------------------
\* Element i of list s is element q[i] of the p[i]-th of n lists; the lists and
\* their elements come in order, and none is missing.
Places(s, ss, n, p, q) ==
  /\ \A i \in 1..Len(s) : /\ p[i] \in 1..n /\ q[i] \in 1..Len(ss[p[i]])
                          /\ s[i] = ss[p[i]][q[i]]
  /\ \A i, j \in 1..Len(s) : i < j => p[i] < p[j] \/ (p[i] = p[j] /\ q[i] < q[j])
  /\ \A w \in 1..n : \A k \in 1..Len(ss[w]) :
       \E i \in 1..Len(s) : p[i] = w /\ q[i] = k

\* One more list.
LEMMA PlacesAppend ==
  ASSUME NEW S, NEW n \in Nat, NEW ss, NEW s \in Seq(S), NEW b \in Seq(S),
         ss[n + 1] = b, NEW p, NEW q, Places(s, ss, n, p, q)
  PROVE  \E x, y : Places(s \o b, ss, n + 1, x, y)
  <1> DEFINE t == s \o b
             k == Len(s)
             l == Len(b)
             x == [i \in 1..(k + l) |-> IF i <= k THEN p[i] ELSE n + 1]
             y == [i \in 1..(k + l) |-> IF i <= k THEN q[i] ELSE i - k]
  <1>1. /\ k \in Nat /\ l \in Nat /\ Len(t) = k + l
        /\ \A i \in 1..k : t[i] = s[i]
        /\ \A i \in 1..l : t[k + i] = b[i]
    BY AppendAt
  <1>2. /\ \A i \in 1..k : p[i] \in 1..n /\ q[i] \in 1..Len(ss[p[i]]) /\ s[i] = ss[p[i]][q[i]]
        /\ \A i, j \in 1..k : i < j => p[i] < p[j] \/ (p[i] = p[j] /\ q[i] < q[j])
        /\ \A w \in 1..n : \A j \in 1..Len(ss[w]) :
             \E i \in 1..k : p[i] = w /\ q[i] = j
    BY DEF Places
  <1>3. /\ \A i \in 1..k : x[i] = p[i] /\ y[i] = q[i]
        /\ \A i \in 1..(k + l) : i > k => x[i] = n + 1 /\ y[i] = i - k
    BY <1>1
  <1> HIDE DEF t, k, l, x, y
  <1>4. ASSUME NEW i \in 1..(k + l)
        PROVE  x[i] \in 1..(n + 1) /\ y[i] \in 1..Len(ss[x[i]]) /\ t[i] = ss[x[i]][y[i]]
    <2>1. CASE i <= k
      <3>1. i \in 1..k
        BY <1>1, <2>1
      <3>2. x[i] = p[i] /\ y[i] = q[i] /\ t[i] = s[i]
        BY <1>1, <1>3, <3>1
      <3>3. p[i] \in 1..n /\ q[i] \in 1..Len(ss[p[i]]) /\ s[i] = ss[p[i]][q[i]]
        BY <1>2, <3>1
      <3>4. p[i] \in 1..(n + 1)
        BY <3>3
      <3> QED BY <3>2, <3>3, <3>4
    <2>2. CASE i > k
      <3>1. i - k \in 1..l /\ k + (i - k) = i
        BY <1>1, <2>2
      <3>2. t[i] = b[i - k]
        BY <1>1, <3>1
      <3>3. x[i] = n + 1 /\ y[i] = i - k
        BY <1>3, <2>2
      <3> QED BY <3>1, <3>2, <3>3 DEF l
    <2> QED BY <1>1, <2>1, <2>2
  <1>5. ASSUME NEW i \in 1..(k + l), NEW j \in 1..(k + l), i < j
        PROVE  x[i] < x[j] \/ (x[i] = x[j] /\ y[i] < y[j])
    <2>1. CASE j <= k
      <3>1. i \in 1..k /\ j \in 1..k
        BY <1>1, <1>5, <2>1
      <3>2. p[i] < p[j] \/ (p[i] = p[j] /\ q[i] < q[j])
        BY <1>2, <1>5, <3>1
      <3> QED BY <1>3, <3>1, <3>2
    <2>2. CASE i <= k /\ j > k
      <3>1. x[i] \in 1..n /\ x[j] = n + 1
        BY <1>1, <1>2, <1>3, <2>2
      <3> QED BY <3>1
    <2>3. CASE i > k
      BY <1>1, <1>3, <1>5, <2>3
    <2> QED BY <1>1, <1>5, <2>1, <2>2, <2>3
  <1>6. ASSUME NEW w \in 1..(n + 1), NEW j \in 1..Len(ss[w])
        PROVE  \E i \in 1..(k + l) : x[i] = w /\ y[i] = j
    <2>1. CASE w \in 1..n
      <3>1. PICK i \in 1..k : p[i] = w /\ q[i] = j
        BY <1>2, <2>1
      <3>2. i \in 1..(k + l)
        BY <1>1
      <3> QED BY <1>3, <3>1, <3>2
    <2>2. CASE w = n + 1
      <3>1. j \in 1..l
        BY <2>2 DEF l
      <3>2. k + j \in 1..(k + l) /\ k + j > k /\ (k + j) - k = j
        BY <1>1, <3>1
      <3> QED BY <1>3, <2>2, <3>2
    <2> QED BY <2>1, <2>2
  <1>7. Places(t, ss, n + 1, x, y)
    BY <1>1, <1>4, <1>5, <1>6 DEF Places
  <1> QED BY <1>7 DEF t

\* What FlattenSeq makes of any lists.
LEMMA FlattenPlaces ==
  ASSUME NEW S, NEW ss \in Seq(Seq(S))
  PROVE  /\ FlattenSeq(ss) \in Seq(S)
         /\ \E p, q : Places(FlattenSeq(ss), ss, Len(ss), p, q)
  <1> DEFINE n == Len(ss)
  <1>1. CASE n = 0
    <2>1. FlattenSeq(ss) = <<>>
      BY <1>1 DEF FlattenSeq
    <2>2. Places(<<>>, ss, 0, <<>>, <<>>)
      BY DEF Places
    <2> QED BY <1>1, <2>1, <2>2
  <1>2. CASE n # 0
    <2>1. PICK f : /\ FlattenSeq(ss) = f[n]
                   /\ \A i \in 1..n : f[i] = IF i = 1 THEN ss[i] ELSE f[i - 1] \o ss[i]
      BY <1>2, FlattenJoins
    <2> DEFINE joined(m) == IF m = 0 THEN <<>> ELSE f[m]
               Right(m) == /\ joined(m) \in Seq(S)
                           /\ \E p, q : Places(joined(m), ss, m, p, q)
               T == {m \in Nat : m <= n => Right(m)}
    <2>2. n \in Nat /\ \A w \in 1..n : ss[w] \in Seq(S)
      OBVIOUS
    <2> HIDE DEF n
    <2>3. Right(0)
      <3>1. Places(<<>>, ss, 0, <<>>, <<>>)
        BY DEF Places
      <3> QED BY <3>1
    <2>4. ASSUME NEW m \in Nat, m + 1 <= n, Right(m) PROVE Right(m + 1)
      <3>1. m + 1 \in 1..n /\ m + 1 # 0 /\ (m + 1) - 1 = m /\ (m + 1 = 1 <=> m = 0)
        BY <2>2, <2>4
      <3>2. ss[m + 1] \in Seq(S)
        BY <2>2, <3>1
      <3>3. joined(m + 1) = joined(m) \o ss[m + 1]
        <4>1. CASE m = 0
          BY <2>1, <3>1, <3>2, <4>1
        <4>2. CASE m # 0
          BY <2>1, <3>1, <4>2
        <4> QED BY <4>1, <4>2
      <3>4. joined(m) \in Seq(S) /\ \E p, q : Places(joined(m), ss, m, p, q)
        BY <2>4
      <3> HIDE DEF joined
      <3>5. \E p, q : Places(joined(m) \o ss[m + 1], ss, m + 1, p, q)
        BY <3>2, <3>4, PlacesAppend
      <3>6. joined(m + 1) \in Seq(S)
        BY <3>2, <3>3, <3>4, AppendAt
      <3> QED BY <3>3, <3>5, <3>6
    <2>5. T = Nat
      <3> HIDE DEF Right
      <3>1. 0 \in T
        BY <2>2, <2>3
      <3>2. ASSUME NEW m \in T PROVE m + 1 \in T
        BY <2>2, <2>4
      <3>3. T \in SUBSET Nat
        OBVIOUS
      <3> HIDE DEF T
      <3> QED BY <3>1, <3>2, <3>3, Counting
    <2>6. Right(n)
      <3> HIDE DEF Right
      <3>1. n \in T /\ n <= n
        BY <2>2, <2>5
      <3> QED BY <3>1
    <2>7. joined(n) = FlattenSeq(ss)
      BY <1>2, <2>1 DEF n
    <2> HIDE DEF joined
    <2> QED BY <2>6, <2>7 DEF n
  <1> QED BY <1>1, <1>2

-----------------------------------------------------------------------------
(* Sums *)

\* A family of subsets of S that has the empty set, and each set that it has
\* without any one of its elements, has them all.
LEMMA SubsetInduction ==
  ASSUME NEW S, IsFiniteSet(S), NEW W \in SUBSET SUBSET S, {} \in W,
         \A s \in SUBSET S : s # {} /\ (\A y \in s : s \ {y} \in W) => s \in W
  PROVE  W = SUBSET S
  <1> DEFINE T == {n \in Nat : \A s \in SUBSET S : Cardinality(s) = n => s \in W}
  <1>1. \A s \in SUBSET S : IsFiniteSet(s) /\ Cardinality(s) \in Nat
    BY FS_Subset, FS_CardinalityType
  <1>2. 0 \in T
    <2>1. \A s \in SUBSET S : Cardinality(s) = 0 => s = {}
      BY <1>1, FS_EmptySet
    <2> QED BY <2>1
  <1>3. ASSUME NEW n \in T PROVE n + 1 \in T
    <2> SUFFICES ASSUME NEW s \in SUBSET S, Cardinality(s) = n + 1 PROVE s \in W
      BY <1>3
    <2>1. \A y \in s : Cardinality(s \ {y}) = n
      BY <1>1, FS_RemoveElement
    <2>2. s # {}
      BY FS_EmptySet
    <2>3. \A y \in s : s \ {y} \in W
      BY <1>3, <2>1
    <2> QED BY <2>2, <2>3
  <1>4. T = Nat
    <2>1. T \in SUBSET Nat
      OBVIOUS
    <2> HIDE DEF T
    <2> QED BY <1>2, <1>3, <2>1, Counting
  <1> QED BY <1>1, <1>4

\* h adds up f over every set of S.
OneOf(s) == CHOOSE x \in s : TRUE
Adds(h, f, S) ==
  h = [s \in S |-> IF s = {} THEN 0 ELSE f[OneOf(s)] + h[s \ {OneOf(s)}]]

\* There is a function that adds up f ...
LEMMA AddsExists ==
  ASSUME NEW S, IsFiniteSet(S), NEW f
  PROVE  \E h : Adds(h, f, SUBSET S)
  <1> DEFINE Upto(n) == {s \in SUBSET S : Cardinality(s) <= n}
             T == {n \in Nat : \E h : Adds(h, f, Upto(n))}
  <1>1. \A s \in SUBSET S : IsFiniteSet(s) /\ Cardinality(s) \in Nat
    BY FS_Subset, FS_CardinalityType
  <1>2. \A s \in SUBSET S : s # {} =>
          /\ OneOf(s) \in s /\ s \ {OneOf(s)} \in SUBSET S
          /\ Cardinality(s \ {OneOf(s)}) = Cardinality(s) - 1
    <2> SUFFICES ASSUME NEW s \in SUBSET S, s # {}
                 PROVE  /\ OneOf(s) \in s /\ s \ {OneOf(s)} \in SUBSET S
                        /\ Cardinality(s \ {OneOf(s)}) = Cardinality(s) - 1
      OBVIOUS
    <2>1. OneOf(s) \in s
      BY DEF OneOf
    <2> QED BY <1>1, <2>1, FS_RemoveElement
  <1>3. 0 \in T
    <2>1. \A s \in Upto(0) : s = {}
      BY <1>1, FS_EmptySet
    <2>2. Adds([s \in Upto(0) |-> 0], f, Upto(0))
      BY <2>1 DEF Adds
    <2> QED BY <2>2
  <1>4. ASSUME NEW n \in T PROVE n + 1 \in T
    <2> n \in Nat
      BY <1>4
    <2>1. PICK h : Adds(h, f, Upto(n))
      BY <1>4
    <2> DEFINE g == [s \in Upto(n + 1) |->
                       IF s \in Upto(n) THEN h[s] ELSE f[OneOf(s)] + h[s \ {OneOf(s)}]]
    <2>2. \A s \in Upto(n + 1) : s # {} => s \ {OneOf(s)} \in Upto(n)
      BY <1>1, <1>2
    <2>3. Upto(n) \subseteq Upto(n + 1) /\ (\A s \in Upto(n + 1) : s \in Upto(n) \/ s # {})
      BY <1>1, FS_EmptySet
    <2> HIDE DEF Upto
    <2>4. \A s \in Upto(n) : h[s] = IF s = {} THEN 0 ELSE f[OneOf(s)] + h[s \ {OneOf(s)}]
      BY <2>1 DEF Adds
    <2>5. \A s \in Upto(n) : g[s] = h[s]
      BY <2>3
    <2>6. \A s \in Upto(n + 1) :
            g[s] = IF s = {} THEN 0 ELSE f[OneOf(s)] + g[s \ {OneOf(s)}]
      <3> SUFFICES ASSUME NEW s \in Upto(n + 1)
                   PROVE  g[s] = IF s = {} THEN 0 ELSE f[OneOf(s)] + g[s \ {OneOf(s)}]
        OBVIOUS
      <3>1. s # {} => g[s \ {OneOf(s)}] = h[s \ {OneOf(s)}]
        BY <2>2, <2>5
      <3>2. g[s] = IF s \in Upto(n) THEN h[s] ELSE f[OneOf(s)] + h[s \ {OneOf(s)}]
        OBVIOUS
      <3> HIDE DEF g
      <3> QED BY <2>3, <2>4, <3>1, <3>2
    <2>7. g = [s \in Upto(n + 1) |-> g[s]]
      OBVIOUS
    <2> HIDE DEF g
    <2>8. Adds(g, f, Upto(n + 1))
      BY <2>6, <2>7 DEF Adds
    <2> QED BY <2>8
  <1>5. T = Nat
    <2>1. T \in SUBSET Nat
      OBVIOUS
    <2> HIDE DEF T
    <2> QED BY <1>3, <1>4, <2>1, Counting
  <1>6. Cardinality(S) \in T
    BY <1>5, FS_CardinalityType
  <1>7. Upto(Cardinality(S)) = SUBSET S
    BY FS_Subset
  <1> QED BY <1>6, <1>7

\* ... and SumFunction is its value for the whole domain.
LEMMA SumAdds ==
  ASSUME NEW f, IsFiniteSet(DOMAIN f)
  PROVE  \E h : Adds(h, f, SUBSET DOMAIN f) /\ SumFunction(f) = h[DOMAIN f]
  <1> DEFINE S == DOMAIN f
             h == CHOOSE h : h = [s \in SUBSET S |->
                    IF s = {} THEN 0 ELSE f[CHOOSE x \in s : TRUE] + h[s \ {CHOOSE x \in s : TRUE}]]
  <1>1. SumFunction(f) = h[S]
    BY DEF SumFunction, SumFunctionOnSet, FoldFunctionOnSet, MapThenFoldSet
  <1>2. h = CHOOSE k : Adds(k, f, SUBSET S)
    BY DEF Adds, OneOf
  <1>3. Adds(h, f, SUBSET S)
    <2> HIDE DEF h
    <2> QED BY <1>2, AddsExists
  <1> QED BY <1>1, <1>3

\* Any element may be added last.
Added(h, f, S) ==
  /\ h[{}] = 0
  /\ \A s \in SUBSET S : h[s] \in Int /\ \A y \in s : h[s] = f[y] + h[s \ {y}]

\* The order in which f is added up does not matter.
LEMMA AddsAny ==
  ASSUME NEW S, IsFiniteSet(S), NEW f \in [S -> Int], NEW h, Adds(h, f, SUBSET S)
  PROVE  Added(h, f, S)
  <1> DEFINE W == {s \in SUBSET S : h[s] \in Int /\ \A y \in s : h[s] = f[y] + h[s \ {y}]}
  <1>1. \A s \in SUBSET S : h[s] = IF s = {} THEN 0 ELSE f[OneOf(s)] + h[s \ {OneOf(s)}]
    BY DEF Adds
  <1>2. h[{}] = 0
    BY <1>1
  <1>5. \A s \in SUBSET S : h[s] \in Int
    <2> DEFINE V == {s \in SUBSET S : h[s] \in Int}
    <2>1. {} \in V /\ V \in SUBSET SUBSET S
      BY <1>2
    <2>2. ASSUME NEW s \in SUBSET S, s # {}, \A y \in s : s \ {y} \in V
          PROVE  s \in V
      <3>1. OneOf(s) \in s
        BY <2>2 DEF OneOf
      <3>2. f[OneOf(s)] \in Int /\ h[s \ {OneOf(s)}] \in Int
        BY <2>2, <3>1
      <3>3. h[s] = f[OneOf(s)] + h[s \ {OneOf(s)}]
        BY <1>1, <2>2
      <3>4. h[s] \in Int
        BY <3>2, <3>3
      <3> QED BY <3>4
    <2>3. V = SUBSET S
      <3> HIDE DEF V
      <3> QED BY <2>1, <2>2, SubsetInduction
    <2> QED BY <2>3
  <1>3. ASSUME NEW s \in SUBSET S, s # {}, \A y \in s : s \ {y} \in W
        PROVE  s \in W
    <2> DEFINE x == OneOf(s)
    <2>1. x \in s
      BY <1>3 DEF OneOf
    <2>2. h[s] = f[x] + h[s \ {x}]
      BY <1>1, <1>3
    <2> HIDE DEF x
    <2>3. \A y \in s : f[y] \in Int /\ h[s \ {y}] \in Int
      BY <1>3
    <2>4. ASSUME NEW y \in s PROVE h[s] = f[y] + h[s \ {y}]
      <3>1. CASE y = x
        BY <2>2, <3>1
      <3>2. CASE y # x
        <4>1. h[s \ {x}] = f[y] + h[(s \ {x}) \ {y}]
          BY <1>3, <2>1, <3>2
        <4>2. h[s \ {y}] = f[x] + h[(s \ {y}) \ {x}]
          BY <1>3, <2>1, <3>2
        <4>3. (s \ {x}) \ {y} = (s \ {y}) \ {x} /\ (s \ {x}) \ {y} \in SUBSET S
          OBVIOUS
        <4>4. h[(s \ {x}) \ {y}] \in Int
          BY <1>5, <4>3
        <4> DEFINE r == h[(s \ {x}) \ {y}]
        <4>5. h[s \ {x}] = f[y] + r /\ h[s \ {y}] = f[x] + r
          BY <4>1, <4>2, <4>3
        <4>6. f[x] \in Int /\ f[y] \in Int /\ r \in Int
          BY <2>1, <2>3, <4>4
        <4> HIDE DEF r
        <4> QED BY <2>2, <4>5, <4>6
      <3> QED BY <3>1, <3>2
    <2>5. h[s] \in Int
      BY <2>1, <2>2, <2>3
    <2> QED BY <2>4, <2>5
  <1>4. W = SUBSET S
    <2>1. {} \in W /\ W \in SUBSET SUBSET S
      BY <1>2
    <2> HIDE DEF W
    <2> QED BY <1>3, <2>1, SubsetInduction
  <1> QED BY <1>2, <1>4 DEF Added

\* Each term of f is c times its own term of g.
Terms(f, g, c, b, S, T) ==
  /\ b \in [S -> T] /\ \A x, y \in S : b[x] = b[y] => x = y
  /\ \A x \in S : f[x] = c * g[b[x]]

Matched(h, k, c, b, S) == \A s \in SUBSET S : h[s] = c * k[{b[x] : x \in s}]

\* Sums over sets that are images of each other.
LEMMA AddsMatch ==
  ASSUME NEW S, IsFiniteSet(S), NEW f \in [S -> Int], NEW h, Adds(h, f, SUBSET S),
         NEW T, IsFiniteSet(T), NEW g \in [T -> Int], NEW k, Adds(k, g, SUBSET T),
         NEW b, NEW c \in Int, Terms(f, g, c, b, S, T)
  PROVE  Matched(h, k, c, b, S)
  <1> DEFINE Im(s) == {b[x] : x \in s}
             W == {s \in SUBSET S : h[s] = c * k[Im(s)]}
  <1>1. h[{}] = 0 /\ \A s \in SUBSET S : h[s] \in Int /\ \A y \in s : h[s] = f[y] + h[s \ {y}]
    <2>1. Added(h, f, S)
      BY AddsAny
    <2> QED BY <2>1 DEF Added
  <1>2. k[{}] = 0 /\ \A s \in SUBSET T : k[s] \in Int /\ \A y \in s : k[s] = g[y] + k[s \ {y}]
    <2>1. Added(k, g, T)
      BY AddsAny
    <2> QED BY <2>1 DEF Added
  <1>0. /\ b \in [S -> T] /\ \A x, y \in S : b[x] = b[y] => x = y
        /\ \A x \in S : f[x] = c * g[b[x]]
    BY DEF Terms
  <1>3. {} \in W
    <2>1. Im({}) = {}
      OBVIOUS
    <2>2. h[{}] = c * k[Im({})]
      <3>1. k[Im({})] = 0
        BY <1>2, <2>1
      <3>2. h[{}] = 0
        BY <1>1
      <3> QED BY <3>1, <3>2
    <2> QED BY <2>2
  <1>4. ASSUME NEW s \in SUBSET S, s # {}, \A y \in s : s \ {y} \in W
        PROVE  s \in W
    <2>1. PICK y : y \in s
      BY <1>4
    <2>2. Im(s) \in SUBSET T /\ b[y] \in Im(s) /\ Im(s) \ {b[y]} = Im(s \ {y})
      BY <1>0, <2>1
    <2>3. h[s] = f[y] + h[s \ {y}] /\ f[y] = c * g[b[y]] /\ g[b[y]] \in Int
      BY <1>0, <1>1, <2>1
    <2>4. h[s \ {y}] = c * k[Im(s \ {y})]
      BY <1>4, <2>1
    <2>5. k[Im(s)] = g[b[y]] + k[Im(s \ {y})] /\ k[Im(s \ {y})] \in Int
      <3> HIDE DEF Im
      <3>1. k[Im(s)] = g[b[y]] + k[Im(s) \ {b[y]}]
        BY <1>2, <2>2
      <3>2. Im(s) \ {b[y]} \in SUBSET T
        BY <2>2
      <3>3. k[Im(s) \ {b[y]}] \in Int
        BY <1>2, <3>2
      <3> QED BY <2>2, <3>1, <3>3
    <2> DEFINE u == g[b[y]]
               v == k[Im(s \ {y})]
    <2>6. h[s] = c * u + c * v /\ k[Im(s)] = u + v
      BY <2>3, <2>4, <2>5
    <2>7. u \in Int /\ v \in Int
      BY <2>3, <2>5
    <2> HIDE DEF u, v
    <2>8. c * (u + v) = c * u + c * v
      BY <2>7, Z3
    <2>9. h[s] = c * k[Im(s)]
      BY <2>6, <2>8
    <2> QED BY <2>9
  <1>5. W = SUBSET S
    <2>1. W \in SUBSET SUBSET S
      OBVIOUS
    <2> HIDE DEF W
    <2> QED BY <1>3, <1>4, <2>1, SubsetInduction
  <1> QED BY <1>5 DEF Matched

\* The sum of integers is one.
LEMMA SumType ==
  ASSUME NEW S, IsFiniteSet(S), NEW f \in [S -> Int]
  PROVE  SumFunction(f) \in Int
  <1>1. PICK h : Adds(h, f, SUBSET S) /\ SumFunction(f) = h[S]
    BY SumAdds
  <1>2. Added(h, f, S)
    BY <1>1, AddsAny
  <1> QED BY <1>1, <1>2 DEF Added

\* The sum of nothing is 0.
LEMMA SumNone == ASSUME NEW f, DOMAIN f = {} PROVE SumFunction(f) = 0
  <1>1. PICK h : Adds(h, f, SUBSET {}) /\ SumFunction(f) = h[{}]
    BY SumAdds, FS_EmptySet
  <1> QED BY <1>1 DEF Adds

\* A sum over one set is a multiple of one over another, if its terms are.
LEMMA SumMatch ==
  ASSUME NEW S, IsFiniteSet(S), NEW f \in [S -> Int],
         NEW T, IsFiniteSet(T), NEW g \in [T -> Int],
         NEW b, NEW c \in Int, Terms(f, g, c, b, S, T),
         \A y \in T : \E x \in S : b[x] = y
  PROVE  SumFunction(f) = c * SumFunction(g)
  <1>1. PICK h : Adds(h, f, SUBSET S) /\ SumFunction(f) = h[S]
    BY SumAdds
  <1>2. PICK k : Adds(k, g, SUBSET T) /\ SumFunction(g) = k[T]
    BY SumAdds
  <1>3. h[S] = c * k[{b[x] : x \in S}]
    <2>1. Matched(h, k, c, b, S)
      BY <1>1, <1>2, AddsMatch
    <2> QED BY <2>1 DEF Matched
  <1>4. {b[x] : x \in S} = T
    BY DEF Terms
  <1> QED BY <1>1, <1>2, <1>3, <1>4

\* g is f with one more term.
OneMore(f, g, S, y) ==
  /\ IsFiniteSet(S) /\ f \in [S -> Int] /\ y \notin S
  /\ g \in [S \cup {y} -> Int] /\ \A x \in S : g[x] = f[x]

\* Its sum has this term added.
LEMMA SumMore ==
  ASSUME NEW S, NEW f, NEW g, NEW y, OneMore(f, g, S, y)
  PROVE  SumFunction(g) = g[y] + SumFunction(f)
  <1> IsFiniteSet(S) /\ f \in [S -> Int] /\ y \notin S
    BY DEF OneMore
  <1> g \in [S \cup {y} -> Int] /\ \A x \in S : g[x] = f[x]
    BY DEF OneMore
  <1> DEFINE T == S \cup {y}
             b == [x \in S |-> x]
  <1>0. IsFiniteSet(T)
    BY FS_AddElement
  <1>1. PICK h : Adds(h, f, SUBSET S) /\ SumFunction(f) = h[S]
    BY SumAdds
  <1>2. PICK k : Adds(k, g, SUBSET T) /\ SumFunction(g) = k[T]
    BY <1>0, SumAdds
  <1>3. h[S] = 1 * k[{b[x] : x \in S}]
    <2>1. Terms(f, g, 1, b, S, T)
      BY DEF Terms
    <2>2. g \in [T -> Int]
      OBVIOUS
    <2> DEFINE c == 1
    <2> c \in Int /\ Terms(f, g, c, b, S, T)
      BY <2>1
    <2> HIDE DEF T, b, c
    <2>4. Matched(h, k, c, b, S)
      BY <1>0, <1>1, <1>2, <2>2, AddsMatch
    <2>3. Matched(h, k, 1, b, S)
      BY <2>4 DEF c
    <2> QED BY <2>3 DEF Matched
  <1>4. {b[x] : x \in S} = S /\ T \ {y} = S
    OBVIOUS
  <1>5. k[T] = g[y] + k[T \ {y}] /\ k[T \ {y}] \in Int
    <2>1. Added(k, g, T)
      <3> HIDE DEF T
      <3> QED BY <1>0, <1>2, AddsAny DEF T
    <2>2. y \in T /\ T \in SUBSET T /\ T \ {y} \in SUBSET T
      OBVIOUS
    <2> HIDE DEF T
    <2> QED BY <2>1, <2>2 DEF Added
  <1>6. SumFunction(f) = k[S]
    <2>1. k[S] \in Int
      BY <1>4, <1>5
    <2>2. h[S] = 1 * k[S]
      <3> HIDE DEF b
      <3> QED BY <1>3, <1>4
    <2> QED BY <1>1, <2>1, <2>2
  <1> QED BY <1>2, <1>4, <1>5, <1>6

\* h is what f adds up to over each subset of G: over disjoint ones the values
\* add up, and over one whose terms are bounded the value is, by its size.
Additive(h, f, G) ==
  \A s \in SUBSET G :
    /\ h[s] \in Int
    /\ \A t \in SUBSET G : s \cap t = {} => h[s \cup t] = h[s] + h[t]
    /\ \A lo, hi \in Int : (\A x \in s : lo <= f[x] /\ f[x] <= hi) =>
         Cardinality(s) * lo <= h[s] /\ h[s] <= Cardinality(s) * hi

\* A sum can be taken apart.
LEMMA SumParts ==
  ASSUME NEW G, IsFiniteSet(G), NEW f \in [G -> Int]
  PROVE  \E h : SumFunction(f) = h[G] /\ Additive(h, f, G)
  <1>1. PICK h : Adds(h, f, SUBSET G) /\ SumFunction(f) = h[G]
    BY SumAdds
  <1>2. h[{}] = 0 /\ \A s \in SUBSET G : h[s] \in Int /\ \A y \in s : h[s] = f[y] + h[s \ {y}]
    <2>1. Added(h, f, G)
      BY <1>1, AddsAny
    <2> QED BY <2>1 DEF Added
  <1>3. \A s \in SUBSET G : IsFiniteSet(s) /\ Cardinality(s) \in Nat
    BY FS_Subset, FS_CardinalityType
  <1>4. ASSUME NEW s \in SUBSET G
        PROVE  \A t \in SUBSET G : s \cap t = {} => h[s \cup t] = h[s] + h[t]
    <2> DEFINE V == {t \in SUBSET G : s \cap t = {} => h[s \cup t] = h[s] + h[t]}
    <2>1. {} \in V /\ V \in SUBSET SUBSET G
      <3>1. s \cup {} = s /\ h[s] \in Int
        BY <1>2
      <3> QED BY <1>2, <3>1
    <2>2. ASSUME NEW t \in SUBSET G, t # {}, \A y \in t : t \ {y} \in V
          PROVE  t \in V
      <3> SUFFICES ASSUME s \cap t = {} PROVE h[s \cup t] = h[s] + h[t]
        OBVIOUS
      <3>1. PICK y : y \in t
        BY <2>2
      <3> DEFINE u == t \ {y}
      <3>2. u \in SUBSET G /\ s \cap u = {} /\ (s \cup t) \ {y} = s \cup u
        BY <3>1
      <3>3. h[s \cup u] = h[s] + h[u]
        BY <2>2, <3>1, <3>2
      <3>4. h[s \cup t] = f[y] + h[s \cup u] /\ h[t] = f[y] + h[u]
        <4>1. s \cup t \in SUBSET G /\ y \in s \cup t
          BY <3>1
        <4> QED BY <1>2, <3>1, <3>2, <4>1
      <3>5. f[y] \in Int /\ h[s] \in Int /\ h[u] \in Int
        BY <1>2, <3>1, <3>2
      <3> HIDE DEF u
      <3> QED BY <3>3, <3>4, <3>5
    <2>3. V = SUBSET G
      <3> HIDE DEF V
      <3> QED BY <2>1, <2>2, SubsetInduction
    <2> QED BY <2>3
  <1>5. ASSUME NEW lo \in Int, NEW hi \in Int
        PROVE  \A s \in SUBSET G : (\A x \in s : lo <= f[x] /\ f[x] <= hi) =>
                 Cardinality(s) * lo <= h[s] /\ h[s] <= Cardinality(s) * hi
    <2> DEFINE Between(s) == \A x \in s : lo <= f[x] /\ f[x] <= hi
               V == {s \in SUBSET G : Between(s) =>
                       Cardinality(s) * lo <= h[s] /\ h[s] <= Cardinality(s) * hi}
    <2>1. {} \in V /\ V \in SUBSET SUBSET G
      <3>1. Cardinality({}) = 0
        BY FS_EmptySet
      <3> QED BY <1>2, <3>1
    <2>2. ASSUME NEW s \in SUBSET G, s # {}, \A y \in s : s \ {y} \in V
          PROVE  s \in V
      <3> SUFFICES ASSUME Between(s)
                   PROVE  Cardinality(s) * lo <= h[s] /\ h[s] <= Cardinality(s) * hi
        OBVIOUS
      <3>1. PICK y : y \in s
        BY <2>2
      <3> DEFINE u == s \ {y}
                 n == Cardinality(u)
                 m == h[u]
      <3>2. u \in SUBSET G /\ n \in Nat /\ Cardinality(s) = n + 1
        <4>1. Cardinality(u) = Cardinality(s) - 1
          BY <1>3, <3>1, FS_RemoveElement
        <4>2. u \in SUBSET G /\ Cardinality(u) \in Nat /\ Cardinality(s) \in Nat
          BY <1>3
        <4> HIDE DEF u
        <4> QED BY <4>1, <4>2
      <3>3. n * lo <= m /\ m <= n * hi
        BY <2>2, <3>1
      <3>4. h[s] = f[y] + m /\ m \in Int /\ f[y] \in Int /\ lo <= f[y] /\ f[y] <= hi
        BY <1>2, <3>1, <3>2
      <3> HIDE DEF n, m
      <3>5. n * lo \in Int /\ n * hi \in Int
        BY <3>2
      <3>6. (n + 1) * lo = n * lo + lo /\ (n + 1) * hi = n * hi + hi
        BY <3>2
      <3> QED BY <3>2, <3>3, <3>4, <3>5, <3>6
    <2>3. V = SUBSET G
      <3> HIDE DEF V
      <3> QED BY <2>1, <2>2, SubsetInduction
    <2> QED BY <2>3
  <1>6. Additive(h, f, G)
    BY <1>2, <1>4, <1>5 DEF Additive
  <1> QED BY <1>1, <1>6

-----------------------------------------------------------------------------
(* Recursion and induction along a list *)

\* The values of a recursion over 0..n whose step is a function.
Steps(f, n, base, step) ==
  f = [i \in 0..n |-> IF i = 0 THEN base ELSE step[<<i, f[i - 1]>>]]

LEMMA StepsExist ==
  ASSUME NEW n \in Nat, NEW base, NEW step
  PROVE  \E f : Steps(f, n, base, step)
  <1> DEFINE T == {m \in Nat : \E f : Steps(f, m, base, step)}
  <1>1. 0 \in T
    <2>1. Steps([i \in 0..0 |-> base], 0, base, step)
      BY DEF Steps
    <2> QED BY <2>1
  <1>2. ASSUME NEW m \in T PROVE m + 1 \in T
    <2> m \in Nat
      BY <1>2
    <2>1. PICK f : Steps(f, m, base, step)
      BY <1>2
    <2> DEFINE g == [i \in 0..(m + 1) |-> IF i = m + 1 THEN step[<<i, f[m]>>] ELSE f[i]]
    <2>2. \A i \in 0..m : f[i] = IF i = 0 THEN base ELSE step[<<i, f[i - 1]>>]
      BY <2>1 DEF Steps
    <2> HIDE DEF T
    <2>3. ASSUME NEW i \in 0..(m + 1)
          PROVE  g[i] = IF i = 0 THEN base ELSE step[<<i, g[i - 1]>>]
      <3>1. CASE i = m + 1
        <4>1. i # 0 /\ i - 1 = m /\ m \in 0..(m + 1) /\ m # m + 1
          BY <3>1
        <4> QED BY <3>1, <4>1
      <3>2. CASE i \in 0..m
        <4>1. i # m + 1 /\ (i # 0 => i - 1 \in 0..m /\ i - 1 \in 0..(m + 1) /\ i - 1 # m + 1)
          BY <3>2
        <4> QED BY <2>2, <3>2, <4>1
      <3> QED BY <3>1, <3>2
    <2>4. g = [i \in 0..(m + 1) |-> g[i]]
      OBVIOUS
    <2> HIDE DEF g
    <2>5. Steps(g, m + 1, base, step)
      BY <2>3, <2>4 DEF Steps
    <2> QED BY <2>5 DEF T
  <1> HIDE DEF T
  <1>3. T = Nat
    BY <1>1, <1>2, Counting DEF T
  <1> QED BY <1>3 DEF T

\* What holds of the base and is kept by every step holds all along.
LEMMA StepsWithin ==
  ASSUME NEW n \in Nat, NEW R, NEW f, f[0] \in R,
         \A i \in 1..n : f[i - 1] \in R => f[i] \in R
  PROVE  \A i \in 0..n : f[i] \in R
  <1> DEFINE T == {i \in Nat : i <= n => f[i] \in R}
  <1>1. 0 \in T
    OBVIOUS
  <1>2. ASSUME NEW i \in T PROVE i + 1 \in T
    <2> SUFFICES ASSUME i + 1 <= n PROVE f[i + 1] \in R
      BY <1>2
    <2>1. i + 1 \in 1..n /\ (i + 1) - 1 = i /\ f[i] \in R
      BY <1>2
    <2> QED BY <2>1
  <1> HIDE DEF T
  <1>3. T = Nat
    BY <1>1, <1>2, Counting DEF T
  <1> QED BY <1>3 DEF T

\* Such a recursion, with values in a set its step stays in, has a solution.
TypedSteps(f, n, R, base, step) ==
  /\ f = [i \in 0..n |-> f[i]] /\ f[0] = base
  /\ \A i \in 0..n : f[i] \in R
  /\ \A i \in 1..n : f[i] = step[<<i, f[i - 1]>>]

LEMMA StepsTyped ==
  ASSUME NEW n \in Nat, NEW R, NEW base \in R, NEW step \in [(1..n) \X R -> R]
  PROVE  \E f : TypedSteps(f, n, R, base, step)
  <1>1. PICK f : Steps(f, n, base, step)
    BY StepsExist
  <1>2. \A i \in 0..n : f[i] = IF i = 0 THEN base ELSE step[<<i, f[i - 1]>>]
    BY <1>1 DEF Steps
  <1>3. f[0] = base
    <2>1. 0 \in 0..n
      OBVIOUS
    <2> QED BY <1>2, <2>1
  <1>4. \A i \in 1..n : f[i] = step[<<i, f[i - 1]>>]
    <2> TAKE i \in 1..n
    <2>1. i \in 0..n /\ i # 0
      OBVIOUS
    <2> QED BY <1>2, <2>1
  <1>5. \A i \in 1..n : f[i - 1] \in R => f[i] \in R
    <2> SUFFICES ASSUME NEW i \in 1..n, f[i - 1] \in R PROVE f[i] \in R
      OBVIOUS
    <2>1. <<i, f[i - 1]>> \in (1..n) \X R
      OBVIOUS
    <2> QED BY <1>4, <2>1
  <1>6. \A i \in 0..n : f[i] \in R
    BY <1>3, <1>5, StepsWithin
  <1>7. f = [i \in 0..n |-> f[i]]
    BY <1>1 DEF Steps
  <1>8. TypedSteps(f, n, R, base, step)
    BY <1>3, <1>4, <1>6, <1>7 DEF TypedSteps
  <1> QED BY <1>8

\* A set with the empty list, and with each list all that are one longer, has
\* every list.
LEMMA ListInduction ==
  ASSUME NEW S, NEW T \in SUBSET Seq(S), <<>> \in T,
         \A s \in T, x \in S : Append(s, x) \in T
  PROVE  T = Seq(S)
  <1> DEFINE N == {n \in Nat : \A s \in Seq(S) : Len(s) = n => s \in T}
  <1>1. 0 \in N
    <2>1. \A s \in Seq(S) : Len(s) = 0 => s = <<>>
      BY EmptySeq
    <2> QED BY <2>1
  <1>2. ASSUME NEW n \in N PROVE n + 1 \in N
    <2> n \in Nat
      BY <1>2
    <2>1. ASSUME NEW s \in Seq(S), Len(s) = n + 1 PROVE s \in T
      <3>1. s # <<>>
        BY <2>1, EmptySeq
      <3>2. PICK r \in Seq(S), x \in S : s = Append(r, x)
        BY <3>1, SequenceEmptyOrAppend
      <3>3. Len(r) = n
        BY <2>1, <3>2
      <3>4. r \in T
        BY <1>2, <3>3
      <3> QED BY <3>2, <3>4
    <2> QED BY <2>1
  <1> HIDE DEF N
  <1>3. N = Nat
    BY <1>1, <1>2, Counting DEF N
  <1>4. \A s \in Seq(S) : Len(s) \in Nat
    OBVIOUS
  <1> QED BY <1>3, <1>4 DEF N

\* The items of a list with one more item.
LEMMA AppendSet ==
  ASSUME NEW S, NEW s \in Seq(S), NEW x \in S
  PROVE  ToSet(Append(s, x)) = ToSet(s) \cup {x}
  <1> DEFINE n == Len(s)
             t == Append(s, x)
  <1>1. /\ n \in Nat /\ t \in Seq(S) /\ Len(t) = n + 1 /\ t[n + 1] = x
        /\ \A i \in 1..n : t[i] = s[i]
    BY AppendProperties
  <1>2. DOMAIN t = 1..(n + 1) /\ DOMAIN s = 1..n
    BY <1>1
  <1> HIDE DEF n, t
  <1>3. 1..(n + 1) = (1..n) \cup {n + 1}
    BY <1>1
  <1>4. ToSet(t) = {t[i] : i \in 1..n} \cup {t[n + 1]}
    BY <1>2, <1>3 DEF ToSet
  <1>5. {t[i] : i \in 1..n} = {s[i] : i \in 1..n}
    BY <1>1
  <1> QED BY <1>1, <1>2, <1>4, <1>5 DEF ToSet, t

\* The first and the last of some positions of a list.
LEMMA FirstLast ==
  ASSUME NEW n \in Nat, NEW T \in SUBSET (1..n), T # {}
  PROVE  /\ Min(T) \in T /\ \A y \in T : Min(T) <= y
         /\ Max(T) \in T /\ \A y \in T : Max(T) >= y
  <1>1. T \in SUBSET Nat
    OBVIOUS
  <1>2. \E x \in T : \A y \in T : x <= y
    BY <1>1, LeastNumber
  <1>3. \E x \in T : \A y \in T : x >= y
    <2> DEFINE U == {b \in Nat : \A y \in T : y <= b}
    <2>1. n \in U
      OBVIOUS
    <2>2. PICK b \in U : \A d \in U : b <= d
      <3>1. U \in SUBSET Nat
        OBVIOUS
      <3> HIDE DEF U
      <3> QED BY <2>1, <3>1, LeastNumber
    <2>3. b \in T
      <3> SUFFICES ASSUME b \notin T PROVE FALSE
        OBVIOUS
      <3>1. \A y \in T : y <= b /\ y # b /\ y \in Nat
        BY <1>1, <2>2
      <3>2. b \in Nat /\ b # 0
        <4>1. PICK y \in T : TRUE
          OBVIOUS
        <4>2. y \in Nat /\ y <= b /\ y # b /\ b \in Nat
          BY <2>2, <3>1, <4>1
        <4> QED BY <4>2
      <3>3. b - 1 \in U
        BY <3>1, <3>2
      <3> QED BY <2>2, <3>2, <3>3
    <2> QED BY <1>1, <2>2, <2>3
  <1> QED BY <1>2, <1>3 DEF Min, Max
=============================================================================
