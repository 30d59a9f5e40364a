-------------------------- MODULE SkillMemoryProofs --------------------------
(***************************************************************************)
(* What the operations of SkillMemory do to lists of any length: filters,  *)
(* additions, utilities, restoring from a snapshot, merging.               *)
(***************************************************************************)
EXTENDS SkillMemory, ListLemmas

-----------------------------------------------------------------------------
(* Filters *)

\* The recursion of Only for the list and for each shorter one.
OnlySteps(f, list, set) ==
  /\ f[0] = <<>>
  /\ \A i \in 1..Len(list) :
       f[i] = IF list[i] \in set THEN Append(f[i - 1], list[i]) ELSE f[i - 1]

LEMMA OnlyRecursion ==
  ASSUME NEW S, NEW list \in Seq(S), NEW set
  PROVE  \E f : /\ Only(list, set) = f[Len(list)] /\ OnlySteps(f, list, set)
                /\ \A i \in 0..Len(list) : f[i] \in Seq(S)
  <1> DEFINE n == Len(list)
             step == [x \in (1..n) \X Seq(S) |->
                        IF list[x[1]] \in set THEN Append(x[2], list[x[1]]) ELSE x[2]]
             Def(g) == g = [i \in 0..n |->
                        IF i = 0 THEN <<>>
                        ELSE IF list[i] \in set THEN Append(g[i - 1], list[i]) ELSE g[i - 1]]
             f == CHOOSE g : Def(g)
  <1>0. n \in Nat /\ \A i \in 1..n : list[i] \in S
    OBVIOUS
  <1>1. Only(list, set) = f[n]
    BY DEF Only
  <1>2. PICK g : Steps(g, n, <<>>, step)
    BY <1>0, StepsExist
  <1>3. \A i \in 0..n : g[i] = IF i = 0 THEN <<>> ELSE step[<<i, g[i - 1]>>]
    BY <1>2 DEF Steps
  <1>4. \A i \in 0..n : g[i] \in Seq(S)
    <2> DEFINE T == {i \in Nat : i <= n => g[i] \in Seq(S)}
    <2> HIDE DEF n, step, Def, f
    <2>1. 0 \in T
      <3>1. g[0] = <<>>
        <4>1. 0 \in 0..n
          BY <1>0
        <4> QED BY <1>3, <4>1, Zenon
      <3> QED BY <3>1, EmptySeq
    <2>2. ASSUME NEW i \in T PROVE i + 1 \in T
      <3> SUFFICES ASSUME i + 1 <= n PROVE g[i + 1] \in Seq(S)
        BY <2>2
      <3>1. /\ i \in Nat /\ i + 1 \in 1..n /\ i + 1 \in 0..n
            /\ (i + 1) - 1 = i /\ i + 1 # 0 /\ g[i] \in Seq(S)
        BY <1>0, <2>2
      <3>2. g[i + 1] = step[<<i + 1, g[i]>>]
        BY <1>3, <3>1
      <3>3. <<i + 1, g[i]>> \in (1..n) \X Seq(S)
        BY <3>1
      <3>4. list[i + 1] \in S
        BY <1>0, <3>1
      <3> QED BY <3>1, <3>2, <3>3, <3>4 DEF step
    <2> HIDE DEF T
    <2>3. T = Nat
      BY <2>1, <2>2, Counting DEF T
    <2> QED BY <1>0, <2>3 DEF T
  <1>5. Def(g)
    <2>1. ASSUME NEW i \in 0..n
          PROVE  g[i] = IF i = 0 THEN <<>>
                        ELSE IF list[i] \in set THEN Append(g[i - 1], list[i]) ELSE g[i - 1]
      <3>1. CASE i = 0
        BY <1>3, <3>1
      <3>2. CASE i # 0
        <4>1. i - 1 \in 0..n /\ i \in 1..n
          BY <3>2
        <4>2. <<i, g[i - 1]>> \in (1..n) \X Seq(S)
          BY <1>4, <4>1
        <4>3. g[i] = step[<<i, g[i - 1]>>]
          BY <1>3, <3>2
        <4> QED BY <3>2, <4>2, <4>3
      <3> QED BY <3>1, <3>2
    <2>2. g = [i \in 0..n |-> g[i]]
      BY <1>2 DEF Steps
    <2> HIDE DEF step
    <2> QED BY <2>1, <2>2
  <1>6. Def(f)
    <2> HIDE DEF Def
    <2> QED BY <1>5
  <1>7. f[0] = <<>>
    <2> HIDE DEF f
    <2> QED BY <1>0, <1>6
  <1>8. \A i \in 1..n : f[i] = IF list[i] \in set THEN Append(f[i - 1], list[i]) ELSE f[i - 1]
    <2> HIDE DEF f, n
    <2> TAKE i \in 1..n
    <2>1. i \in 0..n /\ i # 0
      BY <1>0
    <2> QED BY <1>6, <2>1
  <1>9. \A i \in 0..n : f[i] \in Seq(S)
    <2> DEFINE T == {i \in Nat : i <= n => f[i] \in Seq(S)}
    <2> HIDE DEF f, n, step, Def
    <2>1. 0 \in T
      BY <1>7, EmptySeq
    <2>2. ASSUME NEW i \in T PROVE i + 1 \in T
      <3> SUFFICES ASSUME i + 1 <= n PROVE f[i + 1] \in Seq(S)
        BY <2>2
      <3>1. i \in Nat /\ i + 1 \in 1..n /\ f[i] \in Seq(S) /\ (i + 1) - 1 = i
        BY <1>0, <2>2
      <3>4. list[i + 1] \in S
        BY <1>0, <3>1
      <3>5. f[i + 1] = IF list[i + 1] \in set THEN Append(f[i], list[i + 1]) ELSE f[i]
        BY <1>8, <3>1
      <3> QED BY <3>1, <3>4, <3>5
    <2> HIDE DEF T
    <2>3. T = Nat
      BY <2>1, <2>2, Counting DEF T
    <2> QED BY <1>0, <2>3 DEF T
  <1> HIDE DEF f
  <1> QED BY <1>1, <1>7, <1>8, <1>9 DEF OnlySteps

LEMMA OnlyEmpty ==
  ASSUME NEW set
  PROVE  Only(<<>>, set) = <<>>
  <1>1. <<>> \in Seq({}) /\ Len(<<>>) = 0
    BY EmptySeq
  <1>2. \E f : Only(<<>>, set) = f[Len(<<>>)] /\ OnlySteps(f, <<>>, set)
    BY <1>1, OnlyRecursion
  <1> QED BY <1>1, <1>2 DEF OnlySteps

\* Only goes through a list from its first item to its last one.
LEMMA OnlyAppend ==
  ASSUME NEW S, NEW s \in Seq(S), NEW x \in S, NEW set
  PROVE  Only(Append(s, x), set) =
           IF x \in set THEN Append(Only(s, set), x) ELSE Only(s, set)
  <1> DEFINE n == Len(s)
             t == Append(s, x)
  <1>0. /\ n \in Nat /\ t \in Seq(S) /\ Len(t) = n + 1 /\ t[n + 1] = x
        /\ \A i \in 1..n : t[i] = s[i]
    BY AppendProperties
  <1> HIDE DEF n, t
  <1>1. PICK f : Only(s, set) = f[n] /\ OnlySteps(f, s, set)
    BY OnlyRecursion DEF n
  <1>2. PICK g : Only(t, set) = g[n + 1] /\ OnlySteps(g, t, set)
    BY <1>0, OnlyRecursion
  <1>3. \A i \in 1..n : f[i] = IF s[i] \in set THEN Append(f[i - 1], s[i]) ELSE f[i - 1]
    BY <1>1 DEF OnlySteps, n
  <1>4. \A i \in 1..(n + 1) : g[i] = IF t[i] \in set THEN Append(g[i - 1], t[i]) ELSE g[i - 1]
    BY <1>0, <1>2 DEF OnlySteps
  <1> DEFINE T == {i \in Nat : i <= n => f[i] = g[i]}
  <1>5. 0 \in T
    BY <1>1, <1>2 DEF OnlySteps
  <1>6. ASSUME NEW i \in T PROVE i + 1 \in T
    <2> SUFFICES ASSUME i + 1 <= n PROVE f[i + 1] = g[i + 1]
      BY <1>6
    <2>1. i \in Nat /\ i + 1 \in 1..n /\ i + 1 \in 1..(n + 1) /\ (i + 1) - 1 = i /\ f[i] = g[i]
      BY <1>0, <1>6
    <2>2. t[i + 1] = s[i + 1]
      BY <1>0, <2>1
    <2> QED BY <1>3, <1>4, <2>1, <2>2
  <1>7. T = Nat
    <2>1. T \in SUBSET Nat
      OBVIOUS
    <2> HIDE DEF T
    <2> QED BY <1>5, <1>6, <2>1, Counting
  <1>8. f[n] = g[n]
    BY <1>0, <1>7
  <1>9. g[n + 1] = IF x \in set THEN Append(g[n], x) ELSE g[n]
    <2>1. n + 1 \in 1..(n + 1) /\ (n + 1) - 1 = n
      BY <1>0
    <2> QED BY <1>0, <1>4, <2>1
  <1> QED BY <1>1, <1>2, <1>8, <1>9 DEF t

\* The items of the result are those of the list that are in the set.
LEMMA OnlyType ==
  ASSUME NEW S, NEW list \in Seq(S), NEW set
  PROVE  /\ Only(list, set) \in Seq(S)
         /\ ToSet(Only(list, set)) = ToSet(list) \cap set
  <1> DEFINE T == {s \in Seq(S) : /\ Only(s, set) \in Seq(S)
                                  /\ ToSet(Only(s, set)) = ToSet(s) \cap set}
  <1>1. <<>> \in T
    <2>1. Only(<<>>, set) = <<>> /\ <<>> \in Seq(S) /\ ToSet(<<>>) = {}
      BY OnlyEmpty, EmptySeq DEF ToSet
    <2> QED BY <2>1
  <1>2. ASSUME NEW s \in T, NEW x \in S PROVE Append(s, x) \in T
    <2> DEFINE o == Only(s, set)
    <2>1. s \in Seq(S) /\ o \in Seq(S) /\ ToSet(o) = ToSet(s) \cap set
      BY <1>2
    <2>2. Only(Append(s, x), set) = IF x \in set THEN Append(o, x) ELSE o
      BY <2>1, OnlyAppend
    <2> HIDE DEF o
    <2>3. ToSet(Append(s, x)) = ToSet(s) \cup {x} /\ ToSet(Append(o, x)) = ToSet(o) \cup {x}
      BY <2>1, AppendSet
    <2>4. Append(s, x) \in Seq(S) /\ Append(o, x) \in Seq(S)
      BY <2>1
    <2> QED BY <2>1, <2>2, <2>3, <2>4
  <1>3. T \in SUBSET Seq(S)
    OBVIOUS
  <1> HIDE DEF T
  <1>4. T = Seq(S)
    BY <1>1, <1>2, <1>3, ListInduction
  <1> QED BY <1>4 DEF T

\* A list all of whose items are in the set stays as it is.
LEMMA OnlyAll ==
  ASSUME NEW S, NEW list \in Seq(S), NEW set, ToSet(list) \subseteq set
  PROVE  Only(list, set) = list
  <1> DEFINE T == {s \in Seq(S) : ToSet(s) \subseteq set => Only(s, set) = s}
  <1>1. <<>> \in T
    BY OnlyEmpty, EmptySeq
  <1>2. ASSUME NEW s \in T, NEW x \in S PROVE Append(s, x) \in T
    <2>1. s \in Seq(S) /\ Append(s, x) \in Seq(S)
      BY <1>2
    <2>2. Only(Append(s, x), set) = IF x \in set THEN Append(Only(s, set), x) ELSE Only(s, set)
      BY <2>1, OnlyAppend
    <2>3. ToSet(Append(s, x)) = ToSet(s) \cup {x}
      BY <2>1, AppendSet
    <2> QED BY <1>2, <2>1, <2>2, <2>3
  <1>3. T \in SUBSET Seq(S)
    OBVIOUS
  <1> HIDE DEF T
  <1>4. T = Seq(S)
    BY <1>1, <1>2, <1>3, ListInduction
  <1> QED BY <1>4 DEF T

\* Filtering for more first makes no difference.
LEMMA OnlyTwice ==
  ASSUME NEW S, NEW list \in Seq(S), NEW a, NEW b, b \cap ToSet(list) \subseteq a
  PROVE  Only(Only(list, a), b) = Only(list, b)
  <1> DEFINE T == {s \in Seq(S) : b \cap ToSet(s) \subseteq a =>
                                    Only(Only(s, a), b) = Only(s, b)}
  <1>1. <<>> \in T
    BY OnlyEmpty, EmptySeq
  <1>2. ASSUME NEW s \in T, NEW x \in S PROVE Append(s, x) \in T
    <2>1. s \in Seq(S) /\ Append(s, x) \in Seq(S)
      BY <1>2
    <2>2. ToSet(Append(s, x)) = ToSet(s) \cup {x}
      BY <2>1, AppendSet
    <2> SUFFICES ASSUME b \cap (ToSet(s) \cup {x}) \subseteq a
                 PROVE  Only(Only(Append(s, x), a), b) = Only(Append(s, x), b)
      BY <2>1, <2>2
    <2>3. Only(Append(s, x), a) = IF x \in a THEN Append(Only(s, a), x) ELSE Only(s, a)
      BY <2>1, OnlyAppend
    <2>4. Only(Append(s, x), b) = IF x \in b THEN Append(Only(s, b), x) ELSE Only(s, b)
      BY <2>1, OnlyAppend
    <2>5. Only(s, a) \in Seq(S)
      BY <2>1, OnlyType
    <2>6. Only(Append(Only(s, a), x), b) =
            IF x \in b THEN Append(Only(Only(s, a), b), x) ELSE Only(Only(s, a), b)
      BY <2>5, OnlyAppend
    <2>7. Only(Only(s, a), b) = Only(s, b)
      BY <1>2
    <2> QED BY <2>3, <2>4, <2>6, <2>7
  <1>3. T \in SUBSET Seq(S)
    OBVIOUS
  <1> HIDE DEF T
  <1>4. T = Seq(S)
    BY <1>1, <1>2, <1>3, ListInduction
  <1> QED BY <1>4 DEF T

\* The result depends only on which items of the list are in the set.
LEMMA OnlySame ==
  ASSUME NEW S, NEW list \in Seq(S), NEW a, NEW b, ToSet(list) \cap a = ToSet(list) \cap b
  PROVE  Only(list, a) = Only(list, b)
  <1>1. Only(Only(list, a), b) = Only(list, b)
    <2>1. b \cap ToSet(list) \subseteq a
      OBVIOUS
    <2> QED BY <2>1, OnlyTwice
  <1>2. Only(list, a) \in Seq(S) /\ ToSet(Only(list, a)) = ToSet(list) \cap a
    BY OnlyType
  <1>3. ToSet(Only(list, a)) \subseteq b
    BY <1>2
  <1>4. Only(Only(list, a), b) = Only(list, a)
    BY <1>2, <1>3, OnlyAll
  <1> QED BY <1>1, <1>4

\* No two items of the result have one id if none of the list have.
LEMMA OnlySeparate ==
  ASSUME NEW S, NEW list \in Seq(S), NEW set,
         \A k, l \in 1..Len(list) : list[k].id = list[l].id => k = l
  PROVE  \A k, l \in 1..Len(Only(list, set)) :
           Only(list, set)[k].id = Only(list, set)[l].id => k = l
  <1> DEFINE One(s) == \A k, l \in 1..Len(s) : s[k].id = s[l].id => k = l
             T == {s \in Seq(S) : One(s) => One(Only(s, set))}
  <1>1. <<>> \in T
    <2>1. Only(<<>>, set) = <<>> /\ <<>> \in Seq(S)
      BY OnlyEmpty, EmptySeq
    <2> QED BY <2>1
  <1>2. ASSUME NEW s \in T, NEW x \in S PROVE Append(s, x) \in T
    <2> DEFINE t == Append(s, x)
               o == Only(s, set)
               n == Len(s)
               m == Len(o)
    <2>1. /\ s \in Seq(S) /\ t \in Seq(S) /\ n \in Nat /\ Len(t) = n + 1
          /\ t[n + 1] = x /\ \A k \in 1..n : t[k] = s[k]
      BY <1>2, AppendProperties
    <2>2. Only(t, set) = IF x \in set THEN Append(o, x) ELSE o
      BY <2>1, OnlyAppend
    <2>3. o \in Seq(S) /\ ToSet(o) = ToSet(s) \cap set
      BY <2>1, OnlyType
    <2>4. m \in Nat /\ DOMAIN o = 1..m /\ DOMAIN s = 1..n
      BY <2>1, <2>3
    <2> SUFFICES ASSUME One(t) PROVE One(Only(t, set))
      BY <2>1
    <2> HIDE DEF t, o, n, m, T
    <2>5. \A k \in 1..n : k \in 1..(n + 1) /\ n + 1 \in 1..(n + 1) /\ k # n + 1
      BY <2>1
    <2>6. One(s)
      <3>1. \A k, l \in 1..(n + 1) : t[k].id = t[l].id => k = l
        BY <2>1
      <3>2. \A k, l \in 1..n : s[k].id = s[l].id => k = l
        BY <2>1, <2>5, <3>1
      <3> QED BY <3>2 DEF n
    <2>7. One(o)
      BY <1>2, <2>6 DEF T, o
    <2>8. \A y \in ToSet(s) : y.id # x.id
      <3>1. ASSUME NEW k \in 1..n PROVE s[k].id # x.id
        <4>1. \A j, l \in 1..(n + 1) : t[j].id = t[l].id => j = l
          BY <2>1
        <4> QED BY <2>1, <2>5, <4>1
      <3> QED BY <2>4, <3>1 DEF ToSet
    <2>9. \A k \in 1..m : o[k].id # x.id
      <3>1. \A k \in 1..m : o[k] \in ToSet(o)
        BY <2>4 DEF ToSet
      <3> QED BY <2>3, <2>8, <3>1
    <2>10. One(Append(o, x))
      <3> DEFINE a == Append(o, x)
      <3>1. Len(a) = m + 1 /\ a[m + 1] = x /\ \A k \in 1..m : a[k] = o[k]
        BY <2>3, AppendProperties DEF m
      <3>2. \A k \in 1..(m + 1) : k \in 1..m \/ k = m + 1
        BY <2>4
      <3> HIDE DEF a
      <3>3. \A k, l \in 1..m : o[k].id = o[l].id => k = l
        BY <2>7 DEF m
      <3>4. \A k, l \in 1..(m + 1) : a[k].id = a[l].id => k = l
        BY <2>9, <3>1, <3>2, <3>3
      <3> QED BY <3>1, <3>4 DEF a
    <2> HIDE DEF One
    <2> QED BY <2>2, <2>7, <2>10
  <1>3. T \in SUBSET Seq(S)
    OBVIOUS
  <1> HIDE DEF T
  <1>4. T = Seq(S)
    BY <1>1, <1>2, <1>3, ListInduction
  <1> QED BY <1>4 DEF T
-----------------------------------------------------------------------------
(* The lists of a bank *)

Banks(S) == [Lists -> Seq(S)]

\* No id is in two places.
Distinct(lists) ==
  \A c, d \in Lists : \A k \in DOMAIN lists[c], l \in DOMAIN lists[d] :
    lists[c][k].id = lists[d][l].id => c = d /\ k = l

LEMMA OrderType ==
  /\ Order \in Seq(STRING \cup {General}) /\ Len(Order) = Len(TypeOrder) + 1
  /\ Order[1] = General /\ \A k \in 1..Len(TypeOrder) : Order[k + 1] = TypeOrder[k]
  /\ Lists = {Order[k] : k \in 1..Len(Order)}
  /\ Lists = {General} \cup Types /\ General \notin Types
  /\ \A j, k \in 1..Len(Order) : Order[j] = Order[k] => j = k
  <1> DEFINE n == Len(TypeOrder)
             one == <<General>>
             Keys == STRING \cup {General}
  <1>0. TypeOrder \in Seq(Keys) /\ n \in Nat /\ DOMAIN TypeOrder = 1..n
    <2>1. ASSUME NEW S, NEW T, S \subseteq T, NEW s \in Seq(S)
          PROVE  s \in Seq(T) /\ Len(s) \in Nat /\ DOMAIN s = 1..Len(s)
      <3>1. \A i \in 1..Len(s) : s[i] \in T
        <4>1. \A i \in 1..Len(s) : s[i] \in S
          OBVIOUS
        <4>2. \A x \in S : x \in T
          BY <2>1
        <4> QED BY <4>1, <4>2
      <3>2. s = [i \in 1..Len(s) |-> s[i]] /\ Len(s) \in Nat
        OBVIOUS
      <3>3. [i \in 1..Len(s) |-> s[i]] \in Seq(T)
        BY <3>1, <3>2
      <3> QED BY <3>2, <3>3
    <2>2. TypeOrder \in Seq(STRING) /\ STRING \subseteq Keys
      BY OrderAssumption
    <2> HIDE DEF Keys
    <2> QED BY <2>1, <2>2, Zenon
  <1>1. one \in Seq(Keys) /\ Len(one) = 1 /\ one[1] = General
    <2>1. General \in Keys
      OBVIOUS
    <2>2. ASSUME NEW S, NEW x \in S
          PROVE  <<x>> \in Seq(S) /\ Len(<<x>>) = 1 /\ <<x>>[1] = x
      OBVIOUS
    <2> HIDE DEF Keys
    <2> QED BY <2>1, <2>2, Zenon
  <1>2. /\ Order \in Seq(Keys) /\ Len(Order) = n + 1
        /\ \A i \in 1..Len(one) : Order[i] = one[i]
        /\ \A i \in 1..n : Order[Len(one) + i] = TypeOrder[i]
    <2> HIDE DEF one, n, Keys
    <2>1. Order = one \o TypeOrder
      BY DEF Order, one
    <2>2. /\ one \o TypeOrder \in Seq(Keys)
          /\ Len(one \o TypeOrder) = Len(one) + Len(TypeOrder)
          /\ \A i \in 1..Len(one) : (one \o TypeOrder)[i] = one[i]
          /\ \A i \in 1..Len(TypeOrder) : (one \o TypeOrder)[Len(one) + i] = TypeOrder[i]
      BY <1>0, <1>1, AppendAt
    <2> QED BY <1>0, <1>1, <2>1, <2>2 DEF n
  <1> HIDE DEF one, n, Keys
  <1>3. Order[1] = General /\ \A k \in 1..n : Order[k + 1] = TypeOrder[k]
    <2>1. \A k \in 1..n : Len(one) + k = k + 1
      BY <1>0, <1>1
    <2> QED BY <1>1, <1>2, <2>1
  <1>4. DOMAIN Order = 1..(n + 1)
    BY <1>0, <1>2
  <1>5. \A j, k \in 1..(n + 1) : Order[j] = Order[k] => j = k
    BY <1>4, OrderAssumption DEF IsInjective
  <1>6. Lists = {Order[k] : k \in 1..(n + 1)}
    BY <1>4 DEF Lists, ToSet
  <1>7. Types = {TypeOrder[k] : k \in 1..n}
    BY <1>0 DEF Types, ToSet
  <1>8. General \notin Types
    <2> SUFFICES ASSUME NEW k \in 1..n, TypeOrder[k] = General PROVE FALSE
      BY <1>7
    <2>1. k + 1 \in 1..(n + 1) /\ 1 \in 1..(n + 1) /\ k + 1 # 1
      BY <1>0
    <2> QED BY <1>3, <1>5, <2>1
  <1>9. Lists = {General} \cup Types
    <2>1. ASSUME NEW c \in Lists PROVE c \in {General} \cup Types
      <3>1. PICK k \in 1..(n + 1) : c = Order[k]
        BY <1>6
      <3>2. CASE k = 1
        BY <1>3, <3>1, <3>2
      <3>3. CASE k # 1
        <4>1. k - 1 \in 1..n /\ (k - 1) + 1 = k
          BY <1>0, <3>3
        <4>2. Order[k] = TypeOrder[k - 1]
          BY <1>3, <4>1
        <4> QED BY <1>7, <3>1, <4>1, <4>2
      <3> QED BY <3>2, <3>3
    <2>2. ASSUME NEW c \in {General} \cup Types PROVE c \in Lists
      <3>1. CASE c = General
        <4>1. 1 \in 1..(n + 1)
          BY <1>0
        <4> QED BY <1>3, <1>6, <3>1, <4>1
      <3>2. CASE c \in Types
        <4>1. PICK k \in 1..n : c = TypeOrder[k]
          BY <1>7, <3>2
        <4>2. k + 1 \in 1..(n + 1)
          BY <1>0
        <4> QED BY <1>3, <1>6, <4>1, <4>2
      <3> QED BY <3>1, <3>2
    <2> QED BY <2>1, <2>2
  <1> QED BY <1>2, <1>3, <1>5, <1>6, <1>8, <1>9 DEF n, Keys

\* Walking a bank meets exactly the items of its lists.
LEMMA WalkPlaces ==
  ASSUME NEW S, NEW lists \in Banks(S)
  PROVE  /\ Walk(lists) \in Seq(S)
         /\ \E p, q : Places(Walk(lists), [k \in 1..Len(Order) |-> lists[Order[k]]],
                             Len(Order), p, q)
  <1> DEFINE n == Len(Order)
             ss == [k \in 1..n |-> lists[Order[k]]]
  <1>1. n \in Nat /\ DOMAIN Order = 1..n
    BY OrderType
  <1>2. ss \in Seq(Seq(S)) /\ Len(ss) = n
    <2>1. \A k \in 1..n : lists[Order[k]] \in Seq(S)
      BY OrderType DEF Banks
    <2> QED BY <1>1, <2>1
  <1>3. Walk(lists) = FlattenSeq(ss)
    BY <1>1 DEF Walk
  <1> HIDE DEF ss, n
  <1>4. FlattenSeq(ss) \in Seq(S) /\ \E p, q : Places(FlattenSeq(ss), ss, n, p, q)
    BY <1>2, FlattenPlaces
  <1> QED BY <1>3, <1>4 DEF ss, n

LEMMA WalkSet ==
  ASSUME NEW S, NEW lists \in Banks(S)
  PROVE  /\ Walk(lists) \in Seq(S)
         /\ ToSet(Walk(lists)) = UNION {ToSet(lists[c]) : c \in Lists}
  <1> DEFINE n == Len(Order)
             w == Walk(lists)
             ss == [k \in 1..n |-> lists[Order[k]]]
  <1>1. n \in Nat /\ Lists = {Order[k] : k \in 1..n}
    BY OrderType
  <1>2. w \in Seq(S) /\ DOMAIN w = 1..Len(w)
    BY WalkPlaces
  <1>3. PICK p, q : Places(w, ss, n, p, q)
    BY WalkPlaces
  <1>4. \A c \in Lists : DOMAIN lists[c] = 1..Len(lists[c])
    BY DEF Banks
  <1>5. \A k \in 1..n : ss[k] = lists[Order[k]] /\ Order[k] \in Lists
    BY <1>1
  <1> HIDE DEF n, w, ss
  <1>6. ASSUME NEW i \in 1..Len(w) PROVE \E c \in Lists : w[i] \in ToSet(lists[c])
    <2>1. p[i] \in 1..n /\ q[i] \in 1..Len(ss[p[i]]) /\ w[i] = ss[p[i]][q[i]]
      BY <1>3 DEF Places
    <2>2. Order[p[i]] \in Lists /\ q[i] \in DOMAIN lists[Order[p[i]]]
      BY <1>4, <1>5, <2>1
    <2> QED BY <1>5, <2>1, <2>2 DEF ToSet
  <1>7. ASSUME NEW c \in Lists, NEW k \in DOMAIN lists[c] PROVE lists[c][k] \in ToSet(w)
    <2>1. PICK m \in 1..n : c = Order[m]
      BY <1>1
    <2>2. k \in 1..Len(ss[m]) /\ ss[m] = lists[c]
      BY <1>4, <1>5, <2>1
    <2>3. PICK i \in 1..Len(w) : p[i] = m /\ q[i] = k
      BY <1>3, <2>2 DEF Places
    <2>4. w[i] = ss[p[i]][q[i]]
      BY <1>3 DEF Places
    <2> QED BY <1>2, <2>2, <2>3, <2>4 DEF ToSet
  <1>8. ToSet(w) = UNION {ToSet(lists[c]) : c \in Lists}
    BY <1>2, <1>6, <1>7 DEF ToSet
  <1> QED BY <1>2, <1>8 DEF w

\* If no id comes up twice on the walk, none is in two places.
LEMMA WalkDistinct ==
  ASSUME NEW S, NEW lists \in Banks(S),
         IsInjective([k \in DOMAIN Walk(lists) |-> Walk(lists)[k].id])
  PROVE  Distinct(lists)
  <1> DEFINE n == Len(Order)
             w == Walk(lists)
             ss == [k \in 1..n |-> lists[Order[k]]]
  <1>1. n \in Nat /\ Lists = {Order[k] : k \in 1..n}
    BY OrderType
  <1>2. w \in Seq(S) /\ DOMAIN w = 1..Len(w)
    BY WalkPlaces
  <1>3. PICK p, q : Places(w, ss, n, p, q)
    BY WalkPlaces
  <1>4. \A c \in Lists : DOMAIN lists[c] = 1..Len(lists[c])
    BY DEF Banks
  <1>5. \A k \in 1..n : ss[k] = lists[Order[k]] /\ Order[k] \in Lists
    BY <1>1
  <1>6. \A i, j \in 1..Len(w) : w[i].id = w[j].id => i = j
    BY <1>2 DEF IsInjective
  <1> HIDE DEF n, w, ss
  <1>7. ASSUME NEW c \in Lists, NEW k \in DOMAIN lists[c]
        PROVE  \E i \in 1..Len(w), m \in 1..n :
                 c = Order[m] /\ p[i] = m /\ q[i] = k /\ w[i] = lists[c][k]
    <2>1. PICK m \in 1..n : c = Order[m]
      BY <1>1
    <2>2. k \in 1..Len(ss[m]) /\ ss[m] = lists[c]
      BY <1>4, <1>5, <2>1
    <2>3. PICK i \in 1..Len(w) : p[i] = m /\ q[i] = k
      BY <1>3, <2>2 DEF Places
    <2>4. w[i] = ss[p[i]][q[i]]
      BY <1>3 DEF Places
    <2> QED BY <2>1, <2>2, <2>3, <2>4
  <1>8. ASSUME NEW c \in Lists, NEW d \in Lists, NEW k \in DOMAIN lists[c],
               NEW l \in DOMAIN lists[d], lists[c][k].id = lists[d][l].id
        PROVE  c = d /\ k = l
    <2>1. PICK i \in 1..Len(w), m \in 1..n :
            c = Order[m] /\ p[i] = m /\ q[i] = k /\ w[i] = lists[c][k]
      BY <1>7
    <2>2. PICK j \in 1..Len(w), o \in 1..n :
            d = Order[o] /\ p[j] = o /\ q[j] = l /\ w[j] = lists[d][l]
      BY <1>7
    <2>3. i = j
      BY <1>6, <1>8, <2>1, <2>2
    <2> QED BY <2>1, <2>2, <2>3
  <1> QED BY <1>8 DEF Distinct

\* Ids of a bank are those its lists hold.
LEMMA IdsHeld ==
  ASSUME NEW S, NEW lists \in Banks(S)
  PROVE  \A i : i \in Ids(lists) <=> \E c \in Lists : Holds(lists[c], i)
  <1>1. ToSet(Walk(lists)) = UNION {ToSet(lists[c]) : c \in Lists}
    BY WalkSet
  <1>2. \A c \in Lists : ToSet(lists[c]) = {lists[c][k] : k \in DOMAIN lists[c]}
    BY DEF ToSet
  <1>3. ASSUME NEW i \in Ids(lists) PROVE \E c \in Lists : Holds(lists[c], i)
    <2>1. PICK s \in ToSet(Walk(lists)) : s.id = i
      BY DEF Ids
    <2>2. PICK c \in Lists : s \in ToSet(lists[c])
      BY <1>1
    <2> QED BY <1>2, <2>1, <2>2 DEF Holds
  <1>4. ASSUME NEW c \in Lists, NEW i, Holds(lists[c], i) PROVE i \in Ids(lists)
    <2>1. PICK k \in DOMAIN lists[c] : lists[c][k].id = i
      BY <1>4 DEF Holds
    <2>2. lists[c][k] \in ToSet(Walk(lists))
      BY <1>1, <1>2
    <2> QED BY <2>1, <2>2 DEF Ids
  <1> QED BY <1>3, <1>4

-----------------------------------------------------------------------------
(* What the operations make of the lists *)

\* Removing and evicting filter every list.
LEMMA FilterType ==
  ASSUME NEW S, NEW lists \in Banks(S), NEW keep, NEW new,
         new = [c \in Lists |-> Only(lists[c], keep[c])]
  PROVE  /\ new \in Banks(S)
         /\ \A c \in Lists : /\ new[c] = Only(lists[c], keep[c])
                             /\ ToSet(new[c]) = ToSet(lists[c]) \cap keep[c]
         /\ (\A c \in Lists : ToSet(lists[c]) \subseteq keep[c]) => new = lists
  <1>1. \A c \in Lists : lists[c] \in Seq(S)
    BY DEF Banks
  <1>2. \A c \in Lists : /\ Only(lists[c], keep[c]) \in Seq(S)
                         /\ ToSet(Only(lists[c], keep[c])) = ToSet(lists[c]) \cap keep[c]
    BY <1>1, OnlyType
  <1>3. \A c \in Lists : ToSet(lists[c]) \subseteq keep[c] => Only(lists[c], keep[c]) = lists[c]
    BY <1>1, OnlyAll
  <1>4. lists = [c \in Lists |-> lists[c]]
    BY DEF Banks
  <1> QED BY <1>2, <1>3, <1>4 DEF Banks

Removed(new, lists, ids, S) ==
  /\ new \in Banks(S)
  /\ \A c \in Lists :
       /\ new[c] = Only(lists[c], {s \in ToSet(lists[c]) : s.id \notin ids})
       /\ ToSet(new[c]) = {s \in ToSet(lists[c]) : s.id \notin ids}
  /\ ids = {} => new = lists

LEMMA WithoutType ==
  ASSUME NEW S, NEW lists \in Banks(S), NEW ids
  PROVE  Removed(Without(lists, ids), lists, ids, S)
  <1> DEFINE keep == [c \in Lists |-> {s \in ToSet(lists[c]) : s.id \notin ids}]
             new == Without(lists, ids)
  <1>1. new = [c \in Lists |-> Only(lists[c], keep[c])]
    BY DEF Without
  <1>2. \A c \in Lists : /\ keep[c] = {s \in ToSet(lists[c]) : s.id \notin ids}
                         /\ ToSet(lists[c]) \cap keep[c] = keep[c]
                         /\ ids = {} => ToSet(lists[c]) \subseteq keep[c]
    OBVIOUS
  <1> HIDE DEF keep, new
  <1>3. /\ new \in Banks(S)
        /\ \A c \in Lists : /\ new[c] = Only(lists[c], keep[c])
                            /\ ToSet(new[c]) = ToSet(lists[c]) \cap keep[c]
        /\ (\A c \in Lists : ToSet(lists[c]) \subseteq keep[c]) => new = lists
    BY <1>1, FilterType
  <1>4. Removed(new, lists, ids, S)
    BY <1>2, <1>3 DEF Removed
  <1> QED BY <1>4 DEF new

Evicted(new, low, lists, S) ==
  /\ new \in Banks(S)
  /\ \A c \in Lists :
       /\ new[c] = Only(lists[c], {s \in ToSet(lists[c]) : ~Useless(s)})
       /\ ToSet(new[c]) = {s \in ToSet(lists[c]) : ~Useless(s)}
  /\ low = {} => new = lists
  /\ \A i : i \in low <=> \E c \in Lists : \E s \in ToSet(lists[c]) : Useless(s) /\ s.id = i

LEMMA EvictType ==
  ASSUME NEW S, NEW lists \in Banks(S)
  PROVE  Evicted(Evict(lists), Low(lists), lists, S)
  <1> DEFINE keep == [c \in Lists |-> {s \in ToSet(lists[c]) : ~Useless(s)}]
             new == Evict(lists)
  <1>1. new = [c \in Lists |-> Only(lists[c], keep[c])]
    BY DEF Evict
  <1>2. \A c \in Lists : /\ keep[c] = {s \in ToSet(lists[c]) : ~Useless(s)}
                         /\ ToSet(lists[c]) \cap keep[c] = keep[c]
    OBVIOUS
  <1>3. ToSet(Walk(lists)) = UNION {ToSet(lists[c]) : c \in Lists}
    BY WalkSet
  <1>4. \A i : i \in Low(lists) <=>
           \E c \in Lists : \E s \in ToSet(lists[c]) : Useless(s) /\ s.id = i
    BY <1>3 DEF Low
  <1>5. Low(lists) = {} => \A c \in Lists : ToSet(lists[c]) \subseteq keep[c]
    BY <1>2, <1>4
  <1> HIDE DEF keep, new
  <1>6. /\ new \in Banks(S)
        /\ \A c \in Lists : /\ new[c] = Only(lists[c], keep[c])
                            /\ ToSet(new[c]) = ToSet(lists[c]) \cap keep[c]
        /\ (\A c \in Lists : ToSet(lists[c]) \subseteq keep[c]) => new = lists
    BY <1>1, FilterType
  <1>7. Evicted(new, Low(lists), lists, S)
    BY <1>2, <1>4, <1>5, <1>6 DEF Evicted
  <1> QED BY <1>7 DEF new

\* Two lists one after the other.
LEMMA ConcatSet ==
  ASSUME NEW S, NEW a \in Seq(S), NEW b \in Seq(S)
  PROVE  a \o b \in Seq(S) /\ ToSet(a \o b) = ToSet(a) \cup ToSet(b)
  <1> DEFINE m == Len(a)
             n == Len(b)
             t == a \o b
  <1>1. m \in Nat /\ n \in Nat /\ DOMAIN a = 1..m /\ DOMAIN b = 1..n
    OBVIOUS
  <1>2. /\ t \in Seq(S) /\ Len(t) = m + n /\ \A i \in 1..m : t[i] = a[i]
        /\ \A i \in 1..n : t[m + i] = b[i]
    BY AppendAt
  <1>3. DOMAIN t = 1..(m + n)
    BY <1>2
  <1> HIDE DEF m, n, t
  <1>4. \A i \in 1..(m + n) : t[i] \in ToSet(a) \cup ToSet(b)
    <2> TAKE i \in 1..(m + n)
    <2>1. CASE i \in 1..m
      BY <1>1, <1>2, <2>1 DEF ToSet
    <2>2. CASE i \notin 1..m
      <3>1. i - m \in 1..n /\ m + (i - m) = i
        BY <1>1, <2>2
      <3>2. t[i] = b[i - m]
        BY <1>2, <3>1
      <3> QED BY <1>1, <3>1, <3>2 DEF ToSet
    <2> QED BY <2>1, <2>2
  <1>5. \A i \in 1..m : a[i] \in ToSet(t)
    <2> TAKE i \in 1..m
    <2>1. i \in 1..(m + n)
      BY <1>1
    <2> QED BY <1>2, <1>3, <2>1 DEF ToSet
  <1>6. \A i \in 1..n : b[i] \in ToSet(t)
    <2> TAKE i \in 1..n
    <2>1. m + i \in 1..(m + n)
      BY <1>1
    <2> QED BY <1>2, <1>3, <2>1 DEF ToSet
  <1>7. ToSet(t) = ToSet(a) \cup ToSet(b)
    BY <1>1, <1>3, <1>4, <1>5, <1>6 DEF ToSet
  <1> QED BY <1>2, <1>7 DEF t

\* New skills whose id is taken are dropped; the others are added.
Joined(all, lists, new, c, S) ==
  /\ all \in Banks(S)
  /\ \A d \in Lists \ {c} : all[d] = lists[d]
  /\ all[c] = lists[c] \o Only(new, {s \in ToSet(new) : s.id \notin Ids(lists)})
  /\ ToSet(all[c]) = ToSet(lists[c]) \cup {s \in ToSet(new) : s.id \notin Ids(lists)}

LEMMA AddSkillsType ==
  ASSUME NEW S, NEW lists \in Banks(S), NEW new \in Seq(S), NEW c \in Lists
  PROVE  Joined(AddSkills(lists, new, c), lists, new, c, S)
  <1> DEFINE keep == {s \in ToSet(new) : s.id \notin Ids(lists)}
             fresh == Only(new, keep)
             r == AddSkills(lists, new, c)
  <1>1. fresh \in Seq(S) /\ ToSet(fresh) = keep
    BY OnlyType
  <1>2. r = [lists EXCEPT ![c] = @ \o fresh]
    BY DEF AddSkills
  <1> HIDE DEF keep, fresh, r
  <1>3. lists[c] \in Seq(S)
    BY DEF Banks
  <1>4. lists[c] \o fresh \in Seq(S) /\ ToSet(lists[c] \o fresh) = ToSet(lists[c]) \cup keep
    BY <1>1, <1>3, ConcatSet
  <1>5. r[c] = lists[c] \o fresh /\ \A d \in Lists \ {c} : r[d] = lists[d]
    BY <1>2 DEF Banks
  <1>6. r \in Banks(S)
    BY <1>2, <1>4 DEF Banks
  <1>7. Joined(r, lists, new, c, S)
    BY <1>4, <1>5, <1>6 DEF Joined, fresh, keep
  <1> QED BY <1>7 DEF r

\* A text is written into the entries of some ids.
Rewritten(new, lists, ids, text, S) ==
  /\ new \in Banks(S)
  /\ \A c \in Lists :
       /\ Len(new[c]) = Len(lists[c])
       /\ \A k \in 1..Len(lists[c]) :
            /\ new[c][k].id = lists[c][k].id /\ new[c][k].utility = lists[c][k].utility
            /\ new[c][k].text = IF lists[c][k].id \in ids THEN text ELSE lists[c][k].text

LEMMA SynthesizeType ==
  ASSUME NEW I, NEW X, NEW U, NEW lists \in Banks([id : I, text : X, utility : U]),
         NEW ids, NEW text \in X
  PROVE  Rewritten(Synthesize(lists, ids, text), lists, ids, text,
                   [id : I, text : X, utility : U])
  <1> DEFINE T == [id : I, text : X, utility : U]
             new == Synthesize(lists, ids, text)
             one(s) == IF s.id \in ids THEN [s EXCEPT !.text = text] ELSE s
  <1>1. \A s \in T : /\ one(s) \in T /\ one(s).id = s.id /\ one(s).utility = s.utility
                     /\ one(s).text = IF s.id \in ids THEN text ELSE s.text
    OBVIOUS
  <1>2. new = [c \in Lists |-> [k \in DOMAIN lists[c] |-> one(lists[c][k])]]
    BY DEF Synthesize
  <1>3. \A c \in Lists : lists[c] \in Seq(T)
    BY DEF Banks
  <1> HIDE DEF T, new, one
  <1>4. ASSUME NEW c \in Lists
        PROVE  /\ new[c] \in Seq(T) /\ Len(new[c]) = Len(lists[c])
               /\ \A k \in 1..Len(lists[c]) : lists[c][k] \in T /\ new[c][k] = one(lists[c][k])
    <2>1. DOMAIN lists[c] = 1..Len(lists[c]) /\ Len(lists[c]) \in Nat
      BY <1>3
    <2>2. new[c] = [k \in 1..Len(lists[c]) |-> one(lists[c][k])]
      BY <1>2, <2>1
    <2>3. \A k \in 1..Len(lists[c]) : lists[c][k] \in T
      BY <1>3
    <2>4. \A k \in 1..Len(lists[c]) : one(lists[c][k]) \in T
      BY <1>1, <2>3
    <2> QED BY <2>1, <2>2, <2>3, <2>4
  <1>5. new \in Banks(T)
    BY <1>2, <1>4 DEF Banks
  <1>6. Rewritten(new, lists, ids, text, T)
    BY <1>1, <1>4, <1>5 DEF Rewritten
  <1> QED BY <1>6 DEF T, new

\* Credit changes utilities, of some of the entries of these ids.
Rated(new, lists, ids, delta, S) ==
  /\ new \in Banks(S)
  /\ \A c \in Lists :
       /\ Len(new[c]) = Len(lists[c])
       /\ \A k \in 1..Len(lists[c]) :
            /\ new[c][k].id = lists[c][k].id /\ new[c][k].text = lists[c][k].text
            /\ \/ new[c][k].utility = lists[c][k].utility
               \/ /\ lists[c][k].id \in ids
                  /\ new[c][k].utility = Clip(lists[c][k].utility + delta)

LEMMA CreditType ==
  ASSUME NEW I, NEW X, NEW lists \in Banks([id : I, text : X, utility : 0..MaxUtility]),
         NEW ids, NEW delta \in Int
  PROVE  Rated(Credit(lists, ids, delta), lists, ids, delta,
               [id : I, text : X, utility : 0..MaxUtility])
  <1> DEFINE T == [id : I, text : X, utility : 0..MaxUtility]
             new == Credit(lists, ids, delta)
             one(c, s) == IF s.id \in ids /\ Home(lists, s.id) = c
                            THEN [s EXCEPT !.utility = Clip(@ + delta)] ELSE s
  <1>0. \A u \in Int : Clip(u) \in 0..MaxUtility
    BY DEF Clip, MaxUtility
  <1>1. ASSUME NEW c, NEW s \in T
        PROVE  /\ one(c, s) \in T /\ one(c, s).id = s.id /\ one(c, s).text = s.text
               /\ \/ one(c, s).utility = s.utility
                  \/ s.id \in ids /\ one(c, s).utility = Clip(s.utility + delta)
    <2>1. s.utility + delta \in Int
      BY DEF MaxUtility
    <2>2. Clip(s.utility + delta) \in 0..MaxUtility
      BY <1>0, <2>1
    <2> QED BY <2>2
  <1>2. new = [c \in Lists |-> [k \in DOMAIN lists[c] |-> one(c, lists[c][k])]]
    BY DEF Credit
  <1>3. \A c \in Lists : lists[c] \in Seq(T)
    BY DEF Banks
  <1> HIDE DEF T, new, one
  <1>4. ASSUME NEW c \in Lists
        PROVE  /\ new[c] \in Seq(T) /\ Len(new[c]) = Len(lists[c])
               /\ \A k \in 1..Len(lists[c]) : lists[c][k] \in T /\ new[c][k] = one(c, lists[c][k])
    <2>1. DOMAIN lists[c] = 1..Len(lists[c]) /\ Len(lists[c]) \in Nat
      BY <1>3
    <2>2. new[c] = [k \in 1..Len(lists[c]) |-> one(c, lists[c][k])]
      BY <1>2, <2>1
    <2>3. \A k \in 1..Len(lists[c]) : lists[c][k] \in T
      BY <1>3
    <2>4. \A k \in 1..Len(lists[c]) : one(c, lists[c][k]) \in T
      BY <1>1, <2>3
    <2> QED BY <2>1, <2>2, <2>3, <2>4
  <1>5. new \in Banks(T)
    BY <1>2, <1>4 DEF Banks
  <1>6. Rated(new, lists, ids, delta, T)
    BY <1>1, <1>4, <1>5 DEF Rated
  <1> QED BY <1>6 DEF T, new

-----------------------------------------------------------------------------
(* Merging *)

Acc(I) == [gone : SUBSET I, stop : BOOLEAN]

\* The recursion of MergeWith.
MergeRuns(m, flat, i, gone, I) ==
  /\ m[0] = [gone |-> gone, stop |-> FALSE]
  /\ \A j \in 0..(Len(flat) - i) : m[j] \in Acc(I)
  /\ \A j \in 1..(Len(flat) - i) : m[j] = Merge(m[j - 1], flat[i], flat[i + j])

LEMMA MergeType ==
  ASSUME NEW I, NEW acc \in Acc(I), NEW s, Dynamic(s) => s.id \in I,
         NEW r, Dynamic(r) => r.id \in I
  PROVE  Merge(acc, s, r) \in Acc(I)
  BY DEF Merge, Acc

LEMMA MergeRecursion ==
  ASSUME NEW S, NEW flat \in Seq(S), NEW I, \A s \in S : Dynamic(s) => s.id \in I,
         NEW i \in 1..Len(flat), NEW gone \in SUBSET I
  PROVE  \E m : MergeRuns(m, flat, i, gone, I)
                /\ MergeWith(flat, i, gone) = m[Len(flat) - i].gone
  <1> DEFINE n == Len(flat) - i
             base == [gone |-> gone, stop |-> FALSE]
             R == Acc(I)
             step == [x \in (1..n) \X R |-> Merge(x[2], flat[i], flat[i + x[1]])]
             Def(g) == g = [j \in 0..n |-> IF j = 0 THEN base
                                           ELSE Merge(g[j - 1], flat[i], flat[i + j])]
             m == CHOOSE g : Def(g)
  <1>0. n \in Nat /\ base \in R
    BY DEF Acc
  <1>1. /\ Dynamic(flat[i]) => flat[i].id \in I
        /\ \A j \in 1..n : Dynamic(flat[i + j]) => flat[i + j].id \in I
    <2>1. \A k \in 1..Len(flat) : Dynamic(flat[k]) => flat[k].id \in I
      <3>1. \A k \in 1..Len(flat) : flat[k] \in S
        OBVIOUS
      <3> QED BY <3>1
    <2>2. \A j \in 1..n : i + j \in 1..Len(flat)
      OBVIOUS
    <2> QED BY <2>1, <2>2
  <1>2. step \in [(1..n) \X R -> R]
    <2>1. ASSUME NEW x \in (1..n) \X R PROVE Merge(x[2], flat[i], flat[i + x[1]]) \in R
      <3>1. x[1] \in 1..n /\ x[2] \in R
        OBVIOUS
      <3> QED BY <1>1, <3>1, MergeType
    <2> QED BY <2>1
  <1>3. MergeWith(flat, i, gone) = m[n].gone
    BY DEF MergeWith
  <1> HIDE DEF n, base, step, R
  <1>4. PICK g : /\ g = [j \in 0..n |-> g[j]] /\ g[0] = base
                 /\ \A j \in 0..n : g[j] \in R
                 /\ \A j \in 1..n : g[j] = step[<<j, g[j - 1]>>]
    <2>1. \E g : TypedSteps(g, n, R, base, step)
      BY <1>0, <1>2, StepsTyped
    <2> QED BY <2>1 DEF TypedSteps
  <1>5. \A j \in 1..n : j - 1 \in 0..n /\ j # 0 /\ j \in 0..n
    BY <1>0
  <1>6. \A j \in 1..n : g[j] = Merge(g[j - 1], flat[i], flat[i + j])
    <2> TAKE j \in 1..n
    <2>1. <<j, g[j - 1]>> \in (1..n) \X R
      BY <1>4, <1>5
    <2>2. step[<<j, g[j - 1]>>] = Merge(g[j - 1], flat[i], flat[i + j])
      BY <2>1 DEF step
    <2> QED BY <1>4, <2>2
  <1>7. Def(g)
    <2>1. \A j \in 0..n : j # 0 => j \in 1..n
      BY <1>0
    <2>2. \A j \in 0..n : g[j] = IF j = 0 THEN base ELSE Merge(g[j - 1], flat[i], flat[i + j])
      BY <1>4, <1>6, <2>1
    <2>3. g = [j \in 0..n |-> g[j]]
      BY <1>4
    <2> QED BY <2>2, <2>3
  <1>8. Def(m)
    <2> HIDE DEF Def
    <2> QED BY <1>7
  <1> HIDE DEF m
  <1>9. m[0] = base
    BY <1>0, <1>8
  <1>10. \A j \in 1..n : m[j] = Merge(m[j - 1], flat[i], flat[i + j])
    BY <1>5, <1>8
  <1>11. \A j \in 0..n : m[j] \in R
    <2>1. \A j \in 1..n : m[j - 1] \in R => m[j] \in R
      BY <1>1, <1>10, MergeType DEF R
    <2> QED BY <1>0, <1>9, <2>1, StepsWithin
  <1> QED BY <1>3, <1>9, <1>10, <1>11 DEF MergeRuns, n, base, R

\* The recursion of MergedAway.
MergesAll(g, flat, I) ==
  /\ g[0] = {}
  /\ \A i \in 0..Len(flat) : g[i] \in SUBSET I
  /\ \A i \in 1..Len(flat) :
       g[i] = IF flat[i].id \in g[i - 1] THEN g[i - 1] ELSE MergeWith(flat, i, g[i - 1])

LEMMA MergedRecursion ==
  ASSUME NEW S, NEW flat \in Seq(S), NEW I, \A s \in S : Dynamic(s) => s.id \in I
  PROVE  \E g : MergesAll(g, flat, I) /\ MergedAway(flat) = g[Len(flat)]
  <1> DEFINE n == Len(flat)
             R == SUBSET I
             one(i, x) == IF flat[i].id \in x THEN x ELSE MergeWith(flat, i, x)
             step == [x \in (1..n) \X R |-> one(x[1], x[2])]
             Def(h) == h = [i \in 0..n |-> IF i = 0 THEN {}
                              ELSE IF flat[i].id \in h[i - 1] THEN h[i - 1]
                                   ELSE MergeWith(flat, i, h[i - 1])]
             g == CHOOSE h : Def(h)
  <1>0. n \in Nat /\ {} \in R
    OBVIOUS
  <1>1. ASSUME NEW i \in 1..n, NEW x \in R PROVE one(i, x) \in R
    <2>1. PICK m : MergeRuns(m, flat, i, x, I) /\ MergeWith(flat, i, x) = m[Len(flat) - i].gone
      BY MergeRecursion
    <2>2. n - i \in 0..(n - i)
      OBVIOUS
    <2>3. m[n - i] \in Acc(I)
      BY <2>1, <2>2 DEF MergeRuns
    <2>4. MergeWith(flat, i, x) \in R
      BY <2>1, <2>3 DEF Acc
    <2> QED BY <2>4
  <1>2. step \in [(1..n) \X R -> R]
    <2>1. \A x \in (1..n) \X R : one(x[1], x[2]) \in R
      BY <1>1
    <2> HIDE DEF one, R
    <2> QED BY <2>1
  <1>3. MergedAway(flat) = g[n]
    BY DEF MergedAway
  <1> HIDE DEF n, step, R
  <1>4. PICK h : /\ h = [i \in 0..n |-> h[i]] /\ h[0] = {}
                 /\ \A i \in 0..n : h[i] \in R
                 /\ \A i \in 1..n : h[i] = step[<<i, h[i - 1]>>]
    <2>1. \E h : TypedSteps(h, n, R, {}, step)
      BY <1>0, <1>2, StepsTyped
    <2> QED BY <2>1 DEF TypedSteps
  <1>5. \A i \in 1..n : i - 1 \in 0..n /\ i # 0 /\ i \in 0..n
    BY <1>0
  <1>6. \A i \in 1..n : h[i] = one(i, h[i - 1])
    <2> TAKE i \in 1..n
    <2>1. <<i, h[i - 1]>> \in (1..n) \X R
      BY <1>4, <1>5
    <2> HIDE DEF one
    <2>2. step[<<i, h[i - 1]>>] = one(i, h[i - 1])
      BY <2>1 DEF step
    <2> QED BY <1>4, <2>2
  <1>7. Def(h)
    <2>1. \A i \in 0..n : i # 0 => i \in 1..n
      BY <1>0
    <2>2. \A i \in 0..n : h[i] = IF i = 0 THEN {}
                                 ELSE IF flat[i].id \in h[i - 1] THEN h[i - 1]
                                      ELSE MergeWith(flat, i, h[i - 1])
      BY <1>4, <1>6, <2>1
    <2>3. h = [i \in 0..n |-> h[i]]
      BY <1>4
    <2> QED BY <2>2, <2>3
  <1>8. Def(g)
    <2> HIDE DEF Def
    <2> QED BY <1>7
  <1> HIDE DEF g
  <1>9. g[0] = {}
    BY <1>0, <1>8
  <1>10. \A i \in 1..n : g[i] = one(i, g[i - 1])
    BY <1>5, <1>8
  <1>11. \A i \in 0..n : g[i] \in R
    <2>1. \A i \in 1..n : g[i - 1] \in R => g[i] \in R
      <3> HIDE DEF one
      <3> QED BY <1>1, <1>10
    <2> QED BY <1>0, <1>9, <2>1, StepsWithin
  <1> QED BY <1>3, <1>9, <1>10, <1>11 DEF MergesAll, n, R

\* Only dynamic skills of the list are merged away.
LEMMA MergedDynamic ==
  ASSUME NEW S, NEW flat \in Seq(S)
  PROVE  MergedAway(flat) \subseteq {s.id : s \in {r \in ToSet(flat) : Dynamic(r)}}
  <1> DEFINE I == {s.id : s \in {r \in ToSet(flat) : Dynamic(r)}}
             n == Len(flat)
  <1>1. flat \in Seq(ToSet(flat)) /\ n \in Nat
    <2>1. DOMAIN flat = 1..n /\ n \in Nat /\ flat = [k \in 1..n |-> flat[k]]
      OBVIOUS
    <2>2. \A k \in 1..n : flat[k] \in ToSet(flat)
      BY <2>1 DEF ToSet
    <2> QED BY <2>1, <2>2
  <1>2. \A s \in ToSet(flat) : Dynamic(s) => s.id \in I
    OBVIOUS
  <1> HIDE DEF I, n
  <1>3. PICK g : MergesAll(g, flat, I) /\ MergedAway(flat) = g[n]
    BY <1>1, <1>2, MergedRecursion DEF n
  <1>4. n \in 0..n
    BY <1>1
  <1>5. g[n] \in SUBSET I
    BY <1>3, <1>4 DEF MergesAll, n
  <1> QED BY <1>3, <1>5 DEF I

Leads(s, r)    == Dynamic(s) /\ Near({s, r}) /\ s.utility <= r.utility
Outranks(s, r) == s.utility > r.utility \/ (s.utility = r.utility /\ ~Dynamic(r))

\* Nothing between two skills that stay is left to merge.
Settled(s, r) == Near({s, r}) => /\ Dynamic(s) => Outranks(s, r)
                                 /\ Dynamic(r) => Outranks(r, s)

\* Every set of skills merged away has one that leads out of it.
LeadOut(flat, gone) ==
  \A away \in SUBSET {s \in ToSet(flat) : s.id \in gone} :
    away # {} => \E s \in away, r \in ToSet(flat) \ away : Leads(s, r)

OneEach(set) == \A s, r \in set : s.id = r.id => s = r

LEMMA LeadMore ==
  ASSUME NEW flat, NEW gone, OneEach(ToSet(flat)), LeadOut(flat, gone),
         NEW x \in ToSet(flat), NEW y \in ToSet(flat), Leads(x, y),
         y.id \notin gone, y.id # x.id
  PROVE  LeadOut(flat, gone \cup {x.id})
  <1> SUFFICES ASSUME NEW away \in SUBSET {s \in ToSet(flat) : s.id \in gone \cup {x.id}},
                      away # {}
               PROVE  \E s \in away, r \in ToSet(flat) \ away : Leads(s, r)
    BY DEF LeadOut
  <1>1. CASE x \in away
    <2>1. y \notin away
      OBVIOUS
    <2> QED BY <1>1, <2>1
  <1>2. CASE x \notin away
    <2>1. away \in SUBSET {s \in ToSet(flat) : s.id \in gone}
      BY <1>2 DEF OneEach
    <2> QED BY <2>1 DEF LeadOut
  <1> QED BY <1>1, <1>2

\* What holds while skill s is compared with the others.
Running(acc, flat, s) == (acc.stop <=> s.id \in acc.gone) /\ LeadOut(flat, acc.gone)

LEMMA MergeOne ==
  ASSUME NEW I, NEW acc \in Acc(I), NEW flat, OneEach(ToSet(flat)),
         \A x \in ToSet(flat) : x.utility \in Int,
         NEW s \in ToSet(flat), NEW r \in ToSet(flat), s.id # r.id, Running(acc, flat, s)
  PROVE  /\ Running(Merge(acc, s, r), flat, s)
         /\ acc.gone \subseteq Merge(acc, s, r).gone
         /\ s.id \notin Merge(acc, s, r).gone /\ r.id \notin Merge(acc, s, r).gone =>
              Settled(s, r)
  <1> DEFINE new == Merge(acc, s, r)
  <1>0. /\ acc.stop \in BOOLEAN /\ (acc.stop <=> s.id \in acc.gone)
        /\ LeadOut(flat, acc.gone) /\ s.utility \in Int /\ r.utility \in Int
    BY DEF Running, Acc
  <1>a. {s, r} = {r, s}
    OBVIOUS
  <1>1. CASE acc.stop \/ r.id \in acc.gone \/ ~Near({s, r})
    <2>1. new = acc
      BY <1>1 DEF Merge
    <2>2. s.id \notin acc.gone /\ r.id \notin acc.gone => ~Near({s, r})
      BY <1>0, <1>1
    <2> HIDE DEF new
    <2>3. /\ Running(new, flat, s) /\ acc.gone \subseteq new.gone
          /\ s.id \notin new.gone /\ r.id \notin new.gone => Settled(s, r)
      BY <2>1, <2>2 DEF Settled
    <2> QED BY <2>3 DEF new
  <1>2. CASE /\ ~(acc.stop \/ r.id \in acc.gone \/ ~Near({s, r}))
             /\ Dynamic(r) /\ s.utility >= r.utility
    <2>1. new = [gone |-> acc.gone \cup {r.id}, stop |-> FALSE]
      BY <1>2 DEF Merge
    <2>2. Leads(r, s) /\ s.id \notin acc.gone
      BY <1>0, <1>2, <1>a DEF Leads
    <2>3. LeadOut(flat, acc.gone \cup {r.id})
      BY <1>0, <2>2, LeadMore
    <2>4. new.gone = acc.gone \cup {r.id} /\ new.stop = FALSE
      BY <2>1
    <2> HIDE DEF new
    <2>5. /\ Running(new, flat, s) /\ acc.gone \subseteq new.gone
          /\ r.id \in new.gone
      BY <2>2, <2>3, <2>4 DEF Running
    <2> QED BY <2>5 DEF new
  <1>3. CASE /\ ~(acc.stop \/ r.id \in acc.gone \/ ~Near({s, r}))
             /\ ~(Dynamic(r) /\ s.utility >= r.utility)
             /\ Dynamic(s) /\ r.utility > s.utility
    <2>1. new = [gone |-> acc.gone \cup {s.id}, stop |-> TRUE]
      BY <1>3 DEF Merge
    <2>2. Leads(s, r) /\ r.id \notin acc.gone
      BY <1>0, <1>3 DEF Leads
    <2>3. LeadOut(flat, acc.gone \cup {s.id})
      BY <1>0, <2>2, LeadMore
    <2>4. new.gone = acc.gone \cup {s.id} /\ new.stop = TRUE
      BY <2>1
    <2> HIDE DEF new
    <2>5. /\ Running(new, flat, s) /\ acc.gone \subseteq new.gone
          /\ s.id \in new.gone
      BY <2>3, <2>4 DEF Running
    <2> QED BY <2>5 DEF new
  <1>4. CASE /\ ~(acc.stop \/ r.id \in acc.gone \/ ~Near({s, r}))
             /\ ~(Dynamic(r) /\ s.utility >= r.utility)
             /\ ~(Dynamic(s) /\ r.utility > s.utility)
    <2>1. new = acc
      BY <1>4 DEF Merge
    <2>2. Settled(s, r)
      BY <1>0, <1>4 DEF Settled, Outranks
    <2> HIDE DEF new
    <2>3. Running(new, flat, s) /\ acc.gone \subseteq new.gone
      BY <2>1
    <2> QED BY <2>2, <2>3 DEF new
  <1> QED BY <1>1, <1>2, <1>3, <1>4

\* A list of skills with one utility and one place for each id.
Singles(flat, S) ==
  /\ flat \in Seq(S) /\ \A s \in S : s.utility \in Int
  /\ \A j, k \in 1..Len(flat) : flat[j].id = flat[k].id => j = k

LEMMA SinglesSet ==
  ASSUME NEW S, NEW flat, Singles(flat, S)
  PROVE  /\ OneEach(ToSet(flat)) /\ \A x \in ToSet(flat) : x.utility \in Int
         /\ \A k \in 1..Len(flat) : flat[k] \in ToSet(flat)
         /\ \A x \in ToSet(flat) : \E k \in 1..Len(flat) : x = flat[k]
         /\ flat \in Seq(ToSet(flat)) /\ Len(flat) \in Nat
  <1> DEFINE n == Len(flat)
  <1>1. /\ flat \in Seq(S) /\ \A s \in S : s.utility \in Int
        /\ \A j, k \in 1..n : flat[j].id = flat[k].id => j = k
    BY DEF Singles
  <1>2. n \in Nat /\ DOMAIN flat = 1..n /\ flat = [k \in 1..n |-> flat[k]]
        /\ \A k \in 1..n : flat[k] \in S
    BY <1>1
  <1> HIDE DEF n
  <1>3. ToSet(flat) = {flat[k] : k \in 1..n}
    BY <1>2 DEF ToSet
  <1>4. OneEach(ToSet(flat))
    BY <1>1, <1>3 DEF OneEach
  <1>5. flat \in Seq(ToSet(flat))
    <2>1. \A k \in 1..n : flat[k] \in ToSet(flat)
      BY <1>3
    <2> QED BY <1>2, <2>1
  <1> QED BY <1>1, <1>2, <1>3, <1>4, <1>5 DEF n

\* One skill has been compared with every later one.
SettledWith(flat, i, gone) ==
  \A b \in (i + 1)..Len(flat) :
    flat[i].id \notin gone /\ flat[b].id \notin gone => Settled(flat[i], flat[b])

LEMMA MergeWithSettles ==
  ASSUME NEW S, NEW flat, Singles(flat, S), NEW I,
         \A s \in ToSet(flat) : Dynamic(s) => s.id \in I,
         NEW i \in 1..Len(flat), NEW gone \in SUBSET I,
         flat[i].id \notin gone, LeadOut(flat, gone)
  PROVE  /\ gone \subseteq MergeWith(flat, i, gone)
         /\ LeadOut(flat, MergeWith(flat, i, gone))
         /\ SettledWith(flat, i, MergeWith(flat, i, gone))
  <1> DEFINE n == Len(flat) - i
  <1>0. /\ OneEach(ToSet(flat)) /\ \A x \in ToSet(flat) : x.utility \in Int
        /\ \A k \in 1..Len(flat) : flat[k] \in ToSet(flat)
        /\ flat \in Seq(ToSet(flat)) /\ Len(flat) \in Nat
    BY SinglesSet
  <1>1. \A j, k \in 1..Len(flat) : flat[j].id = flat[k].id => j = k
    BY DEF Singles
  <1>2. n \in Nat /\ i \in Nat
    BY <1>0
  <1>3. PICK m : MergeRuns(m, flat, i, gone, I) /\ MergeWith(flat, i, gone) = m[n].gone
    BY <1>0, MergeRecursion
  <1>4. /\ m[0] = [gone |-> gone, stop |-> FALSE]
        /\ \A j \in 0..n : m[j] \in Acc(I)
        /\ \A j \in 1..n : m[j] = Merge(m[j - 1], flat[i], flat[i + j])
    BY <1>3 DEF MergeRuns
  <1>5. \A j \in 1..n : i + j \in 1..Len(flat) /\ i + j # i
    BY <1>0
  <1>n. \A b \in (i + 1)..Len(flat) : b - i \in 1..n /\ i + (b - i) = b
    BY <1>0
  <1> DEFINE Done(j) == /\ Running(m[j], flat, flat[i]) /\ gone \subseteq m[j].gone
                        /\ \A b \in 1..j :
                             flat[i].id \notin m[j].gone /\ flat[i + b].id \notin m[j].gone =>
                               Settled(flat[i], flat[i + b])
             T == {j \in Nat : j <= n => Done(j)}
  <1> HIDE DEF n
  <1>6. 0 \in T
    <2>1. m[0].gone = gone /\ m[0].stop = FALSE
      BY <1>4
    <2> QED BY <2>1 DEF Running
  <1>7. ASSUME NEW j \in T PROVE j + 1 \in T
    <2> SUFFICES ASSUME j + 1 <= n PROVE Done(j + 1)
      BY <1>7
    <2>1. j \in Nat /\ j + 1 \in 1..n /\ (j + 1) - 1 = j /\ j \in 0..n /\ Done(j)
      BY <1>2, <1>7
    <2> DEFINE s == flat[i]
               r == flat[i + (j + 1)]
               new == m[j + 1]
    <2>2. new = Merge(m[j], s, r)
      BY <1>4, <2>1
    <2>3. s \in ToSet(flat) /\ r \in ToSet(flat) /\ s.id # r.id
      <3>1. i + (j + 1) \in 1..Len(flat) /\ i + (j + 1) # i
        BY <1>5, <2>1
      <3> QED BY <1>0, <1>1, <3>1
    <2>4. m[j] \in Acc(I) /\ Running(m[j], flat, s) /\ gone \subseteq m[j].gone
      BY <1>4, <2>1
    <2>5. \A b \in 1..j : s.id \notin m[j].gone /\ flat[i + b].id \notin m[j].gone =>
                            Settled(s, flat[i + b])
      BY <2>1
    <2> HIDE DEF Done, T, s, r, new
    <2>6. /\ Running(new, flat, s) /\ m[j].gone \subseteq new.gone
          /\ s.id \notin new.gone /\ r.id \notin new.gone => Settled(s, r)
      BY <1>0, <2>2, <2>3, <2>4, MergeOne
    <2>7. ASSUME NEW b \in 1..(j + 1), s.id \notin new.gone, flat[i + b].id \notin new.gone
          PROVE  Settled(s, flat[i + b])
      <3>1. CASE b \in 1..j
        BY <2>5, <2>6, <2>7, <3>1
      <3>2. CASE b \notin 1..j
        <4>1. b = j + 1
          BY <2>1, <3>2
        <4> QED BY <2>6, <2>7, <4>1 DEF r
      <3> QED BY <3>1, <3>2
    <2> QED BY <2>4, <2>6, <2>7 DEF Done, s, new
  <1> HIDE DEF T
  <1>8. T = Nat
    BY <1>6, <1>7, Counting DEF T
  <1>9. Done(n)
    BY <1>2, <1>8 DEF T
  <1>10. /\ LeadOut(flat, m[n].gone) /\ gone \subseteq m[n].gone
         /\ \A b \in 1..n :
              flat[i].id \notin m[n].gone /\ flat[i + b].id \notin m[n].gone =>
                Settled(flat[i], flat[i + b])
    BY <1>9 DEF Running
  <1> HIDE DEF Done
  <1>11. SettledWith(flat, i, m[n].gone)
    <2> SUFFICES ASSUME NEW b \in (i + 1)..Len(flat), flat[i].id \notin m[n].gone,
                        flat[b].id \notin m[n].gone
                 PROVE  Settled(flat[i], flat[b])
      BY DEF SettledWith
    <2>1. b - i \in 1..n /\ i + (b - i) = b
      BY <1>n
    <2> QED BY <1>10, <2>1
  <1> QED BY <1>3, <1>10, <1>11

\* Whatever is merged leads to a skill that stays, and nothing is left to merge.
LEMMA MergedSettled ==
  ASSUME NEW S, NEW flat, Singles(flat, S)
  PROVE  /\ LeadOut(flat, MergedAway(flat))
         /\ \A s, r \in ToSet(flat) :
              s # r /\ s.id \notin MergedAway(flat) /\ r.id \notin MergedAway(flat)
                => Settled(s, r)
  <1> DEFINE n == Len(flat)
             I == {s.id : s \in {r \in ToSet(flat) : Dynamic(r)}}
  <1>0. /\ \A k \in 1..n : flat[k] \in ToSet(flat)
        /\ \A x \in ToSet(flat) : \E k \in 1..n : x = flat[k]
        /\ flat \in Seq(ToSet(flat)) /\ n \in Nat
    BY SinglesSet
  <1>1. \A s \in ToSet(flat) : Dynamic(s) => s.id \in I
    OBVIOUS
  <1> HIDE DEF I
  <1>2. PICK g : MergesAll(g, flat, I) /\ MergedAway(flat) = g[n]
    BY <1>0, <1>1, MergedRecursion
  <1>3. /\ g[0] = {} /\ \A i \in 0..n : g[i] \in SUBSET I
        /\ \A i \in 1..n :
             g[i] = IF flat[i].id \in g[i - 1] THEN g[i - 1] ELSE MergeWith(flat, i, g[i - 1])
    BY <1>2 DEF MergesAll
  <1> DEFINE Done(i) == LeadOut(flat, g[i]) /\ \A a \in 1..i : SettledWith(flat, a, g[i])
             T == {i \in Nat : i <= n => Done(i)}
  <1>4. 0 \in T
    <2>1. LeadOut(flat, g[0])
      BY <1>3 DEF LeadOut
    <2> QED BY <2>1
  <1>5. ASSUME NEW i \in T PROVE i + 1 \in T
    <2> SUFFICES ASSUME i + 1 <= n PROVE Done(i + 1)
      BY <1>5
    <2>1. i \in Nat /\ i + 1 \in 1..n /\ (i + 1) - 1 = i /\ i \in 0..n /\ Done(i)
      BY <1>0, <1>5
    <2> DEFINE new == g[i + 1]
    <2>2. new = IF flat[i + 1].id \in g[i] THEN g[i] ELSE MergeWith(flat, i + 1, g[i])
      BY <1>3, <2>1
    <2>3. g[i] \in SUBSET I /\ LeadOut(flat, g[i]) /\ \A a \in 1..i : SettledWith(flat, a, g[i])
      BY <1>3, <2>1
    <2> HIDE DEF Done, T, new
    <2>4. LeadOut(flat, new) /\ g[i] \subseteq new /\ SettledWith(flat, i + 1, new)
      <3>1. CASE flat[i + 1].id \in g[i]
        BY <2>2, <2>3, <3>1 DEF SettledWith
      <3>2. CASE flat[i + 1].id \notin g[i]
        <4>1. new = MergeWith(flat, i + 1, g[i])
          BY <2>2, <3>2
        <4> QED BY <1>1, <2>1, <2>3, <3>2, <4>1, MergeWithSettles DEF n
      <3> QED BY <3>1, <3>2
    <2>5. ASSUME NEW a \in 1..(i + 1) PROVE SettledWith(flat, a, new)
      <3>1. CASE a \in 1..i
        BY <2>3, <2>4, <3>1 DEF SettledWith
      <3>2. CASE a \notin 1..i
        <4>1. a = i + 1
          BY <2>1, <3>2
        <4> QED BY <2>4, <4>1
      <3> QED BY <3>1, <3>2
    <2> QED BY <2>4, <2>5 DEF Done, new
  <1> HIDE DEF T
  <1>6. T = Nat
    BY <1>4, <1>5, Counting DEF T
  <1>7. LeadOut(flat, g[n]) /\ \A a \in 1..n : SettledWith(flat, a, g[n])
    BY <1>0, <1>6 DEF T
  <1> HIDE DEF Done
  <1>8. ASSUME NEW s \in ToSet(flat), NEW r \in ToSet(flat), s # r,
               s.id \notin g[n], r.id \notin g[n]
        PROVE  Settled(s, r)
    <2>1. PICK a \in 1..n : s = flat[a]
      BY <1>0
    <2>2. PICK b \in 1..n : r = flat[b]
      BY <1>0
    <2>3. a # b
      BY <1>8, <2>1, <2>2
    <2>4. CASE a < b
      <3>1. b \in (a + 1)..n
        BY <1>0, <2>4
      <3> QED BY <1>7, <1>8, <2>1, <2>2, <3>1 DEF SettledWith, n
    <2>5. CASE b < a
      <3>1. a \in (b + 1)..n
        BY <1>0, <2>5
      <3>2. Settled(r, s)
        BY <1>7, <1>8, <2>1, <2>2, <3>1 DEF SettledWith, n
      <3>3. {s, r} = {r, s}
        OBVIOUS
      <3> QED BY <3>2, <3>3 DEF Settled
    <2> QED BY <1>0, <2>3, <2>4, <2>5
  <1> QED BY <1>2, <1>7, <1>8

-----------------------------------------------------------------------------
(* Restoring *)

\* What PutBack makes of the lists: the skill of the snapshot's list c at o is
\* put over the entry of its id at h, or else at the end.
PutAt(lists, snap, i, new, c, o) ==
  /\ c \in Lists /\ o \in 1..Len(snap[c]) /\ snap[c][o].id = i
  /\ \/ /\ ~Holds(lists[c], i)
        /\ new = [lists EXCEPT ![c] = Append(@, snap[c][o])]
     \/ \E h \in 1..Len(lists[c]) :
          lists[c][h].id = i /\ new = [lists EXCEPT ![c][h] = snap[c][o]]

LEMMA PutBackAt ==
  ASSUME NEW S, NEW lists \in Banks(S), NEW snap \in Banks(S), NEW i,
         NEW d \in Lists, Holds(snap[d], i)
  PROVE  \E c, o : PutAt(lists, snap, i, PutBack(lists, snap, i), c, o)
  <1> DEFINE n == Len(Order)
             K == {k \in 1..n : Holds(snap[Order[k]], i)}
             c == Order[Max(K)]
             O == {k \in 1..Len(snap[c]) : snap[c][k].id = i}
             old == snap[c][Max(O)]
             H == {k \in 1..Len(lists[c]) : lists[c][k].id = i}
             new == PutBack(lists, snap, i)
  <1>1. n \in Nat /\ Lists = {Order[k] : k \in 1..n}
    BY OrderType
  <1>2. K # {}
    BY <1>1
  <1>3. SelectLastInSeq(Order, LAMBDA e : Holds(snap[e], i)) = Max(K)
    BY <1>2 DEF SelectLastInSeq
  <1>4. Max(K) \in K
    <2>1. K \in SUBSET (1..n)
      OBVIOUS
    <2> HIDE DEF K, n
    <2> QED BY <1>1, <1>2, <2>1, FirstLast
  <1>5. c \in Lists /\ Holds(snap[c], i)
    BY <1>1, <1>4
  <1>6. SelectLastInSeq(snap[c], LAMBDA s : s.id = i) = IF O # {} THEN Max(O) ELSE 0
    BY DEF SelectLastInSeq
  <1>7. SelectInSeq(lists[c], LAMBDA s : s.id = i) = IF H # {} THEN Min(H) ELSE 0
    BY DEF SelectInSeq
  <1> DEFINE p == SelectLastInSeq(snap[c], LAMBDA s : s.id = i)
             h == SelectInSeq(lists[c], LAMBDA s : s.id = i)
  <1>8. new = IF h = 0 THEN [lists EXCEPT ![c] = Append(@, snap[c][p])]
              ELSE [lists EXCEPT ![c][h] = snap[c][p]]
    BY <1>3 DEF PutBack
  <1> HIDE DEF c, new, p, h
  <1>9. /\ snap[c] \in Seq(S) /\ lists[c] \in Seq(S)
        /\ Len(snap[c]) \in Nat /\ Len(lists[c]) \in Nat
        /\ DOMAIN snap[c] = 1..Len(snap[c]) /\ DOMAIN lists[c] = 1..Len(lists[c])
    BY <1>5 DEF Banks
  <1>10. O # {}
    BY <1>5, <1>9 DEF Holds
  <1>11. p \in O
    <2>1. O \in SUBSET (1..Len(snap[c]))
      OBVIOUS
    <2>2. p = Max(O)
      BY <1>6, <1>10 DEF p
    <2> HIDE DEF O
    <2> QED BY <1>9, <1>10, <2>1, <2>2, FirstLast
  <1>12. (h = 0 /\ H = {}) \/ h \in H
    <2>1. H \in SUBSET (1..Len(lists[c]))
      OBVIOUS
    <2>2. h = IF H # {} THEN Min(H) ELSE 0
      BY <1>7 DEF h
    <2> HIDE DEF H
    <2> QED BY <1>9, <2>1, <2>2, FirstLast
  <1>13. CASE h = 0 /\ H = {}
    <2>1. ~Holds(lists[c], i)
      BY <1>9, <1>13 DEF Holds
    <2>2. new = [lists EXCEPT ![c] = Append(@, snap[c][p])]
      BY <1>8, <1>13
    <2>3. p \in 1..Len(snap[c]) /\ snap[c][p].id = i
      BY <1>11
    <2>4. PutAt(lists, snap, i, new, c, p)
      BY <1>5, <2>1, <2>2, <2>3 DEF PutAt
    <2> QED BY <2>4 DEF new
  <1>14. CASE h \in H
    <2>1. h \in 1..Len(lists[c]) /\ lists[c][h].id = i /\ h # 0
      BY <1>9, <1>14
    <2>2. new = [lists EXCEPT ![c][h] = snap[c][p]]
      BY <1>8, <2>1
    <2>3. p \in 1..Len(snap[c]) /\ snap[c][p].id = i
      BY <1>11
    <2>4. PutAt(lists, snap, i, new, c, p)
      BY <1>5, <2>1, <2>2, <2>3 DEF PutAt
    <2> QED BY <2>4 DEF new
  <1> QED BY <1>12, <1>13, <1>14

\* Every item comes from the lists or from the snapshot.
LEMMA PutAtType ==
  ASSUME NEW S, NEW lists \in Banks(S), NEW snap \in Banks(S), NEW i, NEW new,
         NEW c, NEW o, PutAt(lists, snap, i, new, c, o)
  PROVE  /\ new \in Banks(S)
         /\ \A d \in Lists \ {c} : new[d] = lists[d]
         /\ snap[c][o] \in ToSet(snap[c])
         /\ \/ /\ ~Holds(lists[c], i) /\ new[c] = Append(lists[c], snap[c][o])
            \/ \E h \in 1..Len(lists[c]) :
                 /\ lists[c][h].id = i /\ Len(new[c]) = Len(lists[c])
                 /\ \A k \in 1..Len(lists[c]) :
                      new[c][k] = IF k = h THEN snap[c][o] ELSE lists[c][k]
  <1> DEFINE old == snap[c][o]
  <1>1. c \in Lists /\ lists[c] \in Seq(S) /\ snap[c] \in Seq(S)
    BY DEF PutAt, Banks
  <1>2. old \in S /\ old \in ToSet(snap[c])
    BY <1>1 DEF PutAt, ToSet
  <1>3. lists = [d \in Lists |-> lists[d]] /\ \A d \in Lists : lists[d] \in Seq(S)
    BY DEF Banks
  <1>4. CASE ~Holds(lists[c], i) /\ new = [lists EXCEPT ![c] = Append(@, old)]
    <2> HIDE DEF old
    <2>1. Append(lists[c], old) \in Seq(S)
      BY <1>1, <1>2
    <2>2. new \in Banks(S) /\ new[c] = Append(lists[c], old)
          /\ \A d \in Lists \ {c} : new[d] = lists[d]
      BY <1>1, <1>3, <1>4, <2>1 DEF Banks
    <2> QED BY <1>2, <1>4, <2>2 DEF old
  <1>5. CASE \E h \in 1..Len(lists[c]) :
               lists[c][h].id = i /\ new = [lists EXCEPT ![c][h] = old]
    <2> HIDE DEF old
    <2>1. PICK h \in 1..Len(lists[c]) :
            lists[c][h].id = i /\ new = [lists EXCEPT ![c][h] = old]
      BY <1>5
    <2> DEFINE l == [lists[c] EXCEPT ![h] = old]
    <2>2. l \in Seq(S) /\ Len(l) = Len(lists[c])
          /\ \A k \in 1..Len(lists[c]) : l[k] = IF k = h THEN old ELSE lists[c][k]
      BY <1>1, <1>2
    <2>3. new = [lists EXCEPT ![c] = l]
      BY <2>1
    <2> HIDE DEF l
    <2>4. new \in Banks(S) /\ new[c] = l /\ \A d \in Lists \ {c} : new[d] = lists[d]
      BY <1>1, <1>3, <2>2, <2>3 DEF Banks
    <2> QED BY <1>2, <2>1, <2>2, <2>4 DEF old
  <1> QED BY <1>4, <1>5 DEF PutAt

\* The recursion of RestorePartial.
Restores(r, lists, snap, back, gone, S) ==
  /\ r[0] = Without(lists, gone)
  /\ \A n \in 0..Len(back) : r[n] \in Banks(S)
  /\ \A n \in 1..Len(back) : r[n] = PutBack(r[n - 1], snap, back[n])

\* What there is to put back, and what to remove.
RestoreBy(r, back, lists, snap, ids, I, S) ==
  /\ Restores(r, lists, snap, back, ToSet(ids) \ Ids(snap), S)
  /\ back \in Seq(I) /\ ToSet(back) = ToSet(ids) \cap Ids(snap)
  /\ RestorePartial(lists, snap, ids) = r[Len(back)]

LEMMA RestoreRecursion ==
  ASSUME NEW S, NEW lists \in Banks(S), NEW snap \in Banks(S), NEW I, NEW ids \in Seq(I)
  PROVE  \E r, back : RestoreBy(r, back, lists, snap, ids, I, S)
  <1> DEFINE back == Only(ids, Ids(snap))
             n == Len(back)
             R == Banks(S)
             base == Without(lists, ToSet(ids) \ Ids(snap))
             step == [x \in (1..n) \X R |-> PutBack(x[2], snap, back[x[1]])]
             Def(g) == g = [k \in 0..n |-> IF k = 0 THEN base
                                           ELSE PutBack(g[k - 1], snap, back[k])]
             r == CHOOSE g : Def(g)
  <1>0. back \in Seq(I) /\ ToSet(back) = ToSet(ids) \cap Ids(snap)
    BY OnlyType
  <1>1. RestorePartial(lists, snap, ids) = r[n]
    BY DEF RestorePartial
  <1>2. base \in R
    BY WithoutType DEF Removed
  <1> HIDE DEF back, r, base
  <1>3. n \in Nat /\ \A k \in 1..n : back[k] \in Ids(snap)
    <2>1. n \in Nat /\ DOMAIN back = 1..n
      BY <1>0
    <2>2. \A k \in 1..n : back[k] \in ToSet(back)
      BY <2>1 DEF ToSet
    <2> QED BY <1>0, <2>1, <2>2
  <1> HIDE DEF n
  <1>4. ASSUME NEW k \in 1..n, NEW x \in R PROVE PutBack(x, snap, back[k]) \in R
    <2>1. PICK d \in Lists : Holds(snap[d], back[k])
      BY <1>3, IdsHeld
    <2>2. PICK c, o : PutAt(x, snap, back[k], PutBack(x, snap, back[k]), c, o)
      BY <2>1, PutBackAt
    <2> QED BY <2>2, PutAtType
  <1>5. step \in [(1..n) \X R -> R]
    <2>1. \A x \in (1..n) \X R : x[1] \in 1..n /\ x[2] \in R
      OBVIOUS
    <2> HIDE DEF R
    <2> QED BY <1>4, <2>1
  <1> HIDE DEF step, R
  <1>6. PICK g : /\ g = [k \in 0..n |-> g[k]] /\ g[0] = base
                 /\ \A k \in 0..n : g[k] \in R
                 /\ \A k \in 1..n : g[k] = step[<<k, g[k - 1]>>]
    <2>1. \E g : TypedSteps(g, n, R, base, step)
      BY <1>2, <1>3, <1>5, StepsTyped
    <2> QED BY <2>1 DEF TypedSteps
  <1>7. \A k \in 1..n : k - 1 \in 0..n /\ k # 0 /\ k \in 0..n
    BY <1>3
  <1>8. \A k \in 1..n : g[k] = PutBack(g[k - 1], snap, back[k])
    <2> TAKE k \in 1..n
    <2>1. <<k, g[k - 1]>> \in (1..n) \X R
      BY <1>6, <1>7
    <2>2. step[<<k, g[k - 1]>>] = PutBack(g[k - 1], snap, back[k])
      BY <2>1 DEF step
    <2> QED BY <1>6, <2>2
  <1>9. Def(g)
    <2>1. \A k \in 0..n : k # 0 => k \in 1..n
      BY <1>3
    <2>2. \A k \in 0..n : g[k] = IF k = 0 THEN base ELSE PutBack(g[k - 1], snap, back[k])
      BY <1>6, <1>8, <2>1
    <2>3. g = [k \in 0..n |-> g[k]]
      BY <1>6
    <2> QED BY <2>2, <2>3
  <1>10. Def(r)
    <2> HIDE DEF Def
    <2> QED BY <1>9 DEF r
  <1>11. r[0] = base
    BY <1>3, <1>10
  <1>12. \A k \in 1..n : r[k] = PutBack(r[k - 1], snap, back[k])
    BY <1>7, <1>10
  <1>13. \A k \in 0..n : r[k] \in R
    <2>1. \A k \in 1..n : r[k - 1] \in R => r[k] \in R
      BY <1>4, <1>12
    <2> QED BY <1>2, <1>3, <1>11, <2>1, StepsWithin
  <1>14. Restores(r, lists, snap, back, ToSet(ids) \ Ids(snap), S)
    BY <1>11, <1>12, <1>13 DEF Restores, n, base, R
  <1>15. RestoreBy(r, back, lists, snap, ids, I, S)
    BY <1>0, <1>1, <1>14 DEF n, RestoreBy
  <1> QED BY <1>15

\* No id is twice in one list.
Separate(lists) ==
  \A c \in Lists : \A k, l \in 1..Len(lists[c]) : lists[c][k].id = lists[c][l].id => k = l

LEMMA DistinctSeparate ==
  ASSUME NEW S, NEW lists \in Banks(S), Distinct(lists)
  PROVE  Separate(lists)
  <1>1. \A c \in Lists : DOMAIN lists[c] = 1..Len(lists[c])
    BY DEF Banks
  <1> QED BY <1>1 DEF Distinct, Separate

LEMMA PutAtSet ==
  ASSUME NEW S, NEW lists \in Banks(S), NEW snap \in Banks(S), NEW i, NEW new,
         NEW c, NEW o, PutAt(lists, snap, i, new, c, o), Separate(lists)
  PROVE  /\ Separate(new)
         /\ ToSet(new[c]) = {s \in ToSet(lists[c]) : s.id # i} \cup {snap[c][o]}
  <1> DEFINE old == snap[c][o]
  <1>1. c \in Lists /\ snap[c][o].id = i
    BY DEF PutAt
  <1>2. /\ new \in Banks(S) /\ \A d \in Lists \ {c} : new[d] = lists[d]
        /\ \/ ~Holds(lists[c], i) /\ new[c] = Append(lists[c], old)
           \/ \E h \in 1..Len(lists[c]) :
                /\ lists[c][h].id = i /\ Len(new[c]) = Len(lists[c])
                /\ \A k \in 1..Len(lists[c]) : new[c][k] = IF k = h THEN old ELSE lists[c][k]
    BY PutAtType
  <1> HIDE DEF old
  <1>3. /\ lists[c] \in Seq(S) /\ new[c] \in Seq(S) /\ Len(lists[c]) \in Nat
        /\ DOMAIN lists[c] = 1..Len(lists[c]) /\ DOMAIN new[c] = 1..Len(new[c])
    BY <1>1, <1>2 DEF Banks
  <1>4. old.id = i /\ old \in S
    <2>1. snap[c] \in Seq(S)
      BY <1>1 DEF Banks
    <2> QED BY <2>1, <1>1 DEF old, PutAt
  <1>5. \A k, l \in 1..Len(lists[c]) : lists[c][k].id = lists[c][l].id => k = l
    BY <1>1 DEF Separate
  <1>6. ASSUME ~Holds(lists[c], i), new[c] = Append(lists[c], old)
        PROVE  /\ \A k, l \in 1..Len(new[c]) : new[c][k].id = new[c][l].id => k = l
               /\ ToSet(new[c]) = {s \in ToSet(lists[c]) : s.id # i} \cup {old}
    <2> DEFINE n == Len(lists[c])
    <2>1. \A k \in 1..n : lists[c][k].id # i
      BY <1>3, <1>6 DEF Holds
    <2>2. \A s \in ToSet(lists[c]) : s.id # i
      BY <1>3, <2>1 DEF ToSet
    <2>3. ToSet(new[c]) = ToSet(lists[c]) \cup {old}
      BY <1>3, <1>4, <1>6, AppendSet
    <2>4. /\ Len(new[c]) = n + 1 /\ new[c][n + 1] = old
          /\ \A k \in 1..n : new[c][k] = lists[c][k]
      BY <1>3, <1>4, <1>6, AppendProperties
    <2>5. \A k \in 1..(n + 1) : k \in 1..n \/ k = n + 1
      BY <1>3
    <2> HIDE DEF n
    <2>6. \A k, l \in 1..(n + 1) : new[c][k].id = new[c][l].id => k = l
      BY <1>4, <1>5, <2>1, <2>4, <2>5 DEF n
    <2> QED BY <2>2, <2>3, <2>4, <2>6
  <1>7. ASSUME NEW h \in 1..Len(lists[c]), lists[c][h].id = i, Len(new[c]) = Len(lists[c]),
               \A k \in 1..Len(lists[c]) : new[c][k] = IF k = h THEN old ELSE lists[c][k]
        PROVE  /\ \A k, l \in 1..Len(new[c]) : new[c][k].id = new[c][l].id => k = l
               /\ ToSet(new[c]) = {s \in ToSet(lists[c]) : s.id # i} \cup {old}
    <2>1. \A k \in 1..Len(lists[c]) : new[c][k].id = lists[c][k].id
      BY <1>4, <1>7
    <2>2. \A k \in 1..Len(lists[c]) : k # h => lists[c][k].id # i
      BY <1>5, <1>7
    <2>3. ToSet(new[c]) = {new[c][k] : k \in 1..Len(lists[c])}
      BY <1>3, <1>7 DEF ToSet
    <2>4. ToSet(lists[c]) = {lists[c][k] : k \in 1..Len(lists[c])}
      BY <1>3 DEF ToSet
    <2> QED BY <1>5, <1>7, <2>1, <2>2, <2>3, <2>4
  <1>8. /\ \A k, l \in 1..Len(new[c]) : new[c][k].id = new[c][l].id => k = l
        /\ ToSet(new[c]) = {s \in ToSet(lists[c]) : s.id # i} \cup {old}
    BY <1>2, <1>6, <1>7
  <1>9. Separate(new)
    BY <1>2, <1>8 DEF Separate
  <1> QED BY <1>8, <1>9 DEF old

\* Nothing has taken the id of a skill the snapshot has elsewhere.
NothingReused(lists, snap) ==
  \A c \in Lists : \A s \in ToSet(lists[c]) : s.id \in Ids(snap) => Holds(snap[c], s.id)

\* After a partial restore each list has its skills of other ids, and of these
\* ids what the snapshot had.
LEMMA RestoreSet ==
  ASSUME NEW S, NEW lists \in Banks(S), NEW snap \in Banks(S), NEW I, NEW ids \in Seq(I),
         Separate(lists), Distinct(snap), NothingReused(lists, snap)
  PROVE  /\ RestorePartial(lists, snap, ids) \in Banks(S)
         /\ Separate(RestorePartial(lists, snap, ids))
         /\ \A c \in Lists :
              ToSet(RestorePartial(lists, snap, ids)[c]) =
                {s \in ToSet(lists[c]) : s.id \notin ToSet(ids)}
                  \cup {s \in ToSet(snap[c]) : s.id \in ToSet(ids)}
  <1> DEFINE gone == ToSet(ids) \ Ids(snap)
             start == Without(lists, gone)
  <1>1. PICK r, back : /\ Restores(r, lists, snap, back, gone, S)
                       /\ back \in Seq(I) /\ ToSet(back) = ToSet(ids) \cap Ids(snap)
                       /\ RestorePartial(lists, snap, ids) = r[Len(back)]
    <2>1. \E r, back : RestoreBy(r, back, lists, snap, ids, I, S)
      BY RestoreRecursion
    <2> QED BY <2>1 DEF RestoreBy
  <1> DEFINE n == Len(back)
             B(k) == {back[l] : l \in 1..k}
  <1>2. /\ r[0] = start /\ \A k \in 0..n : r[k] \in Banks(S)
        /\ \A k \in 1..n : r[k] = PutBack(r[k - 1], snap, back[k])
    BY <1>1 DEF Restores
  <1>3. n \in Nat /\ B(n) = ToSet(ids) \cap Ids(snap)
    BY <1>1 DEF ToSet
  <1>4. /\ start \in Banks(S)
        /\ \A c \in Lists : /\ start[c] = Only(lists[c], {s \in ToSet(lists[c]) : s.id \notin gone})
                            /\ ToSet(start[c]) = {s \in ToSet(lists[c]) : s.id \notin gone}
    <2> HIDE DEF gone
    <2>1. Removed(start, lists, gone, S)
      BY WithoutType
    <2> HIDE DEF start
    <2> QED BY <2>1 DEF Removed
  <1>5. Separate(start)
    <2> HIDE DEF gone, start
    <2> SUFFICES ASSUME NEW c \in Lists
                 PROVE  \A k, l \in 1..Len(start[c]) : start[c][k].id = start[c][l].id => k = l
      BY DEF Separate
    <2>1. lists[c] \in Seq(S)
      BY DEF Banks
    <2>2. \A k, l \in 1..Len(lists[c]) : lists[c][k].id = lists[c][l].id => k = l
      BY DEF Separate
    <2> DEFINE keep == {s \in ToSet(lists[c]) : s.id \notin gone}
    <2>3. start[c] = Only(lists[c], keep)
      BY <1>4
    <2> HIDE DEF keep
    <2> QED BY <2>1, <2>2, <2>3, OnlySeparate
  <1> DEFINE Done(k) ==
               /\ Separate(r[k])
               /\ \A c \in Lists :
                    ToSet(r[k][c]) = {s \in ToSet(start[c]) : s.id \notin B(k)}
                                       \cup {s \in ToSet(snap[c]) : s.id \in B(k)}
             T == {k \in Nat : k <= n => Done(k)}
  <1> HIDE DEF start, n, gone
  <1>6. 0 \in T
    <2>1. B(0) = {}
      OBVIOUS
    <2> HIDE DEF B
    <2> QED BY <1>2, <1>5, <2>1
  <1>7. ASSUME NEW k \in T PROVE k + 1 \in T
    <2> SUFFICES ASSUME k + 1 <= n PROVE Done(k + 1)
      BY <1>7
    <2>1. k \in Nat /\ k + 1 \in 1..n /\ (k + 1) - 1 = k /\ k \in 0..n /\ Done(k)
      BY <1>3, <1>7
    <2> DEFINE i == back[k + 1]
               new == r[k + 1]
    <2>2. new = PutBack(r[k], snap, i)
      BY <1>2, <2>1
    <2>3. B(k + 1) = B(k) \cup {i} /\ i \in Ids(snap)
      <3>1. 1..(k + 1) = (1..k) \cup {k + 1}
        BY <2>1
      <3>2. i \in B(n)
        BY <2>1
      <3> QED BY <1>3, <3>1, <3>2
    <2>4. /\ r[k] \in Banks(S) /\ Separate(r[k])
          /\ \A c \in Lists :
               ToSet(r[k][c]) = {s \in ToSet(start[c]) : s.id \notin B(k)}
                                  \cup {s \in ToSet(snap[c]) : s.id \in B(k)}
      BY <1>2, <2>1
    <2> DEFINE Bk == B(k)
               Bn == B(k + 1)
    <2> HIDE DEF i, new, T
    <2>5. PICK e \in Lists : Holds(snap[e], i)
      BY <2>3, IdsHeld
    <2>6. PICK c, o : PutAt(r[k], snap, i, new, c, o)
      BY <2>2, <2>4, <2>5, PutBackAt
    <2>7. /\ Separate(new)
          /\ ToSet(new[c]) = {s \in ToSet(r[k][c]) : s.id # i} \cup {snap[c][o]}
          /\ \A d \in Lists \ {c} : new[d] = r[k][d]
      BY <2>4, <2>6, PutAtSet, PutAtType
    <2>8. /\ c \in Lists /\ o \in DOMAIN snap[c] /\ snap[c][o].id = i
          /\ \A d \in Lists : \A s \in ToSet(snap[d]) : s.id = i => d = c /\ s = snap[c][o]
      <3>1. c \in Lists /\ o \in 1..Len(snap[c]) /\ snap[c][o].id = i
        BY <2>6 DEF PutAt
      <3>2. DOMAIN snap[c] = 1..Len(snap[c])
        BY <3>1 DEF Banks
      <3>3. ASSUME NEW d \in Lists, NEW s \in ToSet(snap[d]), s.id = i
            PROVE  d = c /\ s = snap[c][o]
        <4>1. PICK l \in DOMAIN snap[d] : s = snap[d][l]
          BY DEF ToSet
        <4> QED BY <3>1, <3>2, <3>3, <4>1 DEF Distinct
      <3> QED BY <3>1, <3>2, <3>3
    <2>9. \A d \in Lists : \A s \in ToSet(start[d]) : s.id = i => d = c
      <3> SUFFICES ASSUME NEW d \in Lists, NEW s \in ToSet(start[d]), s.id = i PROVE d = c
        OBVIOUS
      <3>1. s \in ToSet(lists[d])
        BY <1>4
      <3>2. Holds(snap[d], i)
        BY <2>3, <3>1 DEF NothingReused
      <3>3. PICK l \in DOMAIN snap[d] : snap[d][l].id = i
        BY <3>2 DEF Holds
      <3> QED BY <2>8, <3>3 DEF Distinct
    <2>10. snap[c][o] \in ToSet(snap[c])
      BY <2>8 DEF ToSet
    <2>11. ASSUME NEW d \in Lists
           PROVE  ToSet(new[d]) = {s \in ToSet(start[d]) : s.id \notin Bn}
                                    \cup {s \in ToSet(snap[d]) : s.id \in Bn}
      <3>1. Bn = Bk \cup {i}
        BY <2>3
      <3>2. ToSet(r[k][d]) = {s \in ToSet(start[d]) : s.id \notin Bk}
                                \cup {s \in ToSet(snap[d]) : s.id \in Bk}
        BY <2>4
      <3> HIDE DEF Bn, Bk
      <3>3. CASE d = c
        BY <2>7, <2>8, <2>10, <3>1, <3>2, <3>3
      <3>4. CASE d # c
        <4>1. new[d] = r[k][d]
          BY <2>7, <3>4
        <4> QED BY <2>8, <2>9, <3>1, <3>2, <3>4, <4>1
      <3> QED BY <3>3, <3>4
    <2> HIDE DEF B
    <2> QED BY <2>7, <2>11 DEF new
  <1> HIDE DEF T
  <1>8. T = Nat
    BY <1>6, <1>7, Counting DEF T
  <1>9. Done(n)
    BY <1>3, <1>8 DEF T
  <1>10. r[n] \in Banks(S)
    <2>1. n \in 0..n
      BY <1>3
    <2> QED BY <1>2, <2>1
  <1>11. ASSUME NEW c \in Lists
         PROVE  ToSet(r[n][c]) = {s \in ToSet(lists[c]) : s.id \notin ToSet(ids)}
                                   \cup {s \in ToSet(snap[c]) : s.id \in ToSet(ids)}
    <2>1. \A s \in ToSet(snap[c]) : s.id \in Ids(snap)
      <3>1. ToSet(Walk(snap)) = UNION {ToSet(snap[d]) : d \in Lists}
        BY WalkSet
      <3> QED BY <3>1 DEF Ids
    <2>2. ToSet(r[n][c]) = {s \in ToSet(start[c]) : s.id \notin B(n)}
                             \cup {s \in ToSet(snap[c]) : s.id \in B(n)}
      BY <1>9
    <2>3. ToSet(start[c]) = {s \in ToSet(lists[c]) : s.id \notin gone}
      BY <1>4
    <2> HIDE DEF B
    <2> QED BY <1>3, <2>1, <2>2, <2>3 DEF gone
  <1>12. Separate(r[n])
    BY <1>9
  <1> QED BY <1>1, <1>10, <1>11, <1>12 DEF n

\* What comes of one item put back: the entry of its id goes, when there is one.
LEMMA PutAtFrom ==
  ASSUME NEW S, NEW lists \in Banks(S), NEW snap \in Banks(S), NEW i, NEW new,
         NEW c, NEW o, PutAt(lists, snap, i, new, c, o)
  PROVE  /\ c \in Lists /\ snap[c][o] \in ToSet(snap[c]) /\ snap[c][o].id = i
         /\ \A d \in Lists \ {c} : new[d] = lists[d]
         /\ \A s \in ToSet(new[c]) : s \in ToSet(lists[c]) \/ s = snap[c][o]
         /\ Separate(lists) =>
              Separate(new) /\ \A s \in ToSet(new[c]) : s.id # i \/ s = snap[c][o]
  <1> DEFINE old == snap[c][o]
             l == lists[c]
             m == new[c]
  <1>1. c \in Lists /\ old.id = i
    BY DEF PutAt
  <1>2. /\ new \in Banks(S) /\ old \in ToSet(snap[c])
        /\ \A d \in Lists \ {c} : new[d] = lists[d]
        /\ \/ ~Holds(l, i) /\ m = Append(l, old)
           \/ \E h \in 1..Len(l) :
                /\ l[h].id = i /\ Len(m) = Len(l)
                /\ \A k \in 1..Len(l) : m[k] = IF k = h THEN old ELSE l[k]
    BY PutAtType
  <1>3. l \in Seq(S) /\ m \in Seq(S) /\ snap[c] \in Seq(S)
    BY <1>1, <1>2 DEF Banks
  <1>4. old \in S
    BY <1>2, <1>3 DEF ToSet
  <1>5. Separate(lists) => /\ Separate(new)
                           /\ ToSet(m) = {s \in ToSet(l) : s.id # i} \cup {old}
    BY PutAtSet
  <1>6. \A s \in ToSet(m) : s \in ToSet(l) \/ s = old
    <2> HIDE DEF old, l, m
    <2>1. CASE m = Append(l, old)
      <3>1. ToSet(m) = ToSet(l) \cup {old}
        BY <1>3, <1>4, <2>1, AppendSet
      <3> QED BY <3>1
    <2>2. CASE \E h \in 1..Len(l) :
                 Len(m) = Len(l) /\ \A k \in 1..Len(l) : m[k] = IF k = h THEN old ELSE l[k]
      <3>1. DOMAIN m = 1..Len(m) /\ DOMAIN l = 1..Len(l)
        BY <1>3
      <3> QED BY <2>2, <3>1 DEF ToSet
    <2> QED BY <1>2, <2>1, <2>2
  <1> HIDE DEF old, l, m
  <1> QED BY <1>1, <1>2, <1>5, <1>6 DEF old, l, m

\* Every skill was in these lists or is the snapshot's, of one of these ids.
From(new, lists, snap, ids, plain) ==
  \A c \in Lists : \A s \in ToSet(new[c]) :
    \/ s \in ToSet(snap[c]) /\ s.id \in ids
    \/ /\ s \in ToSet(lists[c])
       /\ plain => s.id \notin ids \/ ~Holds(snap[c], s.id)

\* Every skill after a partial restore was there or is the snapshot's, of an id put
\* back.  In lists without an id twice, restored from a snapshot without an id in
\* two places, one that was there has another id than those, or one the snapshot
\* does not have in this list.
LEMMA RestoreFrom ==
  ASSUME NEW S, NEW lists \in Banks(S), NEW snap \in Banks(S), NEW I, NEW ids \in Seq(I)
  PROVE  From(RestorePartial(lists, snap, ids), lists, snap, ToSet(ids),
              Separate(lists) /\ Distinct(snap))
  <1> DEFINE gone == ToSet(ids) \ Ids(snap)
             start == Without(lists, gone)
             plain == Separate(lists) /\ Distinct(snap)
  <1>1. PICK r, back : /\ Restores(r, lists, snap, back, gone, S)
                       /\ back \in Seq(I) /\ ToSet(back) = ToSet(ids) \cap Ids(snap)
                       /\ RestorePartial(lists, snap, ids) = r[Len(back)]
    <2>1. \E r, back : RestoreBy(r, back, lists, snap, ids, I, S)
      BY RestoreRecursion
    <2> QED BY <2>1 DEF RestoreBy
  <1> DEFINE n == Len(back)
             B(k) == {back[l] : l \in 1..k}
  <1>2. /\ r[0] = start /\ \A k \in 0..n : r[k] \in Banks(S)
        /\ \A k \in 1..n : r[k] = PutBack(r[k - 1], snap, back[k])
    BY <1>1 DEF Restores
  <1>3. n \in Nat /\ B(n) = ToSet(ids) \cap Ids(snap)
    <2>1. back \in Seq(I) /\ ToSet(back) = ToSet(ids) \cap Ids(snap)
      BY <1>1
    <2>2. DOMAIN back = 1..Len(back) /\ n \in Nat
      BY <2>1
    <2> QED BY <2>1, <2>2 DEF ToSet
  <1>4. /\ start \in Banks(S)
        /\ \A c \in Lists : /\ start[c] = Only(lists[c], {s \in ToSet(lists[c]) : s.id \notin gone})
                            /\ ToSet(start[c]) = {s \in ToSet(lists[c]) : s.id \notin gone}
    <2> HIDE DEF gone
    <2>1. Removed(start, lists, gone, S)
      BY WithoutType
    <2> HIDE DEF start
    <2> QED BY <2>1 DEF Removed
  <1>5. plain => Separate(start)
    <2> HIDE DEF gone, start
    <2> SUFFICES ASSUME plain, NEW c \in Lists
                 PROVE  \A k, l \in 1..Len(start[c]) : start[c][k].id = start[c][l].id => k = l
      BY DEF Separate
    <2>1. lists[c] \in Seq(S)
      BY DEF Banks
    <2>2. \A k, l \in 1..Len(lists[c]) : lists[c][k].id = lists[c][l].id => k = l
      BY DEF Separate
    <2> DEFINE keep == {s \in ToSet(lists[c]) : s.id \notin gone}
    <2>3. start[c] = Only(lists[c], keep)
      BY <1>4
    <2> HIDE DEF keep
    <2> QED BY <2>1, <2>2, <2>3, OnlySeparate
  <1> DEFINE Done(k) == /\ plain => Separate(r[k])
                        /\ From(r[k], start, snap, B(k), plain)
             T == {k \in Nat : k <= n => Done(k)}
  <1> HIDE DEF start, n, gone, plain
  <1>6. 0 \in T
    <2>1. B(0) = {}
      OBVIOUS
    <2> HIDE DEF B
    <2>2. Done(0)
      BY <1>2, <1>5, <2>1 DEF From
    <2> HIDE DEF Done
    <2> QED BY <2>2
  <1>7. ASSUME NEW k \in T PROVE k + 1 \in T
    <2> SUFFICES ASSUME k + 1 <= n PROVE Done(k + 1)
      <3> HIDE DEF Done
      <3> QED BY <1>7
    <2>1. k \in Nat /\ k + 1 \in 1..n /\ (k + 1) - 1 = k /\ k \in 0..n /\ Done(k)
      <3> HIDE DEF Done
      <3> QED BY <1>3, <1>7
    <2> DEFINE i == back[k + 1]
               new == r[k + 1]
    <2>2. new = PutBack(r[k], snap, i)
      BY <1>2, <2>1
    <2>3. B(k + 1) = B(k) \cup {i} /\ i \in Ids(snap)
      <3>1. 1..(k + 1) = (1..k) \cup {k + 1}
        BY <2>1
      <3>2. i \in B(n)
        BY <2>1
      <3> QED BY <1>3, <3>1, <3>2
    <2>4. r[k] \in Banks(S)
      BY <1>2, <2>1
    <2>5. plain => Separate(r[k])
      BY <2>1
    <2>6. \A d \in Lists : \A s \in ToSet(r[k][d]) :
            \/ s \in ToSet(snap[d]) /\ s.id \in B(k)
            \/ /\ s \in ToSet(start[d])
               /\ plain => s.id \notin B(k) \/ ~Holds(snap[d], s.id)
      <3> HIDE DEF B
      <3> QED BY <2>1 DEF From
    <2> DEFINE Bk == B(k)
               Bn == B(k + 1)
    <2> HIDE DEF i, new, T, Done
    <2>7. PICK e \in Lists : Holds(snap[e], i)
      BY <2>3, IdsHeld
    <2>8. PICK c, o : PutAt(r[k], snap, i, new, c, o)
      BY <2>2, <2>4, <2>7, PutBackAt
    <2>9. /\ c \in Lists /\ snap[c][o] \in ToSet(snap[c]) /\ snap[c][o].id = i
          /\ \A d \in Lists \ {c} : new[d] = r[k][d]
          /\ \A s \in ToSet(new[c]) : s \in ToSet(r[k][c]) \/ s = snap[c][o]
          /\ Separate(r[k]) =>
               Separate(new) /\ \A s \in ToSet(new[c]) : s.id # i \/ s = snap[c][o]
      <3> DEFINE now == r[k]
      <3>1. now \in Banks(S) /\ PutAt(now, snap, i, new, c, o)
        BY <2>4, <2>8
      <3> HIDE DEF now, B, Bk, Bn
      <3>2. /\ c \in Lists /\ snap[c][o] \in ToSet(snap[c]) /\ snap[c][o].id = i
            /\ \A d \in Lists \ {c} : new[d] = now[d]
            /\ \A s \in ToSet(new[c]) : s \in ToSet(now[c]) \/ s = snap[c][o]
            /\ Separate(now) =>
                 Separate(new) /\ \A s \in ToSet(new[c]) : s.id # i \/ s = snap[c][o]
        BY <3>1, PutAtFrom
      <3> QED BY <3>2 DEF now
    <2>10. Bn = Bk \cup {i} /\ i \in Bn
      BY <2>3
    <2>11. ASSUME plain, NEW d \in Lists \ {c} PROVE ~Holds(snap[d], i)
      <3>1. Distinct(snap) /\ d \in Lists /\ d # c
        BY <2>11 DEF plain
      <3>2. PICK l \in DOMAIN snap[c] : snap[c][l].id = i
        BY <2>9 DEF ToSet
      <3> QED BY <2>9, <3>1, <3>2 DEF Distinct, Holds
    <2>12. ASSUME NEW d \in Lists, NEW s \in ToSet(new[d])
           PROVE  \/ s \in ToSet(snap[d]) /\ s.id \in Bn
                  \/ /\ s \in ToSet(start[d])
                     /\ plain => s.id \notin Bn \/ ~Holds(snap[d], s.id)
      <3>1. \/ s \in ToSet(snap[d]) /\ s.id \in Bk
            \/ /\ s \in ToSet(start[d])
               /\ plain => s.id \notin Bk \/ ~Holds(snap[d], s.id)
            \/ d = c /\ s = snap[c][o]
        <4> HIDE DEF B
        <4>1. CASE d = c
          BY <2>6, <2>9, <2>12, <4>1
        <4>2. CASE d # c
          BY <2>6, <2>9, <2>12, <4>2
        <4> QED BY <4>1, <4>2
      <3>2. plain => s.id # i \/ ~Holds(snap[d], s.id) \/ (d = c /\ s = snap[c][o])
        <4>1. CASE d = c
          BY <2>5, <2>9, <2>12, <4>1
        <4>2. CASE d # c
          BY <2>11, <4>2
        <4> QED BY <4>1, <4>2
      <3> HIDE DEF Bk, Bn
      <3> QED BY <2>9, <2>10, <3>1, <3>2
    <2>13. plain => Separate(new)
      BY <2>5, <2>9
    <2> HIDE DEF B
    <2>14. From(new, start, snap, B(k + 1), plain)
      BY <2>12 DEF From
    <2> QED BY <2>13, <2>14 DEF new, Done
  <1> HIDE DEF T, Done
  <1>8. T = Nat
    BY <1>6, <1>7, Counting DEF T
  <1>9. Done(n)
    BY <1>3, <1>8 DEF T
  <1>10. ASSUME NEW c \in Lists, NEW s \in ToSet(r[n][c])
         PROVE  \/ s \in ToSet(snap[c]) /\ s.id \in ToSet(ids)
                \/ /\ s \in ToSet(lists[c])
                   /\ plain => s.id \notin ToSet(ids) \/ ~Holds(snap[c], s.id)
    <2>1. From(r[n], start, snap, B(n), plain)
      BY <1>9 DEF Done
    <2>2. ToSet(start[c]) = {q \in ToSet(lists[c]) : q.id \notin gone}
      BY <1>4
    <2> HIDE DEF B
    <2> QED BY <1>3, <1>10, <2>1, <2>2 DEF gone, From
  <1> QED BY <1>1, <1>10 DEF n, plain, From

-----------------------------------------------------------------------------
(* The order of static skills *)

Statics(list) == Only(list, {s \in ToSet(list) : ~Dynamic(s)})

SameIds(a, b) == Len(a) = Len(b) /\ \A k \in 1..Len(a) : a[k].id = b[k].id

LEMMA StaticsAppend ==
  ASSUME NEW S, NEW s \in Seq(S), NEW x \in S
  PROVE  /\ Statics(s) \in Seq(S) /\ ToSet(Statics(s)) = {y \in ToSet(s) : ~Dynamic(y)}
         /\ Statics(Append(s, x)) = IF Dynamic(x) THEN Statics(s) ELSE Append(Statics(s), x)
  <1> DEFINE t == Append(s, x)
             K == {y \in S : ~Dynamic(y)}
  <1>1. t \in Seq(S) /\ ToSet(t) = ToSet(s) \cup {x}
    BY AppendSet
  <1>2. ToSet(s) \subseteq S
    <2>1. DOMAIN s = 1..Len(s)
      OBVIOUS
    <2> QED BY <2>1 DEF ToSet
  <1> DEFINE Ks == {y \in ToSet(s) : ~Dynamic(y)}
             Kt == {y \in ToSet(t) : ~Dynamic(y)}
  <1>3. ToSet(s) \cap Ks = ToSet(s) \cap K /\ ToSet(t) \cap Kt = ToSet(t) \cap K
    BY <1>1, <1>2
  <1>4. x \in K <=> ~Dynamic(x)
    OBVIOUS
  <1>5. Statics(s) = Only(s, Ks) /\ Statics(t) = Only(t, Kt) /\ ToSet(s) \cap Ks = Ks
    BY DEF Statics
  <1> HIDE DEF t, K, Ks, Kt
  <1>6. Only(s, Ks) = Only(s, K) /\ Only(t, Kt) = Only(t, K)
    BY <1>1, <1>3, OnlySame
  <1>7. Only(t, K) = IF x \in K THEN Append(Only(s, K), x) ELSE Only(s, K)
    BY OnlyAppend DEF t
  <1>8. Only(s, Ks) \in Seq(S) /\ ToSet(Only(s, Ks)) = ToSet(s) \cap Ks
    BY OnlyType
  <1>9. Statics(s) \in Seq(S) /\ ToSet(Statics(s)) = Ks
    BY <1>5, <1>8
  <1>10. Statics(t) = IF Dynamic(x) THEN Statics(s) ELSE Append(Statics(s), x)
    BY <1>4, <1>5, <1>6, <1>7
  <1> QED BY <1>9, <1>10 DEF Ks, t

LEMMA StaticsType ==
  ASSUME NEW S, NEW s \in Seq(S)
  PROVE  Statics(s) \in Seq(S) /\ ToSet(Statics(s)) = {y \in ToSet(s) : ~Dynamic(y)}
  <1> DEFINE K == {y \in ToSet(s) : ~Dynamic(y)}
  <1>1. Statics(s) = Only(s, K) /\ ToSet(s) \cap K = K
    BY DEF Statics
  <1> HIDE DEF K
  <1>2. Only(s, K) \in Seq(S) /\ ToSet(Only(s, K)) = ToSet(s) \cap K
    BY OnlyType
  <1>3. Statics(s) \in Seq(S) /\ ToSet(Statics(s)) = K
    BY <1>1, <1>2
  <1> QED BY <1>3 DEF K

\* Lists with the same ids have the same ids of static skills.
LEMMA StaticsSame ==
  ASSUME NEW S, NEW a \in Seq(S), NEW b \in Seq(S), SameIds(a, b)
  PROVE  SameIds(Statics(a), Statics(b))
  <1> DEFINE T == {s \in Seq(S) : \A r \in Seq(S) : SameIds(s, r) =>
                                    SameIds(Statics(s), Statics(r))}
  <1>1. <<>> \in T
    <2> SUFFICES ASSUME NEW r \in Seq(S), SameIds(<<>>, r)
                 PROVE  SameIds(Statics(<<>>), Statics(r))
      BY EmptySeq
    <2>1. r = <<>>
      BY EmptySeq DEF SameIds
    <2>2. Statics(<<>>) = <<>>
      BY OnlyEmpty DEF Statics
    <2> QED BY <2>1, <2>2, EmptySeq DEF SameIds
  <1>2. ASSUME NEW s \in T, NEW x \in S PROVE Append(s, x) \in T
    <2> DEFINE n == Len(s)
               t == Append(s, x)
    <2>1. /\ s \in Seq(S) /\ t \in Seq(S) /\ n \in Nat /\ Len(t) = n + 1
          /\ t[n + 1] = x /\ \A k \in 1..n : t[k] = s[k]
      BY <1>2, AppendProperties
    <2> SUFFICES ASSUME NEW r \in Seq(S), SameIds(t, r)
                 PROVE  SameIds(Statics(t), Statics(r))
      BY <2>1
    <2> HIDE DEF n, t
    <2>2. Len(r) = n + 1 /\ \A k \in 1..(n + 1) : t[k].id = r[k].id
      BY <2>1 DEF SameIds
    <2>3. r # <<>>
      BY <2>1, <2>2, EmptySeq
    <2>4. PICK q \in Seq(S), y \in S : r = Append(q, y)
      BY <2>3, SequenceEmptyOrAppend
    <2>5. Len(r) = Len(q) + 1 /\ r[Len(q) + 1] = y /\ Len(q) \in Nat
          /\ \A k \in 1..Len(q) : r[k] = q[k]
      BY <2>4, AppendProperties
    <2>6. Len(q) = n
      BY <2>1, <2>2, <2>5
    <2>7. \A k \in 1..n : k \in 1..(n + 1) /\ n + 1 \in 1..(n + 1)
      BY <2>1
    <2>8. SameIds(s, q)
      <3>1. \A k \in 1..n : s[k].id = q[k].id
        BY <2>1, <2>2, <2>5, <2>6, <2>7
      <3> QED BY <2>6, <3>1 DEF SameIds, n
    <2>9. x.id = y.id
      <3>1. n + 1 \in 1..(n + 1)
        BY <2>1
      <3> QED BY <2>1, <2>2, <2>5, <2>6, <3>1
    <2>10. SameIds(Statics(s), Statics(q))
      BY <1>2, <2>8
    <2>11. Dynamic(x) <=> Dynamic(y)
      BY <2>9 DEF Dynamic
    <2> DEFINE u == Statics(s)
               v == Statics(q)
    <2>12. /\ u \in Seq(S) /\ Statics(t) = IF Dynamic(x) THEN u ELSE Append(u, x)
           /\ v \in Seq(S) /\ Statics(r) = IF Dynamic(y) THEN v ELSE Append(v, y)
      BY <2>1, <2>4, StaticsAppend DEF t
    <2> HIDE DEF u, v, T
    <2>13. SameIds(u, v)
      BY <2>10 DEF u, v
    <2>14. SameIds(Append(u, x), Append(v, y))
      <3> DEFINE m == Len(u)
      <3>1. m \in Nat /\ Len(v) = m /\ \A k \in 1..m : u[k].id = v[k].id
        BY <2>12, <2>13 DEF SameIds
      <3>2. /\ Len(Append(u, x)) = m + 1 /\ Append(u, x)[m + 1] = x
            /\ \A k \in 1..m : Append(u, x)[k] = u[k]
        BY <2>12, AppendProperties
      <3>3. /\ Len(Append(v, y)) = m + 1 /\ Append(v, y)[m + 1] = y
            /\ \A k \in 1..m : Append(v, y)[k] = v[k]
        BY <2>12, <3>1, AppendProperties
      <3> HIDE DEF m
      <3>4. \A k \in 1..(m + 1) : k \in 1..m \/ k = m + 1
        BY <3>1
      <3>5. \A k \in 1..(m + 1) : Append(u, x)[k].id = Append(v, y)[k].id
        BY <2>9, <3>1, <3>2, <3>3, <3>4
      <3> QED BY <3>2, <3>3, <3>5 DEF SameIds
    <2> QED BY <2>11, <2>12, <2>13, <2>14
  <1>3. T \in SUBSET Seq(S)
    OBVIOUS
  <1> HIDE DEF T
  <1>4. T = Seq(S)
    BY <1>1, <1>2, <1>3, ListInduction
  <1> QED BY <1>4 DEF T

LEMMA SameIdsTrans ==
  ASSUME NEW a, NEW b, NEW c, SameIds(a, b), SameIds(b, c)
  PROVE  SameIds(a, c)
  BY DEF SameIds

\* A filter that lets every static skill pass.
LEMMA StaticsFilter ==
  ASSUME NEW S, NEW list \in Seq(S), NEW set,
         \A s \in ToSet(list) : ~Dynamic(s) => s \in set
  PROVE  Statics(Only(list, set)) = Statics(list)
  <1> DEFINE o == Only(list, set)
             K == {s \in ToSet(list) : ~Dynamic(s)}
             Ko == {s \in ToSet(o) : ~Dynamic(s)}
  <1>1. o \in Seq(S) /\ ToSet(o) = ToSet(list) \cap set
    BY OnlyType
  <1>2. Statics(o) = Only(o, Ko) /\ Statics(list) = Only(list, K)
    BY DEF Statics
  <1>3. Ko = K
    BY <1>1
  <1>4. K \cap ToSet(list) \subseteq set
    OBVIOUS
  <1> HIDE DEF K, Ko
  <1>5. Only(o, K) = Only(list, K)
    BY <1>4, OnlyTwice
  <1> HIDE DEF o
  <1> QED BY <1>2, <1>3, <1>5 DEF o

\* A partial restore leaves the static skills of a list in the order of the
\* snapshot if they are in it before.
LEMMA RestoreStatics ==
  ASSUME NEW S, NEW lists \in Banks(S), NEW snap \in Banks(S), NEW I, NEW ids \in Seq(I),
         NEW c \in Lists, SameIds(Statics(lists[c]), Statics(snap[c]))
  PROVE  SameIds(Statics(RestorePartial(lists, snap, ids)[c]), Statics(snap[c]))
  <1> DEFINE gone == ToSet(ids) \ Ids(snap)
             start == Without(lists, gone)
             keep == {s \in ToSet(lists[c]) : s.id \notin gone}
  <1>1. PICK r, back : /\ Restores(r, lists, snap, back, gone, S)
                       /\ back \in Seq(I) /\ ToSet(back) = ToSet(ids) \cap Ids(snap)
                       /\ RestorePartial(lists, snap, ids) = r[Len(back)]
    <2>1. \E r, back : RestoreBy(r, back, lists, snap, ids, I, S)
      BY RestoreRecursion
    <2> QED BY <2>1 DEF RestoreBy
  <1> DEFINE n == Len(back)
  <1>2. /\ r[0] = start /\ \A k \in 0..n : r[k] \in Banks(S)
        /\ \A k \in 1..n : r[k] = PutBack(r[k - 1], snap, back[k])
    BY <1>1 DEF Restores
  <1>3. n \in Nat /\ \A k \in 1..n : back[k] \in Ids(snap)
    <2>1. n \in Nat /\ DOMAIN back = 1..n
      BY <1>1
    <2>2. \A k \in 1..n : back[k] \in ToSet(back)
      BY <2>1 DEF ToSet
    <2> QED BY <1>1, <2>1, <2>2
  <1>4. start[c] = Only(lists[c], keep)
    <2> HIDE DEF gone
    <2>1. Removed(start, lists, gone, S)
      BY WithoutType
    <2> HIDE DEF start
    <2> QED BY <2>1 DEF Removed
  <1>5. lists[c] \in Seq(S) /\ snap[c] \in Seq(S) /\ DOMAIN snap[c] = 1..Len(snap[c])
    BY DEF Banks
  \* The statics of the snapshot's list have ids the snapshot has.
  <1>6. \A s \in ToSet(lists[c]) : ~Dynamic(s) => s \in keep
    <2> SUFFICES ASSUME NEW s \in ToSet(lists[c]), ~Dynamic(s) PROVE s.id \in Ids(snap)
      OBVIOUS
    <2>1. s \in ToSet(Statics(lists[c])) /\ Statics(lists[c]) \in Seq(S)
      BY <1>5, StaticsType
    <2>2. PICK k \in 1..Len(Statics(lists[c])) : s = Statics(lists[c])[k]
      BY <2>1 DEF ToSet
    <2>3. /\ Statics(snap[c]) \in Seq(S)
          /\ ToSet(Statics(snap[c])) = {y \in ToSet(snap[c]) : ~Dynamic(y)}
      BY <1>5, StaticsType
    <2>4. k \in 1..Len(Statics(snap[c])) /\ Statics(snap[c])[k].id = s.id
      BY <2>2 DEF SameIds
    <2>5. Statics(snap[c])[k] \in ToSet(Statics(snap[c]))
      BY <2>3, <2>4 DEF ToSet
    <2>6. Statics(snap[c])[k] \in ToSet(Walk(snap))
      BY <2>3, <2>5, WalkSet
    <2> QED BY <2>4, <2>6 DEF Ids
  <1> HIDE DEF keep, start, gone, n
  <1>7. Statics(start[c]) = Statics(lists[c])
    BY <1>4, <1>5, <1>6, StaticsFilter
  <1> DEFINE Done(k) == SameIds(Statics(r[k][c]), Statics(snap[c]))
             T == {k \in Nat : k <= n => Done(k)}
  <1>8. 0 \in T
    BY <1>2, <1>7
  <1>9. ASSUME NEW k \in T PROVE k + 1 \in T
    <2> SUFFICES ASSUME k + 1 <= n PROVE Done(k + 1)
      BY <1>9
    <2>1. k \in Nat /\ k + 1 \in 1..n /\ (k + 1) - 1 = k /\ k \in 0..n /\ Done(k)
      BY <1>3, <1>9
    <2> DEFINE i == back[k + 1]
               new == r[k + 1]
               old == r[k]
    <2>2. new = PutBack(old, snap, i) /\ i \in Ids(snap)
      BY <1>2, <1>3, <2>1
    <2>3. old \in Banks(S) /\ SameIds(Statics(old[c]), Statics(snap[c]))
      BY <1>2, <2>1
    <2> HIDE DEF T, i, new, old
    <2>4. PICK e \in Lists : Holds(snap[e], i)
      BY <2>2, IdsHeld
    <2>5. PICK d, o : PutAt(old, snap, i, new, d, o)
      BY <2>2, <2>3, <2>4, PutBackAt
    <2>6. /\ new \in Banks(S) /\ \A f \in Lists \ {d} : new[f] = old[f]
          /\ snap[d][o] \in ToSet(snap[d])
          /\ \/ ~Holds(old[d], i) /\ new[d] = Append(old[d], snap[d][o])
             \/ \E h \in 1..Len(old[d]) :
                  /\ old[d][h].id = i /\ Len(new[d]) = Len(old[d])
                  /\ \A l \in 1..Len(old[d]) :
                       new[d][l] = IF l = h THEN snap[d][o] ELSE old[d][l]
      BY <2>3, <2>5, PutAtType
    <2>7. snap[d][o].id = i /\ d \in Lists
      BY <2>5 DEF PutAt
    <2>8. old[c] \in Seq(S) /\ new[c] \in Seq(S)
      BY <2>3, <2>6 DEF Banks
    <2>9. CASE d # c
      BY <2>3, <2>6, <2>9 DEF new
    <2>10. CASE d = c /\ ~Holds(old[c], i) /\ new[c] = Append(old[c], snap[c][o])
      <3> DEFINE x == snap[c][o]
      <3>1. x \in S /\ x \in ToSet(snap[c]) /\ x.id = i
        <4>1. x \in ToSet(snap[c]) /\ x.id = i
          BY <2>6, <2>7, <2>10
        <4>2. \A y \in ToSet(snap[c]) : y \in S
          BY <1>5 DEF ToSet
        <4> QED BY <4>1, <4>2
      <3> HIDE DEF x
      <3>2. Dynamic(x)
        <4> SUFFICES ASSUME ~Dynamic(x) PROVE FALSE
          OBVIOUS
        <4>1. x \in ToSet(Statics(snap[c])) /\ Statics(snap[c]) \in Seq(S)
          BY <1>5, <3>1, StaticsType
        <4>2. PICK l \in 1..Len(Statics(snap[c])) : x = Statics(snap[c])[l]
          BY <4>1 DEF ToSet
        <4>3. Len(Statics(old[c])) = Len(Statics(snap[c]))
              /\ Statics(old[c])[l].id = i
          BY <2>3, <3>1, <4>2 DEF SameIds
        <4>4. /\ Statics(old[c]) \in Seq(S)
              /\ ToSet(Statics(old[c])) = {y \in ToSet(old[c]) : ~Dynamic(y)}
          BY <2>8, StaticsType
        <4>5. Statics(old[c])[l] \in ToSet(Statics(old[c]))
          BY <4>2, <4>3, <4>4 DEF ToSet
        <4>6. Statics(old[c])[l] \in ToSet(old[c])
          BY <4>4, <4>5
        <4>7. \E z \in DOMAIN old[c] : old[c][z].id = i
          BY <4>3, <4>6 DEF ToSet
        <4> QED BY <2>10, <4>7 DEF Holds
      <3>3. Statics(Append(old[c], x)) = Statics(old[c])
        BY <2>8, <3>1, <3>2, StaticsAppend
      <3> QED BY <2>3, <2>10, <3>3 DEF x, new
    <2>11. CASE d = c /\ \E h \in 1..Len(old[c]) :
                  /\ old[c][h].id = i /\ Len(new[c]) = Len(old[c])
                  /\ \A l \in 1..Len(old[c]) :
                       new[c][l] = IF l = h THEN snap[c][o] ELSE old[c][l]
      <3>1. SameIds(new[c], old[c])
        BY <2>7, <2>11 DEF SameIds
      <3>2. SameIds(Statics(new[c]), Statics(old[c]))
        BY <2>8, <3>1, StaticsSame
      <3> QED BY <2>3, <3>2, SameIdsTrans DEF new
    <2> QED BY <2>6, <2>9, <2>10, <2>11
  <1> HIDE DEF T
  <1>10. T = Nat
    BY <1>8, <1>9, Counting DEF T
  <1>11. Done(n)
    BY <1>3, <1>10 DEF T
  <1> QED BY <1>1, <1>11 DEF n

-----------------------------------------------------------------------------
(* Ids *)

\* A new index is larger than every one in the bank.
LEMMA NextIndex ==
  ASSUME NEW I, NEW m \in Nat, NEW X, NEW U,
         NEW lists \in Banks([id : [pfx : I, n : 1..m], text : X, utility : U])
  PROVE  /\ NextDynIndex(lists) \in Nat \ {0}
         /\ \A i \in Ids(lists) : i.pfx = "dyn" => i.n < NextDynIndex(lists)
  <1> DEFINE S == [id : [pfx : I, n : 1..m], text : X, utility : U]
             used == {i.n : i \in {j \in Ids(lists) : j.pfx = "dyn"}}
             d == CHOOSE n \in {0} \cup used : \A y \in used : y <= n
  <1>1. Walk(lists) \in Seq(S)
    BY WalkSet
  <1>2. \A i \in Ids(lists) : i \in [pfx : I, n : 1..m]
    <2>1. \A s \in ToSet(Walk(lists)) : s \in S
      <3>1. DOMAIN Walk(lists) = 1..Len(Walk(lists))
        BY <1>1
      <3> HIDE DEF S
      <3> QED BY <1>1, <3>1 DEF ToSet
    <2> QED BY <2>1 DEF Ids
  <1>3. used \subseteq 1..m
    BY <1>2
  <1>4. NextDynIndex(lists) = 1 + d
    BY DEF NextDynIndex
  <1>5. \A i \in Ids(lists) : i.pfx = "dyn" => i.n \in used
    OBVIOUS
  <1> HIDE DEF used, d
  <1>6. \E n \in {0} \cup used : \A y \in used : y <= n
    <2>1. CASE used = {}
      BY <2>1
    <2>2. CASE used # {}
      <3>1. Max(used) \in used /\ \A y \in used : Max(used) >= y
        BY <1>3, <2>2, FirstLast
      <3>2. \A y \in used : y <= Max(used)
        BY <1>3, <3>1
      <3> QED BY <3>1, <3>2
    <2> QED BY <2>1, <2>2
  <1>7. d \in {0} \cup used /\ \A y \in used : y <= d
    BY <1>6 DEF d
  <1>8. d \in Nat
    BY <1>3, <1>7
  <1>9. \A i \in Ids(lists) : i.pfx = "dyn" => i.n < 1 + d
    <2>1. \A y \in used : y \in Nat /\ y < 1 + d
      BY <1>3, <1>7, <1>8
    <2> QED BY <1>5, <2>1
  <1> QED BY <1>4, <1>8, <1>9
=============================================================================
