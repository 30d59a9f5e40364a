------------------------- MODULE TrainBatchProofs --------------------------
(***************************************************************************)
(* For every set of configurations: rows that are compared with each other *)
(* play the same task, their group has n trajectories, and both arms; and  *)
(* every row of the batch, padded, filled up and reordered as it may be,   *)
(* is one step of its own episode, and no step is missing; and no step of  *)
(* a lost episode is reinforced, none of a won one discouraged, in groups  *)
(* whose arms are not too far apart.                                       *)
(***************************************************************************)
EXTENDS TrainBatch, ListLemmas

------------------------------------------------------------------------------
(* Arithmetic of groups: n consecutive environments each.                    *)

\* Division by n is the number of the block of n it falls into.
LEMMA BlockOf ==
  ASSUME NEW a \in Nat, NEW n \in Nat \ {0}, NEW q \in Nat
  PROVE  a \div n = q <=> q * n <= a /\ a < q * n + n
  <1>1. a = (a \div n) * n + (a % n) /\ a % n \in 0..(n - 1) /\ a \div n \in Nat
    BY Z3
  <1> DEFINE d == a \div n
  <1>2. d < q => d * n + n <= q * n
    BY <1>1, Z3
  <1>3. d > q => q * n + n <= d * n
    BY <1>1, Z3
  <1> QED BY <1>1, <1>2, <1>3, Z3

\* With at most half of the group to get skills, at least one trajectory gets
\* them and at least one does not.
LEMMA ArmSizeBounds ==
  ASSUME NEW n \in Nat, n > 1, NEW p \in 0..50
  PROVE  SkillArmSize(n, p) \in 1..(n - 1)
  <1> DEFINE a == n * p
             q == a \div 100
  <1>1. a \in Nat /\ a <= 50 * n
    BY Z3
  <1>2. a = 100 * q + (a % 100) /\ a % 100 \in 0..99 /\ q \in Nat
    BY <1>1, Z3
  <1>3. RoundHalfEven(a, 100) \in {q, q + 1}
    BY DEF RoundHalfEven
  <1>4. RoundHalfEven(a, 100) <= n - 1
    <2>1. CASE n > 3
      BY <1>1, <1>2, <1>3, <2>1
    <2>2. CASE n = 2 \/ n = 3
      <3>1. a <= 150 /\ (n = 2 => a <= 100)
        BY <1>1, <2>2
      <3>2. q \in {0, 1}
        BY <1>1, <1>2, <3>1
      <3>3. q = 1 /\ n = 2 => a % 100 = 0
        BY <1>1, <1>2, <3>1
      <3> HIDE DEF q
      <3>4. n = 2 => RoundHalfEven(a, 100) <= 1
        BY <1>2, <3>2, <3>3 DEF RoundHalfEven, q
      <3> QED BY <2>2, <3>2, <3>4, <1>3
    <2> QED BY <2>1, <2>2
  <1> QED BY <1>2, <1>3, <1>4 DEF SkillArmSize, AtLeast, AtMost

\* The environments of a group: n numbers in a row.
LEMMA GroupIsInterval ==
  ASSUME NEW n \in Nat \ {0}, NEW groups \in Nat \ {0},
         NEW e \in 1..(groups * n)
  PROVE  \E g \in Nat :
           /\ g * n + n <= groups * n
           /\ {f \in 1..(groups * n) : (f - 1) \div n = (e - 1) \div n}
                = (g * n + 1)..(g * n + n)
           /\ g = (e - 1) \div n
  <1> DEFINE g == (e - 1) \div n
             S == {f \in 1..(groups * n) : (f - 1) \div n = g}
  <1>0. groups * n \in Nat /\ e - 1 \in Nat /\ e - 1 < groups * n
    BY Z3
  <1>1. g \in Nat
    BY <1>0, Z3
  <1>2. g * n <= e - 1 /\ e - 1 < g * n + n
    BY <1>0, <1>1, BlockOf
  <1> HIDE DEF g
  <1>3. g < groups
    <2> SUFFICES ASSUME g >= groups PROVE FALSE
      BY <1>1
    <2>1. g * n >= groups * n
      BY <1>1, Z3
    <2> QED BY <2>1, <1>0, <1>1, <1>2
  <1>4. g * n + n <= groups * n
    <2>1. (g + 1) * n <= groups * n
      BY <1>1, <1>3, Z3
    <2>2. (g + 1) * n = g * n + n
      BY <1>1, Z3
    <2> QED BY <2>1, <2>2
  <1>5. ASSUME NEW f \in 1..(groups * n)
        PROVE  (f - 1) \div n = g <=> f \in (g * n + 1)..(g * n + n)
    <2>1. f - 1 \in Nat /\ g * n \in Nat
      BY <1>0, <1>1, Z3
    <2>2. (f - 1) \div n = g <=> g * n <= f - 1 /\ f - 1 < g * n + n
      BY <2>1, <1>1, BlockOf
    <2> QED BY <2>1, <2>2
  <1>6. S = (g * n + 1)..(g * n + n)
    <2>1. (g * n + 1)..(g * n + n) \subseteq 1..(groups * n)
      BY <1>0, <1>1, <1>4, Z3
    <2> QED BY <1>5, <2>1
  <1> QED BY <1>1, <1>4, <1>6 DEF g

\* The remainder is the place in the block.
LEMMA PlaceInBlock ==
  ASSUME NEW g \in Nat, NEW n \in Nat \ {0}, NEW r \in 0..(n - 1)
  PROVE  (g * n + r) % n = r
  <1>1. g * n \in Nat
    BY Z3
  <1>2. g * n + r \in Nat
    BY <1>1
  <1>3. (g * n + r) \div n = g
    BY <1>1, <1>2, BlockOf
  <1>4. g * n + r = ((g * n + r) \div n) * n + ((g * n + r) % n)
    BY <1>2, Z3
  <1>5. (g * n + r) % n \in Int
    BY <1>2, Z3
  <1> QED BY <1>1, <1>3, <1>4, <1>5

\* n numbers in a row.
LEMMA IntervalSize ==
  ASSUME NEW m \in Nat, NEW n \in Nat \ {0}
  PROVE  /\ Cardinality((m + 1)..(m + n)) = n
         /\ m + 1 \in (m + 1)..(m + n) /\ m + n \in (m + 1)..(m + n)
  BY FS_Interval

------------------------------------------------------------------------------
(* The invariant: what Reset decided stays.                                  *)

GroupInv ==
  /\ conf \in Setups
  /\ phase # "reset" => tasks = [e \in Envs |-> Game(e)] /\ mask = ArmMask

\* Only Reset decides, and it does before anything else.
LEMMA GroupInvStep == GroupInv /\ [Next]_vars => GroupInv'
  <1> SUFFICES ASSUME GroupInv, [Next]_vars PROVE GroupInv'
    OBVIOUS
  <1>1. CASE Reset
    <2>1. Envs' = Envs /\ ArmMask' = ArmMask
      BY <1>1 DEF Reset, Envs, ArmMask
    <2>2. mask' = ArmMask /\ tasks' = [e \in Envs |-> Game(e)] /\ conf' = conf
      BY <1>1 DEF Reset
    <2>3. [e \in Envs |-> Game(e)]' = [e \in Envs |-> Game(e)]
      BY <2>1, <2>2 DEF Game
    <2> QED BY <2>1, <2>2, <2>3 DEF GroupInv
  <1>2. ASSUME phase # "reset", UNCHANGED <<conf, episode>>
        PROVE  GroupInv'
    BY <1>2 DEF GroupInv, episode, Envs, ArmMask, Game
  <1>3. CASE Turn
    BY <1>2, <1>3 DEF Turn
  <1>4. CASE Gather
    BY <1>2, <1>4 DEF Gather
  <1>5. CASE StepReturns \/ Adjust \/ Balance
    BY <1>2, <1>5 DEF StepReturns, Adjust, Balance
  <1>6. CASE LogProb \/ Scores \/ Ahsr
    BY <1>2, <1>6 DEF LogProb, Scores, Ahsr
  <1>7. CASE Advantage \/ Update
    BY <1>2, <1>7 DEF Advantage, Update
  <1>8. CASE UNCHANGED vars
    BY <1>8 DEF GroupInv, vars, episode, Envs, ArmMask, Game
  <1>9. CASE Over
    BY <1>8, <1>9 DEF Over
  <1> QED BY <1>1, <1>3, <1>4, <1>5, <1>6, <1>7, <1>8, <1>9 DEF Next, NextRollout

\* What Reset decided is comparable.
LEMMA GroupInvSuffices == GroupInv => GroupsAreComparable
  <1> SUFFICES ASSUME GroupInv, phase # "reset", NEW e \in Envs
               PROVE  LET mates == {f \in Envs : Uid(f) = Uid(e)}
                      IN  /\ \A f \in mates : tasks[f] = tasks[e]
                          /\ Cardinality(mates) = conf.n
                          /\ conf.percent \in 0..50 /\ conf.n > 1 =>
                               {mask[f] : f \in mates} = BOOLEAN
    BY DEF GroupsAreComparable
  <1> DEFINE mates == {f \in Envs : Uid(f) = Uid(e)}
             n == conf.n
             groups == conf.groups
  <1>1. n \in Nat \ {0} /\ groups \in Nat \ {0}
    BY SetupsAssumption DEF GroupInv, Setup
  <1>2. Envs = 1..(groups * n)
    BY DEF Envs
  <1>3. mates = {f \in 1..(groups * n) : (f - 1) \div n = (e - 1) \div n}
    <2>1. ASSUME NEW f \in Envs PROVE f - 1 \in Nat /\ (f - 1) \div n \in Nat
      BY <1>1, <1>2, Z3
    <2> QED BY <1>2, <2>1 DEF Uid, Group
  <1>4. PICK g \in Nat : /\ g * n + n <= groups * n
                         /\ mates = (g * n + 1)..(g * n + n)
                         /\ g = (e - 1) \div n
    BY <1>1, <1>2, <1>3, GroupIsInterval
  <1>5. g * n \in Nat /\ groups * n \in Nat
    BY <1>1, Z3
  <1> DEFINE m == g * n
  <1> HIDE DEF m, n, groups, mates
  <1>6. \A f \in mates : tasks[f] = tasks[e]
    BY <1>2, <1>3 DEF GroupInv, Game, n
  <1>7. Cardinality(mates) = n
    BY <1>1, <1>4, <1>5, IntervalSize DEF m
  <1>8. ASSUME conf.percent \in 0..50, n > 1
        PROVE  {mask[f] : f \in mates} = BOOLEAN
    <2> DEFINE first == m + 1
               last  == m + n
    <2>1. first \in mates /\ last \in mates
      BY <1>1, <1>4, <1>5, IntervalSize DEF m
    <2>2. mates \subseteq Envs
      BY <1>2, <1>3
    <2>3. (first - 1) % n = 0 /\ (last - 1) % n = n - 1
      <3>1. first - 1 = m + 0 /\ last - 1 = m + (n - 1)
        BY <1>1, <1>5 DEF m
      <3>2. \A r \in 0..(n - 1) : (m + r) % n = r
        BY <1>1, PlaceInBlock DEF m
      <3>3. 0 \in 0..(n - 1) /\ n - 1 \in 0..(n - 1)
        BY <1>1
      <3> HIDE DEF first, last
      <3> QED BY <3>1, <3>2, <3>3
    <2>4. SkillArmSize(n, conf.percent) \in 1..(n - 1)
      BY <1>1, <1>8, ArmSizeBounds
    <2> DEFINE low(f) == (f - 1) % n < SkillArmSize(n, conf.percent)
    <2>5. \A f \in Envs : mask[f] = (conf.percent = -1 \/ low(f))
      BY Zenon DEF GroupInv, ArmMask, n
    <2>6. conf.percent # -1
      BY <1>8
    <2>7. low(first) /\ ~low(last)
      BY <1>1, <2>3, <2>4
    <2> HIDE DEF first, last, low
    <2>8. \A f \in mates : mask[f] <=> low(f)
      BY <2>2, <2>5, <2>6, Zenon
    <2>9. \A f \in mates : mask[f] \in BOOLEAN
      <3>1. ASSUME NEW f \in mates PROVE mask[f] = TRUE \/ mask[f] = FALSE
        <4>1. mask[f] = (conf.percent = -1 \/ low(f))
          BY <2>2, <2>5, Zenon
        <4> QED BY <4>1, Zenon
      <3> QED BY <3>1, Zenon
    <2>10. mask[first] /\ ~mask[last]
      BY <2>1, <2>7, <2>8, Zenon
    <2>11. TRUE \in {mask[f] : f \in mates} /\ FALSE \in {mask[f] : f \in mates}
      BY <2>1, <2>9, <2>10
    <2> QED BY <2>9, <2>11
  <1> QED BY <1>6, <1>7, <1>8 DEF mates, n

\* In every configuration whose skill arm is at most half of the group, rows
\* compared with each other play one task and both arms are there.
THEOREM Comparable == Spec => []GroupsAreComparable
  <1>1. InitRollout => GroupInv
    BY DEF InitRollout, GroupInv
  <1> QED BY <1>1, GroupInvStep, GroupInvSuffices, PTL DEF Spec

-----------------------------------------------------------------------------
(* Dispatch and collection.                                                  *)

\* Division with remainder.
LEMMA DivideBy ==
  ASSUME NEW a \in Nat, NEW n \in Nat \ {0}
  PROVE  /\ a \div n \in Nat /\ a % n \in 0..(n - 1)
         /\ a = (a \div n) * n + (a % n)
  BY Z3

\* i is the j-th of the w-th of k chunks.
InChunk(i, k, size) == \E w \in 1..k, j \in 1..size : i = (w - 1) * size + j

\* Each of k times size rows is in one of k chunks of this size.
LEMMA ChunkPlace ==
  ASSUME NEW k \in Nat \ {0}, NEW size \in Nat, NEW i \in 1..(k * size)
  PROVE  InChunk(i, k, size)
  <1>1. k * size \in Nat /\ size # 0
    BY Z3
  <1>2. i - 1 \in Nat /\ size \in Nat \ {0}
    BY <1>1
  <1> DEFINE v == (i - 1) \div size
             r == (i - 1) % size
  <1>3. v \in Nat /\ r \in 0..(size - 1) /\ i - 1 = v * size + r
    BY <1>2, DivideBy
  <1> HIDE DEF v, r
  <1>4. v < k
    <2> SUFFICES ASSUME v >= k PROVE FALSE
      BY <1>3
    <2>1. v * size >= k * size /\ v * size \in Nat
      BY <1>2, <1>3, Z3
    <2> QED BY <1>1, <1>3, <2>1
  <1>5. v + 1 \in 1..k /\ r + 1 \in 1..size /\ i = ((v + 1) - 1) * size + (r + 1)
    <2>1. v * size \in Nat /\ (v + 1) - 1 = v
      BY <1>2, <1>3, Z3
    <2>2. i = v * size + (r + 1)
      BY <1>3, <2>1
    <2> QED BY <1>3, <1>4, <2>1, <2>2
  <1> QED BY <1>5 DEF InChunk

\* Padding makes the length divide.
LEMMA PadFits ==
  ASSUME NEW l \in Nat, NEW k \in Nat \ {0}
  PROVE  PadSize(l, k) \in Nat /\ (l + PadSize(l, k)) % k = 0
  <1> DEFINE q == l \div k
             r == l % k
  <1>1. q \in Nat /\ r \in 0..(k - 1) /\ l = q * k + r
    BY DivideBy
  <1>2. PadSize(l, k) = IF r = 0 THEN 0 ELSE k - r
    BY DEF PadSize
  <1>3. CASE r = 0
    BY <1>2, <1>3
  <1>4. CASE r # 0
    <2> HIDE DEF q, r
    <2>1. q * k \in Nat /\ (q + 1) * k = q * k + k
      BY <1>1, Z3
    <2>2. l + PadSize(l, k) = (q + 1) * k /\ PadSize(l, k) \in Nat
      BY <1>1, <1>2, <1>4, <2>1
    <2>3. ((q + 1) * k) % k = 0
      BY <1>1, Z3
    <2> QED BY <2>2, <2>3
  <1> QED BY <1>3, <1>4

\* A part of a list.
LEMMA SubSeqAt ==
  ASSUME NEW S, NEW s \in Seq(S), NEW a \in Nat, NEW k \in Nat, a + k <= Len(s)
  PROVE  /\ SubSeq(s, a + 1, a + k) \in Seq(S)
         /\ Len(SubSeq(s, a + 1, a + k)) = k
         /\ \A i \in 1..k : SubSeq(s, a + 1, a + k)[i] = s[a + i]
  <1>1. \A i \in (a + 1)..(a + k) : s[i] \in S
    OBVIOUS
  <1> QED BY <1>1, SubSeqProperties

\* Sent in equal chunks and joined by rank, a batch comes back as it was.
LEMMA OnWorkersSame ==
  ASSUME NEW S, NEW s \in Seq(S), conf.workers \in Nat \ {0},
         Len(s) % conf.workers = 0
  PROVE  OnWorkers(s) = s
  <1> DEFINE k == conf.workers
             size == Len(s) \div k
             ss == Chunks(s, k)
  <1>1. Len(s) \in Nat /\ size \in Nat /\ Len(s) = k * size
    <2> DEFINE l == Len(s)
    <2>1. l \in Nat /\ k \in Nat \ {0} /\ size = l \div k /\ l % k = 0
      OBVIOUS
    <2> HIDE DEF l, k, size
    <2>2. size \in Nat /\ l = size * k + 0
      BY <2>1, DivideBy
    <2>3. l = k * size
      BY <2>1, <2>2, Z3
    <2> QED BY <2>1, <2>2, <2>3 DEF l
  <1>2. DOMAIN ss = 1..k /\ \A w \in 1..k : ss[w] = SubSeq(s, (w - 1) * size + 1, w * size)
    BY DEF Chunks
  <1> HIDE DEF k, size, ss
  <1>0. k \in Nat \ {0}
    BY DEF k
  <1>3. ASSUME NEW w \in 1..k
        PROVE  /\ ss[w] \in Seq(S) /\ Len(ss[w]) = size
               /\ \A j \in 1..size : ss[w][j] = s[(w - 1) * size + j]
    <2>1. (w - 1) * size \in Nat /\ w * size = (w - 1) * size + size
      BY <1>0, <1>1, Z3
    <2>2. w * size <= k * size
      <3>1. k * size = w * size + (k - w) * size /\ (k - w) * size \in Nat /\ w * size \in Nat
        BY <1>0, <1>1, Z3
      <3> QED BY <3>1
    <2> DEFINE a == (w - 1) * size
    <2>3. a \in Nat /\ a + size <= Len(s) /\ ss[w] = SubSeq(s, a + 1, a + size)
      BY <1>1, <1>2, <2>1, <2>2
    <2> HIDE DEF a
    <2>4. /\ SubSeq(s, a + 1, a + size) \in Seq(S)
          /\ Len(SubSeq(s, a + 1, a + size)) = size
          /\ \A j \in 1..size : SubSeq(s, a + 1, a + size)[j] = s[a + j]
      BY <1>1, <2>3, SubSeqAt
    <2> QED BY <2>3, <2>4 DEF a
  <1>4. ss \in Seq(Seq(S)) /\ Len(ss) = k
    <2>1. ss = [w \in 1..k |-> ss[w]]
      BY DEF ss, Chunks
    <2> QED BY <1>0, <1>3, <2>1
  <1>5. /\ FlattenSeq(ss) \in Seq(S) /\ Len(FlattenSeq(ss)) = Len(s)
        /\ \A w \in 1..k, j \in 1..size : FlattenSeq(ss)[(w - 1) * size + j] = ss[w][j]
    <2>1. \A w \in 1..Len(ss) : Len(ss[w]) = size
      BY <1>3, <1>4
    <2>2. /\ FlattenSeq(ss) \in Seq(S)
          /\ Len(FlattenSeq(ss)) = Len(ss) * size
          /\ \A w \in 1..Len(ss), j \in 1..size :
               FlattenSeq(ss)[(w - 1) * size + j] = ss[w][j]
      <3>1. FlattenSeq(ss) \in Seq(S) /\ InRows(FlattenSeq(ss), ss, size)
        BY <1>1, <1>4, <2>1, FlattenEqual
      <3> QED BY <3>1 DEF InRows
    <2> QED BY <1>1, <1>4, <2>2
  <1>6. ASSUME NEW i \in 1..Len(s) PROVE FlattenSeq(ss)[i] = s[i]
    <2>1. i \in 1..(k * size)
      BY <1>1
    <2>2. PICK w \in 1..k, j \in 1..size : i = (w - 1) * size + j
      <3>1. InChunk(i, k, size)
        BY <1>0, <1>1, <2>1, ChunkPlace
      <3> QED BY <3>1 DEF InChunk
    <2> QED BY <1>3, <1>5, <2>2
  <1>7. FlattenSeq(ss) = s
    <2> DEFINE t == FlattenSeq(ss)
    <2> HIDE DEF t
    <2>1. t \in Seq(S) /\ Len(t) = Len(s) /\ \A i \in 1..Len(s) : t[i] = s[i]
      BY <1>5, <1>6 DEF t
    <2> QED BY <2>1, SeqEqual DEF t
  <1> QED BY <1>7 DEF OnWorkers, ss, k

\* So does a batch that is padded, answered and cut.
LEMMA GenerateSame ==
  ASSUME NEW S, NEW s \in Seq(S), Len(s) > 0, conf.workers \in Nat \ {0}
  PROVE  Generate(s) = s
  <1> DEFINE k == conf.workers
             pad == PadSize(Len(s), k)
             t == PadTo(s, k)
  <1>1. /\ Len(s) \in Nat \ {0} /\ k \in Nat \ {0}
    OBVIOUS
  <1>2. pad \in Nat /\ (Len(s) + pad) % k = 0
    BY <1>1, PadFits
  <1>3. t = [i \in 1..(Len(s) + pad) |-> s[((i - 1) % Len(s)) + 1]]
    BY DEF PadTo
  <1> HIDE DEF k, pad, t
  <1>4. \A i \in 1..(Len(s) + pad) : ((i - 1) % Len(s)) + 1 \in 1..Len(s)
    <2> DEFINE l == Len(s)
    <2> HIDE DEF l
    <2>1. ASSUME NEW i \in 1..(l + pad) PROVE ((i - 1) % l) + 1 \in 1..l
      <3>1. i - 1 \in Nat /\ l \in Nat \ {0}
        BY <1>1, <1>2 DEF l
      <3>2. (i - 1) % l \in 0..(l - 1)
        BY <3>1, DivideBy
      <3> QED BY <3>1, <3>2
    <2> QED BY <2>1 DEF l
  <1>5. \A i \in 1..Len(s) : ((i - 1) % Len(s)) + 1 = i
    BY <1>1, Z3
  <1>6. t \in Seq(S) /\ Len(t) = Len(s) + pad /\ \A i \in 1..Len(s) : t[i] = s[i]
    <2>1. \A i \in 1..(Len(s) + pad) : s[((i - 1) % Len(s)) + 1] \in S
      BY <1>4
    <2>2. Len(s) + pad \in Nat /\ \A i \in 1..Len(s) : i \in 1..(Len(s) + pad)
      BY <1>1, <1>2
    <2>3. t \in Seq(S) /\ Len(t) = Len(s) + pad
      BY <1>3, <2>1, <2>2
    <2>4. \A i \in 1..Len(s) : t[i] = s[((i - 1) % Len(s)) + 1]
      BY <1>3, <2>2
    <2> QED BY <1>5, <2>3, <2>4
  <1>7. OnWorkers(t) = t
    BY <1>1, <1>2, <1>6, OnWorkersSame DEF k
  <1>8. [i \in DOMAIN t |-> Answer(t[i])] = t
    BY <1>6 DEF Answer
  <1>9. Generate(s) = SubSeq(t, 1, Len(t) - pad)
    BY <1>7, <1>8 DEF Generate, Unpad, t, pad, k
  <1>10. SubSeq(t, 1, Len(s)) = s
    <2>1. SubSeq(t, 0 + 1, 0 + Len(s)) \in Seq(S) /\ Len(SubSeq(t, 0 + 1, 0 + Len(s))) = Len(s)
          /\ \A i \in 1..Len(s) : SubSeq(t, 0 + 1, 0 + Len(s))[i] = t[0 + i]
      BY <1>1, <1>2, <1>6, SubSeqAt
    <2> DEFINE u == SubSeq(t, 1, Len(s))
    <2>2. u \in Seq(S) /\ Len(u) = Len(s) /\ \A i \in 1..Len(s) : u[i] = s[i]
      BY <1>1, <1>6, <2>1
    <2> HIDE DEF u
    <2> QED BY <2>2, SeqEqual DEF u
  <1>11. Len(t) - pad = Len(s)
    BY <1>1, <1>2, <1>6
  <1> QED BY <1>9, <1>10, <1>11

------------------------------------------------------------------------------
(* The invariants of the rollout and of the batch *)

\* What an environment asks in turn t, and what was answered.
Prompted(e, t) == [traj |-> e, turn |-> t, skills |-> mask[e]]

\* Row t of environment e: up to the end of the episode it is the step the
\* episode saw; after it, the row is inactive.
PlayedRow(e, t) ==
  LET r == total[e][t]
  IN  /\ r.traj = e /\ r.uid = Uid(e) /\ r.turn = t /\ r.resp = Prompted(e, t)
      /\ r.active <=> t <= Len(played[e])
      /\ t <= Len(played[e]) =>
           /\ r.rew = RewardOf(played[e][t])
           /\ r.valid = played[e][t].valid /\ r.won = played[e][t].won

\* An episode has a step for each turn until it is done, and at least one.
EpisodeInv(e) ==
  /\ played[e] \in Seq(Outcome) /\ total[e] \in Seq(TurnRow)
  /\ Len(total[e]) = turn - 1
  /\ Len(played[e]) <= turn - 1
  /\ ~isDone[e] => Len(played[e]) = turn - 1
  /\ isDone[e] => Len(played[e]) > 0
  /\ \A t \in 1..(turn - 1) : PlayedRow(e, t)
  /\ epLength[e] = Len(played[e])
  /\ epReward[e] = RewardsFrom(e, 1)

RolloutInv ==
  /\ turn \in 1..(conf.turns + 1)
  /\ isDone \in [Envs -> BOOLEAN]
  /\ epReward \in [Envs -> Nat] /\ epLength \in [Envs -> Nat]
  /\ DOMAIN total = Envs /\ DOMAIN played = Envs
  /\ \A e \in Envs : EpisodeInv(e)
  /\ phase = "reset" => turn = 1
  /\ phase # "reset" => obs = [e \in Envs |-> Prompted(e, turn)]
  /\ phase = "turn" => turn <= conf.turns
  /\ phase \notin {"reset", "turn"} => turn > 1
  /\ phase \in {"reset", "turn", "gather"} => rows = <<>>

Balanced == phase = "balance" \/ Shuffled
Gathered == phase \in {"returns", "adjust"} \/ Balanced

\* A row has what its episode did in its turn.
StepRow(r) ==
  LET p == played[r.traj]
  IN  /\ r.turn \in 1..Len(p)
      /\ r.uid = Uid(r.traj) /\ r.arm = mask[r.traj] /\ r.task = tasks[r.traj]
      /\ r.resp = Prompted(r.traj, r.turn)
      /\ r.rew = RewardOf(p[r.turn]) /\ r.valid = p[r.turn].valid
      /\ r.reward = RewardsFrom(r.traj, 1)
      /\ r.length = Len(p) /\ r.success = p[Len(p)].won

\* Its return is what the episode earned from this step on.
OwnReturn(r) ==
  conf.gigpo /\ phase # "returns" =>
    r.ret = 100 * RewardsFrom(r.traj, r.turn)
              - (IF phase \in Scored THEN Penalty(r) ELSE 0)

OwnLogp(r) == phase \in {"score"} \cup Scored => r.logp = r.resp

OwnRow(r) == StepRow(r) /\ OwnReturn(r) /\ OwnLogp(r)

\* One row per step, two where it was copied.
Copies(e, t) ==
  \E i, j \in DOMAIN rows :
    /\ phase \in {"returns", "adjust"} => i = j
    /\ \A k \in DOMAIN rows : rows[k].traj = e /\ rows[k].turn = t <=> k \in {i, j}

RowsInv ==
  /\ phase \in Phases
  /\ rows \in Seq(Row)
  /\ \A i \in DOMAIN rows : OwnRow(rows[i])
  /\ phase = "returns" => \A i, j \in DOMAIN rows :
       i < j /\ rows[i].traj = rows[j].traj => rows[i].turn < rows[j].turn
  /\ Gathered => \A e \in Envs : \A t \in 1..Len(played[e]) : Copies(e, t)
  /\ Balanced => Len(rows) % conf.workers = 0

------------------------------------------------------------------------------
(* Environments, prompts, rewards *)

\* What the configurations have in common.
LEMMA SetupFacts ==
  ASSUME GroupInv
  PROVE  /\ conf.n \in Nat \ {0} /\ conf.groups \in Nat \ {0}
         /\ conf.workers \in Nat \ {0} /\ conf.divisor \in Nat \ {0}
         /\ conf.divisor % conf.workers = 0 /\ conf.turns \in Nat \ {0}
         /\ conf.gigpo \in BOOLEAN /\ conf.penalty \in BOOLEAN
  BY SetupsAssumption DEF GroupInv, Setup

\* There is at least one environment.
LEMMA EnvsFacts ==
  ASSUME GroupInv
  PROVE  \E n \in Nat \ {0} : Envs = 1..n
  <1>1. conf.groups * conf.n \in Nat \ {0}
    BY SetupFacts, Z3
  <1> QED BY <1>1 DEF Envs

\* Environments and groups are numbers.
LEMMA EnvFacts ==
  ASSUME GroupInv, NEW e \in Envs
  PROVE  e \in Nat \ {0} /\ Uid(e) \in Nat
  <1>1. e - 1 \in Nat /\ e \in Nat \ {0}
    BY EnvsFacts
  <1>2. (e - 1) \div conf.n \in Nat
    BY <1>1, SetupFacts, DivideBy
  <1> QED BY <1>1, <1>2 DEF Uid, Group

\* After Reset every environment has a task and an arm.
LEMMA MaskType ==
  ASSUME GroupInv, phase # "reset"
  PROVE  mask \in [Envs -> BOOLEAN] /\ tasks \in [Envs -> Nat]
  <1>1. \A e \in Envs : Game(e) \in Nat
    <2> SUFFICES ASSUME NEW e \in Envs PROVE Game(e) \in Nat
      OBVIOUS
    <2>1. e - 1 \in Nat
      BY EnvFacts
    <2> QED BY <2>1, SetupFacts, DivideBy DEF Game
  <1>2. ArmMask \in [Envs -> BOOLEAN]
    BY Zenon DEF ArmMask
  <1> QED BY <1>1, <1>2 DEF GroupInv

\* The prompt shows skills to the skill arm only.
LEMMA AskedFor ==
  ASSUME GroupInv, NEW arm \in [Envs -> BOOLEAN], NEW e \in Envs, NEW t
  PROVE  Ask(e, t, Retrieved(arm)) = [traj |-> e, turn |-> t, skills |-> arm[e]]
  <1>1. Len(arm) \in Nat /\ 1..Len(arm) = Envs
    <2>1. PICK n \in Nat \ {0} : Envs = 1..n
      BY EnvsFacts
    <2>2. arm \in Seq(BOOLEAN) /\ Len(arm) = n
      BY <2>1
    <2> QED BY <2>1, <2>2
  <1>2. Retrieved(arm)[e] = IF arm[e] THEN "skills" ELSE "none"
    BY <1>1 DEF Retrieved
  <1>3. (Retrieved(arm)[e] = "skills") = arm[e]
    <2>1. CASE arm[e] = TRUE
      <3>1. Retrieved(arm)[e] = "skills"
        BY <1>2, <2>1
      <3> QED BY <2>1, <3>1
    <2>2. CASE arm[e] = FALSE
      <3>1. Retrieved(arm)[e] # "skills"
        BY <1>2, <2>2
      <3> QED BY <2>2, <3>1
    <2>3. arm[e] \in {TRUE, FALSE}
      BY Zenon
    <2> QED BY <2>1, <2>2, <2>3
  <1> QED BY <1>3, Zenon DEF Ask

\* A sum of rewards is a number.
LEMMA RewardsType ==
  ASSUME NEW p \in Seq(Outcome), NEW t \in Nat
  PROVE  /\ \A u \in 1..Len(p) : RewardOf(p[u]) \in {0, 1}
         /\ SumFunction([u \in t..Len(p) |-> RewardOf(p[u])]) \in Int
  <1>1. \A o : RewardOf(o) \in {0, 1}
    BY DEF RewardOf
  <1>2. IsFiniteSet(t..Len(p))
    BY FS_Interval
  <1> DEFINE f == [u \in t..Len(p) |-> RewardOf(p[u])]
  <1>3. f \in [t..Len(p) -> Int]
    BY <1>1
  <1> HIDE DEF f
  <1>4. SumFunction(f) \in Int
    BY <1>2, <1>3, SumType
  <1> QED BY <1>1, <1>4 DEF f

\* One more step adds its reward.
LEMMA RewardsMore ==
  ASSUME NEW p \in Seq(Outcome), NEW o \in Outcome
  PROVE  SumFunction([u \in 1..Len(Append(p, o)) |-> RewardOf(Append(p, o)[u])])
           = RewardOf(o) + SumFunction([u \in 1..Len(p) |-> RewardOf(p[u])])
  <1> DEFINE q == Append(p, o)
             S == 1..Len(p)
             y == Len(p) + 1
             f == [u \in S |-> RewardOf(p[u])]
             g == [u \in 1..Len(q) |-> RewardOf(q[u])]
  <1>0. \A x : RewardOf(x) \in Int
    BY DEF RewardOf
  <1>1. Len(q) = y /\ q[y] = o /\ (\A u \in S : q[u] = p[u]) /\ Len(p) \in Nat
    OBVIOUS
  <1>2. 1..Len(q) = S \cup {y} /\ y \notin S
    BY <1>1
  <1>3. IsFiniteSet(S) /\ f \in [S -> Int]
    BY <1>0, FS_Interval
  <1>4. g \in [S \cup {y} -> Int] /\ g[y] = RewardOf(o) /\ \A u \in S : g[u] = f[u]
    BY <1>0, <1>1, <1>2
  <1> HIDE DEF q, S, y, f, g
  <1>5. SumFunction(g) = g[y] + SumFunction(f)
    <2>1. OneMore(f, g, S, y)
      BY <1>2, <1>3, <1>4 DEF OneMore
    <2> QED BY <2>1, SumMore
  <1> QED BY <1>4, <1>5 DEF q, S, f, g

------------------------------------------------------------------------------
(* The rollout *)

\* No steps, no reward.
LEMMA RewardsNone ==
  ASSUME NEW p, Len(p) = 0
  PROVE  SumFunction([u \in 1..Len(p) |-> RewardOf(p[u])]) = 0
  <1>1. DOMAIN [u \in 1..Len(p) |-> RewardOf(p[u])] = {}
    OBVIOUS
  <1> QED BY <1>1, SumNone

\* Nothing is played at the start.
LEMMA RolloutInit == InitRollout => RolloutInv
  <1> SUFFICES ASSUME InitRollout PROVE RolloutInv
    OBVIOUS
  <1>1. conf.turns \in Nat \ {0}
    BY SetupsAssumption DEF InitRollout, Setup
  <1>2. ASSUME NEW e \in Envs PROVE EpisodeInv(e)
    <2>1. /\ turn = 1 /\ played[e] = <<>> /\ total[e] = <<>> /\ isDone[e] = FALSE
          /\ epLength[e] = 0 /\ epReward[e] = 0
      BY DEF InitRollout
    <2>2. Len(<<>>) = 0 /\ Len(played[e]) = 0
      BY <2>1
    <2>3. RewardsFrom(e, 1) = 0
      BY <2>2, RewardsNone DEF RewardsFrom
    <2>4. <<>> \in Seq(Outcome) /\ <<>> \in Seq(TurnRow)
      OBVIOUS
    <2> QED BY <2>1, <2>2, <2>3, <2>4 DEF EpisodeInv
  <1> QED BY <1>1, <1>2 DEF InitRollout, RolloutInv

\* Before the first turn an episode does not depend on its arm.
LEMMA RolloutReset ==
  ASSUME GroupInv, RolloutInv, Reset
  PROVE  RolloutInv'
  <1>1. /\ turn = 1 /\ turn' = turn /\ conf' = conf /\ isDone' = isDone
        /\ epReward' = epReward /\ epLength' = epLength /\ total' = total
        /\ played' = played /\ rows' = rows /\ phase' = "turn" /\ rows = <<>>
        /\ mask' = ArmMask /\ phase = "reset"
        /\ obs' = [e \in Envs |-> Ask(e, 1, Retrieved(mask'))]
    BY DEF Reset, RolloutInv
  <1>2. Envs' = Envs
    BY <1>1 DEF Envs
  <1>3. conf.turns \in Nat \ {0}
    BY SetupFacts
  <1>4. ASSUME NEW e \in Envs PROVE EpisodeInv(e)'
    <2>1. EpisodeInv(e)
      BY DEF RolloutInv
    <2>2. RewardsFrom(e, 1)' = RewardsFrom(e, 1)
      BY <1>1 DEF RewardsFrom
    <2> QED BY <1>1, <2>1, <2>2 DEF EpisodeInv
  <1>5. obs' = [e \in Envs |-> Prompted(e, turn)]'
    <2>1. mask' \in [Envs -> BOOLEAN]
      BY <1>1, Zenon DEF ArmMask
    <2>2. ASSUME NEW e \in Envs
          PROVE  Ask(e, 1, Retrieved(mask')) = [traj |-> e, turn |-> turn', skills |-> mask'[e]]
      <3> DEFINE arm == mask'
                 t == 1
      <3>0. arm \in [Envs -> BOOLEAN]
        BY <2>1
      <3> HIDE DEF arm, t
      <3>1. Ask(e, t, Retrieved(arm)) = [traj |-> e, turn |-> t, skills |-> arm[e]]
        BY <3>0, AskedFor
      <3> QED BY <1>1, <3>1 DEF arm, t
    <2> QED BY <1>1, <1>2, <2>2 DEF Prompted
  <1>6. /\ turn \in 1..(conf.turns + 1)
        /\ isDone \in [Envs -> BOOLEAN]
        /\ epReward \in [Envs -> Nat] /\ epLength \in [Envs -> Nat]
        /\ DOMAIN total = Envs /\ DOMAIN played = Envs
    BY DEF RolloutInv
  <1> QED BY <1>1, <1>2, <1>3, <1>4, <1>5, <1>6 DEF RolloutInv

\* The batch is worked on after the rollout, which it leaves alone.
LEMMA RolloutFrame ==
  ASSUME RolloutInv, UNCHANGED <<conf, episode, rollout>>, phase \notin {"reset", "turn"},
         phase' \notin {"reset", "turn", "gather"}
  PROVE  RolloutInv'
  <1>1. /\ turn' = turn /\ conf' = conf /\ isDone' = isDone /\ epReward' = epReward
        /\ epLength' = epLength /\ total' = total /\ played' = played /\ mask' = mask
        /\ obs' = obs
    BY DEF rollout, episode
  <1>2. Envs' = Envs
    BY <1>1 DEF Envs
  <1>3. ASSUME NEW e \in Envs PROVE EpisodeInv(e)'
    <2>1. EpisodeInv(e)
      BY DEF RolloutInv
    <2>2. RewardsFrom(e, 1)' = RewardsFrom(e, 1)
      BY <1>1 DEF RewardsFrom
    <2>3. \A t : PlayedRow(e, t)' <=> PlayedRow(e, t)
      BY <1>1 DEF PlayedRow, Prompted, Uid, Group
    <2>4. TurnRow' = TurnRow
      BY <1>2 DEF TurnRow
    <2> QED BY <1>1, <2>1, <2>2, <2>3, <2>4 DEF EpisodeInv
  <1>4. [e \in Envs |-> Prompted(e, turn)]' = [e \in Envs |-> Prompted(e, turn)]
    BY <1>1, <1>2 DEF Prompted
  <1> QED BY <1>1, <1>2, <1>3, <1>4 DEF RolloutInv

\* A step that changes nothing.
LEMMA RolloutStutter ==
  ASSUME RolloutInv, UNCHANGED vars
  PROVE  RolloutInv'
  <1>1. /\ turn' = turn /\ conf' = conf /\ isDone' = isDone /\ epReward' = epReward
        /\ epLength' = epLength /\ total' = total /\ played' = played /\ mask' = mask
        /\ obs' = obs /\ phase' = phase /\ rows' = rows
    BY DEF vars, rollout, episode
  <1>2. Envs' = Envs
    BY <1>1 DEF Envs
  <1>3. ASSUME NEW e \in Envs PROVE EpisodeInv(e)'
    <2>1. EpisodeInv(e)
      BY DEF RolloutInv
    <2>2. RewardsFrom(e, 1)' = RewardsFrom(e, 1)
      BY <1>1 DEF RewardsFrom
    <2>3. \A t : PlayedRow(e, t)' <=> PlayedRow(e, t)
      BY <1>1 DEF PlayedRow, Prompted, Uid, Group
    <2>4. TurnRow' = TurnRow
      BY <1>2 DEF TurnRow
    <2> QED BY <1>1, <2>1, <2>2, <2>3, <2>4 DEF EpisodeInv
  <1>4. [e \in Envs |-> Prompted(e, turn)]' = [e \in Envs |-> Prompted(e, turn)]
    BY <1>1, <1>2 DEF Prompted
  <1> QED BY <1>1, <1>2, <1>3, <1>4 DEF RolloutInv

------------------------------------------------------------------------------
\* The workers' answers arrive at the environments that asked.
LEMMA ObsAnswered ==
  ASSUME GroupInv, RolloutInv, phase # "reset"
  PROVE  /\ Generate(obs) = obs
         /\ \A e \in Envs : obs[e] = Prompted(e, turn) /\ Prompted(e, turn) \in Prompt
  <1>1. obs = [e \in Envs |-> Prompted(e, turn)] /\ turn \in Nat
    BY SetupFacts DEF RolloutInv
  <1>2. ASSUME NEW e \in Envs PROVE Prompted(e, turn) \in Prompt
    <2>1. e \in Nat /\ mask[e] \in BOOLEAN
      BY EnvFacts, MaskType
    <2> QED BY <1>1, <2>1 DEF Prompted, Prompt
  <1>3. PICK n \in Nat \ {0} : Envs = 1..n
    BY EnvsFacts
  <1>4. obs \in Seq(Prompt) /\ Len(obs) > 0
    <2>1. obs \in [1..n -> Prompt]
      BY <1>1, <1>2, <1>3
    <2> QED BY <2>1
  <1>5. Generate(obs) = obs
    <2>1. conf.workers \in Nat \ {0}
      BY SetupFacts
    <2> QED BY <1>4, <2>1, GenerateSame
  <1> QED BY <1>1, <1>2, <1>5

\* The row an environment adds in a turn.
NewRow(e, o) ==
  [traj |-> e, uid |-> Uid(e), turn |-> turn, resp |-> Prompted(e, turn),
   rew |-> RewardOf(o), won |-> o.won, valid |-> o.valid, active |-> ~isDone[e]]

\* What a turn changes, environment by environment.
LEMMA TurnChanges ==
  ASSUME GroupInv, RolloutInv, phase = "turn",
         NEW out \in [Envs -> Outcome], PlayTurn(out)
  PROVE  /\ DOMAIN total' = Envs /\ DOMAIN played' = Envs
         /\ DOMAIN isDone' = Envs /\ DOMAIN epReward' = Envs /\ DOMAIN epLength' = Envs
         /\ \A e \in Envs :
              /\ total'[e] = Append(total[e], NewRow(e, out[e]))
              /\ played'[e] = IF isDone[e] THEN played[e] ELSE Append(played[e], out[e])
              /\ epReward'[e] = IF isDone[e] THEN epReward[e]
                                ELSE epReward[e] + RewardOf(out[e])
              /\ epLength'[e] = IF isDone[e] THEN epLength[e] ELSE epLength[e] + 1
              /\ isDone'[e] = (isDone[e] \/ out[e].done)
         /\ obs' = [e \in Envs |-> Ask(e, turn + 1, Retrieved(mask))]
  <1>1. Generate(obs) = obs /\ \A e \in Envs : obs[e] = Prompted(e, turn)
    BY ObsAnswered
  <1>2. total' = [e \in Envs |-> Append(total[e], NewRow(e, out[e]))]
    BY <1>1 DEF PlayTurn, Extend, NewRow
  <1>3. played' = [e \in Envs |-> IF isDone[e] THEN played[e] ELSE Append(played[e], out[e])]
    BY DEF PlayTurn
  <1>4. isDone' = [e \in Envs |-> isDone[e] \/ out[e].done]
    BY Zenon DEF PlayTurn
  <1>5. /\ epReward' = [e \in Envs |-> IF isDone[e] THEN epReward[e]
                                        ELSE epReward[e] + RewardOf(out[e])]
        /\ epLength' = [e \in Envs |-> IF isDone[e] THEN epLength[e] ELSE epLength[e] + 1]
    BY DEF PlayTurn
  <1>6. obs' = [e \in Envs |-> Ask(e, turn + 1, Retrieved(mask))]
    BY DEF PlayTurn
  <1>7. DOMAIN isDone' = Envs /\ \A e \in Envs : isDone'[e] = (isDone[e] \/ out[e].done)
    BY <1>4, Zenon
  <1> QED BY <1>2, <1>3, <1>5, <1>6, <1>7

\* An episode goes on by one step, or is over and stays as it is.
LEMMA TurnEpisode ==
  ASSUME GroupInv, RolloutInv, phase = "turn",
         NEW out \in [Envs -> Outcome], PlayTurn(out),
         turn' = turn + 1, conf' = conf, mask' = mask, NEW e \in Envs
  PROVE  EpisodeInv(e)'
  <1> DEFINE r == NewRow(e, out[e])
             p == played[e]
             o == out[e]
  <1>1. /\ total'[e] = Append(total[e], r)
        /\ played'[e] = IF isDone[e] THEN p ELSE Append(p, o)
        /\ epReward'[e] = IF isDone[e] THEN epReward[e] ELSE epReward[e] + RewardOf(o)
        /\ epLength'[e] = IF isDone[e] THEN epLength[e] ELSE epLength[e] + 1
        /\ isDone'[e] = (isDone[e] \/ o.done)
    BY TurnChanges
  <1>2. /\ p \in Seq(Outcome) /\ total[e] \in Seq(TurnRow) /\ Len(total[e]) = turn - 1
        /\ Len(p) <= turn - 1 /\ (~isDone[e] => Len(p) = turn - 1)
        /\ (isDone[e] => Len(p) > 0)
        /\ epLength[e] = Len(p) /\ epReward[e] = RewardsFrom(e, 1)
        /\ \A t \in 1..(turn - 1) : PlayedRow(e, t)
    BY DEF RolloutInv, EpisodeInv
  <1>3. turn \in Nat \ {0} /\ isDone[e] \in BOOLEAN /\ o \in Outcome
    BY SetupFacts DEF RolloutInv
  <1>3b. RewardOf(o) \in {0, 1}
    BY DEF RewardOf
  <1>4. r \in TurnRow
    <2>1. Prompted(e, turn) \in Prompt
      BY ObsAnswered
    <2>2. Uid(e) \in Nat
      BY EnvFacts
    <2>3. o.won \in BOOLEAN /\ o.valid \in BOOLEAN
      BY <1>3 DEF Outcome
    <2>4. ASSUME NEW won \in BOOLEAN, NEW valid \in BOOLEAN, NEW active \in BOOLEAN
          PROVE  [traj |-> e, uid |-> Uid(e), turn |-> turn, resp |-> Prompted(e, turn),
                  rew |-> RewardOf(o), won |-> won, valid |-> valid, active |-> active]
                   \in TurnRow
      BY <1>3, <1>3b, <2>1, <2>2 DEF TurnRow
    <2> QED BY <2>3, <2>4, Zenon DEF NewRow
  <1>5. total'[e] \in Seq(TurnRow) /\ Len(total'[e]) = turn /\ total'[e][turn] = r
        /\ \A t \in 1..(turn - 1) : total'[e][t] = total[e][t]
    <2> HIDE DEF r
    <2> QED BY <1>1, <1>2, <1>3, <1>4
  <1>6. played'[e] \in Seq(Outcome) /\ Len(played'[e]) = IF isDone[e] THEN Len(p) ELSE turn
    <2> HIDE DEF p, o
    <2>1. CASE isDone[e]
      BY <1>1, <1>2, <2>1
    <2>2. CASE ~isDone[e]
      BY <1>1, <1>2, <1>3, <2>2
    <2> QED BY <2>1, <2>2
  <1>7. \A t \in 1..Len(p) : played'[e][t] = p[t]
    <2> HIDE DEF p, o
    <2>1. CASE isDone[e]
      BY <1>1, <2>1
    <2>2. CASE ~isDone[e]
      BY <1>1, <1>2, <1>3, <2>2
    <2> QED BY <2>1, <2>2
  <1>8. ~isDone[e] => played'[e][turn] = o
    <2> HIDE DEF p, o
    <2> QED BY <1>1, <1>2, <1>3
  <1>9. Uid(e)' = Uid(e) /\ \A t : Prompted(e, t)' = Prompted(e, t)
    BY DEF Uid, Group, Prompted
  <1>10. ASSUME NEW t \in 1..turn PROVE PlayedRow(e, t)'
    <2> DEFINE row == total'[e][t]
    <2>1. CASE t \in 1..(turn - 1)
      <3>1. PlayedRow(e, t)
        BY <1>2, <2>1
      <3>2. row = total[e][t]
        BY <1>5, <2>1
      <3>3. t <= Len(played'[e]) <=> t <= Len(p)
        BY <1>2, <1>3, <1>6, <2>1
      <3>4. t <= Len(p) => played'[e][t] = p[t]
        BY <1>2, <1>7
      <3> QED BY <1>9, <3>1, <3>2, <3>3, <3>4 DEF PlayedRow
    <2>2. CASE t = turn
      <3>1. row = r
        BY <1>5, <2>2
      <3>2. t <= Len(played'[e]) <=> ~isDone[e]
        BY <1>2, <1>3, <1>6, <2>2
      <3>3. /\ r.traj = e /\ r.uid = Uid(e) /\ r.turn = turn /\ r.resp = Prompted(e, turn)
            /\ r.rew = RewardOf(o) /\ r.won = o.won /\ r.valid = o.valid
        BY DEF NewRow
      <3>4. r.active <=> ~isDone[e]
        BY Zenon DEF NewRow
      <3> HIDE DEF r
      <3>5. row.active <=> t <= Len(played'[e])
        BY <3>1, <3>2, <3>4
      <3> QED BY <1>8, <1>9, <2>2, <3>1, <3>2, <3>3, <3>5 DEF PlayedRow
    <2> QED BY <1>3, <2>1, <2>2
  <1>11. epReward'[e] = RewardsFrom(e, 1)'
    <2>1. CASE isDone[e]
      BY <1>1, <1>2, <2>1 DEF RewardsFrom
    <2>2. CASE ~isDone[e]
      <3>1. SumFunction([u \in 1..Len(Append(p, o)) |-> RewardOf(Append(p, o)[u])])
             = RewardOf(o) + SumFunction([u \in 1..Len(p) |-> RewardOf(p[u])])
        <4> HIDE DEF p, o
        <4> QED BY <1>2, <1>3, RewardsMore
      <3>2. RewardsFrom(e, 1)' = RewardOf(o) + RewardsFrom(e, 1)
        BY <1>1, <2>2, <3>1 DEF RewardsFrom
      <3>3. epReward[e] \in Nat
        BY DEF RolloutInv
      <3> QED BY <1>1, <1>2, <1>3b, <2>2, <3>2, <3>3
    <2> QED BY <1>3, <2>1, <2>2
  <1>12. epLength'[e] = Len(played'[e])
    BY <1>1, <1>2, <1>3, <1>6
  <1>13. /\ Len(played'[e]) <= turn /\ Len(played'[e]) > 0
         /\ (~isDone'[e] => Len(played'[e]) = turn)
    <2>1. CASE isDone[e]
      <3>1. isDone'[e]
        BY <1>1, <2>1, Zenon
      <3>2. Len(played'[e]) = Len(p) /\ Len(p) \in Nat
        BY <1>2, <1>6, <2>1
      <3> QED BY <1>2, <1>3, <2>1, <3>1, <3>2
    <2>2. CASE ~isDone[e]
      BY <1>3, <1>6, <2>2
    <2> QED BY <1>3, <2>1, <2>2
  <1>14. turn' - 1 = turn
    BY <1>3
  <1>15. TurnRow' = TurnRow
    BY DEF TurnRow, Envs
  <1> QED BY <1>5, <1>6, <1>10, <1>11, <1>12, <1>13, <1>14, <1>15 DEF EpisodeInv

\* A turn keeps the invariant of the rollout.
LEMMA RolloutTurn ==
  ASSUME GroupInv, RolloutInv, Turn
  PROVE  RolloutInv'
  <1>1. PICK out \in [Envs -> Running \cup Finished] : PlayTurn(out)
    BY DEF Turn
  <1>2. out \in [Envs -> Outcome]
    BY DEF Running, Finished
  <1>3. /\ phase = "turn" /\ turn' = turn + 1 /\ conf' = conf /\ mask' = mask /\ rows' = rows
        /\ phase' = IF (\A e \in Envs : isDone'[e]) \/ turn = conf.turns
                    THEN AfterLoop ELSE "turn"
    BY DEF Turn, episode
  <1>4. Envs' = Envs
    BY <1>3 DEF Envs
  <1>5. \A e \in Envs : EpisodeInv(e)'
    BY <1>1, <1>2, <1>3, TurnEpisode
  <1>6. /\ DOMAIN total' = Envs /\ DOMAIN played' = Envs
        /\ DOMAIN isDone' = Envs /\ DOMAIN epReward' = Envs /\ DOMAIN epLength' = Envs
        /\ \A e \in Envs :
             /\ epReward'[e] = IF isDone[e] THEN epReward[e]
                               ELSE epReward[e] + RewardOf(out[e])
             /\ epLength'[e] = IF isDone[e] THEN epLength[e] ELSE epLength[e] + 1
             /\ isDone'[e] = (isDone[e] \/ out[e].done)
        /\ obs' = [e \in Envs |-> Ask(e, turn + 1, Retrieved(mask))]
    BY <1>1, <1>2, <1>3, TurnChanges
  <1>7. /\ turn \in 1..conf.turns /\ conf.turns \in Nat \ {0}
        /\ isDone \in [Envs -> BOOLEAN] /\ rows = <<>>
        /\ epReward \in [Envs -> Nat] /\ epLength \in [Envs -> Nat]
    BY <1>3, SetupFacts DEF RolloutInv
  <1>8. obs' = [e \in Envs |-> Prompted(e, turn)]'
    <2>1. mask \in [Envs -> BOOLEAN]
      BY <1>3, MaskType
    <2>2. ASSUME NEW e \in Envs
          PROVE  Ask(e, turn + 1, Retrieved(mask)) = [traj |-> e, turn |-> turn', skills |-> mask'[e]]
      <3> DEFINE t == turn + 1
      <3> HIDE DEF t
      <3>1. Ask(e, t, Retrieved(mask)) = [traj |-> e, turn |-> t, skills |-> mask[e]]
        BY <2>1, AskedFor
      <3> QED BY <1>3, <3>1 DEF t
    <2> QED BY <1>4, <1>6, <2>2 DEF Prompted
  <1>9. isDone' \in [Envs -> BOOLEAN]
    <2>1. ASSUME NEW e \in Envs PROVE isDone'[e] \in BOOLEAN
      BY <1>6, Zenon
    <2>2. isDone' = [e \in Envs |-> isDone'[e]]
      BY <1>1, <1>6 DEF PlayTurn
    <2> QED BY <2>1, <2>2
  <1>10. epReward' \in [Envs -> Nat] /\ epLength' \in [Envs -> Nat]
    <2>1. ASSUME NEW e \in Envs PROVE epReward'[e] \in Nat /\ epLength'[e] \in Nat
      <3>1. /\ epReward'[e] = IF isDone[e] THEN epReward[e]
                                ELSE epReward[e] + RewardOf(out[e])
            /\ epLength'[e] = IF isDone[e] THEN epLength[e] ELSE epLength[e] + 1
        BY <1>6
      <3>2. epReward[e] \in Nat /\ epLength[e] \in Nat /\ RewardOf(out[e]) \in Nat
        BY <1>7 DEF RewardOf
      <3> QED BY <3>1, <3>2
    <2>2. epReward' = [e \in Envs |-> epReward'[e]] /\ epLength' = [e \in Envs |-> epLength'[e]]
      BY <1>1 DEF PlayTurn
    <2> QED BY <2>1, <2>2
  <1>11. /\ turn' \in 1..(conf'.turns + 1) /\ turn' > 1
         /\ phase' = "turn" => turn' <= conf'.turns
    BY <1>3, <1>7 DEF AfterLoop
  <1>12. phase' \in {"turn", "failed", "gather"}
    BY <1>3 DEF AfterLoop
  <1> QED BY <1>3, <1>4, <1>5, <1>6, <1>7, <1>8, <1>9, <1>10, <1>11, <1>12 DEF RolloutInv

------------------------------------------------------------------------------
(* Gathering *)

\* Once the rollout is over, every episode has ended and knows its last step.
LEMMA EpisodeFacts ==
  ASSUME RolloutInv, phase \notin {"reset", "turn"}, NEW e \in Envs
  PROVE  /\ turn \in Nat \ {0} /\ total[e] \in Seq(TurnRow) /\ DOMAIN total[e] = 1..(turn - 1)
         /\ played[e] \in Seq(Outcome) /\ Len(played[e]) \in 1..(turn - 1)
         /\ epLength[e] = Len(played[e]) /\ epReward[e] = RewardsFrom(e, 1)
         /\ epReward[e] \in Nat
         /\ \A t \in 1..(turn - 1) : PlayedRow(e, t)
  <1>1. turn \in Nat /\ turn > 1 /\ EpisodeInv(e) /\ epReward[e] \in Nat
        /\ isDone[e] \in BOOLEAN
    BY DEF RolloutInv
  <1>2. Len(played[e]) \in Nat /\ Len(played[e]) <= turn - 1 /\ Len(played[e]) > 0
    <2>1. CASE isDone[e]
      BY <1>1, <2>1 DEF EpisodeInv
    <2>2. CASE ~isDone[e]
      BY <1>1, <2>2 DEF EpisodeInv
    <2> QED BY <1>1, <2>1, <2>2
  <1> QED BY <1>1, <1>2 DEF EpisodeInv

\* The last active row tells how the episode ended.
LEMMA SuccessIsLast ==
  ASSUME RolloutInv, phase \notin {"reset", "turn"}, NEW e \in Envs
  PROVE  Success(e) = played[e][Len(played[e])].won
  <1> DEFINE l == Len(played[e])
             act == {t \in DOMAIN total[e] : total[e][t].active}
             last == CHOOSE t \in act : \A u \in act : u <= t
  <1>1. turn \in Nat /\ DOMAIN total[e] = 1..(turn - 1) /\ l \in 1..(turn - 1)
        /\ \A t \in 1..(turn - 1) : PlayedRow(e, t)
    BY EpisodeFacts
  <1>2. \A t \in 1..(turn - 1) : total[e][t].active <=> t <= l
    BY <1>1 DEF PlayedRow
  <1>3. act = 1..l
    BY <1>1, <1>2
  <1>4. l \in act /\ \A u \in act : u <= l
    BY <1>1, <1>3
  <1>5. last \in act /\ \A u \in act : u <= last
    BY <1>4
  <1>6. last = l
    <2> HIDE DEF last
    <2> QED BY <1>1, <1>3, <1>4, <1>5
  <1>7. total[e][l].won = played[e][l].won
    BY <1>1 DEF PlayedRow
  <1> QED BY <1>6, <1>7 DEF Success

\* What an annotated row of a step that was played holds.
LEMMA AnnotateFacts ==
  ASSUME GroupInv, RolloutInv, phase \notin {"reset", "turn"},
         NEW e \in Envs, NEW t \in 1..Len(played[e])
  PROVE  LET r == Annotate(total[e][t])
         IN  /\ r \in Row /\ r.traj = e /\ r.uid = Uid(e) /\ r.turn = t
             /\ r.resp = Prompted(e, t) /\ r.rew = RewardOf(played[e][t])
             /\ r.valid = played[e][t].valid /\ r.reward = RewardsFrom(e, 1)
             /\ r.length = Len(played[e])
             /\ r.success = played[e][Len(played[e])].won
             /\ r.arm = mask[e] /\ r.task = tasks[e]
  <1> DEFINE w == total[e][t]
             p == played[e]
             r == Annotate(w)
  <1>1. /\ turn \in Nat \ {0} /\ p \in Seq(Outcome) /\ Len(p) \in 1..(turn - 1)
        /\ epLength[e] = Len(p) /\ epReward[e] = RewardsFrom(e, 1) /\ epReward[e] \in Nat
    BY EpisodeFacts
  <1>2. t \in 1..(turn - 1) /\ PlayedRow(e, t) /\ t <= Len(p)
    BY <1>1, EpisodeFacts
  <1>3. /\ w.traj = e /\ w.uid = Uid(e) /\ w.turn = t /\ w.resp = Prompted(e, t)
        /\ w.rew = RewardOf(p[t]) /\ w.valid = p[t].valid
    BY <1>2 DEF PlayedRow
  <1>4. /\ mask[e] \in BOOLEAN /\ tasks[e] \in Nat
    BY MaskType
  <1>5. Success(e) = p[Len(p)].won
    BY SuccessIsLast
  <1>6. p[t] \in Outcome /\ p[Len(p)] \in Outcome
    BY <1>1
  <1> HIDE DEF p
  <1>7. p[t].valid \in BOOLEAN /\ p[Len(p)].won \in BOOLEAN
    BY <1>6 DEF Outcome
  <1>8. /\ Uid(e) \in Nat /\ e \in Nat /\ t \in Nat /\ Len(p) \in Nat
        /\ RewardOf(p[t]) \in Nat
    BY <1>1, <1>2, EnvFacts DEF RewardOf
  <1>9. Prompted(e, t) \in Prompt /\ NoPrompt \in Prompt
    BY <1>4, <1>8 DEF Prompted, Prompt, NoPrompt
  <1> DEFINE R(valid, success, arm) ==
        [traj |-> e, uid |-> Uid(e), turn |-> t, resp |-> Prompted(e, t),
         rew |-> RewardOf(p[t]), valid |-> valid, reward |-> epReward[e],
         length |-> Len(p), success |-> success, arm |-> arm, task |-> tasks[e],
         ret |-> 0, logp |-> NoPrompt, score |-> 0, intrinsic |-> 0, adv |-> 0]
  <1>10. r = R(p[t].valid, p[Len(p)].won, mask[e])
    BY <1>1, <1>3, <1>5, Zenon DEF Annotate
  <1>11. \A valid, success, arm \in BOOLEAN : R(valid, success, arm) \in Row
    BY <1>1, <1>4, <1>8, <1>9 DEF Row
  <1>12. r \in Row
    BY <1>4, <1>7, <1>10, <1>11, Zenon
  <1>13. \A valid, success, arm :
           LET x == R(valid, success, arm)
           IN  /\ x.traj = e /\ x.uid = Uid(e) /\ x.turn = t
               /\ x.resp = Prompted(e, t) /\ x.rew = RewardOf(p[t])
               /\ x.valid = valid /\ x.reward = epReward[e]
               /\ x.length = Len(p) /\ x.success = success
               /\ x.arm = arm /\ x.task = tasks[e]
    OBVIOUS
  <1> DEFINE Holds(x, valid, success, arm) ==
        /\ x.traj = e /\ x.uid = Uid(e) /\ x.turn = t
        /\ x.resp = Prompted(e, t) /\ x.rew = RewardOf(p[t])
        /\ x.valid = valid /\ x.reward = epReward[e]
        /\ x.length = Len(p) /\ x.success = success
        /\ x.arm = arm /\ x.task = tasks[e]
  <1>15. \A valid, success, arm : Holds(R(valid, success, arm), valid, success, arm)
    BY <1>13
  <1> HIDE DEF r, R, Holds
  <1>16. Holds(r, p[t].valid, p[Len(p)].won, mask[e])
    BY <1>10, <1>15, Zenon
  <1>14. /\ r.traj = e /\ r.uid = Uid(e) /\ r.turn = t
         /\ r.resp = Prompted(e, t) /\ r.rew = RewardOf(p[t])
         /\ r.valid = p[t].valid /\ r.reward = epReward[e]
         /\ r.length = Len(p) /\ r.success = p[Len(p)].won
         /\ r.arm = mask[e] /\ r.task = tasks[e]
    BY <1>16, Zenon DEF Holds
  <1> QED BY <1>1, <1>12, <1>14, Zenon DEF r, p

\* The steps of an episode in their order: step[i] is the turn of its i-th row.
InTurn(e, step) ==
  /\ \A i \in 1..Len(Effective(e)) :
       step[i] \in 1..Len(played[e]) /\ Effective(e)[i] = Annotate(total[e][step[i]])
  /\ \A i, j \in 1..Len(Effective(e)) : i < j => step[i] < step[j]
  /\ \A t \in 1..Len(played[e]) : \E i \in 1..Len(Effective(e)) : step[i] = t

\* Of the rows of an environment, those up to the end of its episode are taken.
LEMMA EffectiveInTurn ==
  ASSUME GroupInv, RolloutInv, phase \notin {"reset", "turn"}, NEW e \in Envs
  PROVE  Effective(e) \in Seq(Row) /\ \E step : InTurn(e, step)
  <1> DEFINE l == Len(played[e])
             A(t) == Annotate(total[e][t])
             ss == [t \in DOMAIN total[e] |->
                      IF Active(total[e][t]) THEN <<A(t)>> ELSE <<>>]
             n == turn - 1
  <1>1. n \in Nat /\ DOMAIN total[e] = 1..n /\ l \in 1..n
        /\ \A t \in 1..n : PlayedRow(e, t)
    BY EpisodeFacts
  <1>2. \A t \in 1..n : Active(total[e][t]) <=> t <= l
    BY <1>1 DEF PlayedRow, Active
  <1>3. \A t \in 1..l : A(t) \in Row
    BY AnnotateFacts
  <1>4. Effective(e) = FlattenSeq(ss)
    BY DEF Effective
  <1> HIDE DEF n, l, A
  <1>5. /\ DOMAIN ss = 1..n
        /\ \A t \in 1..n : ss[t] = IF t <= l THEN <<A(t)>> ELSE <<>>
        /\ ss = [t \in 1..n |-> ss[t]]
    BY <1>1, <1>2
  <1> HIDE DEF ss
  <1>6. \A t \in 1..n : ss[t] \in Seq(Row) /\ Len(ss[t]) = IF t <= l THEN 1 ELSE 0
    <2> SUFFICES ASSUME NEW t \in 1..n
                 PROVE  ss[t] \in Seq(Row) /\ Len(ss[t]) = IF t <= l THEN 1 ELSE 0
      OBVIOUS
    <2>1. CASE t <= l
      <3>1. A(t) \in Row
        BY <1>1, <1>3, <2>1
      <3>2. ss[t] = <<A(t)>>
        BY <1>5, <2>1
      <3>3. <<A(t)>> \in Seq(Row) /\ Len(<<A(t)>>) = 1
        BY <3>1
      <3> QED BY <2>1, <3>2, <3>3
    <2>2. CASE ~(t <= l)
      <3>1. ss[t] = <<>>
        BY <1>5, <2>2
      <3>2. <<>> \in Seq(Row) /\ Len(<<>>) = 0
        OBVIOUS
      <3> QED BY <2>2, <3>1, <3>2
    <2> QED BY <2>1, <2>2
  <1>7. ss \in Seq(Seq(Row)) /\ Len(ss) = n
    BY <1>1, <1>5, <1>6
  <1> DEFINE f == FlattenSeq(ss)
  <1>8. f \in Seq(Row) /\ \E p, q : Places(f, ss, n, p, q)
    <2>1. f \in Seq(Row) /\ \E p, q : Places(f, ss, Len(ss), p, q)
      BY <1>7, FlattenPlaces
    <2> QED BY <1>7, <2>1
  <1> HIDE DEF f
  <1>9. PICK p, q : Places(f, ss, n, p, q)
    BY <1>8
  <1>10. /\ \A i \in 1..Len(f) : /\ p[i] \in 1..n /\ q[i] \in 1..Len(ss[p[i]])
                                 /\ f[i] = ss[p[i]][q[i]]
         /\ \A i, j \in 1..Len(f) : i < j => p[i] < p[j] \/ (p[i] = p[j] /\ q[i] < q[j])
         /\ \A w \in 1..n : \A k \in 1..Len(ss[w]) :
              \E i \in 1..Len(f) : p[i] = w /\ q[i] = k
    BY <1>9 DEF Places
  <1>11. \A i \in 1..Len(f) : p[i] \in 1..l /\ q[i] = 1 /\ f[i] = A(p[i])
    <2> SUFFICES ASSUME NEW i \in 1..Len(f)
                 PROVE  p[i] \in 1..l /\ q[i] = 1 /\ f[i] = A(p[i])
      OBVIOUS
    <2>1. p[i] \in 1..n /\ q[i] \in 1..Len(ss[p[i]]) /\ f[i] = ss[p[i]][q[i]]
      BY <1>10
    <2>2. p[i] <= l
      BY <1>6, <2>1
    <2>3. Len(ss[p[i]]) = 1 /\ ss[p[i]] = <<A(p[i])>>
      BY <1>5, <1>6, <2>1, <2>2
    <2>4. q[i] = 1
      BY <2>1, <2>3
    <2> QED BY <1>1, <2>1, <2>2, <2>3, <2>4
  <1>12. \A i, j \in 1..Len(f) : i < j => p[i] < p[j]
    <2> SUFFICES ASSUME NEW i \in 1..Len(f), NEW j \in 1..Len(f), i < j PROVE p[i] < p[j]
      OBVIOUS
    <2>1. p[i] < p[j] \/ (p[i] = p[j] /\ q[i] < q[j])
      BY <1>10
    <2>2. q[i] = 1 /\ q[j] = 1
      BY <1>11
    <2> QED BY <2>1, <2>2
  <1>13. \A t \in 1..l : \E i \in 1..Len(f) : p[i] = t
    <2> SUFFICES ASSUME NEW t \in 1..l PROVE \E i \in 1..Len(f) : p[i] = t
      OBVIOUS
    <2>1. t \in 1..n /\ 1 \in 1..Len(ss[t])
      BY <1>1, <1>6
    <2> QED BY <1>10, <2>1
  <1>14. InTurn(e, p)
    BY <1>4, <1>11, <1>12, <1>13 DEF InTurn, f, l, A
  <1> QED BY <1>4, <1>8, <1>14 DEF f

\* The rows gathered: one for every step of every episode, in order of turn.
Collected(f) ==
  /\ \A i \in 1..Len(f) :
       /\ f[i].traj \in Envs /\ f[i].turn \in 1..Len(played[f[i].traj])
       /\ f[i] = Annotate(total[f[i].traj][f[i].turn])
  /\ \A i, j \in 1..Len(f) : i < j /\ f[i].traj = f[j].traj => f[i].turn < f[j].turn
  /\ \A e \in Envs : \A t \in 1..Len(played[e]) :
       \E i \in 1..Len(f) : f[i].traj = e /\ f[i].turn = t

\* All environments together.
LEMMA GatherCollects ==
  ASSUME GroupInv, RolloutInv, phase \notin {"reset", "turn"}
  PROVE  LET f == FlattenSeq([e \in Envs |-> Effective(e)])
         IN  f \in Seq(Row) /\ Collected(f)
  <1> DEFINE ss == [e \in Envs |-> Effective(e)]
             f == FlattenSeq(ss)
             step == [e \in Envs |-> CHOOSE s : InTurn(e, s)]
             A(e, t) == Annotate(total[e][t])
  <1>1. PICK n \in Nat \ {0} : Envs = 1..n
    BY EnvsFacts
  <1>2. \A e \in Envs : Effective(e) \in Seq(Row) /\ InTurn(e, step[e])
    <2> SUFFICES ASSUME NEW e \in Envs PROVE Effective(e) \in Seq(Row) /\ InTurn(e, step[e])
      OBVIOUS
    <2>1. Effective(e) \in Seq(Row) /\ \E s : InTurn(e, s)
      BY EffectiveInTurn
    <2>2. step[e] = CHOOSE s : InTurn(e, s)
      OBVIOUS
    <2> HIDE DEF step
    <2> QED BY <2>1, <2>2
  <1> HIDE DEF step
  <1>3. ss \in Seq(Seq(Row)) /\ Len(ss) = n /\ \A e \in Envs : ss[e] = Effective(e)
    BY <1>1, <1>2
  <1> HIDE DEF ss
  <1>4. f \in Seq(Row) /\ \E p, q : Places(f, ss, n, p, q)
    <2>1. f \in Seq(Row) /\ \E p, q : Places(f, ss, Len(ss), p, q)
      BY <1>3, FlattenPlaces
    <2> QED BY <1>3, <2>1
  <1> HIDE DEF f
  <1>5. PICK p, q : Places(f, ss, n, p, q)
    BY <1>4
  <1>6. /\ \A i \in 1..Len(f) : /\ p[i] \in Envs /\ q[i] \in 1..Len(Effective(p[i]))
                                /\ f[i] = Effective(p[i])[q[i]]
        /\ \A i, j \in 1..Len(f) : i < j => p[i] < p[j] \/ (p[i] = p[j] /\ q[i] < q[j])
        /\ \A e \in Envs : \A k \in 1..Len(Effective(e)) :
             \E i \in 1..Len(f) : p[i] = e /\ q[i] = k
    <2>1. /\ \A i \in 1..Len(f) : /\ p[i] \in 1..n /\ q[i] \in 1..Len(ss[p[i]])
                                  /\ f[i] = ss[p[i]][q[i]]
          /\ \A i, j \in 1..Len(f) : i < j => p[i] < p[j] \/ (p[i] = p[j] /\ q[i] < q[j])
          /\ \A w \in 1..n : \A k \in 1..Len(ss[w]) :
               \E i \in 1..Len(f) : p[i] = w /\ q[i] = k
      BY <1>5 DEF Places
    <2> QED BY <1>1, <1>3, <2>1
  <1>7. \A e \in Envs :
          /\ \A k \in 1..Len(Effective(e)) :
               step[e][k] \in 1..Len(played[e]) /\ Effective(e)[k] = A(e, step[e][k])
          /\ \A k, l \in 1..Len(Effective(e)) : k < l => step[e][k] < step[e][l]
          /\ \A t \in 1..Len(played[e]) : \E k \in 1..Len(Effective(e)) : step[e][k] = t
    BY <1>2 DEF InTurn
  <1> DEFINE u(i) == step[p[i]][q[i]]
  <1>8. \A i \in 1..Len(f) : u(i) \in 1..Len(played[p[i]]) /\ f[i] = A(p[i], u(i))
    BY <1>6, <1>7
  <1>9. \A e \in Envs : \A t \in 1..Len(played[e]) : A(e, t).traj = e /\ A(e, t).turn = t
    BY AnnotateFacts
  <1> HIDE DEF A
  <1>15. \A i \in 1..Len(f) : u(i) = step[p[i]][q[i]]
    OBVIOUS
  <1> HIDE DEF u
  <1>10. \A i \in 1..Len(f) : f[i].traj = p[i] /\ f[i].turn = u(i)
    <2> SUFFICES ASSUME NEW i \in 1..Len(f) PROVE f[i].traj = p[i] /\ f[i].turn = u(i)
      OBVIOUS
    <2>1. p[i] \in Envs /\ u(i) \in 1..Len(played[p[i]]) /\ f[i] = A(p[i], u(i))
      BY <1>6, <1>8
    <2>2. A(p[i], u(i)).traj = p[i] /\ A(p[i], u(i)).turn = u(i)
      BY <1>9, <2>1
    <2> QED BY <2>1, <2>2
  <1>11. ASSUME NEW i \in 1..Len(f), NEW j \in 1..Len(f), i < j, f[i].traj = f[j].traj
         PROVE  f[i].turn < f[j].turn
    <2>1. p[i] = p[j] /\ p[i] \in Envs
      BY <1>6, <1>10, <1>11
    <2>2. q[i] < q[j]
      <3>1. p[i] \in Int
        BY <1>1, <2>1
      <3> QED BY <1>6, <1>11, <2>1, <3>1
    <2>3. q[i] \in 1..Len(Effective(p[i])) /\ q[j] \in 1..Len(Effective(p[i]))
      BY <1>6, <2>1
    <2>4. u(i) < u(j)
      BY <1>7, <1>15, <2>1, <2>2, <2>3
    <2> QED BY <1>10, <2>4
  <1>12. ASSUME NEW e \in Envs, NEW t \in 1..Len(played[e])
         PROVE  \E i \in 1..Len(f) : f[i].traj = e /\ f[i].turn = t
    <2>1. PICK k \in 1..Len(Effective(e)) : step[e][k] = t
      BY <1>7
    <2>2. PICK i \in 1..Len(f) : p[i] = e /\ q[i] = k
      BY <1>6
    <2> QED BY <1>10, <1>15, <2>1, <2>2
  <1>13. \A i \in 1..Len(f) :
           /\ f[i].traj \in Envs /\ f[i].turn \in 1..Len(played[f[i].traj])
           /\ f[i] = A(f[i].traj, f[i].turn)
    <2> SUFFICES ASSUME NEW i \in 1..Len(f)
                 PROVE  /\ f[i].traj \in Envs /\ f[i].turn \in 1..Len(played[f[i].traj])
                        /\ f[i] = A(f[i].traj, f[i].turn)
      OBVIOUS
    <2>1. f[i].traj = p[i] /\ f[i].turn = u(i)
      BY <1>10
    <2>2. p[i] \in Envs /\ u(i) \in 1..Len(played[p[i]]) /\ f[i] = A(p[i], u(i))
      BY <1>6, <1>8
    <2> QED BY <2>1, <2>2
  <1>14. Collected(f)
    BY <1>11, <1>12, <1>13 DEF Collected, A
  <1> QED BY <1>4, <1>14 DEF f, ss

\* The batch as it is gathered.
LEMMA RowsGather ==
  ASSUME GroupInv, RolloutInv, Gather
  PROVE  RowsInv'
  <1>1. /\ phase = "gather" /\ phase' = "returns" /\ conf' = conf /\ mask' = mask
        /\ tasks' = tasks /\ played' = played /\ total' = total
    BY DEF Gather, episode, rollout
  <1> DEFINE f == rows'
  <1>2. f \in Seq(Row) /\ Collected(f)
    BY <1>1, GatherCollects DEF Gather
  <1>3. /\ \A i \in 1..Len(f) :
             /\ f[i].traj \in Envs /\ f[i].turn \in 1..Len(played[f[i].traj])
             /\ f[i] = Annotate(total[f[i].traj][f[i].turn])
        /\ \A i, j \in 1..Len(f) : i < j /\ f[i].traj = f[j].traj => f[i].turn < f[j].turn
        /\ \A e \in Envs : \A t \in 1..Len(played[e]) :
             \E i \in 1..Len(f) : f[i].traj = e /\ f[i].turn = t
    BY <1>2 DEF Collected
  <1>4. DOMAIN f = 1..Len(f) /\ Len(f) \in Nat
    BY <1>2
  <1>5. Envs' = Envs /\ Row' = Row
    BY <1>1 DEF Envs, Row
  <1>6. ASSUME NEW i \in DOMAIN f PROVE OwnRow(rows[i])'
    <2> DEFINE r == f[i]
               e == r.traj
               t == r.turn
    <2>1. e \in Envs /\ t \in 1..Len(played[e]) /\ r = Annotate(total[e][t])
      BY <1>3, <1>4
    <2>2. /\ r.uid = Uid(e) /\ r.resp = Prompted(e, t) /\ r.rew = RewardOf(played[e][t])
          /\ r.valid = played[e][t].valid /\ r.reward = RewardsFrom(e, 1)
          /\ r.length = Len(played[e])
          /\ r.success = played[e][Len(played[e])].won
          /\ r.arm = mask[e] /\ r.task = tasks[e]
      <3> HIDE DEF r, e, t
      <3>1. LET x == Annotate(total[e][t])
            IN  /\ x \in Row /\ x.traj = e /\ x.uid = Uid(e) /\ x.turn = t
                /\ x.resp = Prompted(e, t) /\ x.rew = RewardOf(played[e][t])
                /\ x.valid = played[e][t].valid /\ x.reward = RewardsFrom(e, 1)
                /\ x.length = Len(played[e])
                /\ x.success = played[e][Len(played[e])].won
                /\ x.arm = mask[e] /\ x.task = tasks[e]
        BY <1>1, <2>1, AnnotateFacts
      <3> QED BY <2>1, <3>1, Zenon
    <2>3. \A x : RewardsFrom(x, 1)' = RewardsFrom(x, 1)
      BY <1>1 DEF RewardsFrom
    <2>4. \A x, u : Uid(x)' = Uid(x) /\ Prompted(x, u)' = Prompted(x, u)
      BY <1>1 DEF Uid, Group, Prompted
    <2>5. phase' \notin {"score"} \cup Scored
      BY <1>1 DEF Scored
    <2> QED BY <1>1, <2>1, <2>2, <2>3, <2>4, <2>5
           DEF OwnRow, StepRow, OwnReturn, OwnLogp
  <1>7. ASSUME NEW e \in Envs, NEW t \in 1..Len(played[e]) PROVE Copies(e, t)'
    <2>1. PICK i \in 1..Len(f) : f[i].traj = e /\ f[i].turn = t
      BY <1>3
    <2>2. ASSUME NEW k \in 1..Len(f), f[k].traj = e, f[k].turn = t PROVE k = i
      <3>1. ~(k < i) /\ ~(i < k)
        <4>1. t \in Int
          OBVIOUS
        <4> QED BY <1>3, <2>1, <2>2, <4>1
      <3> QED BY <1>4, <3>1
    <2> QED BY <1>4, <2>1, <2>2 DEF Copies
  <1>8. /\ ~Balanced' /\ phase' \in Phases
    BY <1>1 DEF Balanced, Shuffled, Scored, Phases
  <1> QED BY <1>1, <1>2, <1>3, <1>4, <1>5, <1>6, <1>7, <1>8 DEF RowsInv

------------------------------------------------------------------------------
(* Phases that add columns *)

\* Nothing a row says about its step changes.
SameStep(r, s) ==
  /\ r.traj = s.traj /\ r.uid = s.uid /\ r.turn = s.turn /\ r.resp = s.resp
  /\ r.rew = s.rew /\ r.valid = s.valid /\ r.reward = s.reward /\ r.length = s.length
  /\ r.success = s.success /\ r.arm = s.arm /\ r.task = s.task

\* A phase that computes columns for the rows it has.
LEMMA KeepRows ==
  ASSUME RowsInv, UNCHANGED <<conf, episode, rollout>>, rows' \in Seq(Row),
         DOMAIN rows' = DOMAIN rows, \A i \in DOMAIN rows : SameStep(rows'[i], rows[i]),
         \A i \in DOMAIN rows : OwnReturn(rows[i])' /\ OwnLogp(rows[i])',
         phase' \in Phases, phase' # "returns",
         phase' = "adjust" => phase = "returns",
         Balanced' => Balanced
  PROVE  RowsInv'
  <1>1. conf' = conf /\ played' = played /\ mask' = mask /\ tasks' = tasks
    BY DEF rollout, episode
  <1>2. Envs' = Envs /\ Row' = Row
    BY <1>1 DEF Envs, Row
  <1>3. ASSUME NEW i \in DOMAIN rows' PROVE OwnRow(rows[i])'
    <2>1. StepRow(rows[i]) /\ SameStep(rows'[i], rows[i])
      BY DEF RowsInv, OwnRow
    <2>2. /\ \A e : RewardsFrom(e, 1)' = RewardsFrom(e, 1)
          /\ \A e, t : Uid(e)' = Uid(e) /\ Prompted(e, t)' = Prompted(e, t)
      BY <1>1 DEF RewardsFrom, Uid, Group, Prompted
    <2>3. StepRow(rows[i])'
      BY <1>1, <2>1, <2>2 DEF StepRow, SameStep
    <2> QED BY <2>3 DEF OwnRow
  <1>4. ASSUME Gathered', NEW e \in Envs, NEW t \in 1..Len(played[e])
        PROVE  Copies(e, t)'
    <2>1. Gathered
      BY <1>4 DEF Gathered
    <2>2. PICK i, j \in DOMAIN rows :
            /\ phase \in {"returns", "adjust"} => i = j
            /\ \A k \in DOMAIN rows : rows[k].traj = e /\ rows[k].turn = t <=> k \in {i, j}
      BY <2>1 DEF RowsInv, Copies
    <2>3. \A k \in DOMAIN rows : rows'[k].traj = rows[k].traj /\ rows'[k].turn = rows[k].turn
      BY DEF SameStep
    <2>4. phase' \in {"returns", "adjust"} => i = j
      BY <2>2
    <2>5. \A k \in DOMAIN rows' : rows'[k].traj = e /\ rows'[k].turn = t <=> k \in {i, j}
      BY <2>2, <2>3
    <2>6. i \in DOMAIN rows' /\ j \in DOMAIN rows'
      OBVIOUS
    <2> QED BY <2>4, <2>5, <2>6 DEF Copies
  <1>5. Len(rows') = Len(rows)
    BY DEF RowsInv
  <1> QED BY <1>1, <1>2, <1>3, <1>4, <1>5 DEF RowsInv

-----------------------------------------------------------------------------
(* Step returns *)

\* What is known of a row.
LEMMA RowFacts ==
  ASSUME RolloutInv, RowsInv, NEW i \in DOMAIN rows
  PROVE  LET r == rows[i]
             p == played[r.traj]
         IN  /\ r \in Row /\ r.traj \in Envs /\ p \in Seq(Outcome)
             /\ r.turn \in 1..Len(p) /\ r.rew = RewardOf(p[r.turn])
             /\ StepRow(r) /\ OwnReturn(r) /\ OwnLogp(r)
  <1>1. rows[i] \in Row /\ OwnRow(rows[i])
    BY DEF RowsInv
  <1>2. rows[i].traj \in Envs
    BY <1>1 DEF Row
  <1>3. EpisodeInv(rows[i].traj)
    BY <1>2 DEF RolloutInv
  <1> QED BY <1>1, <1>2, <1>3 DEF EpisodeInv, OwnRow, StepRow

\* Rewards are numbers.
LEMMA RewardsFromType ==
  ASSUME RolloutInv, NEW e \in Envs, NEW t \in Nat
  PROVE  /\ RewardsFrom(e, t) \in Int
         /\ \A u \in 1..Len(played[e]) : RewardOf(played[e][u]) \in {0, 1}
  <1>1. played[e] \in Seq(Outcome)
    BY DEF RolloutInv, EpisodeInv
  <1> QED BY <1>1, RewardsType DEF RewardsFrom

\* The rows of the same trajectory from row i on are its steps from this one on.
LEMMA ReturnIsRewards ==
  ASSUME RolloutInv, RowsInv, phase = "returns", NEW i \in DOMAIN rows
  PROVE  /\ Return(i) = 100 * RewardsFrom(rows[i].traj, rows[i].turn)
         /\ RewardsFrom(rows[i].traj, rows[i].turn) \in Int
  <1> DEFINE e == rows[i].traj
             t == rows[i].turn
             later == {j \in i..Len(rows) : rows[j].traj = e}
             steps == t..Len(played[e])
             f == [j \in later |-> 100 * rows[j].rew]
             g == [u \in steps |-> RewardOf(played[e][u])]
             b == [j \in later |-> rows[j].turn]
             c == 100
  <1>1. /\ e \in Envs /\ t \in 1..Len(played[e]) /\ played[e] \in Seq(Outcome)
        /\ Len(played[e]) \in Nat
    BY RowFacts
  <1>2. DOMAIN rows = 1..Len(rows) /\ Len(rows) \in Nat /\ i \in 1..Len(rows)
    BY DEF RowsInv
  <1>3. \A u \in steps : RewardOf(played[e][u]) \in {0, 1}
    BY <1>1, RewardsFromType
  <1>4. IsFiniteSet(later) /\ IsFiniteSet(steps)
    <2>1. IsFiniteSet(i..Len(rows)) /\ later \in SUBSET (i..Len(rows))
      BY <1>2, FS_Interval
    <2>2. IsFiniteSet(steps)
      <3>1. t \in Int /\ Len(played[e]) \in Int
        BY <1>1
      <3> QED BY <3>1, FS_Interval
    <2> QED BY <2>1, <2>2, FS_Subset
  <1>5. \A j, k \in DOMAIN rows :
          j < k /\ rows[j].traj = rows[k].traj => rows[j].turn < rows[k].turn
    BY DEF RowsInv
  <1>6. ASSUME NEW j \in later
        PROVE  /\ j \in DOMAIN rows /\ rows[j].turn \in steps
               /\ rows[j].rew = RewardOf(played[e][rows[j].turn])
    <2>1. j \in DOMAIN rows /\ rows[j].traj = e /\ i <= j
      BY <1>2
    <2>2. rows[j].turn \in 1..Len(played[e]) /\ rows[j].rew = RewardOf(played[e][rows[j].turn])
      BY <2>1, RowFacts
    <2>3. t <= rows[j].turn
      <3>1. CASE i = j
        BY <1>1, <3>1
      <3>2. CASE i # j
        <4>1. i < j
          BY <1>2, <2>1, <3>2
        <4>2. rows[i].turn < rows[j].turn
          BY <1>5, <2>1, <4>1
        <4> QED BY <1>1, <2>2, <4>2
      <3> QED BY <3>1, <3>2
    <2> QED BY <1>1, <2>1, <2>2, <2>3
  <1>7. \A u \in steps : \E j \in later : b[j] = u
    <2> SUFFICES ASSUME NEW u \in steps PROVE \E j \in later : rows[j].turn = u
      OBVIOUS
    <2>1. u \in 1..Len(played[e]) /\ t <= u
      BY <1>1
    <2>2. Copies(e, u)
      BY <1>1, <2>1 DEF RowsInv, Gathered
    <2>3. PICK j \in DOMAIN rows : rows[j].traj = e /\ rows[j].turn = u
      BY <2>2 DEF Copies
    <2>4. ~(j < i)
      <3>1. j < i => u < t
        BY <1>5, <2>3
      <3> QED BY <1>1, <2>1, <3>1
    <2>5. j \in later
      BY <1>2, <2>3, <2>4
    <2> QED BY <2>3, <2>5
  <1>8. \A j, k \in later : b[j] = b[k] => j = k
    <2> SUFFICES ASSUME NEW j \in later, NEW k \in later, rows[j].turn = rows[k].turn
                 PROVE  j = k
      OBVIOUS
    <2>1. rows[j].turn \in Int /\ j \in DOMAIN rows /\ k \in DOMAIN rows
          /\ rows[j].traj = rows[k].traj
      BY <1>1, <1>6
    <2>2. ~(j < k) /\ ~(k < j)
      BY <1>5, <2>1
    <2> QED BY <1>2, <2>1, <2>2
  <1>9. f \in [later -> Int] /\ g \in [steps -> Int] /\ b \in [later -> steps] /\ c \in Int
    <2>1. f \in [later -> Int]
      <3>1. \A j \in later : rows[j].rew \in Int
        BY <1>3, <1>6
      <3> HIDE DEF later
      <3> QED BY <3>1
    <2>2. g \in [steps -> Int]
      BY <1>3
    <2>3. b \in [later -> steps]
      <3>1. \A j \in later : rows[j].turn \in steps
        BY <1>6
      <3> HIDE DEF later, steps
      <3> QED BY <3>1
    <2> QED BY <2>1, <2>2, <2>3
  <1>10. Terms(f, g, c, b, later, steps)
    <2>1. \A j \in later : f[j] = c * g[b[j]]
      BY <1>6
    <2> QED BY <1>8, <1>9, <2>1 DEF Terms
  <1>11. SumFunction(f) = c * SumFunction(g)
    <2> HIDE DEF f, g, b, c, later, steps
    <2> QED BY <1>4, <1>7, <1>9, <1>10, SumMatch
  <1>12. Return(i) = SumFunction(f) /\ RewardsFrom(e, t) = SumFunction(g)
    BY DEF Return, RewardsFrom
  <1>13. SumFunction(g) \in Int
    <2> HIDE DEF g, steps
    <2> QED BY <1>4, <1>9, SumType
  <1> QED BY <1>11, <1>12, <1>13

\* Step returns keep the invariant of the batch.
LEMMA RowsReturns ==
  ASSUME GroupInv, RolloutInv, RowsInv, StepReturns
  PROVE  RowsInv'
  <1>1. /\ phase = "returns" /\ phase' = "adjust" /\ UNCHANGED <<conf, episode, rollout>>
        /\ conf' = conf /\ played' = played
    BY DEF StepReturns, rollout
  <1>2. \A e, t : RewardsFrom(e, t)' = RewardsFrom(e, t)
    BY <1>1 DEF RewardsFrom
  <1>3. rows \in Seq(Row) /\ \A i \in DOMAIN rows : rows[i] \in Row
    BY DEF RowsInv
  <1>4. ~Balanced' /\ phase' \in Phases /\ phase' \notin {"score"} \cup Scored
    BY <1>1 DEF Balanced, Shuffled, Scored, Phases
  <1>5. conf.gigpo \in BOOLEAN
    BY SetupFacts
  <1>6. CASE conf.gigpo
    <2>1. rows' = [i \in DOMAIN rows |-> [rows[i] EXCEPT !.ret = Return(i)]]
      BY <1>6 DEF StepReturns
    <2>2. ASSUME NEW i \in DOMAIN rows
          PROVE  /\ rows'[i] \in Row /\ SameStep(rows'[i], rows[i])
                 /\ rows'[i].ret = 100 * RewardsFrom(rows[i].traj, rows[i].turn)
      <3>1. /\ Return(i) = 100 * RewardsFrom(rows[i].traj, rows[i].turn)
            /\ RewardsFrom(rows[i].traj, rows[i].turn) \in Int
        BY <1>1, ReturnIsRewards
      <3>2. Return(i) \in Int
        BY <3>1
      <3>3. rows'[i] = [rows[i] EXCEPT !.ret = Return(i)] /\ rows[i] \in Row
        BY <1>3, <2>1
      <3> QED BY <3>1, <3>2, <3>3 DEF Row, SameStep
    <2>3. rows' \in Seq(Row) /\ DOMAIN rows' = DOMAIN rows
      <3>1. DOMAIN rows' = 1..Len(rows) /\ Len(rows) \in Nat /\ DOMAIN rows = 1..Len(rows)
        BY <1>3, <2>1
      <3>2. rows' = [i \in 1..Len(rows) |-> rows'[i]]
        BY <2>1, <3>1
      <3>3. \A i \in 1..Len(rows) : rows'[i] \in Row
        BY <2>2, <3>1
      <3> QED BY <3>1, <3>2, <3>3
    <2>4. \A i \in DOMAIN rows : OwnReturn(rows[i])' /\ OwnLogp(rows[i])'
      <3> SUFFICES ASSUME NEW i \in DOMAIN rows PROVE OwnReturn(rows[i])' /\ OwnLogp(rows[i])'
        OBVIOUS
      <3>1. OwnLogp(rows[i])'
        BY <1>4 DEF OwnLogp
      <3>2. /\ rows'[i].ret = 100 * RewardsFrom(rows[i].traj, rows[i].turn)
            /\ rows'[i].traj = rows[i].traj /\ rows'[i].turn = rows[i].turn
            /\ RewardsFrom(rows[i].traj, rows[i].turn) \in Int
        BY <1>1, <2>2, ReturnIsRewards DEF SameStep
      <3>3. OwnReturn(rows[i])'
        BY <1>2, <1>4, <3>2 DEF OwnReturn
      <3> QED BY <3>1, <3>3
    <2> QED BY <1>1, <1>4, <2>2, <2>3, <2>4, KeepRows
  <1>7. CASE ~conf.gigpo
    <2>1. rows' = rows
      BY <1>7 DEF StepReturns
    <2>2. \A i \in DOMAIN rows : SameStep(rows'[i], rows[i])
      BY <2>1 DEF SameStep
    <2>3. \A i \in DOMAIN rows : OwnReturn(rows[i])' /\ OwnLogp(rows[i])'
      BY <1>1, <1>4, <1>7 DEF OwnReturn, OwnLogp
    <2> QED BY <1>1, <1>3, <1>4, <2>1, <2>2, <2>3, KeepRows
  <1> QED BY <1>5, <1>6, <1>7

\* Rows that are moved or copied are still rows of their episodes.
LEMMA MovedRows ==
  ASSUME RowsInv, UNCHANGED <<conf, episode, rollout>>, rows' \in Seq(Row), NEW m,
         \A i \in DOMAIN rows' : m[i] \in DOMAIN rows /\ rows'[i] = rows[m[i]],
         phase \in {"adjust", "balance"}, phase' \in {"balance", "logprob"},
         Len(rows') % conf.workers = 0,
         \A e \in Envs : \A t \in 1..Len(played[e]) : Copies(e, t)'
  PROVE  RowsInv'
  <1>1. conf' = conf /\ played' = played /\ mask' = mask /\ tasks' = tasks
    BY DEF rollout, episode
  <1>2. Envs' = Envs /\ Row' = Row
    BY <1>1 DEF Envs, Row
  <1>3. phase' \in Phases /\ phase' # "returns" /\ phase' \notin {"score"} \cup Scored
        /\ phase \notin {"score"} \cup Scored /\ phase # "returns"
    BY DEF Phases, Scored
  <1>4. /\ \A e, t : RewardsFrom(e, t)' = RewardsFrom(e, t)
        /\ \A e, t : Uid(e)' = Uid(e) /\ Prompted(e, t)' = Prompted(e, t)
    BY <1>1 DEF RewardsFrom, Uid, Group, Prompted
  <1>5. ASSUME NEW i \in DOMAIN rows' PROVE OwnRow(rows[i])'
    <2>1. m[i] \in DOMAIN rows /\ rows'[i] = rows[m[i]]
      OBVIOUS
    <2>2. StepRow(rows[m[i]]) /\ OwnReturn(rows[m[i]])
      BY <2>1 DEF RowsInv, OwnRow
    <2>3. StepRow(rows[i])'
      BY <1>1, <1>4, <2>1, <2>2 DEF StepRow
    <2>4. OwnReturn(rows[i])'
      BY <1>1, <1>3, <1>4, <2>1, <2>2 DEF OwnReturn
    <2>5. OwnLogp(rows[i])'
      BY <1>3 DEF OwnLogp
    <2> QED BY <2>3, <2>4, <2>5 DEF OwnRow
  <1> QED BY <1>1, <1>2, <1>3, <1>5 DEF RowsInv

-----------------------------------------------------------------------------
(* Filling up *)

\* What divides by a multiple divides.
LEMMA DividesThrough ==
  ASSUME NEW l \in Nat, NEW d \in Nat \ {0}, NEW w \in Nat \ {0},
         l % d = 0, d % w = 0
  PROVE  l % w = 0
  <1>1. PICK a \in Nat : l = a * d
    <2> DEFINE a == l \div d
    <2>1. a \in Nat /\ l = a * d + (l % d)
      BY DivideBy
    <2> HIDE DEF a
    <2>2. a * d \in Nat
      BY <2>1, Z3
    <2>3. l = a * d
      BY <2>1, <2>2
    <2> QED BY <2>1, <2>3
  <1>2. PICK b \in Nat : d = b * w
    <2> DEFINE b == d \div w
    <2>1. b \in Nat /\ d = b * w + (d % w)
      BY DivideBy
    <2> HIDE DEF b
    <2>2. b * w \in Nat
      BY <2>1, Z3
    <2>3. d = b * w
      BY <2>1, <2>2
    <2> QED BY <2>1, <2>3
  <1>3. l = (a * b) * w /\ a * b \in Nat
    BY <1>1, <1>2, Z3
  <1> DEFINE c == a * b
  <1>4. c \in Nat /\ l = c * w
    BY <1>3
  <1> HIDE DEF c
  <1>5. (c * w) % w = 0
    BY <1>4, Z3
  <1> QED BY <1>4, <1>5

\* Rows drawn without replacement are there twice at most.
LEMMA RowsAdjust ==
  ASSUME GroupInv, RolloutInv, RowsInv, Adjust
  PROVE  RowsInv'
  <1> DEFINE k == Len(rows)
             toAdd == PadSize(k, conf.divisor)
  <1>1. /\ phase = "adjust" /\ UNCHANGED <<conf, episode, rollout>>
        /\ conf' = conf /\ played' = played
    BY DEF Adjust, rollout
  <1>2. /\ rows \in Seq(Row) /\ k \in Nat /\ DOMAIN rows = 1..k
        /\ \A i \in 1..k : rows[i] \in Row
    BY DEF RowsInv
  <1>3. /\ conf.divisor \in Nat \ {0} /\ conf.workers \in Nat \ {0}
        /\ conf.divisor % conf.workers = 0
    BY SetupFacts
  <1> HIDE DEF k
  <1>4. toAdd \in Nat /\ (k + toAdd) % conf.divisor = 0
    BY <1>2, <1>3, PadFits
  <1> HIDE DEF toAdd
  <1>5. CASE toAdd > k /\ phase' = "failed" /\ rows' = rows
    <2>1. ~Gathered' /\ ~Balanced' /\ phase' \in Phases /\ phase' # "returns"
      BY <1>5 DEF Gathered, Balanced, Shuffled, Scored, Phases
    <2>2. Row' = Row
      BY <1>1 DEF Row, Envs
    <2>3. \A i \in DOMAIN rows : OwnRow(rows[i])'
      <3>1. /\ \A e, t : RewardsFrom(e, t)' = RewardsFrom(e, t)
            /\ \A e, t : Uid(e)' = Uid(e) /\ Prompted(e, t)' = Prompted(e, t)
            /\ mask' = mask /\ tasks' = tasks
        BY <1>1 DEF RewardsFrom, Uid, Group, Prompted, episode
      <3> SUFFICES ASSUME NEW i \in DOMAIN rows PROVE OwnRow(rows[i])'
        OBVIOUS
      <3>2. OwnRow(rows[i])
        BY DEF RowsInv
      <3>3. StepRow(rows[i])'
        BY <1>1, <1>5, <3>1, <3>2 DEF OwnRow, StepRow
      <3>4. OwnReturn(rows[i])' /\ OwnLogp(rows[i])'
        BY <1>1, <1>5, <3>1, <3>2 DEF OwnRow, OwnReturn, OwnLogp, Scored
      <3> QED BY <3>3, <3>4 DEF OwnRow
    <2> QED BY <1>1, <1>2, <1>5, <2>1, <2>2, <2>3 DEF RowsInv
  <1>6. ASSUME NEW d \in Draws(k, toAdd), phase' = "balance",
               rows' = rows \o [i \in 1..toAdd |-> rows[d[i]]]
        PROVE  RowsInv'
    <2> DEFINE extra == [i \in 1..toAdd |-> rows[d[i]]]
               m == [i \in 1..(k + toAdd) |-> IF i <= k THEN i ELSE d[i - k]]
    <2>1. /\ \A i \in 1..toAdd : d[i] \in 1..k
          /\ \A i, j \in 1..toAdd : d[i] = d[j] => i = j
      BY DEF Draws
    <2>2. extra \in Seq(Row) /\ Len(extra) = toAdd
          /\ \A i \in 1..toAdd : extra[i] = rows[d[i]]
      BY <1>2, <1>4, <2>1
    <2>3. rows' = rows \o extra
      BY <1>6
    <2> HIDE DEF extra
    <2>4. /\ rows' \in Seq(Row) /\ Len(rows') = k + toAdd
          /\ \A i \in 1..k : rows'[i] = rows[i]
          /\ \A i \in 1..toAdd : rows'[k + i] = rows[d[i]]
      <3>1. /\ rows \o extra \in Seq(Row)
            /\ Len(rows \o extra) = Len(rows) + Len(extra)
            /\ \A i \in 1..Len(rows) : (rows \o extra)[i] = rows[i]
            /\ \A i \in 1..Len(extra) : (rows \o extra)[Len(rows) + i] = extra[i]
        BY <1>2, <2>2
      <3> QED BY <2>2, <2>3, <3>1 DEF k
    <2>5. DOMAIN rows' = 1..(k + toAdd)
      BY <2>4
    <2>6. ASSUME NEW i \in DOMAIN rows'
          PROVE  m[i] \in DOMAIN rows /\ rows'[i] = rows[m[i]]
      <3>1. CASE i <= k
        BY <1>2, <1>4, <2>4, <2>5, <3>1
      <3>2. CASE i > k
        <4>1. i - k \in 1..toAdd /\ k + (i - k) = i
          BY <1>2, <1>4, <2>5, <3>2
        <4>2. rows'[i] = rows[d[i - k]]
          BY <2>4, <4>1
        <4>3. m[i] = d[i - k]
          BY <1>2, <2>5, <3>2
        <4> QED BY <1>2, <2>1, <4>1, <4>2, <4>3
      <3> QED BY <1>2, <1>4, <2>5, <3>1, <3>2
    <2>7. Len(rows') % conf.workers = 0
      <3>1. k + toAdd \in Nat
        BY <1>2, <1>4
      <3> QED BY <1>3, <1>4, <2>4, <3>1, DividesThrough
    <2>8. ASSUME NEW e \in Envs, NEW t \in 1..Len(played[e])
          PROVE  Copies(e, t)'
      <3>1. Copies(e, t)
        BY <1>1 DEF RowsInv, Gathered
      <3>2. PICK i \in DOMAIN rows :
              \A l \in DOMAIN rows : rows[l].traj = e /\ rows[l].turn = t <=> l = i
        BY <1>1, <3>1 DEF Copies
      <3>3. i \in 1..k /\ i \in DOMAIN rows'
        BY <1>2, <1>4, <2>5, <3>2
      <3>4. ASSUME NEW l \in DOMAIN rows'
            PROVE  rows'[l].traj = e /\ rows'[l].turn = t <=> m[l] = i
        BY <2>6, <3>2
      <3>5. \A l \in 1..k : m[l] = l
        BY <1>2, <1>4
      <3>6. \A l \in 1..toAdd : m[k + l] = d[l]
        <4> SUFFICES ASSUME NEW l \in 1..toAdd PROVE m[k + l] = d[l]
          OBVIOUS
        <4>1. k + l \in 1..(k + toAdd) /\ ~(k + l <= k) /\ (k + l) - k = l
          BY <1>2, <1>4
        <4> QED BY <4>1
      <3>7. ASSUME NEW l \in DOMAIN rows'
            PROVE  l \in 1..k \/ \E x \in 1..toAdd : l = k + x
        <4>1. l > k => l - k \in 1..toAdd /\ l = k + (l - k)
          BY <1>2, <1>4, <2>5
        <4>2. l <= k => l \in 1..k
          BY <1>2, <1>4, <2>5
        <4> QED BY <1>2, <1>4, <2>5, <4>1, <4>2
      <3> HIDE DEF m
      <3>8. CASE \E x \in 1..toAdd : d[x] = i
        <4>1. PICK x \in 1..toAdd : d[x] = i
          BY <3>8
        <4>2. k + x \in DOMAIN rows'
          BY <1>2, <1>4, <2>5
        <4>3. \A l \in DOMAIN rows' : m[l] = i <=> l \in {i, k + x}
          <5> SUFFICES ASSUME NEW l \in DOMAIN rows' PROVE m[l] = i <=> l \in {i, k + x}
            OBVIOUS
          <5>1. CASE l \in 1..k
            <6>1. l # k + x
              BY <1>2, <5>1
            <6> QED BY <3>5, <5>1, <6>1
          <5>2. ASSUME NEW y \in 1..toAdd, l = k + y PROVE m[l] = i <=> l \in {i, k + x}
            <6>1. m[l] = d[y]
              BY <3>6, <5>2
            <6>2. l # i
              BY <1>2, <1>4, <3>3, <5>2
            <6>3. d[y] = i <=> y = x
              BY <2>1, <4>1
            <6>4. l = k + x <=> y = x
              BY <1>2, <1>4, <5>2
            <6> QED BY <6>1, <6>2, <6>3, <6>4
          <5> QED BY <3>7, <5>1, <5>2
        <4>4. \A l \in DOMAIN rows' : rows'[l].traj = e /\ rows'[l].turn = t <=> l \in {i, k + x}
          BY <3>4, <4>3
        <4> QED BY <1>6, <3>3, <4>2, <4>4 DEF Copies
      <3>9. CASE ~ \E x \in 1..toAdd : d[x] = i
        <4>1. \A l \in DOMAIN rows' : m[l] = i <=> l \in {i, i}
          <5> SUFFICES ASSUME NEW l \in DOMAIN rows' PROVE m[l] = i <=> l = i
            OBVIOUS
          <5>1. CASE l \in 1..k
            BY <3>5, <5>1
          <5>2. ASSUME NEW y \in 1..toAdd, l = k + y PROVE m[l] = i <=> l = i
            <6>1. l # i
              BY <1>2, <1>4, <3>3, <5>2
            <6> QED BY <3>6, <3>9, <5>2, <6>1
          <5> QED BY <3>7, <5>1, <5>2
        <4>2. \A l \in DOMAIN rows' : rows'[l].traj = e /\ rows'[l].turn = t <=> l \in {i, i}
          BY <3>4, <4>1
        <4> QED BY <1>6, <3>3, <4>2 DEF Copies
      <3> QED BY <3>8, <3>9
    <2> HIDE DEF m
    <2> QED BY <1>1, <1>6, <2>4, <2>6, <2>7, <2>8, MovedRows
  <1> QED BY <1>5, <1>6 DEF Adjust, k, toAdd

------------------------------------------------------------------------------
(* Reordering *)

\* The rows up to and with row i, in the order of the parts.
UpTo(p, i) == {j \in DOMAIN p : p[j] < p[i] \/ (p[j] = p[i] /\ j <= i)}

\* Each of k rows has a place of its own, and every place is taken.
OnePlaceEach(p, k) ==
  /\ \A i \in 1..k : Place(p, i) \in 1..k
  /\ \A i, j \in 1..k : Place(p, i) = Place(p, j) => i = j
  /\ \A n \in 1..k : \E i \in 1..k : Place(p, i) = n

\* No part leaves a gap, and no two rows get one place.
LEMMA PlaceOnce ==
  ASSUME NEW k \in Nat, NEW w \in Nat, NEW p \in [1..k -> 1..w]
  PROVE  OnePlaceEach(p, k)
  <1>1. \A i \in 1..k : Place(p, i) = Cardinality(UpTo(p, i))
    BY DEF Place, UpTo
  <1>2. IsFiniteSet(1..k) /\ Cardinality(1..k) = k
    <2>1. 1 \in Int /\ k \in Int
      OBVIOUS
    <2> QED BY <2>1, FS_Interval
  <1>3. DOMAIN p = 1..k /\ \A i \in 1..k : p[i] \in Int
    OBVIOUS
  <1>4. \A i \in 1..k : /\ UpTo(p, i) \in SUBSET (1..k) /\ i \in UpTo(p, i)
                        /\ IsFiniteSet(UpTo(p, i))
    <2> SUFFICES ASSUME NEW i \in 1..k
                 PROVE  /\ UpTo(p, i) \in SUBSET (1..k) /\ i \in UpTo(p, i)
                        /\ IsFiniteSet(UpTo(p, i))
      OBVIOUS
    <2>1. UpTo(p, i) \in SUBSET (1..k) /\ i \in UpTo(p, i)
      BY <1>3 DEF UpTo
    <2> QED BY <1>2, <2>1, FS_Subset
  <1>5. ASSUME NEW i \in 1..k PROVE Place(p, i) \in 1..k
    <2>1. Cardinality(UpTo(p, i)) <= Cardinality(1..k)
      BY <1>2, <1>4, FS_Subset
    <2>2. Cardinality(UpTo(p, i)) \in Nat /\ Cardinality(UpTo(p, i)) # 0
      BY <1>4, FS_CardinalityType, FS_EmptySet
    <2> QED BY <1>1, <1>2, <2>1, <2>2
  <1>6. ASSUME NEW i \in 1..k, NEW j \in 1..k, p[i] < p[j] \/ (p[i] = p[j] /\ i < j)
        PROVE  Place(p, i) < Place(p, j)
    <2>1. UpTo(p, i) \subseteq UpTo(p, j)
      BY <1>3, <1>6 DEF UpTo
    <2>2. j \notin UpTo(p, i)
      BY <1>3, <1>6 DEF UpTo
    <2>3. UpTo(p, i) # UpTo(p, j)
      BY <1>4, <2>2
    <2>4. /\ Cardinality(UpTo(p, i)) <= Cardinality(UpTo(p, j))
          /\ Cardinality(UpTo(p, j)) = Cardinality(UpTo(p, i)) => UpTo(p, j) = UpTo(p, i)
      BY <1>4, <2>1, FS_Subset
    <2>5. Cardinality(UpTo(p, i)) \in Nat /\ Cardinality(UpTo(p, j)) \in Nat
      BY <1>4, FS_CardinalityType
    <2> QED BY <1>1, <2>3, <2>4, <2>5
  <1>7. ASSUME NEW i \in 1..k, NEW j \in 1..k, Place(p, i) = Place(p, j) PROVE i = j
    <2>1. Place(p, i) \in Int /\ Place(p, j) \in Int
      BY <1>5
    <2>2. ~(Place(p, i) < Place(p, j)) /\ ~(Place(p, j) < Place(p, i))
      BY <1>7, <2>1
    <2>3. ~(p[i] < p[j]) /\ ~(p[j] < p[i]) /\ (p[i] = p[j] => ~(i < j) /\ ~(j < i))
      BY <1>6, <2>2
    <2> QED BY <1>3, <2>3
  <1> DEFINE f == [i \in 1..k |-> Place(p, i)]
  <1>8. f \in Injection(1..k, 1..k)
    BY <1>5, <1>7 DEF Injection, IsInjective
  <1>9. f \in Surjection(1..k, 1..k)
    <2> HIDE DEF f
    <2> QED BY <1>2, <1>8, FS_Injection
  <1>10. ASSUME NEW n \in 1..k PROVE \E i \in 1..k : Place(p, i) = n
    BY <1>9 DEF Surjection
  <1> QED BY <1>5, <1>7, <1>10 DEF OnePlaceEach

\* A batch that is reordered has the rows it had.
LEMMA RowsBalance ==
  ASSUME GroupInv, RolloutInv, RowsInv, Balance
  PROVE  RowsInv'
  <1> DEFINE k == Len(rows)
  <1>1. /\ phase = "balance" /\ phase' = "logprob" /\ UNCHANGED <<conf, episode, rollout>>
        /\ conf' = conf /\ played' = played
    BY DEF Balance, rollout
  <1>2. /\ rows \in Seq(Row) /\ k \in Nat /\ DOMAIN rows = 1..k
        /\ \A i \in 1..k : rows[i] \in Row
    BY DEF RowsInv
  <1>3. conf.workers \in Nat \ {0} /\ k % conf.workers = 0
    BY <1>1, SetupFacts DEF RowsInv, Balanced
  <1>4. PICK p \in EqualParts(k) :
          rows' = [n \in DOMAIN rows |-> rows[CHOOSE i \in DOMAIN rows : Place(p, i) = n]]
    BY DEF Balance
  <1> HIDE DEF k
  <1> DEFINE m == [n \in 1..k |-> CHOOSE i \in 1..k : Place(p, i) = n]
  <1>5. /\ \A i \in 1..k : Place(p, i) \in 1..k
        /\ \A i, j \in 1..k : Place(p, i) = Place(p, j) => i = j
        /\ \A n \in 1..k : \E i \in 1..k : Place(p, i) = n
    <2>1. p \in [1..k -> 1..conf.workers]
      BY <1>4 DEF EqualParts
    <2>2. OnePlaceEach(p, k)
      BY <1>2, <1>3, <2>1, PlaceOnce
    <2> QED BY <2>2 DEF OnePlaceEach
  <1>6. \A n \in 1..k : m[n] \in 1..k /\ Place(p, m[n]) = n
    BY <1>5
  <1>7. rows' = [n \in 1..k |-> rows[m[n]]]
    BY <1>2, <1>4
  <1> HIDE DEF m
  <1>8. rows' \in Seq(Row) /\ Len(rows') = k /\ DOMAIN rows' = 1..k
        /\ \A n \in 1..k : rows'[n] = rows[m[n]]
    <2>1. \A n \in 1..k : rows[m[n]] \in Row
      BY <1>2, <1>6
    <2> QED BY <1>2, <1>7, <2>1
  <1>9. ASSUME NEW e \in Envs, NEW t \in 1..Len(played[e])
        PROVE  Copies(e, t)'
    <2>1. Copies(e, t)
      BY <1>1 DEF RowsInv, Gathered, Balanced
    <2>2. PICK i, j \in 1..k :
            \A l \in 1..k : rows[l].traj = e /\ rows[l].turn = t <=> l \in {i, j}
      BY <1>2, <2>1 DEF Copies
    <2> DEFINE x == Place(p, i)
               y == Place(p, j)
    <2>3. x \in 1..k /\ y \in 1..k
      BY <1>5
    <2>4. ASSUME NEW n \in 1..k PROVE m[n] \in {i, j} <=> n \in {x, y}
      BY <1>5, <1>6
    <2>5. \A n \in 1..k : rows'[n].traj = e /\ rows'[n].turn = t <=> n \in {x, y}
      BY <1>6, <1>8, <2>2, <2>4
    <2> HIDE DEF x, y
    <2> QED BY <1>1, <1>8, <2>3, <2>5 DEF Copies
  <1>10. \A n \in DOMAIN rows' : m[n] \in DOMAIN rows /\ rows'[n] = rows[m[n]]
    BY <1>2, <1>6, <1>8
  <1> QED BY <1>1, <1>3, <1>8, <1>9, <1>10, MovedRows

-----------------------------------------------------------------------------
(* Columns *)

\* Rows whose computed columns are replaced.
LEMMA Column ==
  ASSUME NEW s \in Seq(Row), NEW u, u = [i \in DOMAIN s |-> u[i]],
         \A i \in DOMAIN s : u[i] \in Row
  PROVE  u \in Seq(Row) /\ DOMAIN u = DOMAIN s /\ Len(u) = Len(s)
  <1>1. DOMAIN s = 1..Len(s) /\ Len(s) \in Nat
    OBVIOUS
  <1>2. u = [i \in 1..Len(s) |-> u[i]] /\ \A i \in 1..Len(s) : u[i] \in Row
    BY <1>1
  <1> QED BY <1>1, <1>2

\* Log probabilities come back to the rows they were computed for.
LEMMA RowsLogProb ==
  ASSUME GroupInv, RolloutInv, RowsInv, LogProb
  PROVE  RowsInv'
  <1>1. /\ phase = "logprob" /\ phase' = "score" /\ UNCHANGED <<conf, episode, rollout>>
        /\ conf' = conf /\ played' = played
    BY DEF LogProb, rollout
  <1>2. rows \in Seq(Row) /\ Len(rows) % conf.workers = 0 /\ \A i \in DOMAIN rows : rows[i] \in Row
    BY <1>1 DEF RowsInv, Balanced, Shuffled
  <1>3. OnWorkers(rows) = rows
    BY <1>2, SetupFacts, OnWorkersSame
  <1>4. rows' = [i \in DOMAIN rows |-> [rows[i] EXCEPT !.logp = rows[i].resp]]
    BY <1>3 DEF LogProb, LogProbOf
  <1>5. ASSUME NEW i \in DOMAIN rows
        PROVE  /\ rows'[i] \in Row /\ SameStep(rows'[i], rows[i])
               /\ rows'[i].ret = rows[i].ret /\ rows'[i].logp = rows[i].resp
    <2>1. rows'[i] = [rows[i] EXCEPT !.logp = rows[i].resp] /\ rows[i] \in Row
      BY <1>2, <1>4
    <2> QED BY <2>1 DEF Row, SameStep
  <1>6. rows' = [i \in DOMAIN rows |-> rows'[i]]
    BY <1>4
  <1>7. rows' \in Seq(Row) /\ DOMAIN rows' = DOMAIN rows
    BY <1>2, <1>5, <1>6, Column
  <1>8. /\ phase' \in Phases /\ phase' # "returns" /\ phase' # "adjust"
        /\ Balanced /\ phase' \notin Scored /\ phase \notin Scored
    BY <1>1 DEF Phases, Balanced, Shuffled, Scored
  <1>9. ASSUME NEW i \in DOMAIN rows PROVE OwnReturn(rows[i])' /\ OwnLogp(rows[i])'
    <2>1. OwnReturn(rows[i])
      BY DEF RowsInv, OwnRow
    <2>2. \A e, t : RewardsFrom(e, t)' = RewardsFrom(e, t)
      BY <1>1 DEF RewardsFrom
    <2>3. OwnReturn(rows[i])'
      BY <1>1, <1>5, <1>8, <2>1, <2>2 DEF OwnReturn, SameStep
    <2>4. OwnLogp(rows[i])'
      BY <1>5 DEF OwnLogp, SameStep
    <2> QED BY <2>3, <2>4
  <1> QED BY <1>1, <1>5, <1>7, <1>8, <1>9, KeepRows

\* After the scores, a column is added that no other depends on.
LEMMA LaterColumn ==
  ASSUME GroupInv, RolloutInv, RowsInv, UNCHANGED <<conf, episode, rollout>>,
         rows' \in Seq(Row), DOMAIN rows' = DOMAIN rows,
         \A i \in DOMAIN rows : /\ SameStep(rows'[i], rows[i])
                                /\ rows'[i].ret = rows[i].ret
                                /\ rows'[i].logp = rows[i].logp,
         phase \in Scored, phase' \in Scored
  PROVE  RowsInv'
  <1>1. conf' = conf /\ played' = played
    BY DEF rollout
  <1>2. /\ phase' \in Phases /\ phase' # "returns" /\ phase' # "adjust"
        /\ phase # "returns" /\ Balanced
    BY DEF Phases, Balanced, Shuffled, Scored
  <1>3. ASSUME NEW i \in DOMAIN rows PROVE OwnReturn(rows[i])' /\ OwnLogp(rows[i])'
    <2>1. OwnReturn(rows[i]) /\ OwnLogp(rows[i])
      BY DEF RowsInv, OwnRow
    <2>2. \A e, t : RewardsFrom(e, t)' = RewardsFrom(e, t)
      BY <1>1 DEF RewardsFrom
    <2>3. /\ rows'[i].traj = rows[i].traj /\ rows'[i].turn = rows[i].turn
          /\ rows'[i].valid = rows[i].valid /\ rows'[i].resp = rows[i].resp
      BY DEF SameStep
    <2>4. Penalty(rows[i])' = Penalty(rows[i])
      BY <1>1, <2>3 DEF Penalty
    <2>5. OwnReturn(rows[i])'
      BY <1>1, <1>2, <2>1, <2>2, <2>3, <2>4 DEF OwnReturn
    <2>6. OwnLogp(rows[i])'
      BY <2>1, <2>3 DEF OwnLogp
    <2> QED BY <2>5, <2>6
  <1> QED BY <1>2, <1>3, KeepRows

\* The penalty is taken off the score and the return alike.
LEMMA RowsScores ==
  ASSUME GroupInv, RolloutInv, RowsInv, Scores
  PROVE  RowsInv'
  <1>1. /\ phase = "score" /\ phase' = "ahsr" /\ UNCHANGED <<conf, episode, rollout>>
        /\ conf' = conf /\ played' = played
    BY DEF Scores, rollout
  <1>2. rows \in Seq(Row) /\ \A i \in DOMAIN rows : rows[i] \in Row
    BY DEF RowsInv
  <1> DEFINE ret(i) == IF conf.gigpo THEN rows[i].ret - Penalty(rows[i]) ELSE rows[i].ret
  <1>3. rows' = [i \in DOMAIN rows |->
                   [rows[i] EXCEPT !.score = Score(rows[i]), !.ret = ret(i)]]
    BY DEF Scores
  <1>4. \A r : Penalty(r) \in {0, 1}
    BY DEF Penalty
  <1>5. \A i \in DOMAIN rows : Score(rows[i]) \in Int /\ ret(i) \in Int
    <2> SUFFICES ASSUME NEW i \in DOMAIN rows PROVE Score(rows[i]) \in Int /\ ret(i) \in Int
      OBVIOUS
    <2>1. rows[i].reward \in Nat /\ rows[i].ret \in Int
      BY <1>2 DEF Row
    <2> QED BY <1>4, <2>1 DEF Score
  <1> HIDE DEF ret
  <1>6. ASSUME NEW i \in DOMAIN rows
        PROVE  /\ rows'[i] \in Row /\ SameStep(rows'[i], rows[i])
               /\ rows'[i].ret = ret(i) /\ rows'[i].logp = rows[i].logp
    <2>1. rows'[i] = [rows[i] EXCEPT !.score = Score(rows[i]), !.ret = ret(i)]
      BY <1>3
    <2> QED BY <1>2, <1>5, <2>1 DEF Row, SameStep
  <1>7. rows' = [i \in DOMAIN rows |-> rows'[i]]
    BY <1>3
  <1>8. rows' \in Seq(Row) /\ DOMAIN rows' = DOMAIN rows
    BY <1>2, <1>6, <1>7, Column
  <1>9. /\ phase' \in Phases /\ phase' # "returns" /\ phase' # "adjust"
        /\ Balanced /\ phase' \in Scored /\ phase \notin Scored
    BY <1>1 DEF Phases, Balanced, Shuffled, Scored
  <1>10. ASSUME NEW i \in DOMAIN rows PROVE OwnReturn(rows[i])' /\ OwnLogp(rows[i])'
    <2>1. /\ OwnReturn(rows[i]) /\ OwnLogp(rows[i])
          /\ rows[i].traj \in Envs /\ rows[i].turn \in Nat
      BY <1>2 DEF RowsInv, OwnRow, Row
    <2>2. \A e, t : RewardsFrom(e, t)' = RewardsFrom(e, t)
      BY <1>1 DEF RewardsFrom
    <2>3. /\ rows'[i].traj = rows[i].traj /\ rows'[i].turn = rows[i].turn
          /\ rows'[i].valid = rows[i].valid /\ rows'[i].resp = rows[i].resp
      BY <1>6 DEF SameStep
    <2>4. Penalty(rows[i])' = Penalty(rows[i])
      BY <1>1, <2>3 DEF Penalty
    <2>5. ASSUME conf.gigpo
          PROVE  rows'[i].ret = 100 * RewardsFrom(rows[i].traj, rows[i].turn) - Penalty(rows[i])
      <3>1. rows[i].ret = 100 * RewardsFrom(rows[i].traj, rows[i].turn) - 0
        BY <1>1, <1>9, <2>1, <2>5 DEF OwnReturn
      <3>2. RewardsFrom(rows[i].traj, rows[i].turn) \in Int
        BY <2>1, RewardsFromType
      <3> QED BY <1>4, <1>6, <2>5, <3>1, <3>2 DEF ret
    <2>6. OwnReturn(rows[i])'
      BY <1>1, <1>9, <2>2, <2>3, <2>4, <2>5 DEF OwnReturn
    <2>7. OwnLogp(rows[i])'
      BY <1>1, <1>6, <2>1, <2>3 DEF OwnLogp
    <2> QED BY <2>6, <2>7
  <1> QED BY <1>1, <1>6, <1>8, <1>9, <1>10, KeepRows

-----------------------------------------------------------------------------
(* Hindsight reward and advantages are numbers. *)

\* Scores add up to a number.
LEMMA ScoreSum ==
  ASSUME RowsInv, NEW S \in SUBSET DOMAIN rows
  PROVE  IsFiniteSet(S) /\ Cardinality(S) \in Nat /\ Total(S) \in Int
  <1>0. rows \in Seq(Row) /\ \A i \in DOMAIN rows : rows[i] \in Row
    BY DEF RowsInv
  <1>1. rows \in Seq(Row) /\ \A i \in DOMAIN rows : rows[i].score \in Int
    BY <1>0 DEF Row
  <1>2. IsFiniteSet(DOMAIN rows)
    <2>1. DOMAIN rows = 1..Len(rows) /\ 1 \in Int /\ Len(rows) \in Int
      BY <1>1
    <2> QED BY <2>1, FS_Interval
  <1>3. IsFiniteSet(S) /\ Cardinality(S) \in Nat
    BY <1>2, FS_Subset, FS_CardinalityType
  <1> DEFINE f == [i \in S |-> rows[i].score]
  <1>4. f \in [S -> Int]
    BY <1>1
  <1>5. SumFunction(f) \in Int
    <2> HIDE DEF f
    <2> QED BY <1>3, <1>4, SumType
  <1> QED BY <1>3, <1>5 DEF Total

\* So do those of an arm.
LEMMA ArmFacts ==
  ASSUME RowsInv, NEW g, NEW arm
  PROVE  Size(g, arm) \in Nat /\ Total(ArmRows(g, arm)) \in Int
  <1>1. ArmRows(g, arm) \in SUBSET DOMAIN rows
    BY Zenon DEF ArmRows
  <1> QED BY <1>1, ScoreSum DEF Size

\* A product of integers.
LEMMA Product == ASSUME NEW a \in Int, NEW b \in Int PROVE a * b \in Int
  OBVIOUS

\* The hindsight reward is a number ...
LEMMA AhsrNumbers ==
  ASSUME RowsInv, NEW i \in DOMAIN rows
  PROVE  /\ Scale(rows[i].uid) \in Int /\ Intrinsic(i) \in Int
         /\ Reward(i) \in Int
  <1> DEFINE g == rows[i].uid
             n == Size(g, FALSE)
             s == Size(g, TRUE)
             least == AtLeast(1, s)
             x == Total(ArmRows(g, TRUE))
             y == Total(ArmRows(g, FALSE))
             score == rows[i].score
  <1>1. n \in Int /\ s \in Int /\ x \in Int /\ y \in Int
    <2>1. n \in Nat /\ s \in Nat /\ x \in Int /\ y \in Int
      BY ArmFacts, Zenon
    <2> HIDE DEF n, s, x, y
    <2> QED BY <2>1
  <1>2. score \in Int /\ rows[i].intrinsic \in Int
    <2>1. rows[i] \in Row
      BY DEF RowsInv
    <2> QED BY <2>1 DEF Row
  <1>3. least \in Int
    <2> HIDE DEF s
    <2> QED BY <1>1 DEF AtLeast
  <1>4. \A a \in Int : Positive(a) \in Int
    BY DEF Positive
  <1>5. ArmGain(g) = IF s = 0 THEN 0 ELSE x * n - y * s
    BY DEF ArmGain
  <1>6. Delta(i) = score * n - y
    BY DEF Delta
  <1>7. Scale(g) = IF n = 0 THEN 1 ELSE 10 * n * n * least
    BY DEF Scale
  <1>8. /\ LambdaPlus(g) = Positive(20 * n * least - 4 * Positive(ArmGain(g)))
        /\ LambdaMinus(g) = 3 * n * least
    BY DEF LambdaPlus, LambdaMinus
  <1>9. Intrinsic(i) = IF i \in ArmRows(g, TRUE) /\ n > 0
                       THEN LambdaPlus(g) * Positive(Delta(i)) - LambdaMinus(g) * Positive(-Delta(i))
                       ELSE 0
    BY DEF Intrinsic
  <1>10. Reward(i) = Scale(g) * score + rows[i].intrinsic
    BY DEF Reward
  <1> HIDE DEF g, n, s, least, x, y, score
  <1>11. ArmGain(g) \in Int /\ Delta(i) \in Int
    BY <1>1, <1>2, <1>5, <1>6, Product
  <1>12. /\ 10 * n * n * least \in Int /\ 20 * n * least \in Int /\ 3 * n * least \in Int
    BY <1>1, <1>3, Product
  <1>13. Scale(g) \in Int /\ LambdaMinus(g) \in Int
    BY <1>7, <1>8, <1>12
  <1>14. LambdaPlus(g) \in Int
    BY <1>4, <1>8, <1>11, <1>12
  <1>15. Intrinsic(i) \in Int
    <2>1. Positive(Delta(i)) \in Int /\ Positive(-Delta(i)) \in Int
      BY <1>4, <1>11
    <2>2. LambdaPlus(g) * Positive(Delta(i)) \in Int /\ LambdaMinus(g) * Positive(-Delta(i)) \in Int
      BY <1>13, <1>14, <2>1, Product
    <2> DEFINE a == LambdaPlus(g) * Positive(Delta(i))
               b == LambdaMinus(g) * Positive(-Delta(i))
    <2>3. Intrinsic(i) = IF i \in ArmRows(g, TRUE) /\ n > 0 THEN a - b ELSE 0
      BY <1>9
    <2>4. a \in Int /\ b \in Int
      BY <2>2
    <2> HIDE DEF a, b
    <2> QED BY <2>3, <2>4
  <1>16. Reward(i) \in Int
    BY <1>2, <1>10, <1>13, Product
  <1> QED BY <1>13, <1>15, <1>16 DEF g

\* ... and so is the advantage.
LEMMA AdvType ==
  ASSUME RowsInv, NEW i \in DOMAIN rows
  PROVE  Adv(i) \in Int
  <1> DEFINE group == {j \in DOMAIN rows : rows[j].uid = rows[i].uid}
             f == [j \in group |-> Reward(j)]
  <1>1. group \in SUBSET DOMAIN rows
    OBVIOUS
  <1>2. IsFiniteSet(group) /\ Cardinality(group) \in Nat
    BY <1>1, ScoreSum
  <1>3. f \in [group -> Int]
    BY <1>1, AhsrNumbers
  <1>4. SumFunction(f) \in Int
    <2> HIDE DEF f, group
    <2> QED BY <1>2, <1>3, SumType
  <1>5. Reward(i) \in Int
    BY AhsrNumbers
  <1>6. Cardinality(group) * Reward(i) \in Int
    BY <1>2, <1>5, Product
  <1>7. Adv(i) = IF Cardinality(group) = 1 THEN Reward(i)
                 ELSE Cardinality(group) * Reward(i) - SumFunction(f)
    BY DEF Adv
  <1> HIDE DEF f, group
  <1> QED BY <1>4, <1>5, <1>6, <1>7

\* The hindsight reward touches nothing else.
LEMMA RowsAhsr ==
  ASSUME GroupInv, RolloutInv, RowsInv, Ahsr
  PROVE  RowsInv'
  <1>1. /\ phase = "ahsr" /\ phase' = "advantage" /\ UNCHANGED <<conf, episode, rollout>>
        /\ phase \in Scored /\ phase' \in Scored
    BY DEF Ahsr, Scored
  <1>2. rows \in Seq(Row) /\ \A i \in DOMAIN rows : rows[i] \in Row
    BY DEF RowsInv
  <1>3. CASE rows' = rows
    <2>1. \A i \in DOMAIN rows : SameStep(rows'[i], rows[i])
      BY <1>3 DEF SameStep
    <2> QED BY <1>1, <1>2, <1>3, <2>1, LaterColumn
  <1>4. CASE rows' = [i \in DOMAIN rows |-> [rows[i] EXCEPT !.intrinsic = Intrinsic(i)]]
    <2>1. ASSUME NEW i \in DOMAIN rows
          PROVE  /\ rows'[i] \in Row /\ SameStep(rows'[i], rows[i])
                 /\ rows'[i].ret = rows[i].ret /\ rows'[i].logp = rows[i].logp
      <3>1. rows'[i] = [rows[i] EXCEPT !.intrinsic = Intrinsic(i)] /\ Intrinsic(i) \in Int
        BY <1>4, AhsrNumbers
      <3> QED BY <1>2, <3>1 DEF Row, SameStep
    <2>2. rows' = [i \in DOMAIN rows |-> rows'[i]]
      BY <1>4
    <2>3. rows' \in Seq(Row) /\ DOMAIN rows' = DOMAIN rows
      BY <1>2, <2>1, <2>2, Column
    <2> QED BY <1>1, <2>1, <2>3, LaterColumn
  <1> QED BY <1>3, <1>4 DEF Ahsr

\* Nor does the advantage.
LEMMA RowsAdvantage ==
  ASSUME GroupInv, RolloutInv, RowsInv, Advantage
  PROVE  RowsInv'
  <1>1. /\ phase = "advantage" /\ phase' = "update" /\ UNCHANGED <<conf, episode, rollout>>
        /\ phase \in Scored /\ phase' \in Scored
        /\ rows' = [i \in DOMAIN rows |-> [rows[i] EXCEPT !.adv = Adv(i)]]
    BY DEF Advantage, Scored
  <1>2. rows \in Seq(Row) /\ \A i \in DOMAIN rows : rows[i] \in Row
    BY DEF RowsInv
  <1>3. ASSUME NEW i \in DOMAIN rows
        PROVE  /\ rows'[i] \in Row /\ SameStep(rows'[i], rows[i])
               /\ rows'[i].ret = rows[i].ret /\ rows'[i].logp = rows[i].logp
    <2>1. rows'[i] = [rows[i] EXCEPT !.adv = Adv(i)] /\ Adv(i) \in Int
      BY <1>1, AdvType
    <2> QED BY <1>2, <2>1 DEF Row, SameStep
  <1>4. rows' = [i \in DOMAIN rows |-> rows'[i]]
    BY <1>1
  <1>5. rows' \in Seq(Row) /\ DOMAIN rows' = DOMAIN rows
    BY <1>2, <1>3, <1>4, Column
  <1> QED BY <1>1, <1>3, <1>5, LaterColumn

\* Every worker gets an equal chunk: the update does not raise.
LEMMA RowsUpdate ==
  ASSUME GroupInv, RolloutInv, RowsInv, Update
  PROVE  RowsInv'
  <1>1. /\ phase = "update" /\ UNCHANGED <<conf, episode, rollout>> /\ rows' = rows
        /\ phase' = IF Len(rows) % conf.workers = 0 THEN "done" ELSE "failed"
    BY DEF Update
  <1>2. rows \in Seq(Row) /\ Len(rows) % conf.workers = 0
    BY <1>1 DEF RowsInv, Balanced, Shuffled, Scored
  <1>3. phase \in Scored /\ phase' \in Scored
    BY <1>1, <1>2 DEF Scored
  <1>4. \A i \in DOMAIN rows : SameStep(rows'[i], rows[i])
    BY <1>1 DEF SameStep
  <1> QED BY <1>1, <1>2, <1>3, <1>4, LaterColumn

\* Before the rollout is gathered there are no rows.
LEMMA NoRows ==
  ASSUME rows' = <<>>, phase' \in {"turn", "failed", "gather"}
  PROVE  RowsInv'
  <1>1. ~Gathered' /\ ~Balanced' /\ phase' \in Phases /\ phase' # "returns"
    BY DEF Gathered, Balanced, Shuffled, Scored, Phases
  <1>2. <<>> \in Seq(Row') /\ DOMAIN <<>> = {}
    OBVIOUS
  <1> QED BY <1>1, <1>2 DEF RowsInv

\* A step that changes nothing.
LEMMA RowsStutter ==
  ASSUME RowsInv, UNCHANGED vars
  PROVE  RowsInv'
  <1>1. /\ conf' = conf /\ played' = played /\ mask' = mask /\ tasks' = tasks
        /\ phase' = phase /\ rows' = rows
    BY DEF vars, rollout, episode
  <1>2. Envs' = Envs /\ Row' = Row
    BY <1>1 DEF Envs, Row
  <1>3. ASSUME NEW i \in DOMAIN rows PROVE OwnRow(rows[i])'
    <2>1. OwnRow(rows[i])
      BY DEF RowsInv
    <2>2. /\ \A e, t : RewardsFrom(e, t)' = RewardsFrom(e, t)
          /\ \A e, t : Uid(e)' = Uid(e) /\ Prompted(e, t)' = Prompted(e, t)
      BY <1>1 DEF RewardsFrom, Uid, Group, Prompted
    <2>3. StepRow(rows[i])'
      BY <1>1, <2>1, <2>2 DEF OwnRow, StepRow
    <2>4. Penalty(rows[i])' = Penalty(rows[i])
      BY <1>1 DEF Penalty
    <2>5. OwnReturn(rows[i])'
      BY <1>1, <2>1, <2>2, <2>4 DEF OwnRow, OwnReturn
    <2>6. OwnLogp(rows[i])'
      BY <1>1, <2>1 DEF OwnRow, OwnLogp
    <2> QED BY <2>3, <2>5, <2>6 DEF OwnRow
  <1>4. \A e, t : Copies(e, t)' <=> Copies(e, t)
    BY <1>1 DEF Copies
  <1>5. (Gathered' <=> Gathered) /\ (Balanced' <=> Balanced)
    BY <1>1 DEF Gathered, Balanced, Shuffled
  <1> QED BY <1>1, <1>2, <1>3, <1>4, <1>5 DEF RowsInv

------------------------------------------------------------------------------
(* The step *)

\* The inductive invariant.
BatchInv == GroupInv /\ RolloutInv /\ RowsInv

\* It holds at the start ...
LEMMA BatchInit == InitRollout => BatchInv
  <1> SUFFICES ASSUME InitRollout PROVE BatchInv
    OBVIOUS
  <1>1. GroupInv
    BY DEF InitRollout, GroupInv
  <1>2. RowsInv
    <2>1. ~Gathered /\ ~Balanced /\ phase \in Phases /\ phase # "returns"
      BY DEF InitRollout, Gathered, Balanced, Shuffled, Scored, Phases
    <2>2. rows = <<>> /\ <<>> \in Seq(Row) /\ DOMAIN <<>> = {}
      BY DEF InitRollout
    <2> QED BY <2>1, <2>2 DEF RowsInv
  <1> QED BY <1>1, <1>2, RolloutInit DEF BatchInv

\* ... and every step keeps it.
LEMMA BatchStep == BatchInv /\ [Next]_vars => BatchInv'
  <1> SUFFICES ASSUME GroupInv, RolloutInv, RowsInv, [Next]_vars
               PROVE  RolloutInv' /\ RowsInv'
    BY GroupInvStep DEF BatchInv
  <1>1. CASE Reset
    <2>1. rows' = <<>> /\ phase' = "turn"
      BY <1>1 DEF Reset, RolloutInv
    <2> QED BY <1>1, <2>1, RolloutReset, NoRows
  <1>2. CASE Turn
    <2>1. rows' = <<>> /\ phase' \in {"turn", "failed", "gather"}
      BY <1>2 DEF Turn, RolloutInv, AfterLoop
    <2> QED BY <1>2, <2>1, RolloutTurn, NoRows
  <1>3. ASSUME UNCHANGED <<conf, episode, rollout>>, phase \notin {"reset", "turn"},
               phase' \notin {"reset", "turn", "gather"}
        PROVE  RolloutInv'
    BY <1>3, RolloutFrame
  <1>4. CASE Gather
    <2>1. RolloutInv'
      BY <1>3, <1>4 DEF Gather
    <2> QED BY <1>4, <2>1, RowsGather
  <1>5. CASE StepReturns
    <2>1. RolloutInv'
      BY <1>3, <1>5 DEF StepReturns
    <2> QED BY <1>5, <2>1, RowsReturns
  <1>6. CASE Adjust
    <2>1. RolloutInv'
      BY <1>3, <1>6 DEF Adjust
    <2> QED BY <1>6, <2>1, RowsAdjust
  <1>7. CASE Balance
    <2>1. RolloutInv'
      BY <1>3, <1>7 DEF Balance
    <2> QED BY <1>7, <2>1, RowsBalance
  <1>8. CASE LogProb
    <2>1. RolloutInv'
      BY <1>3, <1>8 DEF LogProb
    <2> QED BY <1>8, <2>1, RowsLogProb
  <1>9. CASE Scores
    <2>1. RolloutInv'
      BY <1>3, <1>9 DEF Scores
    <2> QED BY <1>9, <2>1, RowsScores
  <1>10. CASE Ahsr
    <2>1. RolloutInv'
      BY <1>3, <1>10 DEF Ahsr
    <2> QED BY <1>10, <2>1, RowsAhsr
  <1>11. CASE Advantage
    <2>1. RolloutInv'
      BY <1>3, <1>11 DEF Advantage
    <2> QED BY <1>11, <2>1, RowsAdvantage
  <1>12. CASE Update
    <2>1. RolloutInv'
      BY <1>3, <1>12 DEF Update
    <2> QED BY <1>12, <2>1, RowsUpdate
  <1>13. CASE UNCHANGED vars
    BY <1>13, RolloutStutter, RowsStutter
  <1>14. CASE Over
    BY <1>13, <1>14 DEF Over
  <1> QED BY <1>1, <1>2, <1>4, <1>5, <1>6, <1>7, <1>8, <1>9, <1>10, <1>11, <1>12,
             <1>13, <1>14 DEF Next, NextRollout

\* What it says of the types ...
LEMMA BatchType == BatchInv => TypeOK
  <1> SUFFICES ASSUME GroupInv, RolloutInv, RowsInv PROVE TypeOK
    BY DEF BatchInv
  <1>1. /\ conf \in Setups /\ phase \in Phases /\ turn \in 1..(conf.turns + 1)
        /\ isDone \in [Envs -> BOOLEAN]
        /\ epReward \in [Envs -> Nat] /\ epLength \in [Envs -> Nat]
    BY DEF GroupInv, RolloutInv, RowsInv
  <1>2. ASSUME phase # "reset"
        PROVE  tasks \in [Envs -> Nat] /\ mask \in [Envs -> BOOLEAN] /\ obs \in [Envs -> Prompt]
    <2>1. obs = [e \in Envs |-> Prompted(e, turn)]
      BY <1>2 DEF RolloutInv
    <2>2. \A e \in Envs : Prompted(e, turn) \in Prompt
      BY <1>2, ObsAnswered
    <2> QED BY <1>2, <2>1, <2>2, MaskType
  <1>3. ASSUME NEW e \in Envs PROVE AllIn(total[e], TurnRow) /\ AllIn(played[e], Outcome)
    <2>1. total[e] \in Seq(TurnRow) /\ played[e] \in Seq(Outcome)
      BY DEF RolloutInv, EpisodeInv
    <2> QED BY <2>1 DEF AllIn
  <1>4. AllIn(rows, Row)
    BY DEF RowsInv, AllIn
  <1> QED BY <1>1, <1>2, <1>3, <1>4 DEF TypeOK

\* ... of the episodes ...
LEMMA BatchEpisode == BatchInv => OwnEpisode
  <1> SUFFICES ASSUME GroupInv, RolloutInv, RowsInv, NEW i \in DOMAIN rows
               PROVE  LET r == rows[i]
                          p == played[r.traj]
                      IN  /\ r.turn \in DOMAIN p
                          /\ r.length = Len(p)
                          /\ r.reward = RewardsFrom(r.traj, 1)
                          /\ r.success = p[Len(p)].won
                          /\ conf.gigpo /\ phase # "returns" =>
                               r.ret = 100 * RewardsFrom(r.traj, r.turn)
                                         - (IF phase \in Scored THEN Penalty(r) ELSE 0)
    BY DEF BatchInv, OwnEpisode
  <1>1. played[rows[i].traj] \in Seq(Outcome) /\ StepRow(rows[i]) /\ OwnReturn(rows[i])
    BY RowFacts
  <1> QED BY <1>1 DEF StepRow, OwnReturn

\* ... of prompts and log probabilities ...
LEMMA BatchOwnStep == BatchInv => OwnStep
  <1> SUFFICES ASSUME GroupInv, RolloutInv, RowsInv, NEW i \in DOMAIN rows
               PROVE  LET r == rows[i]
                      IN  /\ r.resp = [traj |-> r.traj, turn |-> r.turn, skills |-> r.arm]
                          /\ phase \in {"score"} \cup Scored => r.logp = r.resp
    BY DEF BatchInv, OwnStep
  <1>1. StepRow(rows[i]) /\ OwnLogp(rows[i])
    BY DEF RowsInv, OwnRow
  <1> QED BY <1>1 DEF StepRow, OwnLogp, Prompted

\* ... and of the steps there are.
LEMMA BatchTrained == BatchInv => EveryStepTrained
  <1> SUFFICES ASSUME GroupInv, RolloutInv, RowsInv,
                      phase \in {"returns", "adjust", "balance"} \/ Shuffled,
                      NEW e \in Envs, NEW t \in DOMAIN played[e]
               PROVE  Cardinality({i \in DOMAIN rows : rows[i].traj = e /\ rows[i].turn = t})
                        \in IF phase \in {"returns", "adjust"} THEN {1} ELSE {1, 2}
    BY DEF BatchInv, EveryStepTrained
  <1>1. Gathered
    BY DEF Gathered, Balanced
  <1>2. t \in 1..Len(played[e])
    BY DEF RolloutInv, EpisodeInv
  <1>3. PICK i, j \in DOMAIN rows :
          /\ phase \in {"returns", "adjust"} => i = j
          /\ \A k \in DOMAIN rows : rows[k].traj = e /\ rows[k].turn = t <=> k \in {i, j}
    BY <1>1, <1>2 DEF RowsInv, Copies
  <1> DEFINE S == {k \in DOMAIN rows : rows[k].traj = e /\ rows[k].turn = t}
  <1>4. S = {i, j}
    BY <1>3
  <1> HIDE DEF S
  <1>5. CASE i = j
    <2>1. S = {i}
      BY <1>4, <1>5
    <2>2. Cardinality(S) = 1
      BY <2>1, FS_Singleton
    <2> QED BY <2>2 DEF S
  <1>6. CASE i # j
    <2>1. IsFiniteSet({i}) /\ Cardinality({i}) = 1
      BY FS_Singleton
    <2>2. Cardinality({i} \cup {j}) = Cardinality({i}) + 1
      BY <1>6, <2>1, FS_AddElement
    <2>3. S = {i} \cup {j}
      BY <1>4
    <2>4. Cardinality(S) = 2
      BY <2>1, <2>2, <2>3
    <2> QED BY <1>3, <1>6, <2>4 DEF S
  <1> QED BY <1>5, <1>6

\* The variables keep their types.
THEOREM TypeCorrect == Spec => []TypeOK
  BY BatchInit, BatchStep, BatchType, PTL DEF Spec

\* In every configuration a row carries what its own episode did, whatever was
\* padded, copied or reordered, and nothing an environment reported after its end.
THEOREM EpisodesAreOwn == Spec => []OwnEpisode
  BY BatchInit, BatchStep, BatchEpisode, PTL DEF Spec

\* In every configuration the response and the log probability of a row were
\* computed for the prompt of its trajectory in its turn.
THEOREM StepsAreOwn == Spec => []OwnStep
  BY BatchInit, BatchStep, BatchOwnStep, PTL DEF Spec

\* In every configuration each step of each episode is in the batch, once before it
\* is filled up and at most twice after it.
THEOREM StepsTrained == Spec => []EveryStepTrained
  BY BatchInit, BatchStep, BatchTrained, PTL DEF Spec

-----------------------------------------------------------------------------
(* Sums over the rows of a group: winners and losers of both arms *)

\* Four kinds of rows of a group, apart from each other, ...
Kinds(G, A, E, C, D) ==
  /\ {A, E, C, D} \in SUBSET SUBSET G
  /\ A \cap E = {} /\ (A \cup E) \cap C = {} /\ ((A \cup E) \cup C) \cap D = {}

\* ... with the rewards p, q, w and none; all others have between 0 and w.
Rewarded(f, G, A, E, C, D, p, q, w) ==
  /\ \A x \in A : f[x] = p
  /\ \A x \in E : f[x] = q
  /\ \A x \in C : f[x] = w
  /\ \A x \in D : f[x] = 0
  /\ \A x \in G \ (((A \cup E) \cup C) \cup D) : 0 <= f[x] /\ f[x] <= w

\* So much they have together.
AddedUp(sum, size, a, e, c, d, p, q, w) ==
  \E k \in Nat, z \in Nat : /\ size = a + e + c + d + k
                           /\ sum = a * p + e * q + c * w + z
                           /\ z <= k * w

\* The sum over a group whose rows are of these kinds.
LEMMA SumOfKinds ==
  ASSUME NEW G, IsFiniteSet(G), NEW f \in [G -> Int],
         NEW A, NEW E, NEW C, NEW D, Kinds(G, A, E, C, D),
         NEW p \in Int, NEW q \in Int, NEW w \in Nat, Rewarded(f, G, A, E, C, D, p, q, w)
  PROVE  AddedUp(SumFunction(f), Cardinality(G), Cardinality(A), Cardinality(E),
                 Cardinality(C), Cardinality(D), p, q, w)
  <1>0. /\ A \in SUBSET G /\ E \in SUBSET G /\ C \in SUBSET G /\ D \in SUBSET G
        /\ A \cap E = {} /\ (A \cup E) \cap C = {} /\ ((A \cup E) \cup C) \cap D = {}
    BY DEF Kinds
  <1>14. /\ \A x \in A : f[x] = p
         /\ \A x \in E : f[x] = q
         /\ \A x \in C : f[x] = w
         /\ \A x \in D : f[x] = 0
         /\ \A x \in G \ (((A \cup E) \cup C) \cup D) : 0 <= f[x] /\ f[x] <= w
    BY DEF Rewarded
  <1> DEFINE AE == A \cup E
             AC == AE \cup C
             AD == AC \cup D
             R == G \ AD
  <1>1. PICK h : SumFunction(f) = h[G] /\ Additive(h, f, G)
    BY SumParts
  <1>2. \A s \in SUBSET G :
          /\ IsFiniteSet(s) /\ Cardinality(s) \in Nat /\ h[s] \in Int
          /\ \A t \in SUBSET G : s \cap t = {} =>
               /\ h[s \cup t] = h[s] + h[t]
               /\ Cardinality(s \cup t) = Cardinality(s) + Cardinality(t)
    <2> SUFFICES ASSUME NEW s \in SUBSET G
                 PROVE  /\ IsFiniteSet(s) /\ Cardinality(s) \in Nat /\ h[s] \in Int
                        /\ \A t \in SUBSET G : s \cap t = {} =>
                             /\ h[s \cup t] = h[s] + h[t]
                             /\ Cardinality(s \cup t) = Cardinality(s) + Cardinality(t)
      OBVIOUS
    <2>1. \A t \in SUBSET G : IsFiniteSet(t) /\ Cardinality(t) \in Nat
      BY FS_Subset, FS_CardinalityType
    <2>2. ASSUME NEW t \in SUBSET G, s \cap t = {}
          PROVE  Cardinality(s \cup t) = Cardinality(s) + Cardinality(t)
      <3>1. Cardinality(s \cup t) = Cardinality(s) + Cardinality(t) - Cardinality(s \cap t)
        BY <2>1, FS_Union
      <3>2. Cardinality(s \cap t) = 0
        BY <2>2, FS_EmptySet
      <3> QED BY <2>1, <3>1, <3>2
    <2> QED BY <1>1, <2>1, <2>2 DEF Additive
  <1>3. ASSUME NEW s \in SUBSET G, NEW v \in Int, \A x \in s : f[x] = v
        PROVE  h[s] = Cardinality(s) * v
    <2>1. \A x \in s : v <= f[x] /\ f[x] <= v
      BY <1>3
    <2>2. Cardinality(s) * v <= h[s] /\ h[s] <= Cardinality(s) * v
      BY <1>1, <2>1 DEF Additive
    <2>3. h[s] \in Int /\ Cardinality(s) * v \in Int
      BY <1>2
    <2> QED BY <2>2, <2>3
  <1>4. /\ h[A] = Cardinality(A) * p /\ h[E] = Cardinality(E) * q
        /\ h[C] = Cardinality(C) * w /\ h[D] = Cardinality(D) * 0
    BY <1>0, <1>3, <1>14
  <1>5. /\ AE \in SUBSET G /\ AC \in SUBSET G /\ AD \in SUBSET G /\ R \in SUBSET G
        /\ AD \cap R = {} /\ AD \cup R = G
    BY <1>0
  <1>6. /\ h[AE] = h[A] + h[E] /\ h[AC] = h[AE] + h[C] /\ h[AD] = h[AC] + h[D]
        /\ Cardinality(AE) = Cardinality(A) + Cardinality(E)
        /\ Cardinality(AC) = Cardinality(AE) + Cardinality(C)
        /\ Cardinality(AD) = Cardinality(AC) + Cardinality(D)
    BY <1>0, <1>2, <1>5
  <1>7. h[G] = h[AD] + h[R] /\ Cardinality(G) = Cardinality(AD) + Cardinality(R)
    <2> HIDE DEF AD, R
    <2> QED BY <1>2, <1>5
  <1>8. 0 <= h[R] /\ h[R] <= Cardinality(R) * w
    <2>1. \A x \in R : 0 <= f[x] /\ f[x] <= w
      BY <1>14
    <2>2. Cardinality(R) * 0 <= h[R] /\ h[R] <= Cardinality(R) * w
      <3> HIDE DEF R
      <3> QED BY <1>1, <1>5, <2>1 DEF Additive
    <2>3. Cardinality(R) \in Nat
      BY <1>2, <1>5
    <2> QED BY <2>2, <2>3
  <1>9. /\ Cardinality(A) \in Nat /\ Cardinality(E) \in Nat /\ Cardinality(C) \in Nat
        /\ Cardinality(D) \in Nat /\ Cardinality(R) \in Nat /\ h[R] \in Int
    BY <1>0, <1>2, <1>5
  <1> HIDE DEF AE, AC, AD, R
  <1> DEFINE k == Cardinality(R)
             z == h[R]
             x == Cardinality(A) * p
             y == Cardinality(E) * q
             u == Cardinality(C) * w
  <1>10. x \in Int /\ y \in Int /\ u \in Int
    BY <1>9
  <1>11. /\ h[G] = x + y + u + z
         /\ Cardinality(G) = Cardinality(A) + Cardinality(E) + Cardinality(C)
                               + Cardinality(D) + k
    <2>1. h[A] = x /\ h[E] = y /\ h[C] = u /\ h[D] = 0
      BY <1>4, <1>9
    <2> HIDE DEF x, y, u
    <2> QED BY <1>6, <1>7, <1>9, <1>10, <2>1
  <1>12. z \in Nat /\ k \in Nat
    BY <1>8, <1>9
  <1>13. SumFunction(f) = x + y + u + z /\ z <= k * w
    BY <1>1, <1>8, <1>11
  <1> HIDE DEF z, k
  <1> QED BY <1>11, <1>12, <1>13 DEF AddedUp

\* The rewards of a group are not negative on the whole if its skill arm is at
\* most 10/3 of the other: each of c winners without skills outweighs the
\* penalties c brings.
LEMMA LostSum ==
  ASSUME NEW a \in Nat, NEW e \in Nat, NEW c \in Nat, NEW b \in Nat, NEW s \in Nat,
         NEW p \in Nat, NEW q \in Int, NEW w \in Nat, NEW z \in Nat,
         e <= s, 3 * s <= 10 * b,
         w = 100 * (10 * b * b * s), q = -((3 * b * s) * (100 * c))
  PROVE  0 <= a * p + e * q + c * w + z
  <1> DEFINE x == 100 * (b * s * c)
  <1>1. x \in Nat
    <2>1. b * s \in Nat
      OBVIOUS
    <2>2. b * s * c \in Nat
      BY <2>1, Z3
    <2> QED BY <2>2
  <1>2. c * w = (10 * b) * x
    BY Z3
  <1>3. e * q = -((3 * e) * x)
    BY Z3
  <1>4. a * p \in Nat
    OBVIOUS
  <1> HIDE DEF x
  <1>5. (3 * e) * x <= (10 * b) * x
    <2>1. 10 * b - 3 * e \in Nat
      OBVIOUS
    <2>2. (10 * b - 3 * e) * x \in Nat
      BY <1>1, <2>1, Z3
    <2>3. (10 * b - 3 * e) * x = (10 * b) * x - (3 * e) * x
      BY <1>1, Z3
    <2>4. (10 * b) * x \in Int /\ (3 * e) * x \in Int
      BY <1>1
    <2> QED BY <2>2, <2>3, <2>4
  <1>6. (10 * b) * x \in Int /\ (3 * e) * x \in Int
    BY <1>1
  <1> QED BY <1>2, <1>3, <1>4, <1>5, <1>6

\* Sizes of the four kinds if the skill arm does no better and the arms are small.
LEMMA SmallArms ==
  ASSUME NEW a \in Nat, NEW e \in Nat, NEW c \in Nat, NEW d \in Nat,
         (c + d) * (a + e) <= 20, a * d <= c * e
  PROVE  20 * (a * d) <= 10 * ((c + d) * (e + d)) + 3 * (c * e)
  <1>1. CASE d = 0 \/ c = 0 \/ e = 0
    <2>1. a * d = 0
      <3>1. a * d \in Nat
        OBVIOUS
      <3> QED BY <1>1, <3>1
    <2>2. (c + d) * (e + d) \in Nat /\ c * e \in Nat
      <3>1. c + d \in Nat /\ e + d \in Nat
        OBVIOUS
      <3> QED BY <3>1, Z3
    <2> QED BY <2>1, <2>2
  <1>2. CASE d > 0 /\ c > 0 /\ e > 0
    <2>1. 7 * a <= 10 * (c + d + e)
      <3>1. CASE c + d >= 4
        <4>1. 4 * (a + e) <= (c + d) * (a + e)
          BY <3>1, Z3
        <4>2. (c + d) * (a + e) \in Int
          OBVIOUS
        <4> QED BY <1>2, <3>1, <4>1, <4>2
      <3>2. CASE c + d = 3
        BY <1>2, <3>2
      <3>3. CASE c + d = 2
        <4>1. c = 1 /\ d = 1
          BY <1>2, <3>3
        <4>2. a <= e
          BY <4>1
        <4> QED BY <4>1, <4>2
      <3> QED BY <1>2, <3>1, <3>2, <3>3
    <2>2. (7 * a) * d <= (10 * (c + d + e)) * d
      <3> DEFINE x == 10 * (c + d + e) - 7 * a
      <3>1. x \in Nat
        BY <2>1
      <3>2. x * d \in Nat
        <4> HIDE DEF x
        <4> QED BY <3>1, Z3
      <3>3. x * d = (10 * (c + d + e)) * d - (7 * a) * d
        BY Z3
      <3>4. (10 * (c + d + e)) * d \in Int /\ (7 * a) * d \in Int
        OBVIOUS
      <3> HIDE DEF x
      <3> QED BY <3>2, <3>3, <3>4
    <2>3. (7 * a) * d = 7 * (a * d)
      BY Z3
    <2>4. 10 * ((c + d) * (e + d)) = 10 * (c * e) + (10 * (c + d + e)) * d
      BY Z3
    <2>5. a * d \in Int /\ c * e \in Nat /\ (10 * (c + d + e)) * d \in Int
      OBVIOUS
    <2> QED BY <2>2, <2>3, <2>4, <2>5
  <1> QED BY <1>1, <1>2

\* A product of unknowns, which the provers do not expand inside a larger step.
LEMMA Distributes ==
  ASSUME NEW x \in Int, NEW y \in Int, NEW z \in Int
  PROVE  x * (y + z) = x * y + x * z
  BY Z3

\* What winners (p) and losers (q) of the skill arm earn, and other winners (w),
\* with a and e, c and d winners and losers in arms of s and b trajectories.
HindsightRewards(a, e, c, d, b, s, p, q, w) ==
  /\ s = a + e /\ b = c + d
  /\ w = 100 * (10 * b * b * s)
  /\ q = -((3 * b * s) * (100 * c))
  /\ p = w + Positive(20 * b * s - 4 * Positive((100 * a) * b - (100 * c) * s)) * (100 * d)

\* The penalties of the skill arm do not outweigh the rewards of the group ...
LEMMA GroupNotNegative ==
  ASSUME NEW a \in Nat, NEW e \in Nat, NEW c \in Nat, NEW d \in Nat, NEW b \in Nat,
         NEW s \in Nat, NEW p \in Nat, NEW q \in Int, NEW w \in Nat, NEW sum, NEW size,
         HindsightRewards(a, e, c, d, b, s, p, q, w),
         AddedUp(sum, size, a, e, c, d, p, q, w), 3 * s <= 10 * b
  PROVE  0 <= sum
  <1>1. PICK k \in Nat, z \in Nat : sum = a * p + e * q + c * w + z
    BY DEF AddedUp
  <1>2. e <= s /\ w = 100 * (10 * b * b * s) /\ q = -((3 * b * s) * (100 * c))
    BY DEF HindsightRewards
  <1>3. 0 <= a * p + e * q + c * w + z
    BY <1>2, LostSum
  <1> QED BY <1>1, <1>3

\* ... and if the product of the arms is at most 20 its mean is not above the
\* reward of winning: lambda+ is 0 if the skill arm does better, and if it does
\* not, those who lost make up for what its winners get on top.
LEMMA GroupNotAbove ==
  ASSUME NEW a \in Nat, NEW e \in Nat, NEW c \in Nat, NEW d \in Nat, NEW b \in Nat,
         NEW s \in Nat, NEW p \in Nat, NEW q \in Int, NEW w \in Nat, NEW sum, NEW size,
         HindsightRewards(a, e, c, d, b, s, p, q, w),
         AddedUp(sum, size, a, e, c, d, p, q, w), s * b <= 20
  PROVE  sum <= size * w
  <1> DEFINE bonus == Positive(20 * b * s - 4 * Positive((100 * a) * b - (100 * c) * s))
  <1>6. PICK k \in Nat, z \in Nat : /\ size = a + e + c + d + k
                                    /\ sum = a * p + e * q + c * w + z
                                    /\ z <= k * w
    BY DEF AddedUp
  <1>7. /\ s = a + e /\ b = c + d /\ w = 100 * (10 * b * b * s)
        /\ q = -((3 * b * s) * (100 * c)) /\ p = w + bonus * (100 * d)
    BY DEF HindsightRewards
  <1>8. bonus \in Int
    <2>1. \A x \in Int : Positive(x) \in Int
      BY DEF Positive
    <2>2. (100 * a) * b - (100 * c) * s \in Int /\ 20 * b * s \in Int
      OBVIOUS
    <2>3. 20 * b * s - 4 * Positive((100 * a) * b - (100 * c) * s) \in Int
      BY <2>1, <2>2
    <2> QED BY <2>1, <2>3
  <1>9. PICK plus \in Int :
          plus = Positive(20 * b * s - 4 * Positive((100 * a) * b - (100 * c) * s))
    BY <1>8
  <1> s = a + e /\ b = c + d /\ z <= k * w
    BY <1>6, <1>7
  <1> w = 100 * (10 * b * b * s) /\ q = -((3 * b * s) * (100 * c))
    BY <1>7
  <1> plus = Positive(20 * b * s - 4 * Positive((100 * a) * b - (100 * c) * s))
    BY <1>9
  <1> p = w + plus * (100 * d)
    BY <1>7
  <1> HIDE DEF bonus
  <1> DEFINE more == a * (plus * (100 * d))
             less == e * ((3 * b * s) * (100 * c))
             m == b * s
  <1>0. m \in Nat /\ s * b = m
    OBVIOUS
  <1>1. more <= e * w + less + d * w
    <2>1. e * w \in Nat /\ d * w \in Nat /\ less \in Nat
      <3>1. less = 300 * ((e * c) * m)
        BY Z3
      <3>2. e * c \in Nat
        OBVIOUS
      <3>3. (e * c) * m \in Nat
        <4> HIDE DEF m
        <4> QED BY <1>0, <3>2, Z3
      <3>4. e * w \in Nat /\ d * w \in Nat
        OBVIOUS
      <3> HIDE DEF less, m
      <3> QED BY <3>1, <3>3, <3>4
    <2>2. CASE a * b > c * s
      <3> DEFINE x == a * b - c * s
      <3>1. x \in Int /\ x >= 1
        BY <2>2
      <3>2. (100 * a) * b - (100 * c) * s = 100 * x
        BY Z3
      <3>3. 20 * b * s = 20 * m
        BY Z3
      <3> HIDE DEF x, m
      <3>4. plus = 0
        BY <1>0, <3>1, <3>2, <3>3 DEF Positive
      <3>5. more = 0
        BY <3>4
      <3> HIDE DEF more, less
      <3> QED BY <2>1, <3>5
    <2>3. CASE a * b <= c * s
      <3>1. plus = 20 * m
        <4> DEFINE x == a * b - c * s
        <4>1. x \in Int /\ x <= 0
          BY <2>3
        <4>2. (100 * a) * b - (100 * c) * s = 100 * x
          BY Z3
        <4>3. 20 * b * s = 20 * m
          BY Z3
        <4> HIDE DEF x, m
        <4> QED BY <1>0, <4>1, <4>2, <4>3 DEF Positive
      <3>2. a * d <= c * e
        <4>1. a * b = a * c + a * d /\ c * s = a * c + c * e
          BY Z3
        <4>2. a * c \in Int /\ a * d \in Int /\ c * e \in Int
          OBVIOUS
        <4> QED BY <2>3, <4>1, <4>2
      <3> DEFINE u == a * d
                 v == (c + d) * (e + d)
                 r == c * e
      <3>3. 20 * u <= 10 * v + 3 * r
        <4>1. (c + d) * (a + e) <= 20
          BY <1>0
        <4> QED BY <3>2, <4>1, SmallArms
      <3>4. more = (100 * m) * (20 * u)
        <4>1. more = a * ((20 * m) * (100 * d))
          BY <3>1
        <4> HIDE DEF more, m
        <4> QED BY <1>0, <4>1, Z3
      <3>5. less = (100 * m) * (3 * r)
        BY Z3
      <3>6. e * w + d * w = (100 * m) * (10 * v)
        <4>1. w = (100 * m) * (10 * b)
          BY Z3
        <4>2. e * w + d * w = (e + d) * w
          BY Z3
        <4>3. (e + d) * ((100 * m) * (10 * (c + d))) = (100 * m) * (10 * v)
          <5> HIDE DEF m
          <5> QED BY <1>0, Z3
        <4> QED BY <4>1, <4>2, <4>3
      <3>7. u \in Int /\ v \in Int /\ r \in Int
        OBVIOUS
      <3> DEFINE g == 10 * v + 3 * r - 20 * u
                 n == 100 * m
      <3> HIDE DEF u, v, r
      <3>8. g \in Nat /\ n \in Nat
        <4> HIDE DEF m
        <4> QED BY <1>0, <3>3, <3>7
      <3>9. n * g \in Nat
        <4> HIDE DEF n, g
        <4> QED BY <3>8, Z3
      <3> HIDE DEF m
      <3>10. n * g = n * (10 * v) + n * (3 * r) - n * (20 * u)
        <4> HIDE DEF n
        <4> QED BY <3>7, <3>8, Z3 DEF g
      <3>11. more = n * (20 * u) /\ less = n * (3 * r) /\ e * w + d * w = n * (10 * v)
        BY <3>4, <3>5, <3>6
      <3> HIDE DEF n, g, more, less
      <3> QED BY <2>1, <3>7, <3>8, <3>9, <3>10, <3>11
    <2>4. a * b \in Int /\ c * s \in Int
      OBVIOUS
    <2> QED BY <2>2, <2>3, <2>4
  <1>2. a * p = a * w + more
    <2> DEFINE x == plus * (100 * d)
    <2>1. x \in Int /\ p = w + x /\ more = a * x
      OBVIOUS
    <2>2. a * (w + x) = a * w + a * x
      <3> HIDE DEF x
      <3> QED BY <2>1, Distributes
    <2> QED BY <2>1, <2>2
  <1>3. e * q = -less
    <2> DEFINE x == (3 * b * s) * (100 * c)
    <2>1. x \in Int /\ q = -x /\ less = e * x
      BY Z3
    <2> HIDE DEF x, less
    <2> QED BY <2>1, Z3
  <1>4. (a + e + c + d + k) * w = a * w + e * w + c * w + d * w + k * w
    BY Z3
  <1>5. /\ a * w \in Int /\ e * w \in Int /\ c * w \in Int /\ d * w \in Int /\ k * w \in Int
        /\ more \in Int /\ less \in Int
    BY Z3
  <1> HIDE DEF more, less
  <1>10. a * p + e * q + c * w + z <= (a + e + c + d + k) * w
    BY <1>1, <1>2, <1>3, <1>4, <1>5
  <1> QED BY <1>6, <1>10

-----------------------------------------------------------------------------
(* What the rows of a group are rewarded with *)

\* Only success was scored; nothing has been added to it, or the hindsight reward.
PlainScores == \A i \in DOMAIN rows : rows[i].score = IF rows[i].success THEN 100 ELSE 0
NoHindsight == \A i \in DOMAIN rows : rows[i].intrinsic = 0
Hindsight == \A i \in DOMAIN rows : rows[i].intrinsic = Intrinsic(i)

GroupRows(g) == {j \in DOMAIN rows : rows[j].uid = g}
GroupSum(g) == SumFunction([j \in GroupRows(g) |-> Reward(j)])
Winners(S) == {i \in S : rows[i].success}
Losers(S)  == {i \in S : ~rows[i].success}

\* What a set of rows scored.
LEMMA TotalOfWon ==
  ASSUME RowsInv, PlainScores, NEW S \in SUBSET DOMAIN rows
  PROVE  Total(S) = 100 * Cardinality(Winners(S))
  <1> DEFINE f == [i \in S |-> rows[i].score]
             W == Winners(S)
             L == Losers(S)
  <1>1. IsFiniteSet(S)
    BY ScoreSum
  <1>2. W \in SUBSET S /\ L \in SUBSET S /\ W \cap L = {} /\ W \cup L = S
    BY DEF Winners, Losers
  <1>3. f \in [S -> Int]
    BY DEF PlainScores
  <1>4. (\A x \in W : 100 <= f[x] /\ f[x] <= 100) /\ (\A x \in L : 0 <= f[x] /\ f[x] <= 0)
    BY DEF PlainScores, Winners, Losers
  <1>5. Total(S) = SumFunction(f)
    BY DEF Total
  <1> HIDE DEF f, W, L
  <1>6. PICK h : SumFunction(f) = h[S] /\ Additive(h, f, S)
    BY <1>1, <1>3, SumParts
  <1>7. h[S] = h[W] + h[L] /\ h[W] \in Int /\ h[L] \in Int
    <2>1. h[W \cup L] = h[W] + h[L]
      BY <1>2, <1>6 DEF Additive
    <2> QED BY <1>2, <1>6, <2>1 DEF Additive
  <1>8. Cardinality(W) * 100 <= h[W] /\ h[W] <= Cardinality(W) * 100
    BY <1>2, <1>4, <1>6 DEF Additive
  <1>9. Cardinality(L) * 0 <= h[L] /\ h[L] <= Cardinality(L) * 0
    BY <1>2, <1>4, <1>6 DEF Additive
  <1>10. Cardinality(W) \in Nat /\ Cardinality(L) \in Nat
    BY <1>1, <1>2, FS_Subset, FS_CardinalityType
  <1> QED BY <1>5, <1>6, <1>7, <1>8, <1>9, <1>10 DEF W

\* An arm consists of its winners and its losers.
LEMMA ArmKinds ==
  ASSUME RowsInv, NEW g, NEW arm
  PROVE  LET S == ArmRows(g, arm)
         IN  /\ S \in SUBSET GroupRows(g) /\ Winners(S) \cup Losers(S) = S
             /\ Winners(S) \cap Losers(S) = {}
             /\ Size(g, arm) = Cardinality(Winners(S)) + Cardinality(Losers(S))
             /\ Cardinality(Winners(S)) \in Nat /\ Cardinality(Losers(S)) \in Nat
  <1> DEFINE S == ArmRows(g, arm)
             W == Winners(S)
             L == Losers(S)
  <1>1. S \in SUBSET GroupRows(g)
    BY Zenon DEF ArmRows, GroupRows
  <1>2. S \in SUBSET DOMAIN rows
    BY <1>1 DEF GroupRows
  <1>3. IsFiniteSet(S)
    BY <1>2, ScoreSum
  <1>4. W \in SUBSET S /\ L \in SUBSET S /\ W \cap L = {} /\ W \cup L = S
    BY DEF Winners, Losers
  <1>5. Size(g, arm) = Cardinality(S)
    BY DEF Size
  <1> HIDE DEF S, W, L
  <1>6. /\ IsFiniteSet(W) /\ IsFiniteSet(L)
        /\ Cardinality(W) \in Nat /\ Cardinality(L) \in Nat
    BY <1>3, <1>4, FS_Subset, FS_CardinalityType
  <1>7. Cardinality(S) = Cardinality(W) + Cardinality(L)
    <2>1. Cardinality(W \cup L) = Cardinality(W) + Cardinality(L) - Cardinality(W \cap L)
      BY <1>6, FS_Union
    <2>2. Cardinality(W \cap L) = 0
      BY <1>4, FS_EmptySet
    <2>3. Cardinality(W \cup L) = Cardinality(S)
      BY <1>4
    <2> QED BY <1>6, <2>1, <2>2, <2>3
  <1> QED BY <1>1, <1>4, <1>5, <1>6, <1>7 DEF S, W, L

\* The common denominator of a group.
LEMMA ScaleType ==
  ASSUME RowsInv, NEW g
  PROVE  Scale(g) \in Nat
  <1>1. Size(g, FALSE) \in Nat /\ Size(g, TRUE) \in Nat
    BY ArmFacts
  <1> DEFINE b == Size(g, FALSE)
             m == AtLeast(1, Size(g, TRUE))
  <1>2. m \in Nat
    BY <1>1 DEF AtLeast
  <1>3. Scale(g) = IF b = 0 THEN 1 ELSE 10 * b * b * m
    BY DEF Scale
  <1>4. b \in Nat
    BY <1>1
  <1> HIDE DEF b, m
  <1>5. 10 * b * b \in Nat
    BY <1>4, Z3
  <1>6. 10 * b * b * m \in Nat
    BY <1>2, <1>5, Z3
  <1> QED BY <1>3, <1>6

\* What a row earns: the reward of winning, and what it gets in hindsight.
LEMMA RewardParts ==
  ASSUME RowsInv, PlainScores, NEW g, NEW j \in GroupRows(g)
  PROVE  /\ 100 * Scale(g) \in Nat
         /\ Reward(j) = (IF rows[j].success THEN 100 * Scale(g) ELSE 0) + rows[j].intrinsic
         /\ Reward(j) \in Int /\ rows[j].intrinsic \in Int
  <1>1. j \in DOMAIN rows /\ rows[j].uid = g
    BY DEF GroupRows
  <1>2. Scale(g) \in Nat
    BY ScaleType
  <1>3. rows[j].intrinsic \in Int /\ rows[j].success \in BOOLEAN
    <2>1. rows[j] \in Row
      BY <1>1 DEF RowsInv
    <2> QED BY <2>1 DEF Row
  <1>4. Reward(j) = Scale(g) * rows[j].score + rows[j].intrinsic
    BY <1>1 DEF Reward
  <1>5. rows[j].score = IF rows[j].success THEN 100 ELSE 0
    BY <1>1 DEF PlainScores
  <1> QED BY <1>2, <1>3, <1>4, <1>5

\* A group without hindsight rewards.
LEMMA PlainGroup ==
  ASSUME RowsInv, PlainScores, NEW g, \A j \in GroupRows(g) : rows[j].intrinsic = 0
  PROVE  /\ GroupSum(g) \in Nat
         /\ GroupSum(g) <= Cardinality(GroupRows(g)) * (100 * Scale(g))
  <1> DEFINE G == GroupRows(g)
             f == [j \in G |-> Reward(j)]
             w == 100 * Scale(g)
  <1>1. IsFiniteSet(G) /\ Cardinality(G) \in Nat
    <2>1. G \in SUBSET DOMAIN rows
      BY DEF GroupRows
    <2> HIDE DEF G
    <2> QED BY <2>1, ScoreSum
  <1>2. CASE G = {}
    <2>1. GroupSum(g) = 0
      BY <1>2, SumNone DEF GroupSum
    <2>2. Cardinality(G) = 0
      BY <1>2, FS_EmptySet
    <2>3. 100 * Scale(g) \in Int
      BY ScaleType
    <2> HIDE DEF G
    <2> QED BY <2>1, <2>2, <2>3 DEF G
  <1>3. CASE G # {}
    <2>1. w \in Nat
      BY <1>3, RewardParts
    <2>2. f \in [G -> Int] /\ \A x \in G : 0 <= f[x] /\ f[x] <= w
      <3>1. \A j \in G : Reward(j) = IF rows[j].success THEN w ELSE 0
        BY <2>1, RewardParts
      <3> HIDE DEF w, G
      <3> QED BY <2>1, <3>1
    <2>3. GroupSum(g) = SumFunction(f)
      BY DEF GroupSum
    <2> HIDE DEF G, f, w
    <2>4. PICK h : SumFunction(f) = h[G] /\ Additive(h, f, G)
      BY <1>1, <2>2, SumParts
    <2>5. Cardinality(G) * 0 <= h[G] /\ h[G] <= Cardinality(G) * w /\ h[G] \in Int
      BY <2>1, <2>2, <2>4 DEF Additive
    <2> QED BY <1>1, <2>3, <2>4, <2>5 DEF G, w
  <1> QED BY <1>2, <1>3

\* The sizes of the kinds of rows of a group with two arms, and its rewards.
LEMMA HindsightGroup ==
  ASSUME RowsInv, PlainScores, Hindsight, NEW g,
         Size(g, FALSE) > 0, Size(g, TRUE) > 0
  PROVE  LET a == Cardinality(Winners(ArmRows(g, TRUE)))
             e == Cardinality(Losers(ArmRows(g, TRUE)))
             c == Cardinality(Winners(ArmRows(g, FALSE)))
             d == Cardinality(Losers(ArmRows(g, FALSE)))
             b == Size(g, FALSE)
             s == Size(g, TRUE)
             w == 100 * Scale(g)
         IN  \E p \in Nat, q \in Int :
               /\ HindsightRewards(a, e, c, d, b, s, p, q, w) /\ q <= 0 /\ w <= p
               /\ \A j \in Winners(GroupRows(g)) : Reward(j) \in {w, p}
               /\ \A j \in Losers(GroupRows(g)) : Reward(j) \in {0, q}
               /\ AddedUp(GroupSum(g), Cardinality(GroupRows(g)), a, e, c, d, p, q, w)
  <1> DEFINE G == GroupRows(g)
             T == ArmRows(g, TRUE)
             F == ArmRows(g, FALSE)
             A == Winners(T)
             E == Losers(T)
             C == Winners(F)
             D == Losers(F)
             a == Cardinality(A)
             e == Cardinality(E)
             c == Cardinality(C)
             d == Cardinality(D)
             b == Size(g, FALSE)
             s == Size(g, TRUE)
             w == 100 * (10 * b * b * s)
             q == -((3 * b * s) * (100 * c))
             plus == Positive(20 * b * s - 4 * Positive((100 * a) * b - (100 * c) * s))
             p == w + plus * (100 * d)
             f == [j \in G |-> Reward(j)]
  <1>1. /\ T \in SUBSET G /\ F \in SUBSET G /\ a \in Nat /\ e \in Nat /\ c \in Nat /\ d \in Nat
        /\ s = a + e /\ b = c + d /\ A \cup E = T /\ C \cup D = F
        /\ A \cap E = {} /\ C \cap D = {}
    BY ArmKinds
  <1>2. T \cap F = {}
    BY DEF ArmRows
  <1>3. G \in SUBSET DOMAIN rows /\ IsFiniteSet(G)
    <2>1. G \in SUBSET DOMAIN rows
      BY DEF GroupRows
    <2> HIDE DEF G
    <2> QED BY <2>1, ScoreSum
  <1>4. Total(T) = 100 * a /\ Total(F) = 100 * c
    BY <1>1, <1>3, TotalOfWon
  <1>5. \A j \in G : rows[j].uid = g /\ rows[j].success \in BOOLEAN
    <2>1. \A j \in G : rows[j] \in Row
      BY <1>3 DEF RowsInv
    <2> QED BY <2>1 DEF Row, GroupRows
  <1>6. b \in Nat /\ s \in Nat /\ b > 0 /\ s > 0
    BY ArmFacts
  <1>7. AtLeast(1, s) = s
    <2> HIDE DEF s
    <2> QED BY <1>6 DEF AtLeast
  <1>8. Scale(g) = 10 * b * b * s /\ LambdaMinus(g) = 3 * b * s /\ LambdaPlus(g) = plus
    <2>0. ~(b = 0) /\ ~(s = 0)
      <3> HIDE DEF b, s
      <3> QED BY <1>6
    <2>1. Scale(g) = 10 * b * b * AtLeast(1, s)
      BY <2>0, Zenon DEF Scale
    <2>2. LambdaMinus(g) = 3 * b * AtLeast(1, s)
      BY DEF LambdaMinus
    <2>3. ArmGain(g) = (100 * a) * b - (100 * c) * s
      <3>1. ArmGain(g) = Total(T) * b - Total(F) * s
        BY <2>0, Zenon DEF ArmGain
      <3> QED BY <1>4, <3>1
    <2>4. LambdaPlus(g) = Positive(20 * b * AtLeast(1, s) - 4 * Positive(ArmGain(g)))
      BY DEF LambdaPlus
    <2> QED BY <1>7, <2>1, <2>2, <2>3, <2>4
  <1>9. \A j \in G : Delta(j) = rows[j].score * b - 100 * c
    BY <1>4, <1>5 DEF Delta
  <1>10. \A j \in G : Intrinsic(j) =
           IF j \in T THEN LambdaPlus(g) * Positive(Delta(j)) - LambdaMinus(g) * Positive(-Delta(j))
           ELSE 0
    BY <1>5, <1>6 DEF Intrinsic
  <1>11. \A j \in G : rows[j].intrinsic = Intrinsic(j)
         /\ rows[j].score = IF rows[j].success THEN 100 ELSE 0
    BY <1>3 DEF Hindsight, PlainScores
  <1>12. (\A j \in A : j \in T /\ rows[j].success) /\ (\A j \in E : j \in T /\ ~rows[j].success)
         /\ (\A j \in C : j \in F /\ rows[j].success) /\ (\A j \in D : j \in F /\ ~rows[j].success)
    BY DEF Winners, Losers
  <1>13. \A j \in G : Reward(j) = (IF rows[j].success THEN 100 * Scale(g) ELSE 0) + rows[j].intrinsic
    BY RewardParts
  <1>14. \A j \in G : Reward(j) \in Int
    BY RewardParts
  <1> HIDE DEF G, T, F, A, E, C, D
  <1>15. w \in Nat /\ 100 * c \in Nat /\ 100 * d \in Nat /\ 3 * b * s \in Nat
    <2> HIDE DEF a, e, c, d, b, s
    <2>1. 10 * b * b \in Nat /\ 3 * b * s \in Nat
      BY <1>6, Z3
    <2>2. 10 * b * b * s \in Nat
      BY <1>6, <2>1, Z3
    <2> QED BY <1>1, <2>1, <2>2
  <1>16. plus \in Nat
    <2> HIDE DEF a, e, c, d, b, s
    <2>1. \A x \in Int : Positive(x) \in Nat
      BY DEF Positive
    <2>2. (100 * a) * b - (100 * c) * s \in Int /\ 20 * b * s \in Int
      BY <1>1, <1>6
    <2>3. 20 * b * s - 4 * Positive((100 * a) * b - (100 * c) * s) \in Int
      BY <2>1, <2>2
    <2> QED BY <2>1, <2>3
  <1>17. p \in Nat /\ w <= p /\ q \in Int /\ q <= 0
    <2> HIDE DEF w, plus, a, e, c, d, b, s
    <2>1. plus * (100 * d) \in Nat /\ (3 * b * s) * (100 * c) \in Nat
      BY <1>15, <1>16, Z3
    <2> QED BY <1>15, <2>1
  <1>28. HindsightRewards(a, e, c, d, b, s, p, q, w)
    <2>1. s = a + e /\ b = c + d
      BY <1>1
    <2> HIDE DEF a, e, c, d, b, s
    <2> QED BY <2>1, Zenon DEF HindsightRewards
  <1> HIDE DEF w, plus, a, e, c, d, b, s
  <1>18. 100 * Scale(g) = w
    BY <1>8 DEF w
  <1>19. ASSUME NEW j \in G PROVE j \in A => Reward(j) = p
    <2> SUFFICES ASSUME j \in A PROVE Reward(j) = p
      OBVIOUS
    <2>1. Delta(j) = 100 * d
      BY <1>1, <1>9, <1>11, <1>12
    <2>2. Positive(Delta(j)) = 100 * d /\ Positive(-Delta(j)) = 0
      BY <1>1, <2>1 DEF Positive
    <2>3. Intrinsic(j) = plus * (100 * d) - (3 * b * s) * 0
      BY <1>8, <1>10, <1>12, <2>2
    <2>4. Reward(j) = w + (plus * (100 * d) - (3 * b * s) * 0)
      BY <1>11, <1>12, <1>13, <1>18, <2>3
    <2>5. plus * (100 * d) \in Int /\ (3 * b * s) * 0 = 0
      BY <1>15, <1>16, Product
    <2> QED BY <1>15, <2>4, <2>5
  <1>20. ASSUME NEW j \in G PROVE j \in E => Reward(j) = q
    <2> SUFFICES ASSUME j \in E PROVE Reward(j) = q
      OBVIOUS
    <2>1. Delta(j) = -(100 * c)
      BY <1>1, <1>6, <1>9, <1>11, <1>12
    <2>2. Positive(Delta(j)) = 0 /\ Positive(-Delta(j)) = 100 * c
      BY <1>1, <2>1 DEF Positive
    <2>3. Intrinsic(j) = plus * 0 - (3 * b * s) * (100 * c)
      BY <1>8, <1>10, <1>12, <2>2
    <2>4. Reward(j) = 0 + (plus * 0 - (3 * b * s) * (100 * c))
      BY <1>11, <1>12, <1>13, <2>3
    <2>5. plus * 0 = 0 /\ (3 * b * s) * (100 * c) \in Int
      BY <1>15, <1>16, Product
    <2> QED BY <2>4, <2>5
  <1>21. ASSUME NEW j \in G, j \notin T PROVE Reward(j) = IF rows[j].success THEN w ELSE 0
    <2>1. rows[j].intrinsic = 0
      BY <1>10, <1>11, <1>21
    <2> QED BY <1>13, <1>15, <1>18, <2>1
  <1>22. (\A j \in C : Reward(j) = w) /\ (\A j \in D : Reward(j) = 0)
    BY <1>1, <1>2, <1>12, <1>21
  <1>23. ASSUME NEW j \in G
         PROVE  /\ j \in T => j \in IF rows[j].success THEN A ELSE E
                /\ j \in T \/ Reward(j) = IF rows[j].success THEN w ELSE 0
    BY <1>1, <1>12, <1>21
  <1>24. AddedUp(SumFunction(f), Cardinality(G), a, e, c, d, p, q, w)
    <2>1. f \in [G -> Int]
      BY <1>14
    <2>2. /\ \A x \in A : f[x] = p
          /\ \A x \in E : f[x] = q
          /\ \A x \in C : f[x] = w
          /\ \A x \in D : f[x] = 0
      BY <1>1, <1>19, <1>20, <1>22
    <2>3. \A x \in G \ (((A \cup E) \cup C) \cup D) : 0 <= f[x] /\ f[x] <= w
      BY <1>1, <1>15, <1>23
    <2>4. Kinds(G, A, E, C, D)
      BY <1>1, <1>2 DEF Kinds
    <2>5. Rewarded(f, G, A, E, C, D, p, q, w)
      BY <2>2, <2>3, Zenon DEF Rewarded
    <2>6. p \in Int
      BY <1>17
    <2> HIDE DEF f, p, q
    <2>7. AddedUp(SumFunction(f), Cardinality(G), Cardinality(A), Cardinality(E),
                  Cardinality(C), Cardinality(D), p, q, w)
      BY <1>3, <1>15, <1>17, <2>1, <2>4, <2>5, <2>6, SumOfKinds
    <2> QED BY <2>7 DEF a, e, c, d
  <1>25. GroupSum(g) = SumFunction(f)
    BY DEF GroupSum, G
  <1>26. /\ \A j \in Winners(G) : Reward(j) \in {w, p}
         /\ \A j \in Losers(G) : Reward(j) \in {0, q}
    <2>1. /\ \A j \in Winners(G) : j \in G /\ rows[j].success
          /\ \A j \in Losers(G) : j \in G /\ ~rows[j].success
      BY DEF Winners, Losers
    <2> HIDE DEF p, q
    <2> QED BY <1>19, <1>20, <1>23, <2>1
  <1> HIDE DEF f, p, q
  <1>27. \E y \in Nat, x \in Int :
           /\ HindsightRewards(a, e, c, d, b, s, y, x, w) /\ x <= 0 /\ w <= y
           /\ \A j \in Winners(G) : Reward(j) \in {w, y}
           /\ \A j \in Losers(G) : Reward(j) \in {0, x}
           /\ AddedUp(GroupSum(g), Cardinality(G), a, e, c, d, y, x, w)
    BY <1>17, <1>24, <1>25, <1>26, <1>28
  <1> HIDE DEF w
  <1> QED BY <1>18, <1>27 DEF G, T, F, A, E, C, D, a, e, c, d, b, s

-----------------------------------------------------------------------------
(* Signs of the advantages *)

\* A centred reward has the sign of its distance from the mean.
LEMMA Centred ==
  ASSUME NEW n \in Nat, NEW sum \in Int, NEW r \in Int, NEW w \in Nat
  PROVE  /\ r <= 0 /\ sum >= 0 => n * r - sum <= 0
         /\ r >= w /\ sum <= n * w => n * r - sum >= 0
  <1>1. ASSUME r <= 0 PROVE n * r <= 0
    <2>1. n * (-r) \in Nat
      BY <1>1, Z3
    <2>2. n * (-r) = -(n * r) /\ n * r \in Int
      BY Z3
    <2> QED BY <2>1, <2>2
  <1>2. ASSUME r >= w PROVE n * r >= n * w
    <2>1. r - w \in Nat
      BY <1>2
    <2>2. n * (r - w) \in Nat
      BY <2>1, Z3
    <2>3. n * (r - w) = n * r - n * w /\ n * r \in Int /\ n * w \in Int
      BY Z3
    <2> QED BY <2>2, <2>3
  <1>3. n * r \in Int /\ n * w \in Int
    OBVIOUS
  <1> QED BY <1>1, <1>2, <1>3

\* In groups that compare all trajectories fairly a lost row is not above the mean
\* and a won row not below it.
LEMMA Direction ==
  ASSUME RowsInv, PlainScores, NoHindsight \/ Hindsight, NEW i \in DOMAIN rows
  PROVE  LET g == rows[i].uid
         IN  /\ /\ ~rows[i].success
                /\ Size(g, FALSE) = 0 \/ 3 * Size(g, TRUE) <= 10 * Size(g, FALSE)
                => Adv(i) <= 0
             /\ rows[i].success /\ Size(g, TRUE) * Size(g, FALSE) <= 20 => Adv(i) >= 0
  <1> DEFINE g == rows[i].uid
             G == GroupRows(g)
             n == Cardinality(G)
             sum == GroupSum(g)
             r == Reward(i)
             w == 100 * Scale(g)
             b == Size(g, FALSE)
             s == Size(g, TRUE)
             Goal == /\ ~rows[i].success /\ (b = 0 \/ 3 * s <= 10 * b) => Adv(i) <= 0
                     /\ rows[i].success /\ s * b <= 20 => Adv(i) >= 0
  <1>1. i \in G /\ G \in SUBSET DOMAIN rows
    BY DEF GroupRows
  <1>2. n \in Nat
    <2> HIDE DEF G
    <2> QED BY <1>1, ScoreSum
  <1>3. w \in Nat /\ r \in Int /\ r = (IF rows[i].success THEN w ELSE 0) + rows[i].intrinsic
    BY <1>1, RewardParts
  <1>4. Adv(i) = IF n = 1 THEN r ELSE n * r - sum
    BY DEF Adv, GroupSum, GroupRows
  <1>5. b \in Nat /\ s \in Nat
    BY ArmFacts
  <1>13. sum \in Int
    <2> DEFINE f == [j \in G |-> Reward(j)]
    <2>1. IsFiniteSet(G) /\ f \in [G -> Int]
      <3>1. \A j \in G : Reward(j) \in Int
        BY RewardParts
      <3> HIDE DEF G
      <3> QED BY <1>1, <3>1, ScoreSum
    <2>2. sum = SumFunction(f)
      BY DEF GroupSum
    <2> HIDE DEF f, G
    <2> QED BY <2>1, <2>2, SumType
  <1> HIDE DEF g
  <1> SUFFICES Goal
    BY DEF g
  <1>6. ASSUME sum \in Int,
               ~rows[i].success /\ (b = 0 \/ 3 * s <= 10 * b) => r <= 0 /\ sum >= 0,
               rows[i].success /\ s * b <= 20 => r >= w /\ sum <= n * w
        PROVE  Goal
    <2> HIDE DEF n, sum, r, w, b, s
    <2>1. /\ r <= 0 /\ sum >= 0 => n * r - sum <= 0
          /\ r >= w /\ sum <= n * w => n * r - sum >= 0
      BY <1>2, <1>3, <1>6, Centred
    <2> QED BY <1>3, <1>4, <1>6, <2>1
  <1>7. CASE \A j \in G : rows[j].intrinsic = 0
    <2>1. sum \in Nat /\ sum <= n * w
      BY <1>7, PlainGroup
    <2>2. rows[i].intrinsic = 0
      BY <1>1, <1>7
    <2> HIDE DEF n, sum, r, w, b, s, G
    <2>3. ~rows[i].success => r <= 0 /\ sum >= 0
      BY <1>3, <2>1, <2>2
    <2>4. rows[i].success => r >= w /\ sum <= n * w
      BY <1>3, <2>1, <2>2
    <2> HIDE DEF Goal
    <2> QED BY <1>6, <2>1, <2>3, <2>4
  <1>8. CASE Hindsight /\ b > 0 /\ s > 0
    <2> DEFINE a == Cardinality(Winners(ArmRows(g, TRUE)))
               e == Cardinality(Losers(ArmRows(g, TRUE)))
               c == Cardinality(Winners(ArmRows(g, FALSE)))
               d == Cardinality(Losers(ArmRows(g, FALSE)))
    <2>1. PICK p \in Nat, q \in Int :
            /\ HindsightRewards(a, e, c, d, b, s, p, q, w) /\ q <= 0 /\ w <= p
            /\ \A j \in Winners(G) : Reward(j) \in {w, p}
            /\ \A j \in Losers(G) : Reward(j) \in {0, q}
            /\ AddedUp(sum, n, a, e, c, d, p, q, w)
      BY <1>8, HindsightGroup
    <2>2. a \in Nat /\ e \in Nat /\ c \in Nat /\ d \in Nat
      BY ArmKinds
    <2>3. /\ rows[i].success => r \in {w, p}
          /\ ~rows[i].success => r \in {0, q}
      BY <1>1, <2>1 DEF Winners, Losers
    <2>7. sum \in Int
      BY <1>13
    <2> HIDE DEF n, sum, r, w, b, s, a, e, c, d, Goal
    <2>8. ASSUME ~rows[i].success, b = 0 \/ 3 * s <= 10 * b PROVE r <= 0 /\ sum >= 0
      <3>1. 3 * s <= 10 * b
        BY <1>8, <2>8
      <3>2. 0 <= sum
        BY <1>3, <1>5, <2>1, <2>2, <3>1, GroupNotNegative
      <3> QED BY <2>1, <2>3, <2>8, <2>7, <3>2
    <2>9. ASSUME rows[i].success, s * b <= 20 PROVE r >= w /\ sum <= n * w
      <3>1. sum <= n * w
        BY <1>3, <1>5, <2>1, <2>2, <2>9, GroupNotAbove
      <3> QED BY <1>3, <2>1, <2>3, <2>9, <3>1
    <2> HIDE DEF n, sum, r, w, b, s, Goal
    <2> QED BY <1>6, <2>7, <2>8, <2>9
  <1>9. ASSUME Hindsight, b = 0 \/ s = 0, NEW j \in G PROVE rows[j].intrinsic = 0
    <2>1. j \in DOMAIN rows /\ rows[j].uid = g
      BY DEF GroupRows
    <2>2. s = 0 => ArmRows(g, TRUE) = {}
      <3>1. ArmRows(g, TRUE) \in SUBSET DOMAIN rows
        BY Zenon DEF ArmRows
      <3>2. IsFiniteSet(ArmRows(g, TRUE))
        BY <3>1, ScoreSum
      <3> QED BY <3>2, FS_EmptySet DEF Size
    <2>3. Intrinsic(j) = 0
      <3>1. ~(b > 0) \/ s = 0
        <4> HIDE DEF b, s
        <4> QED BY <1>9
      <3>2. ~(j \in ArmRows(g, TRUE) /\ Size(g, FALSE) > 0)
        BY <2>2, <3>1, Zenon
      <3> QED BY <2>1, <3>2, Zenon DEF Intrinsic
    <2> QED BY <1>9, <2>1, <2>3 DEF Hindsight
  <1>10. CASE NoHindsight
    BY <1>1, <1>7, <1>10 DEF NoHindsight
  <1>11. (b > 0 /\ s > 0) \/ (b = 0 \/ s = 0)
    <2> HIDE DEF b, s
    <2> QED BY <1>5
  <1> HIDE DEF b, s, G, Goal
  <1> QED BY <1>7, <1>8, <1>9, <1>10, <1>11

-----------------------------------------------------------------------------
(* What scores and hindsight rewards come from *)

\* An episode has earned 1 if it was won in its last step, and nothing while it runs.
EndInv ==
  \A e \in Envs :
    LET p == played[e]
    IN  /\ epReward[e] = IF Len(p) > 0 /\ p[Len(p)].won THEN 1 ELSE 0
        /\ ~isDone[e] => epReward[e] = 0

\* What the columns of success, score and hindsight reward have to do with each other.
ScoreInv ==
  /\ phase \in Scored /\ ~conf.penalty => PlainScores
  /\ phase \notin {"advantage", "update", "done", "failed"} => NoHindsight
  /\ phase = "advantage" => NoHindsight \/ Hindsight

\* A won episode is over.
LEMMA EndTurn ==
  ASSUME RolloutInv, EndInv, Turn
  PROVE  EndInv'
  <1>1. PICK out \in [Envs -> Running \cup Finished] :
          /\ \A e \in Envs : out[e] \in IF isDone[e] THEN Finished ELSE Running
          /\ PlayTurn(out)
    BY DEF Turn
  <1>2. Envs' = Envs
    BY DEF Turn, Envs
  <1>3. ASSUME NEW e \in Envs
        PROVE  LET p == played'[e]
               IN  /\ epReward'[e] = IF Len(p) > 0 /\ p[Len(p)].won THEN 1 ELSE 0
                   /\ ~isDone'[e] => epReward'[e] = 0
    <2>1. /\ played'[e] = IF isDone[e] THEN played[e] ELSE Append(played[e], out[e])
          /\ epReward'[e] = IF ~isDone[e] THEN epReward[e] + RewardOf(out[e]) ELSE epReward[e]
          /\ isDone'[e] = (isDone[e] \/ out[e].done)
      BY <1>1 DEF PlayTurn
    <2>2. /\ epReward[e] = IF Len(played[e]) > 0 /\ played[e][Len(played[e])].won THEN 1 ELSE 0
          /\ ~isDone[e] => epReward[e] = 0
      BY DEF EndInv
    <2>3. CASE isDone[e]
      BY <2>1, <2>2, <2>3
    <2>4. CASE ~isDone[e]
      <3> DEFINE p == Append(played[e], out[e])
      <3>1. played[e] \in Seq(Outcome)
        BY DEF RolloutInv, EpisodeInv
      <3>2. Len(p) > 0 /\ p[Len(p)] = out[e]
        BY <3>1
      <3>3. out[e].won => out[e].done
        BY <1>1, <2>4 DEF Running
      <3>4. epReward'[e] = RewardOf(out[e])
        <4>1. RewardOf(out[e]) \in Int
          BY DEF RewardOf
        <4> QED BY <2>1, <2>2, <2>4, <4>1
      <3>5. played'[e] = p
        BY <2>1, <2>4
      <3> HIDE DEF p
      <3> QED BY <2>1, <3>2, <3>3, <3>4, <3>5 DEF RewardOf
    <2> QED BY <2>3, <2>4
  <1> QED BY <1>2, <1>3 DEF EndInv

\* A step that plays nothing.
LEMMA EndFrame ==
  ASSUME EndInv, UNCHANGED <<conf, played, epReward, isDone>>
  PROVE  EndInv'
  BY DEF EndInv, Envs

\* A row earned 1 if its episode was won.
LEMMA RewardOfRow ==
  ASSUME RolloutInv, RowsInv, EndInv, NEW i \in DOMAIN rows
  PROVE  rows[i].reward = IF rows[i].success THEN 1 ELSE 0
  <1> DEFINE r == rows[i]
             p == played[r.traj]
  <1>1. r.traj \in Envs
    <2>1. r \in Row
      BY DEF RowsInv
    <2> QED BY <2>1 DEF Row
  <1>2. r.turn \in 1..Len(p) /\ r.reward = RewardsFrom(r.traj, 1) /\ r.success = p[Len(p)].won
    BY DEF RowsInv, OwnRow, StepRow
  <1>3. epReward[r.traj] = RewardsFrom(r.traj, 1) /\ p \in Seq(Outcome)
    BY <1>1 DEF RolloutInv, EpisodeInv
  <1>4. epReward[r.traj] = IF Len(p) > 0 /\ p[Len(p)].won THEN 1 ELSE 0
    BY <1>1 DEF EndInv
  <1>5. Len(p) > 0
    BY <1>2, <1>3
  <1> HIDE DEF r, p
  <1>6. r.reward = IF r.success THEN 1 ELSE 0
    BY <1>2, <1>3, <1>4, <1>5
  <1> QED BY <1>6 DEF r

\* What the hindsight reward and the properties depend on.
SameArm(r, s) ==
  /\ r.traj = s.traj /\ r.uid = s.uid /\ r.arm = s.arm /\ r.success = s.success
  /\ r.score = s.score

\* Rows alike in these columns have the same arms and the same hindsight reward.
LEMMA SameHindsight ==
  ASSUME RowsInv, DOMAIN rows' = DOMAIN rows, \A i \in DOMAIN rows : SameArm(rows'[i], rows[i])
  PROVE  /\ \A g, arm : Size(g, arm)' = Size(g, arm)
         /\ \A i \in DOMAIN rows : Intrinsic(i)' = Intrinsic(i)
  <1>1. /\ \A i \in DOMAIN rows :
             /\ rows'[i].traj = rows[i].traj /\ rows'[i].uid = rows[i].uid
             /\ rows'[i].arm = rows[i].arm /\ rows'[i].score = rows[i].score
    BY DEF SameArm
  <1>2. \A i \in DOMAIN rows : FirstOfTraj(i)' <=> FirstOfTraj(i)
    <2>1. rows \in Seq(Row)
      BY DEF RowsInv
    <2>2. \A i \in DOMAIN rows : \A j \in 1..(i - 1) : j \in DOMAIN rows
      BY <2>1
    <2> QED BY <1>1, <2>2 DEF FirstOfTraj
  <1>3. \A g, arm : ArmRows(g, arm)' = ArmRows(g, arm) /\ ArmRows(g, arm) \in SUBSET DOMAIN rows
    BY <1>1, <1>2 DEF ArmRows
  <1>4. \A g, arm : Size(g, arm)' = Size(g, arm)
    BY <1>3 DEF Size
  <1>5. \A g, arm : Total(ArmRows(g, arm))' = Total(ArmRows(g, arm))
    <2>1. ASSUME NEW S \in SUBSET DOMAIN rows
          PROVE  [i \in S |-> rows'[i].score] = [i \in S |-> rows[i].score]
      BY <1>1
    <2> SUFFICES ASSUME NEW g, NEW arm
                 PROVE  Total(ArmRows(g, arm))' = Total(ArmRows(g, arm))
      OBVIOUS
    <2> DEFINE S == ArmRows(g, arm)
    <2>2. S \in SUBSET DOMAIN rows
      BY <1>3
    <2>3. Total(ArmRows(g, arm))' = SumFunction([i \in S |-> rows'[i].score])
      BY <1>3 DEF Total
    <2>4. Total(ArmRows(g, arm)) = SumFunction([i \in S |-> rows[i].score])
      BY DEF Total
    <2> HIDE DEF S
    <2> QED BY <2>1, <2>2, <2>3, <2>4
  <1>6. \A g : /\ LambdaPlus(g)' = LambdaPlus(g) /\ LambdaMinus(g)' = LambdaMinus(g)
    <2>1. \A g : ArmGain(g)' = ArmGain(g)
      BY <1>4, <1>5 DEF ArmGain
    <2> QED BY <1>4, <2>1 DEF LambdaPlus, LambdaMinus
  <1>7. \A i \in DOMAIN rows : Delta(i)' = Delta(i)
    BY <1>1, <1>4, <1>5 DEF Delta
  <1>8. ASSUME NEW i \in DOMAIN rows PROVE Intrinsic(i)' = Intrinsic(i)
    <2>1. rows'[i].uid = rows[i].uid
      BY <1>1
    <2> QED BY <1>3, <1>4, <1>6, <1>7, <2>1 DEF Intrinsic
  <1> QED BY <1>4, <1>8

\* Rows that are copied, moved or given other columns still have no hindsight reward.
LEMMA ScoreKept ==
  ASSUME NoHindsight, phase' \notin Scored,
         \A i \in DOMAIN rows' : \E j \in DOMAIN rows : rows'[i].intrinsic = rows[j].intrinsic
  PROVE  ScoreInv'
  <1>1. NoHindsight'
    BY DEF NoHindsight
  <1>2. phase' # "advantage"
    BY DEF Scored
  <1> QED BY <1>1, <1>2 DEF ScoreInv

\* Before the rollout is gathered there are no rows to score.
LEMMA ScoreNoRows ==
  ASSUME rows' = <<>>, phase' \in {"turn", "failed", "gather"}
  PROVE  ScoreInv'
  <1>1. NoHindsight'
    BY DEF NoHindsight
  <1>2. phase' # "advantage" /\ phase' \notin Scored
    BY DEF Scored
  <1> QED BY <1>1, <1>2 DEF ScoreInv

\* Gathered rows have no scores yet.
LEMMA ScoreGather ==
  ASSUME GroupInv, RolloutInv, Gather
  PROVE  ScoreInv'
  <1> DEFINE f == rows'
  <1>1. phase = "gather" /\ phase' = "returns"
    BY DEF Gather
  <1>2. f \in Seq(Row) /\ Collected(f)
    BY <1>1, GatherCollects DEF Gather
  <1>3. \A i \in DOMAIN f : f[i].intrinsic = 0
    <2>1. \A i \in 1..Len(f) : f[i] = Annotate(total[f[i].traj][f[i].turn])
      BY <1>2 DEF Collected
    <2>2. DOMAIN f = 1..Len(f)
      BY <1>2
    <2>3. \A row : Annotate(row).intrinsic = 0
      BY DEF Annotate
    <2> HIDE DEF f
    <2> SUFFICES ASSUME NEW i \in DOMAIN f PROVE f[i].intrinsic = 0
      OBVIOUS
    <2>4. f[i] = Annotate(total[f[i].traj][f[i].turn])
      BY <2>1, <2>2
    <2> QED BY <2>3, <2>4
  <1>4. NoHindsight'
    BY <1>3 DEF NoHindsight
  <1>5. phase' # "advantage" /\ phase' \notin Scored
    BY <1>1 DEF Scored
  <1> QED BY <1>4, <1>5 DEF ScoreInv

\* Step returns are a column of their own.
LEMMA ScoreReturns ==
  ASSUME RowsInv, ScoreInv, StepReturns
  PROVE  ScoreInv'
  <1>1. phase' \notin Scored /\ NoHindsight
    BY DEF StepReturns, Scored, ScoreInv
  <1>2. \A i \in DOMAIN rows' : \E j \in DOMAIN rows : rows'[i].intrinsic = rows[j].intrinsic
    <2>1. ASSUME NEW i \in DOMAIN rows PROVE rows[i] \in Row
      BY DEF RowsInv
    <2>2. CASE rows' = rows
      BY <2>2
    <2>3. CASE rows' = [i \in DOMAIN rows |-> [rows[i] EXCEPT !.ret = Return(i)]]
      <3> SUFFICES ASSUME NEW i \in DOMAIN rows
                   PROVE  rows'[i].intrinsic = rows[i].intrinsic
        BY <2>3
      <3>1. rows'[i] = [rows[i] EXCEPT !.ret = Return(i)]
        BY <2>3
      <3> QED BY <2>1, <3>1 DEF Row
    <2> QED BY <2>2, <2>3 DEF StepReturns
  <1> QED BY <1>1, <1>2, ScoreKept

\* Filling up copies rows that are there.
LEMMA ScoreAdjust ==
  ASSUME GroupInv, RowsInv, ScoreInv, Adjust
  PROVE  ScoreInv'
  <1> DEFINE k == Len(rows)
             toAdd == PadSize(k, conf.divisor)
  <1>1. phase' \notin Scored /\ NoHindsight
    BY DEF Adjust, Scored, ScoreInv
  <1>2. CASE rows' = rows
    BY <1>1, <1>2, ScoreKept
  <1>3. ASSUME NEW d \in Draws(k, toAdd), rows' = rows \o [i \in 1..toAdd |-> rows[d[i]]]
        PROVE  ScoreInv'
    <2> DEFINE extra == [i \in 1..toAdd |-> rows[d[i]]]
    <2>1. rows \in Seq(Row) /\ k \in Nat /\ DOMAIN rows = 1..k
      BY DEF RowsInv
    <2> HIDE DEF k
    <2>2. toAdd \in Nat
      BY <2>1, SetupFacts, PadFits
    <2> HIDE DEF toAdd
    <2>3. \A i \in 1..toAdd : d[i] \in 1..k
      BY <1>3 DEF Draws
    <2>4. extra \in Seq(Row) /\ Len(extra) = toAdd
          /\ \A i \in 1..toAdd : extra[i] = rows[d[i]]
      BY <2>1, <2>2, <2>3
    <2>5. rows' = rows \o extra
      BY <1>3
    <2> HIDE DEF extra
    <2>6. /\ DOMAIN rows' = 1..(k + toAdd)
          /\ \A i \in 1..k : rows'[i] = rows[i]
          /\ \A i \in 1..toAdd : rows'[k + i] = rows[d[i]]
      <3>1. /\ rows \o extra \in Seq(Row)
            /\ Len(rows \o extra) = Len(rows) + Len(extra)
            /\ \A i \in 1..Len(rows) : (rows \o extra)[i] = rows[i]
            /\ \A i \in 1..Len(extra) : (rows \o extra)[Len(rows) + i] = extra[i]
        BY <2>1, <2>4
      <3> QED BY <2>4, <2>5, <3>1 DEF k
    <2>7. ASSUME NEW i \in DOMAIN rows' PROVE \E j \in DOMAIN rows : rows'[i] = rows[j]
      <3>1. CASE i <= k
        BY <2>1, <2>2, <2>6, <3>1
      <3>2. CASE i > k
        <4>1. i - k \in 1..toAdd /\ k + (i - k) = i
          BY <2>1, <2>2, <2>6, <3>2
        <4> QED BY <2>1, <2>3, <2>6, <4>1
      <3> QED BY <2>1, <2>2, <2>6, <3>1, <3>2
    <2> QED BY <1>1, <2>7, ScoreKept
  <1> QED BY <1>2, <1>3 DEF Adjust

\* Reordering takes rows that are there.
LEMMA ScoreBalance ==
  ASSUME GroupInv, RowsInv, ScoreInv, Balance
  PROVE  ScoreInv'
  <1> DEFINE k == Len(rows)
  <1>1. phase' \notin Scored /\ NoHindsight
    BY DEF Balance, Scored, ScoreInv
  <1>2. k \in Nat /\ DOMAIN rows = 1..k
    BY DEF RowsInv
  <1>3. PICK p \in EqualParts(k) :
          rows' = [n \in DOMAIN rows |-> rows[CHOOSE i \in DOMAIN rows : Place(p, i) = n]]
    BY DEF Balance
  <1> HIDE DEF k
  <1>4. ASSUME NEW n \in DOMAIN rows' PROVE \E j \in DOMAIN rows : rows'[n] = rows[j]
    <2>1. p \in [1..k -> 1..conf.workers] /\ conf.workers \in Nat
      BY <1>3, SetupFacts DEF EqualParts
    <2>2. OnePlaceEach(p, k)
      BY <1>2, <2>1, PlaceOnce
    <2>3. n \in 1..k
      BY <1>2, <1>3
    <2>4. \E i \in DOMAIN rows : Place(p, i) = n
      BY <1>2, <2>2, <2>3 DEF OnePlaceEach
    <2> DEFINE j == CHOOSE i \in DOMAIN rows : Place(p, i) = n
    <2>5. j \in DOMAIN rows
      BY <2>4
    <2>6. rows'[n] = rows[j]
      BY <1>2, <1>3, <2>3
    <2> QED BY <2>5, <2>6
  <1> QED BY <1>1, <1>4, ScoreKept

\* Log probabilities are a column of their own.
LEMMA ScoreLogProb ==
  ASSUME RowsInv, ScoreInv, LogProb
  PROVE  ScoreInv'
  <1>1. phase' \notin Scored /\ NoHindsight
    BY DEF LogProb, Scored, ScoreInv
  <1> DEFINE value(i) == LogProbOf(OnWorkers(rows)[i])
  <1>2. rows' = [i \in DOMAIN rows |-> [rows[i] EXCEPT !.logp = value(i)]]
    BY DEF LogProb
  <1> HIDE DEF value
  <1>3. ASSUME NEW i \in DOMAIN rows PROVE rows'[i].intrinsic = rows[i].intrinsic
    <2>1. rows[i] \in Row /\ rows'[i] = [rows[i] EXCEPT !.logp = value(i)]
      BY <1>2 DEF RowsInv
    <2> QED BY <2>1 DEF Row
  <1> QED BY <1>1, <1>2, <1>3, ScoreKept

\* Without the penalty the score is the reward of the episode.
LEMMA ScoreScores ==
  ASSUME GroupInv, RolloutInv, RowsInv, EndInv, ScoreInv, Scores
  PROVE  ScoreInv'
  <1>1. phase' = "ahsr" /\ conf' = conf /\ NoHindsight
    BY DEF Scores, ScoreInv
  <1> DEFINE ret(i) == IF conf.gigpo THEN rows[i].ret - Penalty(rows[i]) ELSE rows[i].ret
  <1>2. rows' = [i \in DOMAIN rows |->
                   [rows[i] EXCEPT !.score = Score(rows[i]), !.ret = ret(i)]]
    BY DEF Scores
  <1> HIDE DEF ret
  <1>3. ASSUME NEW i \in DOMAIN rows
        PROVE  /\ rows'[i].score = Score(rows[i]) /\ rows'[i].success = rows[i].success
               /\ rows'[i].intrinsic = rows[i].intrinsic
    <2>1. rows'[i] = [rows[i] EXCEPT !.score = Score(rows[i]), !.ret = ret(i)]
      BY <1>2
    <2>2. rows[i] \in Row
      BY DEF RowsInv
    <2> QED BY <2>1, <2>2 DEF Row
  <1>4. NoHindsight'
    BY <1>1, <1>2, <1>3 DEF NoHindsight
  <1>5. ASSUME ~conf.penalty PROVE PlainScores'
    <2>1. ASSUME NEW i \in DOMAIN rows
          PROVE  Score(rows[i]) = IF rows[i].success THEN 100 ELSE 0
      <3>1. Penalty(rows[i]) = 0
        BY <1>5 DEF Penalty
      <3>2. rows[i].reward = IF rows[i].success THEN 1 ELSE 0
        BY RewardOfRow
      <3> QED BY <3>1, <3>2 DEF Score
    <2>2. DOMAIN rows' = DOMAIN rows
      BY <1>2
    <2>3. \A i \in DOMAIN rows : rows'[i].score = IF rows'[i].success THEN 100 ELSE 0
      BY <1>3, <2>1
    <2> QED BY <2>2, <2>3 DEF PlainScores
  <1> QED BY <1>1, <1>4, <1>5 DEF ScoreInv

\* The hindsight reward is computed from columns it leaves alone.
LEMMA ScoreAhsr ==
  ASSUME RowsInv, ScoreInv, Ahsr
  PROVE  ScoreInv'
  <1>1. phase = "ahsr" /\ phase' = "advantage" /\ conf' = conf
    BY DEF Ahsr, rollout
  <1>2. NoHindsight /\ (~conf.penalty => PlainScores)
    BY <1>1 DEF ScoreInv, Scored
  <1>3. CASE rows' = rows
    <2>1. NoHindsight' /\ (~conf.penalty => PlainScores')
      BY <1>2, <1>3 DEF NoHindsight, PlainScores
    <2> QED BY <1>1, <2>1 DEF ScoreInv
  <1>4. CASE rows' = [i \in DOMAIN rows |-> [rows[i] EXCEPT !.intrinsic = Intrinsic(i)]]
    <2>1. ASSUME NEW i \in DOMAIN rows
          PROVE  SameArm(rows'[i], rows[i]) /\ rows'[i].intrinsic = Intrinsic(i)
      <3>1. rows[i] \in Row /\ rows'[i] = [rows[i] EXCEPT !.intrinsic = Intrinsic(i)]
        BY <1>4 DEF RowsInv
      <3> QED BY <3>1 DEF Row, SameArm
    <2>2. DOMAIN rows' = DOMAIN rows
      BY <1>4
    <2>3. \A i \in DOMAIN rows : Intrinsic(i)' = Intrinsic(i)
      BY <2>1, <2>2, SameHindsight
    <2>4. Hindsight'
      BY <2>1, <2>2, <2>3 DEF Hindsight
    <2>5. ~conf.penalty => PlainScores'
      BY <1>2, <2>1, <2>2 DEF PlainScores, SameArm
    <2> QED BY <1>1, <2>4, <2>5 DEF ScoreInv
  <1> QED BY <1>3, <1>4 DEF Ahsr

\* The advantages have the signs they should have.
LEMMA DirectionAdvantage ==
  ASSUME RowsInv, ScoreInv, Advantage
  PROVE  ScoreInv' /\ LostNotReinforced' /\ WonNotDiscouraged'
  <1>1. /\ phase = "advantage" /\ phase' = "update" /\ conf' = conf
        /\ rows' = [i \in DOMAIN rows |-> [rows[i] EXCEPT !.adv = Adv(i)]]
    BY DEF Advantage, rollout
  <1>2. (NoHindsight \/ Hindsight) /\ (~conf.penalty => PlainScores)
    BY <1>1 DEF ScoreInv, Scored
  <1>3. ASSUME NEW i \in DOMAIN rows
        PROVE  SameArm(rows'[i], rows[i]) /\ rows'[i].adv = Adv(i)
    <2>1. rows[i] \in Row /\ rows'[i] = [rows[i] EXCEPT !.adv = Adv(i)]
      BY <1>1 DEF RowsInv
    <2> QED BY <2>1 DEF Row, SameArm
  <1>4. DOMAIN rows' = DOMAIN rows
    BY <1>1
  <1>5. \A g, arm : Size(g, arm)' = Size(g, arm)
    BY <1>3, <1>4, SameHindsight
  <1>6. ScoreInv'
    <2>1. ~conf.penalty => PlainScores'
      BY <1>2, <1>3, <1>4 DEF PlainScores, SameArm
    <2> QED BY <1>1, <2>1 DEF ScoreInv
  <1>7. ASSUME ~conf.penalty, NEW i \in DOMAIN rows
        PROVE  LET g == rows[i].uid
               IN  /\ /\ ~rows[i].success
                      /\ Size(g, FALSE) = 0 \/ 3 * Size(g, TRUE) <= 10 * Size(g, FALSE)
                      => Adv(i) <= 0
                   /\ rows[i].success /\ Size(g, TRUE) * Size(g, FALSE) <= 20 => Adv(i) >= 0
    BY <1>2, <1>7, Direction
  <1>8. LostNotReinforced'
    BY <1>1, <1>3, <1>4, <1>5, <1>7 DEF LostNotReinforced, OnlySuccess, SameArm
  <1>9. WonNotDiscouraged'
    BY <1>1, <1>3, <1>4, <1>5, <1>7 DEF WonNotDiscouraged, OnlySuccess, SameArm
  <1> QED BY <1>6, <1>8, <1>9

\* The inductive invariant, besides BatchInv.
DirectionInv == EndInv /\ ScoreInv /\ LostNotReinforced /\ WonNotDiscouraged

\* It holds at the start ...
LEMMA DirectionInit == InitRollout => DirectionInv
  <1> SUFFICES ASSUME InitRollout PROVE DirectionInv
    OBVIOUS
  <1>1. EndInv
    BY DEF InitRollout, EndInv
  <1>2. ScoreInv /\ ~OnlySuccess
    BY DEF InitRollout, ScoreInv, Scored, NoHindsight, OnlySuccess
  <1> QED BY <1>1, <1>2 DEF DirectionInv, LostNotReinforced, WonNotDiscouraged

\* The update leaves the rows alone.
LEMMA DirectionFrame ==
  ASSUME ScoreInv, LostNotReinforced, WonNotDiscouraged, UNCHANGED <<conf, rows>>,
         phase' = phase \/ (phase = "update" /\ phase' \in {"done", "failed"})
  PROVE  ScoreInv' /\ LostNotReinforced' /\ WonNotDiscouraged'
  <1>1. /\ PlainScores' <=> PlainScores
        /\ NoHindsight' <=> NoHindsight
    BY DEF PlainScores, NoHindsight
  <1>2. \A g, arm : ArmRows(g, arm)' = ArmRows(g, arm)
    BY DEF ArmRows, FirstOfTraj
  <1>3. \A g, arm : Size(g, arm)' = Size(g, arm)
    BY <1>2 DEF Size
  <1>4. Hindsight' <=> Hindsight
    <2>1. \A i : Intrinsic(i)' = Intrinsic(i)
      <3>1. \A g, arm : Total(ArmRows(g, arm))' = Total(ArmRows(g, arm))
        BY <1>2 DEF Total
      <3>2. \A i : Delta(i)' = Delta(i)
        BY <1>3, <3>1 DEF Delta
      <3>3. \A g : LambdaPlus(g)' = LambdaPlus(g) /\ LambdaMinus(g)' = LambdaMinus(g)
        BY <1>3, <3>1 DEF LambdaPlus, LambdaMinus, ArmGain
      <3> QED BY <1>2, <1>3, <3>2, <3>3 DEF Intrinsic
    <2> QED BY <2>1 DEF Hindsight
  <1>5. ScoreInv'
    BY <1>1, <1>4 DEF ScoreInv, Scored
  <1>6. OnlySuccess' => OnlySuccess
    BY DEF OnlySuccess
  <1> QED BY <1>3, <1>5, <1>6 DEF LostNotReinforced, WonNotDiscouraged

\* ... and every step keeps it.
LEMMA DirectionStep == BatchInv /\ DirectionInv /\ [Next]_vars => DirectionInv'
  <1> SUFFICES ASSUME GroupInv, RolloutInv, RowsInv, EndInv, ScoreInv, LostNotReinforced,
                      WonNotDiscouraged, [Next]_vars
               PROVE  DirectionInv'
    BY DEF BatchInv, DirectionInv
  <1>1. ASSUME EndInv', ScoreInv', phase' \notin {"update", "done"} PROVE DirectionInv'
    BY <1>1 DEF DirectionInv, LostNotReinforced, WonNotDiscouraged, OnlySuccess
  <1>2. ASSUME UNCHANGED rollout, UNCHANGED conf PROVE EndInv'
    BY <1>2, EndFrame DEF rollout
  <1>3. CASE Reset
    <2>1. rows' = <<>> /\ phase' = "turn"
      BY <1>3 DEF Reset, RolloutInv
    <2>2. EndInv'
      BY <1>3, EndFrame DEF Reset
    <2> QED BY <1>1, <2>1, <2>2, ScoreNoRows
  <1>4. CASE Turn
    <2>1. rows' = <<>> /\ phase' \in {"turn", "failed", "gather"}
      BY <1>4 DEF Turn, RolloutInv, AfterLoop
    <2> QED BY <1>1, <1>4, <2>1, EndTurn, ScoreNoRows
  <1>5. CASE Gather
    <2>1. phase' = "returns"
      BY <1>5 DEF Gather
    <2> QED BY <1>1, <1>2, <1>5, <2>1, ScoreGather DEF Gather
  <1>6. CASE StepReturns
    <2>1. phase' = "adjust"
      BY <1>6 DEF StepReturns
    <2> QED BY <1>1, <1>2, <1>6, <2>1, ScoreReturns DEF StepReturns
  <1>7. CASE Adjust
    <2>1. phase' \in {"balance", "failed"}
      BY <1>7 DEF Adjust
    <2> QED BY <1>1, <1>2, <1>7, <2>1, ScoreAdjust DEF Adjust
  <1>8. CASE Balance
    <2>1. phase' = "logprob"
      BY <1>8 DEF Balance
    <2> QED BY <1>1, <1>2, <1>8, <2>1, ScoreBalance DEF Balance
  <1>9. CASE LogProb
    <2>1. phase' = "score"
      BY <1>9 DEF LogProb
    <2> QED BY <1>1, <1>2, <1>9, <2>1, ScoreLogProb DEF LogProb
  <1>10. CASE Scores
    <2>1. phase' = "ahsr"
      BY <1>10 DEF Scores
    <2> QED BY <1>1, <1>2, <1>10, <2>1, ScoreScores DEF Scores
  <1>11. CASE Ahsr
    <2>1. phase' = "advantage"
      BY <1>11 DEF Ahsr
    <2> QED BY <1>1, <1>2, <1>11, <2>1, ScoreAhsr DEF Ahsr
  <1>12. CASE Advantage
    <2>1. EndInv'
      BY <1>2, <1>12 DEF Advantage
    <2> QED BY <1>12, <2>1, DirectionAdvantage DEF DirectionInv
  <1>13. ASSUME UNCHANGED <<conf, rollout, rows>>,
                phase' = phase \/ (phase = "update" /\ phase' \in {"done", "failed"})
         PROVE  DirectionInv'
    <2>1. EndInv'
      BY <1>2, <1>13
    <2>2. ScoreInv' /\ LostNotReinforced' /\ WonNotDiscouraged'
      BY <1>13, DirectionFrame
    <2> QED BY <2>1, <2>2 DEF DirectionInv
  <1>14. CASE Update
    BY <1>13, <1>14 DEF Update
  <1>15. CASE UNCHANGED vars
    BY <1>13, <1>15 DEF vars
  <1>16. CASE Over
    BY <1>15, <1>16 DEF Over
  <1> QED BY <1>3, <1>4, <1>5, <1>6, <1>7, <1>8, <1>9, <1>10, <1>11, <1>12,
             <1>14, <1>15, <1>16 DEF Next, NextRollout

\* In every configuration no step of a lost episode is reinforced, whatever was
\* copied, as long as the skill arm of its group is at most 10/3 of the other.
THEOREM LostIsNotReinforced == Spec => []LostNotReinforced
  BY BatchInit, BatchStep, DirectionInit, DirectionStep, PTL DEF Spec, DirectionInv

\* In every configuration no step of a won episode is discouraged, as long as the
\* arms of its group have a product of at most 20.
THEOREM WonIsNotDiscouraged == Spec => []WonNotDiscouraged
  BY BatchInit, BatchStep, DirectionInit, DirectionStep, PTL DEF Spec, DirectionInv
=============================================================================
