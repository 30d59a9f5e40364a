---------------------------- MODULE SkillUseProofs ----------------------------
(***************************************************************************)
(* Theorems of SkillUse, for every skills file, every configuration of     *)
(* retrieval and every bound: caches are fresh, what is learned from       *)
(* validation stays out of the banks that are validated and published, no  *)
(* skill is merged away without another that stands for it, none is evicted *)
(* that has not earned it, and a rejected round leaves no trace in what the *)
(* prompts show.                                                           *)
(***************************************************************************)
EXTENDS SkillUse, SkillMemoryProofs

-----------------------------------------------------------------------------
(* Banks and what is retrieved from them *)

LEMMA BankIsBanks == Bank = Banks(Skill)
  BY DEF Bank, Banks

LEMMA TypesInLists == General \in Lists /\ Types \subseteq Lists /\ General \notin Types
  BY OrderType

\* The ids of a bank.
LEMMA BankIds ==
  ASSUME NEW lists \in Bank
  PROVE  /\ Walk(lists) \in Seq(Skill)
         /\ ToSet(Walk(lists)) = UNION {ToSet(lists[c]) : c \in Lists}
         /\ ToSet(Walk(lists)) \subseteq Skill
         /\ Ids(lists) \in SUBSET SkillId
         /\ \A i : i \in Ids(lists) <=> \E c \in Lists : Holds(lists[c], i)
         /\ \A c \in Lists : /\ lists[c] \in Seq(Skill) /\ ToSet(lists[c]) \subseteq Skill
                             /\ \A s \in ToSet(lists[c]) : s.id \in Ids(lists)
  <1>1. lists \in Banks(Skill)
    BY BankIsBanks
  <1>2. /\ Walk(lists) \in Seq(Skill)
        /\ ToSet(Walk(lists)) = UNION {ToSet(lists[c]) : c \in Lists}
    BY <1>1, WalkSet
  <1>3. \A i : i \in Ids(lists) <=> \E c \in Lists : Holds(lists[c], i)
    BY <1>1, IdsHeld
  <1>4. \A c \in Lists : lists[c] \in Seq(Skill) /\ ToSet(lists[c]) \subseteq Skill
    BY <1>1 DEF Banks, ToSet
  <1>5. ToSet(Walk(lists)) \subseteq Skill
    BY <1>2, <1>4
  <1>6. Ids(lists) \in SUBSET SkillId
    BY <1>5 DEF Ids, Skill
  <1>7. \A c \in Lists : \A s \in ToSet(lists[c]) : s.id \in Ids(lists)
    BY <1>2 DEF Ids
  <1> QED BY <1>2, <1>3, <1>4, <1>5, <1>6, <1>7

LEMMA BankItems ==
  ASSUME NEW lists \in Bank
  PROVE  \A i : i \in Ids(lists) <=> \E c \in Lists : \E s \in ToSet(lists[c]) : s.id = i
  <1>1. ToSet(Walk(lists)) = UNION {ToSet(lists[c]) : c \in Lists}
    BY BankIds
  <1> QED BY <1>1 DEF Ids

\* There are finitely many of them.
LEMMA BankFinite ==
  ASSUME NEW lists \in Bank
  PROVE  IsFiniteSet(Ids(lists))
  <1> DEFINE n == Len(Walk(lists))
             f == [k \in 1..n |-> Walk(lists)[k].id]
  <1>1. Walk(lists) \in Seq(Skill)
    BY BankIds
  <1>2. n \in Nat /\ DOMAIN Walk(lists) = 1..n
    BY <1>1
  <1>3. \A i \in Ids(lists) : \E k \in 1..n : f[k] = i
    BY <1>2 DEF Ids, ToSet
  <1>4. \A k \in 1..n : f[k] \in Ids(lists)
    BY <1>2 DEF Ids, ToSet
  <1>5. f \in [1..n -> Ids(lists)]
    BY <1>4
  <1> HIDE DEF n, f
  <1>6. f \in Surjection(1..n, Ids(lists))
    BY <1>3, <1>5 DEF Surjection
  <1>7. IsFiniteSet(1..n)
    BY <1>2, FS_Interval
  <1> QED BY <1>6, <1>7, FS_Surjection

\* Lists of skills each of which is of a kind.
LEMMA BankOf ==
  ASSUME NEW lists \in Bank, NEW S
  PROVE  lists \in Banks(S) <=> \A c \in Lists : \A s \in ToSet(lists[c]) : s \in S
  <1>1. ASSUME lists \in Banks(S), NEW c \in Lists, NEW s \in ToSet(lists[c])
        PROVE  s \in S
    BY <1>1 DEF Banks, ToSet
  <1>2. ASSUME \A c \in Lists : \A s \in ToSet(lists[c]) : s \in S
        PROVE  lists \in Banks(S)
    <2>1. \A c \in Lists : lists[c] \in Seq(S)
      <3> TAKE c \in Lists
      <3>1. lists[c] \in Seq(Skill)
        BY DEF Bank
      <3>2. \A k \in 1..Len(lists[c]) : lists[c][k] \in S
        BY <1>2, <3>1 DEF ToSet
      <3> QED BY <3>1, <3>2
    <2> QED BY <2>1 DEF Bank, Banks
  <1> QED BY <1>1, <1>2

LEMMA SkillParts ==
  ASSUME NEW s \in Skill
  PROVE  /\ s.utility \in Int /\ s.utility \in 0..MaxUtility
         /\ s.id \in SkillId /\ s.id.n \in 1..MaxIndex /\ s.text \in Text
         /\ s.id = [pfx |-> s.id.pfx, n |-> s.id.n]
  <1>1. s.utility \in 0..MaxUtility /\ s.id \in SkillId /\ s.text \in Text
    BY DEF Skill
  <1>2. s.id.n \in 1..MaxIndex /\ s.id = [pfx |-> s.id.pfx, n |-> s.id.n]
    BY <1>1 DEF SkillId
  <1>3. \A u \in 0..MaxUtility : u \in Int
    BY DEF MaxUtility
  <1> QED BY <1>1, <1>2, <1>3

Item == [id : SkillId, text : Text]
Memory == [lists : Bank, cache : SUBSET [Lists -> Seq(Item)]]

\* A memory whose cache, if it has one, is that of its lists.
Sound(m) == m \in Memory /\ m.cache \subseteq {Embed(m.lists)}

LEMMA EmbedType ==
  ASSUME NEW lists \in Bank
  PROVE  /\ Embed(lists) \in [Lists -> Seq(Item)]
         /\ \A c \in Lists : ToSet(Embed(lists)[c]) = {Content(s) : s \in ToSet(lists[c])}
  <1> SUFFICES ASSUME NEW c \in Lists
               PROVE  /\ Embed(lists)[c] \in Seq(Item)
                      /\ ToSet(Embed(lists)[c]) = {Content(s) : s \in ToSet(lists[c])}
    BY DEF Embed
  <1> DEFINE e == [k \in DOMAIN lists[c] |-> Content(lists[c][k])]
  <1>1. Embed(lists)[c] = e
    BY DEF Embed
  <1>2. lists[c] \in Seq(Skill)
    BY BankIds
  <1>3. DOMAIN lists[c] = 1..Len(lists[c]) /\ Len(lists[c]) \in Nat
    BY <1>2
  <1>4. \A k \in 1..Len(lists[c]) : lists[c][k] \in Skill
    BY <1>2
  <1>5. \A s \in Skill : Content(s) \in Item
    BY DEF Content, Skill, Item
  <1>6. e \in [1..Len(lists[c]) -> Item]
    BY <1>3, <1>4, <1>5
  <1>7. e \in Seq(Item) /\ DOMAIN e = DOMAIN lists[c]
    BY <1>3, <1>6
  <1>8. ToSet(e) = {Content(s) : s \in ToSet(lists[c])}
    BY <1>7 DEF ToSet
  <1> QED BY <1>1, <1>7, <1>8

LEMMA SoundChanged ==
  ASSUME NEW lists \in Bank
  PROVE  Sound(Changed(lists)) /\ Changed(lists).lists = lists
  BY DEF Sound, Changed, Memory

LEMMA SoundLoaded ==
  ASSUME NEW lists \in Bank, NEW mode
  PROVE  Sound(Loaded(lists, mode)) /\ Loaded(lists, mode).lists = lists
  BY EmbedType DEF Sound, Loaded, Memory

LEMMA SoundWarm ==
  ASSUME NEW m, Sound(m), NEW mode
  PROVE  Sound(Warm(m, mode)) /\ Warm(m, mode).lists = m.lists
  <1>1. m.lists \in Bank
    BY DEF Sound, Memory
  <1> QED BY <1>1, SoundLoaded DEF Warm

LEMMA SoundSync ==
  ASSUME NEW m, Sound(m), NEW lists \in Bank
  PROVE  Sound(SyncSkillToEnv(m, lists)) /\ SyncSkillToEnv(m, lists).lists = lists
  BY DEF Sound, SyncSkillToEnv, Memory

LEMMA SoundCardinality ==
  ASSUME NEW m, Sound(m)
  PROVE  Cardinality(m.cache) <= 1
  <1>1. m.cache = {} \/ m.cache = {Embed(m.lists)}
    BY DEF Sound
  <1>2. Cardinality({}) = 0 /\ Cardinality({Embed(m.lists)}) = 1
    BY FS_EmptySet, FS_Singleton, Zenon
  <1> QED BY <1>1, <1>2

\* The first items of a list.
LEMMA FirstWithin ==
  ASSUME NEW list \in Seq(Skill), NEW k \in Nat
  PROVE  FirstOf(list, k) \subseteq ToSet(list)
  BY DEF FirstOf, ToSet

\* Prompts show skills the memory has.
LEMMA ShownHeld ==
  ASSUME NEW m, Sound(m), NEW t \in Types, conf \in Setups
  PROVE  ShownIds(m, t) \subseteq Ids(m.lists)
  <1> DEFINE has == ToSet(m.lists[General]) \cup ToSet(m.lists[t])
  <1>1. m.lists \in Bank
    BY DEF Sound, Memory
  <1>2. t \in Lists /\ General \in Lists
    BY TypesInLists
  <1>3. \A s \in has : Content(s).id \in Ids(m.lists)
    BY <1>1, <1>2, BankIds DEF Content
  <1>4. CASE conf.mode = "embedding"
    <2>1. Warm(m, conf.mode).cache \subseteq {Embed(m.lists)}
      BY SoundWarm DEF Sound
    <2>2. ToSet(Embed(m.lists)[General]) \cup ToSet(Embed(m.lists)[t])
            = {Content(s) : s \in has}
      <3>1. \A c \in Lists : ToSet(Embed(m.lists)[c]) = {Content(s) : s \in ToSet(m.lists[c])}
        BY <1>1, EmbedType
      <3> HIDE DEF has
      <3>2. ToSet(Embed(m.lists)[General]) = {Content(s) : s \in ToSet(m.lists[General])}
        BY <1>2, <3>1
      <3>3. ToSet(Embed(m.lists)[t]) = {Content(s) : s \in ToSet(m.lists[t])}
        BY <1>2, <3>1
      <3> QED BY <3>2, <3>3 DEF has
    <2>3. \A items \in Warm(m, conf.mode).cache :
            Closest(ToSet(items[General]), t, conf.topK)
              \cup Closest(ToSet(items[t]), t, conf.taskTopK)
            \subseteq ToSet(Embed(m.lists)[General]) \cup ToSet(Embed(m.lists)[t])
      BY <2>1 DEF Closest
    <2>4. Retrieve(m, t, conf)
            \subseteq ToSet(Embed(m.lists)[General]) \cup ToSet(Embed(m.lists)[t])
      BY <1>4, <2>3 DEF Retrieve
    <2>5. Retrieve(m, t, conf) \subseteq {Content(s) : s \in has}
      BY <2>2, <2>4
    <2> HIDE DEF has
    <2> QED BY <1>3, <2>5 DEF ShownIds
  <1>5. CASE conf.mode # "embedding"
    <2> DEFINE general == ToSet(m.lists[General])
               dynamic == Only(m.lists[General], {s \in general : Dynamic(s)})
               static  == Only(m.lists[General], {s \in general : ~Dynamic(s)})
               room    == conf.topK - Len(dynamic)
               rest    == IF room > 0 THEN room ELSE 0
               read    == ToSet(dynamic) \cup FirstOf(static, rest)
                            \cup FirstOf(m.lists[t], conf.taskTopK)
    <2>1. /\ m.lists[t] \in Seq(Skill) /\ m.lists[General] \in Seq(Skill)
          /\ dynamic \in Seq(Skill) /\ ToSet(dynamic) \subseteq general
          /\ static \in Seq(Skill) /\ ToSet(static) \subseteq general
      BY <1>1, <1>2, BankIds, OnlyType
    <2>2. conf.topK \in Nat /\ conf.taskTopK \in Nat
      BY SetupsAssumption
    <2>3. Retrieve(m, t, conf) = {Content(s) : s \in read}
      BY <1>5 DEF Retrieve, RetrieveTemplate
    <2> HIDE DEF dynamic, static
    <2>4. rest \in Nat
      BY <2>1, <2>2
    <2> HIDE DEF rest
    <2>5. /\ FirstOf(static, rest) \subseteq ToSet(static)
          /\ FirstOf(m.lists[t], conf.taskTopK) \subseteq ToSet(m.lists[t])
      BY <2>1, <2>2, <2>4, FirstWithin
    <2>6. read \subseteq has
      BY <2>1, <2>5
    <2> HIDE DEF read, has
    <2> QED BY <1>3, <2>3, <2>6 DEF ShownIds
  <1> QED BY <1>4, <1>5

-----------------------------------------------------------------------------
(* Pruning *)

LEMMA ClipBounds ==
  ASSUME NEW u \in 0..MaxUtility, NEW d \in Int
  PROVE  /\ Clip(u + d) \in 0..MaxUtility
         /\ d >= 0 => Clip(u + d) >= u
         /\ d <= 0 => Clip(u + d) >= u + d /\ Clip(u + d) <= u
  BY DEF Clip, MaxUtility

\* Utilities have changed, downwards at most by Loss and only of what is missing.
Scores(new) ==
  /\ new \in Bank
  /\ \A c \in Lists :
       /\ Len(new[c]) = Len(mem.lists[c])
       /\ \A k \in 1..Len(mem.lists[c]) :
            /\ new[c][k].id = mem.lists[c][k].id /\ new[c][k].text = mem.lists[c][k].text
            /\ new[c][k].utility >= mem.lists[c][k].utility - Loss
            /\ new[c][k].id \notin Missing =>
                 new[c][k].utility >= mem.lists[c][k].utility

LEMMA ScoredScores ==
  ASSUME mem.lists \in Bank
  PROVE  Scores(Scored)
  <1> DEFINE old == mem.lists
             one == Credit(old, Credited, Gain)
             two == Credit(one, Missing, -Loss)
  <1>1. Bank = Banks([id : SkillId, text : Text, utility : 0..MaxUtility])
    BY DEF Bank, Banks, Skill
  <1>2. Gain \in Int /\ Gain >= 0 /\ -Loss \in Int /\ Loss \in Int /\ Loss >= 0
    BY UtilityAssumption
  <1>3. Rated(one, old, Credited, Gain, Skill)
    BY <1>1, <1>2, CreditType DEF Skill
  <1>4. one \in Bank
    BY <1>3 DEF Rated, Banks, Bank
  <1>5. Rated(two, one, Missing, -Loss, Skill)
    BY <1>1, <1>2, <1>4, CreditType DEF Skill
  <1>6. two \in Bank
    BY <1>5 DEF Rated, Banks, Bank
  <1>7. Scored = two
    BY DEF Scored
  <1> HIDE DEF two, one, old
  <1>8. ASSUME NEW c \in Lists
        PROVE  /\ Len(two[c]) = Len(old[c])
               /\ \A k \in 1..Len(old[c]) :
                    /\ two[c][k].id = old[c][k].id /\ two[c][k].text = old[c][k].text
                    /\ two[c][k].utility >= old[c][k].utility - Loss
                    /\ two[c][k].id \notin Missing => two[c][k].utility >= old[c][k].utility
    <2>1. Len(two[c]) = Len(old[c]) /\ Len(one[c]) = Len(old[c])
      BY <1>3, <1>5 DEF Rated
    <2>2. SUFFICES ASSUME NEW k \in 1..Len(old[c])
                   PROVE  /\ two[c][k].id = old[c][k].id /\ two[c][k].text = old[c][k].text
                          /\ two[c][k].utility >= old[c][k].utility - Loss
                          /\ two[c][k].id \notin Missing =>
                               two[c][k].utility >= old[c][k].utility
      BY <2>1
    <2>3. old \in Bank
      BY DEF old
    <2>4. old[c][k] \in Skill /\ one[c][k] \in Skill
      <3>1. old[c] \in Seq(Skill) /\ one[c] \in Seq(Skill)
        BY <1>4, <2>3 DEF Bank
      <3> QED BY <2>1, <2>2, <3>1
    <2>5. /\ one[c][k].id = old[c][k].id /\ one[c][k].text = old[c][k].text
          /\ \/ one[c][k].utility = old[c][k].utility
             \/ one[c][k].utility = Clip(old[c][k].utility + Gain)
      BY <1>3, <2>2 DEF Rated
    <2>6. /\ two[c][k].id = one[c][k].id /\ two[c][k].text = one[c][k].text
          /\ \/ two[c][k].utility = one[c][k].utility
             \/ /\ one[c][k].id \in Missing
                /\ two[c][k].utility = Clip(one[c][k].utility + (-Loss))
      BY <1>5, <2>1, <2>2 DEF Rated
    <2>7. old[c][k].utility \in 0..MaxUtility /\ one[c][k].utility \in 0..MaxUtility
      BY <2>4 DEF Skill
    <2>8. Clip(old[c][k].utility + Gain) >= old[c][k].utility
      BY <1>2, <2>7, ClipBounds
    <2>9. Clip(one[c][k].utility + (-Loss)) >= one[c][k].utility + (-Loss)
      BY <1>2, <2>7, ClipBounds
    <2>0. \A u \in 0..MaxUtility : u \in Int
      BY DEF MaxUtility
    <2>10. one[c][k].utility >= old[c][k].utility
      BY <2>0, <2>5, <2>7, <2>8
    <2>11. \/ two[c][k].utility = one[c][k].utility
           \/ /\ two[c][k].id \in Missing
              /\ two[c][k].utility >= one[c][k].utility + (-Loss)
      BY <2>6, <2>9
    <2>12. two[c][k].utility \in Int
      <3>1. Clip(one[c][k].utility + (-Loss)) \in 0..MaxUtility
        BY <1>2, <2>7, ClipBounds
      <3> QED BY <2>0, <2>6, <2>7, <3>1
    <2>13. one[c][k].utility \in Int /\ old[c][k].utility \in Int
      BY <2>0, <2>7
    <2> QED BY <1>2, <2>5, <2>6, <2>10, <2>11, <2>12, <2>13
  <1>9. Scores(two)
    BY <1>6, <1>8 DEF Scores, old
  <1> QED BY <1>7, <1>9

\* The items of the lists once utilities have been brought up to date.
LEMMA ScoredItems ==
  ASSUME mem.lists \in Bank
  PROVE  /\ Scored \in Bank /\ Ids(Scored) = Ids(mem.lists)
         /\ Embed(Scored) = Embed(mem.lists)
         /\ \A c \in Lists : SameIds(Scored[c], mem.lists[c])
         /\ \A c \in Lists : \A s \in ToSet(Scored[c]) :
              \E r \in ToSet(mem.lists[c]) :
                /\ r.id = s.id /\ r.text = s.text
                /\ s.utility >= r.utility - Loss
                /\ s.id \notin Missing => s.utility >= r.utility
         /\ \A c \in Lists : \A r \in ToSet(mem.lists[c]) :
              \E s \in ToSet(Scored[c]) : s.id = r.id /\ s.text = r.text
  <1> DEFINE new == Scored
             old == mem.lists
  <1>1. Scores(new)
    BY ScoredScores
  <1>2. new \in Bank /\ old \in Bank
    BY <1>1 DEF Scores
  <1> HIDE DEF new
  <1>3. \A c \in Lists : /\ DOMAIN new[c] = 1..Len(old[c]) /\ DOMAIN old[c] = 1..Len(old[c])
                         /\ Len(new[c]) = Len(old[c])
    <2>1. \A c \in Lists : new[c] \in Seq(Skill) /\ old[c] \in Seq(Skill)
      BY <1>2 DEF Bank
    <2> QED BY <1>1, <2>1 DEF Scores
  <1>4. \A c \in Lists : \A k \in 1..Len(old[c]) :
          /\ new[c][k].id = old[c][k].id /\ new[c][k].text = old[c][k].text
          /\ new[c][k].utility >= old[c][k].utility - Loss
          /\ new[c][k].id \notin Missing => new[c][k].utility >= old[c][k].utility
    BY <1>1 DEF Scores
  <1>5. \A c \in Lists : SameIds(new[c], old[c])
    BY <1>3, <1>4 DEF SameIds
  <1>6. \A c \in Lists : \A s \in ToSet(new[c]) :
          \E r \in ToSet(old[c]) : /\ r.id = s.id /\ r.text = s.text
                                   /\ s.utility >= r.utility - Loss
                                   /\ s.id \notin Missing => s.utility >= r.utility
    <2> TAKE c \in Lists
    <2> TAKE s \in ToSet(new[c])
    <2>1. PICK k \in 1..Len(old[c]) : s = new[c][k]
      BY <1>3 DEF ToSet
    <2>2. old[c][k] \in ToSet(old[c])
      BY <1>3 DEF ToSet
    <2> QED BY <1>4, <2>1, <2>2
  <1>7. \A c \in Lists : \A r \in ToSet(old[c]) :
          \E s \in ToSet(new[c]) : s.id = r.id /\ s.text = r.text
    <2> TAKE c \in Lists
    <2> TAKE r \in ToSet(old[c])
    <2>1. PICK k \in 1..Len(old[c]) : r = old[c][k]
      BY <1>3 DEF ToSet
    <2>2. new[c][k] \in ToSet(new[c])
      BY <1>3 DEF ToSet
    <2> QED BY <1>4, <2>1, <2>2
  <1>8. Ids(new) = Ids(old)
    <2>1. \A i : i \in Ids(new) <=> \E c \in Lists : \E s \in ToSet(new[c]) : s.id = i
      BY <1>2, BankItems
    <2>2. \A i : i \in Ids(old) <=> \E c \in Lists : \E s \in ToSet(old[c]) : s.id = i
      BY <1>2, BankItems
    <2> HIDE DEF old
    <2>3. \A i : i \in Ids(new) => i \in Ids(old)
      BY <1>6, <2>1, <2>2
    <2>4. \A i : i \in Ids(old) => i \in Ids(new)
      BY <1>7, <2>1, <2>2
    <2> QED BY <2>3, <2>4
  <1>9. Embed(new) = Embed(old)
    <2>1. \A c \in Lists : [k \in DOMAIN new[c] |-> Content(new[c][k])]
                             = [k \in DOMAIN old[c] |-> Content(old[c][k])]
      <3> TAKE c \in Lists
      <3>1. \A k \in 1..Len(old[c]) : Content(new[c][k]) = Content(old[c][k])
        BY <1>4 DEF Content
      <3> QED BY <1>3, <3>1
    <2> QED BY <2>1 DEF Embed
  <1> QED BY <1>2, <1>5, <1>6, <1>7, <1>8, <1>9 DEF new

PrunedLists == Evict(Without(Scored, MergedIds))
PrunedIds   == MergedIds \cup Low(Without(Scored, MergedIds))

\* What pruning leaves, and what it names as gone.
Prunes(new, gone) ==
  /\ new \in Bank
  /\ \A c \in Lists :
       /\ ToSet(new[c]) = {s \in ToSet(Scored[c]) : s.id \notin MergedIds /\ ~Useless(s)}
       /\ SameIds(Statics(new[c]), Statics(Scored[c]))
       /\ Len(new[c]) \in Nat
       /\ (\A k, l \in 1..Len(Scored[c]) : Scored[c][k].id = Scored[c][l].id => k = l) =>
            \A k, l \in 1..Len(new[c]) : new[c][k].id = new[c][l].id => k = l
  /\ gone = {} => new = Scored
  /\ gone \subseteq Ids(mem.lists)
  /\ \A i \in gone : \E c \in Lists : \E s \in ToSet(Scored[c]) :
       s.id = i /\ Dynamic(s) /\ (i \in MergedIds \/ Useless(s))
  /\ \A c \in Lists : \A s \in ToSet(Scored[c]) :
       s.id \in gone \/ s \in ToSet(new[c])
  /\ MergedIds \subseteq gone

\* Filtering one list by two sets that let its static skills pass.
LEMMA FilterTwice ==
  ASSUME NEW list \in Seq(Skill), NEW a, NEW b,
         \A s \in ToSet(list) : ~Dynamic(s) => s \in a /\ s \in b
  PROVE  /\ Only(Only(list, a), b) \in Seq(Skill)
         /\ SameIds(Statics(Only(Only(list, a), b)), Statics(list))
         /\ (\A k, l \in 1..Len(list) : list[k].id = list[l].id => k = l) =>
              \A k, l \in 1..Len(Only(Only(list, a), b)) :
                Only(Only(list, a), b)[k].id = Only(Only(list, a), b)[l].id => k = l
  <1> DEFINE one == Only(list, a)
             two == Only(one, b)
  <1>1. one \in Seq(Skill) /\ ToSet(one) = ToSet(list) \cap a
    BY OnlyType
  <1>2. Statics(one) = Statics(list)
    BY StaticsFilter
  <1>3. ASSUME \A k, l \in 1..Len(list) : list[k].id = list[l].id => k = l
        PROVE  \A k, l \in 1..Len(one) : one[k].id = one[l].id => k = l
    BY <1>3, OnlySeparate
  <1> HIDE DEF one
  <1>4. two \in Seq(Skill)
    BY <1>1, OnlyType
  <1>5. \A s \in ToSet(one) : ~Dynamic(s) => s \in b
    BY <1>1
  <1>6. Statics(two) = Statics(one)
    BY <1>1, <1>5, StaticsFilter
  <1>7. ASSUME \A k, l \in 1..Len(one) : one[k].id = one[l].id => k = l
        PROVE  \A k, l \in 1..Len(two) : two[k].id = two[l].id => k = l
    BY <1>1, <1>7, OnlySeparate
  <1>8. Statics(list) \in Seq(Skill)
    BY StaticsType
  <1>9. SameIds(Statics(two), Statics(list))
    BY <1>2, <1>6, <1>8 DEF SameIds
  <1> HIDE DEF two
  <1> QED BY <1>3, <1>4, <1>7, <1>9 DEF two, one

\* Only dynamic skills are merged away.
LEMMA MergedItems ==
  ASSUME mem.lists \in Bank
  PROVE  \A i \in MergedIds :
           \E c \in Lists : \E s \in ToSet(Scored[c]) : s.id = i /\ Dynamic(s)
  <1>1. Scored \in Bank
    BY ScoredItems
  <1>2. /\ Walk(Scored) \in Seq(Skill)
        /\ ToSet(Walk(Scored)) = UNION {ToSet(Scored[c]) : c \in Lists}
    BY <1>1, BankIds
  <1>3. MergedAway(Walk(Scored))
          \subseteq {s.id : s \in {r \in ToSet(Walk(Scored)) : Dynamic(r)}}
    BY <1>2, MergedDynamic
  <1>4. \A i \in MergedIds : \E s \in ToSet(Walk(Scored)) : s.id = i /\ Dynamic(s)
    BY <1>3 DEF MergedIds
  <1> QED BY <1>2, <1>4

LEMMA PruneItems ==
  ASSUME mem.lists \in Bank
  PROVE  Prunes(PrunedLists, PrunedIds)
  <1> DEFINE mid == Without(Scored, MergedIds)
             new == PrunedLists
             gone == PrunedIds
  <1>1. Scored \in Bank /\ Scored \in Banks(Skill) /\ Ids(Scored) = Ids(mem.lists)
    BY BankIsBanks, ScoredItems
  <1>2. Removed(mid, Scored, MergedIds, Skill)
    BY <1>1, WithoutType
  <1>3. mid \in Banks(Skill)
    BY <1>2 DEF Removed
  <1>4. Evicted(new, Low(mid), mid, Skill)
    BY <1>3, EvictType DEF PrunedLists
  <1>5. gone = MergedIds \cup Low(mid)
    BY DEF PrunedIds
  <1>6. new \in Bank
    BY <1>4, BankIsBanks DEF Evicted
  <1> HIDE DEF mid, new, gone
  <1>7. \A c \in Lists :
          ToSet(new[c]) = {s \in ToSet(Scored[c]) : s.id \notin MergedIds /\ ~Useless(s)}
    BY <1>2, <1>4 DEF Removed, Evicted
  <1>8. gone = {} => new = Scored
    BY <1>2, <1>4, <1>5 DEF Removed, Evicted
  <1>9. \A i \in gone : \E c \in Lists : \E s \in ToSet(Scored[c]) :
          s.id = i /\ Dynamic(s) /\ (i \in MergedIds \/ Useless(s))
    <2> TAKE i \in gone
    <2>1. CASE i \in MergedIds
      BY <2>1, MergedItems
    <2>2. CASE i \in Low(mid)
      <3>1. PICK c \in Lists : \E s \in ToSet(mid[c]) : Useless(s) /\ s.id = i
        BY <1>4, <2>2 DEF Evicted
      <3>2. ToSet(mid[c]) \subseteq ToSet(Scored[c])
        BY <1>2 DEF Removed
      <3> QED BY <3>1, <3>2 DEF Useless
    <2> QED BY <1>5, <2>1, <2>2
  <1>10. \A c \in Lists : \A s \in ToSet(Scored[c]) : s.id \in gone \/ s \in ToSet(new[c])
    <2> TAKE c \in Lists
    <2> TAKE s \in ToSet(Scored[c])
    <2>1. CASE s.id \in MergedIds
      BY <1>5, <2>1
    <2>2. CASE s.id \notin MergedIds
      <3>1. s \in ToSet(mid[c])
        BY <1>2, <2>2 DEF Removed
      <3>2. Useless(s) => s.id \in Low(mid)
        BY <1>4, <3>1 DEF Evicted
      <3> QED BY <1>5, <1>7, <2>2, <3>2
    <2> QED BY <2>1, <2>2
  <1>11. gone \subseteq Ids(mem.lists)
    <2>1. \A c \in Lists : \A s \in ToSet(Scored[c]) : s.id \in Ids(Scored)
      BY <1>1, BankIds
    <2> QED BY <1>1, <1>9, <2>1
  <1>12. ASSUME NEW c \in Lists
         PROVE  /\ SameIds(Statics(new[c]), Statics(Scored[c]))
                /\ Len(new[c]) \in Nat
                /\ (\A k, l \in 1..Len(Scored[c]) :
                       Scored[c][k].id = Scored[c][l].id => k = l) =>
                     \A k, l \in 1..Len(new[c]) : new[c][k].id = new[c][l].id => k = l
    <2> DEFINE list == Scored[c]
               a == {s \in ToSet(list) : s.id \notin MergedIds}
               b == {s \in ToSet(mid[c]) : ~Useless(s)}
    <2>1. mid[c] = Only(list, a) /\ new[c] = Only(mid[c], b) /\ ToSet(mid[c]) = a
      BY <1>2, <1>4 DEF Removed, Evicted
    <2>2. list \in Seq(Skill)
      BY <1>1 DEF Banks
    <2>3. \A s \in ToSet(list) : ~Dynamic(s) => s \in a
      <3> SUFFICES ASSUME NEW s \in ToSet(list), s.id \in MergedIds PROVE Dynamic(s)
        OBVIOUS
      <3>1. PICK r : r.id = s.id /\ Dynamic(r)
        BY MergedItems
      <3> QED BY <3>1 DEF Dynamic
    <2>4. \A s \in ToSet(list) : ~Dynamic(s) => s \in b
      BY <2>1, <2>3 DEF Useless
    <2>5. new[c] = Only(Only(list, a), b)
      BY <2>1
    <2> HIDE DEF list, a, b
    <2>6. /\ Only(Only(list, a), b) \in Seq(Skill)
          /\ SameIds(Statics(Only(Only(list, a), b)), Statics(list))
          /\ (\A k, l \in 1..Len(list) : list[k].id = list[l].id => k = l) =>
               \A k, l \in 1..Len(Only(Only(list, a), b)) :
                 Only(Only(list, a), b)[k].id = Only(Only(list, a), b)[l].id => k = l
      BY <2>2, <2>3, <2>4, FilterTwice
    <2> QED BY <2>5, <2>6 DEF list
  <1>13. MergedIds \subseteq gone
    BY <1>5
  <1>14. Prunes(new, gone)
    BY <1>6, <1>7, <1>8, <1>9, <1>10, <1>11, <1>12, <1>13 DEF Prunes
  <1> QED BY <1>14 DEF new, gone

-----------------------------------------------------------------------------
(* New skills, revisions and what is put back *)

\* New skills are numbered from first on.
Numbered(new, k, first, pfx, by) ==
  /\ new \in Seq(Skill) /\ Len(new) = k
  /\ \A j \in 1..k : /\ new[j].id = [pfx |-> pfx, n |-> first + j - 1]
                     /\ new[j].text = [by |-> by, at |-> round]
                     /\ new[j].utility = NewUtility
  /\ IsFiniteSet({s.id : s \in ToSet(new)})
  /\ {s.id : s \in ToSet(new)} \subseteq SkillId
  /\ \A s \in ToSet(new) : s.id.pfx = pfx /\ s.id.n >= first
                           /\ s.utility = NewUtility /\ s.text = [by |-> by, at |-> round]

LEMMA NewNumbered ==
  ASSUME NEW c, NEW k \in Nat, NEW first \in Nat \ {0}, first + k - 1 <= MaxIndex,
         NEW pfx \in IdPrefixes, NEW by \in {"file", "round", "validation"},
         round \in 0..MaxRounds
  PROVE  Numbered(NewSkills(c, k, first, pfx, by), k, first, pfx, by)
  <1> DEFINE new == NewSkills(c, k, first, pfx, by)
             f == [j \in 1..k |-> new[j].id]
  <1>1. MaxIndex \in Nat
    BY BoundsAssumption
  <1>2. \A j \in 1..k : first + j - 1 \in 1..MaxIndex /\ first + j - 1 >= first
    BY <1>1
  <1>3. \A j \in 1..k : [id |-> [pfx |-> pfx, n |-> first + j - 1],
                         text |-> [by |-> by, at |-> round], utility |-> NewUtility] \in Skill
    <2> TAKE j \in 1..k
    <2>1. [pfx |-> pfx, n |-> first + j - 1] \in SkillId
      BY <1>2 DEF SkillId
    <2>2. [by |-> by, at |-> round] \in Text /\ NewUtility \in 0..MaxUtility
      BY DEF Text, NewUtility, MaxUtility
    <2> QED BY <2>1, <2>2 DEF Skill
  <1>4. new \in Seq(Skill) /\ Len(new) = k /\ DOMAIN new = 1..k
    BY <1>3 DEF NewSkills
  <1>5. \A j \in 1..k : /\ new[j].id = [pfx |-> pfx, n |-> first + j - 1]
                        /\ new[j].text = [by |-> by, at |-> round]
                        /\ new[j].utility = NewUtility
    BY DEF NewSkills
  <1> HIDE DEF new
  <1>6. f \in Surjection(1..k, {s.id : s \in ToSet(new)})
    BY <1>4 DEF Surjection, ToSet
  <1> HIDE DEF f
  <1>7. IsFiniteSet({s.id : s \in ToSet(new)})
    <2>1. 1 \in Int /\ k \in Int
      OBVIOUS
    <2>2. IsFiniteSet(1..k)
      BY <2>1, FS_Interval
    <2> QED BY <1>6, <2>2, FS_Surjection
  <1>8. \A s \in ToSet(new) : s.id.pfx = pfx /\ s.id.n >= first
                           /\ s.utility = NewUtility /\ s.text = [by |-> by, at |-> round]
    <2> TAKE s \in ToSet(new)
    <2>1. PICK j \in 1..k : s = new[j]
      BY <1>4 DEF ToSet
    <2>2. s.id = [pfx |-> pfx, n |-> first + j - 1]
      BY <1>5, <2>1
    <2>3. s.id.pfx = pfx /\ s.id.n = first + j - 1
      BY <2>2
    <2> QED BY <1>2, <1>5, <2>1, <2>3
  <1>9. {s.id : s \in ToSet(new)} \subseteq SkillId
    <2>1. ToSet(new) \subseteq Skill
      BY <1>4 DEF ToSet
    <2> QED BY <2>1 DEF Skill
  <1>10. Numbered(new, k, first, pfx, by)
    BY <1>4, <1>5, <1>7, <1>8, <1>9 DEF Numbered
  <1> QED BY <1>10 DEF new

\* All ids in some order.
Ordering(o, S, T) == o \in Seq(T) /\ ToSet(o) = S

LEMMA OneOrder ==
  ASSUME NEW S, IsFiniteSet(S), NEW f \in [1..Cardinality(S) -> S], IsInjective(f)
  PROVE  Ordering(f, S, S)
  <1> DEFINE n == Cardinality(S)
  <1>1. n \in Nat
    BY FS_CardinalityType
  <1>2. IsFiniteSet(1..n) /\ Cardinality(1..n) = n
    BY <1>1, FS_Interval
  <1> HIDE DEF n
  <1>3. f \in [1..n -> S] /\ n = Cardinality(S)
    BY DEF n
  <1>4. f \in Injection(1..n, S)
    BY <1>3 DEF Injection, IsInjective
  <1>5. f \in Surjection(1..n, S)
    BY <1>2, <1>3, <1>4, FS_Injection
  <1>6. DOMAIN f = 1..n /\ f \in Seq(S)
    BY <1>1, <1>3
  <1>7. ToSet(f) = S
    BY <1>5, <1>6 DEF Surjection, ToSet
  <1> QED BY <1>6, <1>7 DEF Ordering

LEMMA OrdersType ==
  ASSUME snap \in Bank, NEW ids \in SUBSET SkillId, IsFiniteSet(ids), NEW o \in Orders(ids)
  PROVE  Ordering(o, ids, SkillId)
  <1> DEFINE gone == {i \in ids : \E c \in Lists : Holds(snap[c], i) /\ ~Holds(mem.lists[c], i)}
             rest == ids \ gone
             last == SetToSeq(rest)
  <1>1. IsFiniteSet(gone) /\ IsFiniteSet(rest)
    BY FS_Subset
  <1>2. PICK x \in SetToSeqs(gone) : o = x \o last
    BY DEF Orders
  <1>3. gone \subseteq SkillId /\ rest \subseteq SkillId /\ ids = gone \cup rest
    OBVIOUS
  <1> HIDE DEF gone, rest, last
  <1>4. Ordering(x, gone, gone)
    <2>1. x \in [1..Cardinality(gone) -> gone] /\ IsInjective(x)
      BY DEF SetToSeqs, IsInjective
    <2> QED BY <1>1, <2>1, OneOrder
  <1>5. Ordering(last, rest, rest)
    <2>1. \E f \in [1..Cardinality(rest) -> rest] : IsInjective(f)
      <3>1. ExistsBijection(1..Cardinality(rest), rest)
        BY <1>1, FS_CardinalityType
      <3> QED BY <3>1 DEF ExistsBijection, Bijection, Injection, IsInjective
    <2>2. last \in [1..Cardinality(rest) -> rest] /\ IsInjective(last)
      BY <2>1 DEF last, SetToSeq
    <2> QED BY <1>1, <2>2, OneOrder
  <1>6. x \in Seq(SkillId) /\ last \in Seq(SkillId) /\ ToSet(x) = gone /\ ToSet(last) = rest
    BY <1>3, <1>4, <1>5 DEF Ordering
  <1>7. x \o last \in Seq(SkillId) /\ ToSet(x \o last) = gone \cup rest
    BY <1>6, ConcatSet
  <1> QED BY <1>2, <1>3, <1>7 DEF Ordering

LEMMA RestoredType ==
  ASSUME mem.lists \in Bank, snap \in Bank, NEW ids \in SUBSET SkillId, IsFiniteSet(ids),
         NEW o \in Orders(ids)
  PROVE  RestorePartial(mem.lists, snap, o) \in Bank
  <1>1. o \in Seq(SkillId)
    BY OrdersType DEF Ordering
  <1>2. mem.lists \in Banks(Skill) /\ snap \in Banks(Skill)
    BY BankIsBanks
  <1>3. PICK r, back : RestoreBy(r, back, mem.lists, snap, o, SkillId, Skill)
    BY <1>1, <1>2, RestoreRecursion
  <1>4. back \in Seq(SkillId)
    BY <1>3 DEF RestoreBy
  <1>5. Len(back) \in 0..Len(back)
    BY <1>4
  <1> QED BY <1>3, <1>5, BankIsBanks DEF RestoreBy, Restores

\* Revising texts.
LEMMA RevisedType ==
  ASSUME mem.lists \in Bank, NEW ids, NEW text \in Text
  PROVE  Rewritten(Synthesize(mem.lists, ids, text), mem.lists, ids, text, Skill)
         /\ Synthesize(mem.lists, ids, text) \in Bank
  <1>1. mem.lists \in Banks([id : SkillId, text : Text, utility : 0..MaxUtility])
    BY BankIsBanks DEF Skill
  <1>2. Rewritten(Synthesize(mem.lists, ids, text), mem.lists, ids, text, Skill)
    BY <1>1, SynthesizeType DEF Skill
  <1> QED BY <1>2, BankIsBanks DEF Rewritten

\* Filing new skills.
LEMMA FiledType ==
  ASSUME NEW lists \in Bank, NEW new \in Seq(Skill), NEW c \in Lists
  PROVE  Joined(AddSkills(lists, new, c), lists, new, c, Skill)
         /\ AddSkills(lists, new, c) \in Bank
  <1>1. lists \in Banks(Skill)
    BY BankIsBanks
  <1>2. Joined(AddSkills(lists, new, c), lists, new, c, Skill)
    BY <1>1, AddSkillsType
  <1> QED BY <1>2, BankIsBanks DEF Joined

\* The number of a new skill.
LEMMA FirstIndex ==
  ASSUME NEW lists \in Bank
  PROVE  /\ NextDynIndex(lists) \in Nat \ {0}
         /\ \A i \in Ids(lists) : i.pfx = "dyn" => i.n < NextDynIndex(lists)
  <1>1. lists \in Banks([id : [pfx : IdPrefixes, n : 1..MaxIndex], text : Text,
                         utility : 0..MaxUtility])
    BY BankIsBanks DEF Skill, SkillId
  <1>2. MaxIndex \in Nat
    BY BoundsAssumption
  <1> QED BY <1>1, <1>2, NextIndex

\* Where an id is found is a list of the bank.
LEMMA CategoryType == \A i : CategoryOf(i) \in Lists
  <1> SUFFICES ASSUME NEW i PROVE CategoryOf(i) \in Lists
    OBVIOUS
  <1> DEFINE I == {k \in 1..Len(TypeOrder) : Holds(mem.lists[TypeOrder[k]], i)}
             k == IF I # {} THEN Min(I) ELSE 0
  <1>1. CategoryOf(i) = IF k = 0 THEN General ELSE TypeOrder[k]
    BY DEF CategoryOf, SelectInSeq
  <1>2. Len(TypeOrder) \in Nat /\ DOMAIN TypeOrder = 1..Len(TypeOrder)
    BY OrderAssumption
  <1>3. k = 0 \/ k \in 1..Len(TypeOrder)
    <2>1. I \in SUBSET (1..Len(TypeOrder))
      OBVIOUS
    <2>2. I # {} => Min(I) \in I
      BY <1>2, <2>1, FirstLast
    <2> QED BY <2>1, <2>2
  <1> HIDE DEF k
  <1>4. k \in 1..Len(TypeOrder) => TypeOrder[k] \in Types
    BY <1>2 DEF Types, ToSet
  <1> QED BY <1>1, <1>3, <1>4, TypesInLists

-----------------------------------------------------------------------------
(* Types and caches *)

TypeInv ==
  /\ conf \in Setups /\ phase \in Phases
  /\ Sound(mem) /\ Sound(env) /\ Sound(val)
  /\ shown \in [Types -> SUBSET SkillId] /\ won \subseteq Types /\ lost \subseteq Types
  /\ snap \in Bank /\ changedBy \in [Lists -> SUBSET SkillId] /\ changed \in BOOLEAN
  /\ pend \subseteq SkillId /\ rejected \subseteq Lists
  /\ missed \in [1..MaxIndex -> Nat] /\ before \in [1..MaxIndex -> Nat]
  /\ round \in 0..MaxRounds /\ checks \in 0..MaxChecks
  /\ \A t \in Types : IsFiniteSet(shown[t])
  /\ \A c \in Lists : IsFiniteSet(changedBy[c])
  /\ phase = "batch" => round < MaxRounds

\* Some number of misses explains the utilities of the file, so the least does.
LEMMA FileMisses ==
  ASSUME NEW n
  PROVE  MissesInFile(n) \in 0..NewUtility /\ Explains(MissesInFile(n), n)
  <1> DEFINE T == {k \in 0..NewUtility : Explains(k, n)}
             Least(k) == Explains(k, n) /\ \A m \in 0..NewUtility : Explains(m, n) => k <= m
  <1>1. Explains(NewUtility, n)
    <2> SUFFICES ASSUME NEW s \in ToSet(Walk(InitLists))
                 PROVE  NewUtility - NewUtility * Loss <= s.utility
      BY DEF Explains
    <2>1. s \in Skill
      BY InitListsAssumption, BankIds
    <2>2. s.utility \in 0..MaxUtility
      BY <2>1 DEF Skill
    <2> QED BY <2>2, UtilityAssumption DEF NewUtility, MaxUtility
  <1>2. NewUtility \in T
    BY <1>1 DEF NewUtility
  <1>3. T \in SUBSET Nat /\ T # {}
    BY <1>2
  <1>4. PICK k \in T : \A m \in T : k <= m
    BY <1>3, LeastNumber
  <1>5. k \in 0..NewUtility /\ Least(k)
    BY <1>4
  <1>6. MissesInFile(n) = CHOOSE j \in 0..NewUtility : Least(j)
    BY DEF MissesInFile
  <1> HIDE DEF Least
  <1>7. MissesInFile(n) \in 0..NewUtility /\ Least(MissesInFile(n))
    BY <1>5, <1>6
  <1> QED BY <1>7 DEF Least

LEMMA TypeInit == Init => TypeInv
  <1> SUFFICES ASSUME Init PROVE TypeInv
    OBVIOUS
  <1>1. InitLists \in Bank
    BY InitListsAssumption
  <1>2. Sound(mem) /\ Sound(env) /\ Sound(val)
    BY <1>1, SoundLoaded DEF Init
  <1>3. missed \in [1..MaxIndex -> Nat] /\ before = missed
    BY FileMisses DEF Init
  <1>4. IsFiniteSet({})
    BY FS_EmptySet
  <1>5. /\ shown \in [Types -> SUBSET SkillId] /\ \A t \in Types : IsFiniteSet(shown[t])
        /\ changedBy \in [Lists -> SUBSET SkillId] /\ \A c \in Lists : IsFiniteSet(changedBy[c])
    BY <1>4 DEF Init, NoChange
  <1>6. round \in 0..MaxRounds /\ checks \in 0..MaxChecks
    BY BoundsAssumption DEF Init
  <1> QED BY <1>1, <1>2, <1>3, <1>5, <1>6 DEF Init, TypeInv, Phases

LEMMA TypeRollout == TypeInv /\ Rollout => TypeInv'
  <1> SUFFICES ASSUME TypeInv, Rollout PROVE TypeInv'
    OBVIOUS
  <1>1. Sound(env')
    BY SoundWarm DEF Rollout, TypeInv
  <1>2. \A t \in Types : ShownIds(env, t) \in SUBSET SkillId /\ IsFiniteSet(ShownIds(env, t))
    <2> TAKE t \in Types
    <2>1. env.lists \in Bank
      BY DEF TypeInv, Sound, Memory
    <2>2. ShownIds(env, t) \subseteq Ids(env.lists)
      BY ShownHeld DEF TypeInv
    <2>3. IsFiniteSet(Ids(env.lists)) /\ Ids(env.lists) \subseteq SkillId
      BY <2>1, BankFinite, BankIds
    <2>4. IsFiniteSet(ShownIds(env, t))
      BY <2>2, <2>3, FS_Subset
    <2> QED BY <2>2, <2>3, <2>4
  <1>3. PICK w \in SUBSET Types, l \in SUBSET Types :
          /\ won' = w /\ lost' = l
          /\ shown' = [t \in Types |-> IF t \in w \cup l THEN ShownIds(env, t) ELSE {}]
    BY DEF Rollout
  <1>4. shown' \in [Types -> SUBSET SkillId] /\ \A t \in Types : IsFiniteSet(shown'[t])
    <2>1. IsFiniteSet({})
      BY FS_EmptySet
    <2> QED BY <1>2, <1>3, <2>1
  <1> QED BY <1>1, <1>3, <1>4, BoundsAssumption
          DEF Rollout, TypeInv, Phases, work, counters, history

LEMMA TypeNoRound == TypeInv /\ NoRound => TypeInv'
  <1> SUFFICES ASSUME TypeInv, NoRound PROVE TypeInv'
    OBVIOUS
  <1>1. shown' \in [Types -> SUBSET SkillId] /\ \A t \in Types : IsFiniteSet(shown'[t])
    BY FS_EmptySet DEF NoRound
  <1> QED BY <1>1 DEF NoRound, TypeInv, Phases, work, counters, history

LEMMA TypeValidate == TypeInv /\ Validate => TypeInv'
  <1> SUFFICES ASSUME TypeInv, Validate PROVE TypeInv'
    OBVIOUS
  <1>1. MaxNew \in Nat /\ MaxChecks \in Nat
    BY BoundsAssumption
  <1>2. PICK k \in Nat : LET first == NextDynIndex(val.lists)
                         IN  /\ first + k - 1 <= MaxIndex
                             /\ FileValidationSkills(NewSkills(General, k, first, "dyn", "validation"))
    BY <1>1 DEF Validate
  <1> DEFINE first == NextDynIndex(val.lists)
             new == NewSkills(General, k, first, "dyn", "validation")
             lists == AddSkills(env.lists, new, General)
  <1>3. val.lists \in Bank /\ env.lists \in Bank
    BY DEF TypeInv, Sound, Memory
  <1>4. first \in Nat \ {0} /\ first + k - 1 <= MaxIndex
    BY <1>2, <1>3, FirstIndex
  <1>5. env' = (IF lists = env.lists THEN env ELSE Changed(lists)) /\ val' = Warm(val, conf.mode)
    BY <1>2 DEF FileValidationSkills
  <1> HIDE DEF first
  <1>6. new \in Seq(Skill)
    <2>1. round \in 0..MaxRounds
      BY DEF TypeInv
    <2>2. "dyn" \in IdPrefixes
      BY BoundsAssumption
    <2>3. "validation" \in {"file", "round", "validation"}
      OBVIOUS
    <2>4. Numbered(new, k, first, "dyn", "validation")
      BY <1>4, <2>1, <2>2, <2>3, NewNumbered
    <2> QED BY <2>4 DEF Numbered
  <1> HIDE DEF new
  <1>7. lists \in Bank
    BY <1>3, <1>6, FiledType, TypesInLists
  <1> HIDE DEF lists
  <1>8. Sound(env') /\ Sound(val')
    BY <1>5, <1>7, SoundChanged, SoundWarm DEF TypeInv
  <1>9. checks' \in 0..MaxChecks
    BY <1>1 DEF Validate, TypeInv
  <1> QED BY <1>8, <1>9 DEF Validate, TypeInv, batch, work, history

LEMMA TypePrune == TypeInv /\ Prune => TypeInv'
  <1> SUFFICES ASSUME TypeInv, Prune PROVE TypeInv'
    OBVIOUS
  <1>1. mem.lists \in Bank /\ mem \in Memory
    BY DEF TypeInv, Sound, Memory
  <1>2. /\ mem' = [mem EXCEPT !.lists = PrunedLists,
                              !.cache = IF PrunedIds = {} THEN @ ELSE {}]
        /\ changedBy' = [NoChange EXCEPT ![General] = PrunedIds]
        /\ changed' = (PrunedIds # {})
    BY DEF Prune, PrunedLists, PrunedIds
  <1>3. Prunes(PrunedLists, PrunedIds)
    BY <1>1, PruneItems
  <1>4. Embed(Scored) = Embed(mem.lists)
    BY <1>1, ScoredItems
  <1>5. Sound(mem')
    BY <1>1, <1>2, <1>3, <1>4 DEF Prunes, Sound, Memory, TypeInv
  <1>6. IsFiniteSet(PrunedIds) /\ PrunedIds \subseteq SkillId
    <2>1. IsFiniteSet(Ids(mem.lists)) /\ Ids(mem.lists) \subseteq SkillId
      BY <1>1, BankFinite, BankIds
    <2> QED BY <1>3, <2>1, FS_Subset DEF Prunes
  <1>7. changedBy' \in [Lists -> SUBSET SkillId] /\ \A c \in Lists : IsFiniteSet(changedBy'[c])
    <2>1. IsFiniteSet({})
      BY FS_EmptySet
    <2> QED BY <1>2, <1>6, <2>1 DEF NoChange
  <1>8. missed' \in [1..MaxIndex -> Nat] /\ before' \in [1..MaxIndex -> Nat]
    BY DEF Prune, TypeInv
  <1>9. round' \in 0..MaxRounds
    BY BoundsAssumption DEF Prune, TypeInv
  <1> QED BY <1>1, <1>2, <1>5, <1>7, <1>8, <1>9 DEF Prune, TypeInv, Phases, batch

LEMMA TypeNoPrune == TypeInv /\ NoPrune => TypeInv'
  <1> SUFFICES ASSUME TypeInv, NoPrune PROVE TypeInv'
    OBVIOUS
  <1>1. mem.lists \in Bank
    BY DEF TypeInv, Sound, Memory
  <1>2. changedBy' \in [Lists -> SUBSET SkillId] /\ \A c \in Lists : IsFiniteSet(changedBy'[c])
    BY FS_EmptySet DEF NoPrune, NoChange
  <1>3. round' \in 0..MaxRounds
    BY BoundsAssumption DEF NoPrune, TypeInv
  <1> QED BY <1>1, <1>2, <1>3 DEF NoPrune, TypeInv, Phases, batch

\* The skills filed in the lists have no misses yet.
Recounted(lists) ==
  missed' = [n \in 1..MaxIndex |->
    IF [pfx |-> "dyn", n |-> n] \in Ids(lists) \ Ids(mem.lists) THEN 0 ELSE missed[n]]

\* What a call of the LLM for a type does.
Updates(t, revised, new, lists) ==
  /\ revised \in SUBSET shown[t]
  /\ Numbered(new, Len(new), NextDynIndex(mem.lists), Prefix[t], "round")
  /\ Joined(lists, mem.lists, new, t, Skill) /\ lists \in Bank
  /\ mem' = IF lists = mem.lists THEN mem ELSE Changed(lists)
  /\ changed' = (changed \/ lists # mem.lists)
  /\ pend' = pend \cup revised
  /\ changedBy' = [c \in Lists |->
       changedBy[c] \cup {i \in revised : CategoryOf(i) = c}
                    \cup IF c = t THEN {s.id : s \in ToSet(new)} ELSE {}]
  /\ phase = "update" /\ lost' = lost \ {t} /\ Recounted(lists)
  /\ UNCHANGED <<conf, env, val, phase, shown, won, snap, rejected, before, round, checks>>

LEMMA UpdateFacts ==
  ASSUME TypeInv, NEW t \in Types, UpdateType(t)
  PROVE  \E revised, new, lists : Updates(t, revised, new, lists)
  <1>1. MaxNew \in Nat /\ "dyn" \in IdPrefixes /\ Prefix[t] \in IdPrefixes
    BY BoundsAssumption
  <1>2. mem.lists \in Bank /\ round \in 0..MaxRounds
    BY DEF TypeInv, Sound, Memory
  <1> DEFINE first == NextDynIndex(mem.lists)
             New(k) == NewSkills(t, k, first, Prefix[t], "round")
             Filed(k) == AddSkills(mem.lists, New(k), t)
  <1>3. PICK revised \in SUBSET shown[t], k \in 0..MaxNew :
          /\ first + k - 1 <= MaxIndex
          /\ mem' = IF Filed(k) = mem.lists THEN mem ELSE Changed(Filed(k))
          /\ changed' = (changed \/ Filed(k) # mem.lists)
          /\ pend' = pend \cup revised
          /\ changedBy' = [c \in Lists |->
               changedBy[c] \cup {i \in revised : CategoryOf(i) = c}
                            \cup IF c = t THEN {s.id : s \in ToSet(New(k))} ELSE {}]
          /\ Recounted(Filed(k))
    BY DEF UpdateType, Recounted
  <1>4. k \in Nat
    BY <1>1
  <1>5. first \in Nat \ {0}
    BY <1>2, FirstIndex
  <1> HIDE DEF first
  <1>6. Numbered(New(k), k, first, Prefix[t], "round")
    <2>1. "round" \in {"file", "round", "validation"}
      OBVIOUS
    <2> QED BY <1>1, <1>2, <1>3, <1>4, <1>5, <2>1, NewNumbered
  <1> HIDE DEF New
  <1>7. New(k) \in Seq(Skill) /\ Len(New(k)) = k
    BY <1>6 DEF Numbered
  <1>8. Joined(Filed(k), mem.lists, New(k), t, Skill) /\ Filed(k) \in Bank
    BY <1>2, <1>7, FiledType, TypesInLists
  <1> HIDE DEF Filed
  <1>9. /\ phase = "update" /\ lost' = lost \ {t}
        /\ UNCHANGED <<conf, env, val, phase, shown, won, snap, rejected, before, round, checks>>
    BY DEF UpdateType
  <1>10. Updates(t, revised, New(k), Filed(k))
    BY <1>3, <1>6, <1>7, <1>8, <1>9 DEF Updates, first
  <1> QED BY <1>10

LEMMA TypeUpdate == ASSUME TypeInv, NEW t \in Types, UpdateType(t) PROVE TypeInv'
  <1>1. PICK revised, new, lists : Updates(t, revised, new, lists)
    BY UpdateFacts
  <1>2. Sound(mem')
    BY <1>1, SoundChanged DEF Updates, TypeInv
  <1>3. revised \subseteq SkillId /\ IsFiniteSet(revised)
    <2>1. revised \in SUBSET shown[t] /\ IsFiniteSet(shown[t]) /\ shown[t] \subseteq SkillId
      BY <1>1 DEF Updates, TypeInv
    <2> QED BY <2>1, FS_Subset
  <1> DEFINE ids == {s.id : s \in ToSet(new)}
  <1>4. ids \subseteq SkillId /\ IsFiniteSet(ids)
    BY <1>1 DEF Updates, Numbered
  <1>5. changedBy' = [c \in Lists |->
          changedBy[c] \cup {i \in revised : CategoryOf(i) = c} \cup IF c = t THEN ids ELSE {}]
    BY <1>1 DEF Updates
  <1> HIDE DEF ids
  <1>6. ASSUME NEW c \in Lists
        PROVE  IsFiniteSet(changedBy[c] \cup {i \in revised : CategoryOf(i) = c}
                             \cup IF c = t THEN ids ELSE {})
    <2>1. IsFiniteSet(changedBy[c])
      BY DEF TypeInv
    <2>2. IsFiniteSet({i \in revised : CategoryOf(i) = c})
      BY <1>3, FS_Subset
    <2>3. IsFiniteSet(IF c = t THEN ids ELSE {})
      BY <1>4, FS_EmptySet
    <2>4. IsFiniteSet(changedBy[c] \cup {i \in revised : CategoryOf(i) = c})
      BY <2>1, <2>2, FS_Union
    <2> QED BY <2>3, <2>4, FS_Union
  <1>7. changedBy' \in [Lists -> SUBSET SkillId]
    BY <1>3, <1>4, <1>5 DEF TypeInv
  <1>8. \A c \in Lists : IsFiniteSet(changedBy'[c])
    BY <1>5, <1>6
  <1>9. lost' \subseteq Types /\ pend' \subseteq SkillId /\ changed' \in BOOLEAN
    BY <1>1, <1>3 DEF Updates, TypeInv
  <1>10. UNCHANGED <<conf, env, val, phase, shown, won, snap, rejected, before, round, checks>>
    BY <1>1 DEF Updates
  <1>11. missed' \in [1..MaxIndex -> Nat]
    BY <1>1 DEF Updates, Recounted, TypeInv
  <1> QED BY <1>2, <1>7, <1>8, <1>9, <1>10, <1>11 DEF TypeInv

LEMMA TypeApply == TypeInv /\ ApplyUpdates => TypeInv'
  <1> SUFFICES ASSUME TypeInv, ApplyUpdates PROVE TypeInv'
    OBVIOUS
  <1> DEFINE text == [by |-> "round", at |-> round]
             lists == Synthesize(mem.lists, pend \cup AllChanged, text)
  <1>1. mem.lists \in Bank /\ text \in Text
    BY DEF TypeInv, Sound, Memory, Text
  <1>2. lists \in Bank
    BY <1>1, RevisedType
  <1>3. mem' = IF pend = {} THEN mem ELSE Changed(lists)
    BY DEF ApplyUpdates
  <1> HIDE DEF lists
  <1>4. Sound(mem')
    BY <1>2, <1>3, SoundChanged DEF TypeInv
  <1> QED BY <1>4 DEF ApplyUpdates, TypeInv, Phases, batch, counters, history

LEMMA TypeLeave ==
  ASSUME LeaveRound
  PROVE  /\ phase' = "idle" /\ won' = {} /\ lost' = {}
         /\ shown' \in [Types -> SUBSET SkillId] /\ \A t \in Types : IsFiniteSet(shown'[t])
         /\ changedBy' \in [Lists -> SUBSET SkillId]
         /\ \A c \in Lists : IsFiniteSet(changedBy'[c])
         /\ changed' = FALSE /\ pend' = {}
  BY FS_EmptySet DEF LeaveRound, NoChange

LEMMA TypeNothing == TypeInv /\ NothingChanged => TypeInv'
  <1> SUFFICES ASSUME TypeInv, NothingChanged PROVE TypeInv'
    OBVIOUS
  <1>1. LeaveRound
    BY DEF NothingChanged
  <1>2. mem.lists \in Bank
    BY DEF TypeInv, Sound, Memory
  <1> QED BY <1>1, <1>2, TypeLeave DEF NothingChanged, TypeInv, Phases, counters, history

LEMMA TypeReplay == TypeInv /\ Replay => TypeInv'
  <1> SUFFICES ASSUME TypeInv, Replay PROVE TypeInv'
    OBVIOUS
  <1>1. mem.lists \in Bank
    BY DEF TypeInv, Sound, Memory
  <1>2. Sound(env')
    BY <1>1, SoundSync, SoundWarm DEF TypeInv, Replay
  <1> QED BY <1>2 DEF Replay, TypeInv, Phases, batch, work, counters, history

LEMMA TypeFallback == TypeInv /\ Fallback => TypeInv'
  <1> SUFFICES ASSUME TypeInv, Fallback PROVE TypeInv'
    OBVIOUS
  <1>1. mem.lists \in Bank
    BY DEF TypeInv, Sound, Memory
  <1>2. Sound(val')
    BY <1>1, SoundSync, SoundWarm DEF TypeInv, Fallback
  <1> QED BY <1>2 DEF Fallback, TypeInv, Phases, batch, work, counters, history

LEMMA TypePublish ==
  ASSUME TypeInv, NEW memory, Sound(memory), Publish(memory), rejected' \subseteq Lists,
         missed' \in [1..MaxIndex -> Nat], UNCHANGED <<conf, val, round, checks>>
  PROVE  TypeInv'
  <1>1. LeaveRound
    BY DEF Publish
  <1>2. memory.lists \in Bank
    BY DEF Sound, Memory
  <1>3. Sound(mem') /\ Sound(env') /\ snap' \in Bank
    BY <1>2, SoundSync DEF Publish, TypeInv
  <1>4. before' = missed'
    BY DEF Publish
  <1> QED BY <1>1, <1>3, <1>4, TypeLeave DEF TypeInv, Phases

LEMMA UndoneType == ASSUME TypeInv, NEW ids PROVE Undone(ids) \in [1..MaxIndex -> Nat]
  <1> DEFINE A(n) == [pfx |-> "dyn", n |-> n] \in ids /\ (UniqueIds(snap) \/ before[n] > missed[n])
  <1>1. Undone(ids) = [n \in 1..MaxIndex |-> IF A(n) THEN before[n] ELSE missed[n]]
    BY DEF Undone
  <1> HIDE DEF A
  <1> QED BY <1>1 DEF TypeInv

\* Each verdict on the types publishes the bank, or what a partial restore makes of it.
PublishesRestored ==
  /\ phase = "judge" /\ rejected' \subseteq Lists
  /\ UNCHANGED <<conf, val, round, checks>>
  /\ missed' = Undone(UNION {changedBy[c] : c \in rejected'})
  /\ \/ rejected' = {} /\ Publish(mem)
     \/ \E ids \in Orders(UNION {changedBy[c] : c \in rejected'}) :
          Publish(Changed(RestorePartial(mem.lists, snap, ids)))

LEMMA JudgeFacts == JudgePerType => PublishesRestored
  <1> SUFFICES ASSUME JudgePerType PROVE PublishesRestored
    OBVIOUS
  <1>1. rejected' \subseteq Lists
    BY DEF JudgePerType
  <1>2. /\ phase = "judge" /\ UNCHANGED <<conf, val, round, checks>>
        /\ missed' = Undone(UNION {changedBy[c] : c \in rejected'})
        /\ IF rejected' = {} THEN Publish(mem)
           ELSE \E ids \in Orders(UNION {changedBy[c] : c \in rejected'}) :
                  Publish(Changed(RestorePartial(mem.lists, snap, ids)))
    BY DEF JudgePerType
  <1> QED BY <1>1, <1>2 DEF PublishesRestored

LEMMA ListsFinite == IsFiniteSet(Lists)
  <1> DEFINE n == Len(Order)
             f == [k \in 1..n |-> Order[k]]
  <1>1. Len(Order) \in Nat /\ Lists = {Order[k] : k \in 1..Len(Order)}
    BY OrderType
  <1>2. f \in Surjection(1..n, Lists)
    BY <1>1 DEF Surjection
  <1>3. n \in Nat
    BY <1>1
  <1> HIDE DEF n, f
  <1>4. IsFiniteSet(1..n)
    BY <1>3, FS_Interval
  <1> QED BY <1>2, <1>4, FS_Surjection

\* There are finitely many ids to roll back.
LEMMA RejectedIds ==
  ASSUME TypeInv, NEW keys \in SUBSET Lists
  PROVE  LET ids == UNION {changedBy[c] : c \in keys}
         IN  ids \in SUBSET SkillId /\ IsFiniteSet(ids)
  <1> DEFINE f == [c \in keys |-> changedBy[c]]
             sets == {changedBy[c] : c \in keys}
  <1>1. IsFiniteSet(keys)
    BY ListsFinite, FS_Subset
  <1>2. f \in Surjection(keys, sets)
    BY DEF Surjection
  <1>3. \A s \in sets : IsFiniteSet(s) /\ s \subseteq SkillId
    BY DEF TypeInv
  <1> HIDE DEF f, sets
  <1>4. IsFiniteSet(sets)
    BY <1>1, <1>2, FS_Surjection
  <1>5. IsFiniteSet(UNION sets)
    BY <1>3, <1>4, FS_UNION
  <1>6. UNION sets \in SUBSET SkillId
    BY <1>3
  <1> QED BY <1>5, <1>6 DEF sets

LEMMA TypeJudge == TypeInv /\ JudgePerType => TypeInv'
  <1> SUFFICES ASSUME TypeInv, JudgePerType PROVE TypeInv'
    OBVIOUS
  <1>1. PublishesRestored
    BY JudgeFacts
  <1>2. /\ rejected' \subseteq Lists /\ UNCHANGED <<conf, val, round, checks>>
        /\ missed' \in [1..MaxIndex -> Nat]
    BY <1>1, UndoneType DEF PublishesRestored
  <1>3. CASE Publish(mem)
    BY <1>2, <1>3, TypePublish DEF TypeInv
  <1>4. ASSUME NEW ids \in Orders(UNION {changedBy[c] : c \in rejected'}),
               Publish(Changed(RestorePartial(mem.lists, snap, ids)))
        PROVE  TypeInv'
    <2> DEFINE all == UNION {changedBy[c] : c \in rejected'}
    <2>1. all \in SUBSET SkillId /\ IsFiniteSet(all)
      BY <1>2, RejectedIds
    <2>2. mem.lists \in Bank /\ snap \in Bank
      BY DEF TypeInv, Sound, Memory
    <2>3. ids \in Orders(all)
      OBVIOUS
    <2> HIDE DEF all
    <2>4. RestorePartial(mem.lists, snap, ids) \in Bank
      BY <2>1, <2>2, <2>3, RestoredType
    <2>5. Sound(Changed(RestorePartial(mem.lists, snap, ids)))
      BY <2>4, SoundChanged
    <2> QED BY <1>2, <1>4, <2>5, TypePublish
  <1> QED BY <1>1, <1>3, <1>4 DEF PublishesRestored

LEMMA TypeJudgeAll == TypeInv /\ JudgeAll => TypeInv'
  <1> SUFFICES ASSUME TypeInv, JudgeAll PROVE TypeInv'
    OBVIOUS
  <1>1. /\ UNCHANGED <<conf, val, round, checks>> /\ rejected' \subseteq Lists
        /\ missed' \in [1..MaxIndex -> Nat]
    BY DEF JudgeAll, TypeInv
  <1>2. Publish(mem) \/ Publish(Changed(snap))
    BY DEF JudgeAll
  <1>3. Sound(mem) /\ Sound(Changed(snap))
    BY SoundChanged DEF TypeInv
  <1> QED BY <1>1, <1>2, <1>3, TypePublish

LEMMA TypeStep == TypeInv /\ [Next]_vars => TypeInv'
  <1> SUFFICES ASSUME TypeInv, [Next]_vars PROVE TypeInv'
    OBVIOUS
  <1>1. CASE Rollout
    BY <1>1, TypeRollout
  <1>2. CASE NoRound
    BY <1>2, TypeNoRound
  <1>3. CASE Validate
    BY <1>3, TypeValidate
  <1>4. CASE Prune
    BY <1>4, TypePrune
  <1>5. CASE NoPrune
    BY <1>5, TypeNoPrune
  <1>6. ASSUME NEW t \in Types, UpdateType(t) PROVE TypeInv'
    BY <1>6, TypeUpdate
  <1>7. CASE ApplyUpdates
    BY <1>7, TypeApply
  <1>8. CASE NothingChanged
    BY <1>8, TypeNothing
  <1>9. CASE Replay
    BY <1>9, TypeReplay
  <1>10. CASE NoReplay
    BY <1>10 DEF NoReplay, TypeInv, Phases, batch, work, counters, history
  <1>11. CASE Fallback
    BY <1>11, TypeFallback
  <1>12. CASE JudgePerType
    BY <1>12, TypeJudge
  <1>13. CASE JudgeAll
    BY <1>13, TypeJudgeAll
  <1>14. CASE UNCHANGED vars
    BY <1>14 DEF TypeInv, vars, batch, work, counters, history
  <1> QED BY <1>1, <1>2, <1>3, <1>4, <1>5, <1>6, <1>7, <1>8, <1>9, <1>10, <1>11, <1>12,
             <1>13, <1>14 DEF Next, Stopped

LEMMA TypeSuffices == TypeInv => TypeOK /\ CacheFresh
  <1> SUFFICES ASSUME TypeInv PROVE TypeOK /\ CacheFresh
    OBVIOUS
  <1>1. ASSUME NEW m, Sound(m)
        PROVE  /\ m \in [lists : Bank, cache : SUBSET [Lists -> Seq([id : SkillId, text : Text])]]
               /\ Cardinality(m.cache) <= 1 /\ m.cache \subseteq {Embed(m.lists)}
    BY <1>1, SoundCardinality DEF Sound, Memory, Item
  <1>2. Sound(mem) /\ Sound(env) /\ Sound(val)
    BY DEF TypeInv
  <1>3. \A m \in Memories : Sound(m)
    BY <1>2 DEF Memories
  <1> QED BY <1>1, <1>3 DEF TypeInv, TypeOK, CacheFresh

\* Every variable has its type in every state, and utilities their bounds.
THEOREM TypeCorrect == Spec => []TypeOK
  BY TypeInit, TypeStep, TypeSuffices, PTL DEF Spec

\* In every configuration no prompt is built from the embeddings of skills the
\* memory no longer has.
THEOREM CacheIsFresh == Spec => []CacheFresh
  BY TypeInit, TypeStep, TypeSuffices, PTL DEF Spec

-----------------------------------------------------------------------------
(* What is learned from validation *)

OtherText == {x \in Text : x.by # "validation"}
Unlearned == [id : SkillId, text : OtherText, utility : 0..MaxUtility]

\* The memories that are validated and published have none of it, nor has what
\* a rollback restores.  Between rounds, and in one while nothing has changed,
\* the training environments have the trainer's bank, and what they learned.
LearnInv ==
  /\ mem.lists \in Banks(Unlearned) /\ val.lists \in Banks(Unlearned)
  /\ snap \in Banks(Unlearned)
  /\ phase \in {"idle", "batch"} \/ (phase = "update" /\ ~changed) =>
       Contents(env.lists) \ Learned(env.lists) = Contents(mem.lists)

LEMMA UnlearnedInBank == Banks(Unlearned) \subseteq Bank /\ Unlearned \subseteq Skill
  <1>1. Unlearned \subseteq Skill
    BY DEF Unlearned, OtherText, Skill
  <1>2. \A l \in Seq(Unlearned) : l \in Seq(Skill)
    BY <1>1
  <1> QED BY <1>1, <1>2 DEF Banks, Bank

LEMMA ContentsItems ==
  ASSUME NEW lists \in Bank
  PROVE  \A x : x \in Contents(lists) <=>
           \E c \in Lists : \E s \in ToSet(lists[c]) : Content(s) = x
  <1>1. ToSet(Walk(lists)) = UNION {ToSet(lists[c]) : c \in Lists}
    BY BankIds
  <1> QED BY <1>1 DEF Contents

LEMMA UnlearnedNone == ASSUME NEW lists \in Banks(Unlearned) PROVE Learned(lists) = {}
  <1>1. lists \in Bank
    BY UnlearnedInBank
  <1>2. \A c \in Lists : \A s \in ToSet(lists[c]) : s \in Unlearned
    BY DEF Banks, ToSet
  <1>3. \A s \in Unlearned : Content(s).text.by # "validation"
    BY DEF Unlearned, OtherText, Content
  <1>4. \A x \in Contents(lists) : x.text.by # "validation"
    BY <1>1, <1>2, <1>3, ContentsItems
  <1> QED BY <1>4 DEF Learned

LEMMA LearnInit == Init => LearnInv
  <1> SUFFICES ASSUME Init PROVE LearnInv
    OBVIOUS
  <1>1. InitLists \in Bank
    BY InitListsAssumption
  <1>2. \A c \in Lists : \A s \in ToSet(InitLists[c]) : s.text.by = "file" /\ s \in Skill
    BY <1>1, BankIds, InitListsAssumption
  <1>3. \A s \in Skill : s.text.by = "file" => s \in Unlearned
    BY DEF Skill, Unlearned, OtherText
  <1>4. \A c \in Lists : InitLists[c] \in Seq(Unlearned)
    <2> TAKE c \in Lists
    <2>1. InitLists[c] \in Seq(Skill)
      BY <1>1 DEF Bank
    <2>2. \A k \in 1..Len(InitLists[c]) : InitLists[c][k] \in Unlearned
      BY <1>2, <1>3, <2>1 DEF ToSet
    <2> QED BY <2>1, <2>2
  <1>5. InitLists \in Banks(Unlearned)
    BY <1>1, <1>4 DEF Bank, Banks
  <1>6. mem.lists = InitLists /\ env.lists = InitLists /\ val.lists = InitLists /\ snap = InitLists
    BY DEF Init, Loaded
  <1>7. Learned(InitLists) = {}
    BY <1>5, UnlearnedNone
  <1> QED BY <1>5, <1>6, <1>7 DEF LearnInv

LEMMA ScoredUnlearned ==
  ASSUME mem.lists \in Banks(Unlearned)
  PROVE  Scored \in Banks(Unlearned) /\ PrunedLists \in Banks(Unlearned)
  <1> DEFINE one == Credit(mem.lists, Credited, Gain)
  <1>1. Gain \in Int /\ -Loss \in Int
    BY UtilityAssumption
  <1>2. one \in Banks(Unlearned)
    BY <1>1, CreditType DEF Unlearned, Rated
  <1>3. Scored = Credit(one, Missing, -Loss)
    BY DEF Scored
  <1> HIDE DEF one
  <1>4. Scored \in Banks(Unlearned)
    BY <1>1, <1>2, <1>3, CreditType DEF Unlearned, Rated
  <1>5. Without(Scored, MergedIds) \in Banks(Unlearned)
    BY <1>4, WithoutType DEF Removed
  <1>6. PrunedLists \in Banks(Unlearned)
    BY <1>5, EvictType DEF PrunedLists, Evicted
  <1> QED BY <1>4, <1>6

LEMMA LearnValidate == TypeInv /\ LearnInv /\ Validate => LearnInv'
  <1> SUFFICES ASSUME TypeInv, LearnInv, Validate PROVE LearnInv'
    OBVIOUS
  <1>1. MaxNew \in Nat /\ "dyn" \in IdPrefixes
    BY BoundsAssumption
  <1>2. PICK k \in Nat : LET first == NextDynIndex(val.lists)
                         IN  /\ first + k - 1 <= MaxIndex
                             /\ FileValidationSkills(NewSkills(General, k, first, "dyn", "validation"))
    BY <1>1 DEF Validate
  <1> DEFINE first == NextDynIndex(val.lists)
             new == NewSkills(General, k, first, "dyn", "validation")
             lists == AddSkills(env.lists, new, General)
  <1>3. /\ val.lists \in Bank /\ env.lists \in Bank /\ round \in 0..MaxRounds
        /\ Sound(env) /\ Sound(val)
    BY DEF TypeInv, Sound, Memory
  <1>4. first \in Nat \ {0} /\ first + k - 1 <= MaxIndex
    BY <1>2, <1>3, FirstIndex
  <1>5. env' = (IF lists = env.lists THEN env ELSE Changed(lists)) /\ val' = Warm(val, conf.mode)
    BY <1>2 DEF FileValidationSkills
  <1> HIDE DEF first
  <1>6. Numbered(new, k, first, "dyn", "validation")
    <2>1. "validation" \in {"file", "round", "validation"}
      OBVIOUS
    <2> QED BY <1>1, <1>3, <1>4, <2>1, NewNumbered
  <1> HIDE DEF new
  <1>7. new \in Seq(Skill) /\ \A s \in ToSet(new) : s.text.by = "validation"
    BY <1>6 DEF Numbered
  <1>8. Joined(lists, env.lists, new, General, Skill) /\ lists \in Bank
    BY <1>3, <1>7, FiledType, TypesInLists
  <1> HIDE DEF lists
  <1>9. env'.lists = lists /\ val'.lists = val.lists
    BY <1>3, <1>5, <1>8, SoundChanged, SoundWarm
  <1>10. \A c \in Lists : /\ ToSet(env.lists[c]) \subseteq ToSet(lists[c])
                          /\ \A s \in ToSet(lists[c]) :
                               s \in ToSet(env.lists[c]) \/ s.text.by = "validation"
    BY <1>7, <1>8 DEF Joined
  <1>11. Contents(lists) \ Learned(lists) = Contents(env.lists) \ Learned(env.lists)
    <2>1. \A x \in Contents(env.lists) : x \in Contents(lists)
      BY <1>3, <1>8, <1>10, ContentsItems
    <2>2. \A x \in Contents(lists) : x \in Contents(env.lists) \/ x.text.by = "validation"
      <3> TAKE x \in Contents(lists)
      <3>1. PICK c \in Lists : \E s \in ToSet(lists[c]) : Content(s) = x
        BY <1>8, ContentsItems
      <3>2. PICK s \in ToSet(lists[c]) : Content(s) = x
        BY <3>1
      <3>3. s \in ToSet(env.lists[c]) => x \in Contents(env.lists)
        BY <1>3, <3>2, ContentsItems
      <3> QED BY <1>10, <3>2, <3>3 DEF Content
    <2> QED BY <2>1, <2>2 DEF Learned
  <1>12. phase = "idle" /\ UNCHANGED <<mem, phase, snap, changed>>
    BY DEF Validate, work
  <1> QED BY <1>9, <1>11, <1>12 DEF LearnInv

LEMMA LearnPrune == TypeInv /\ LearnInv /\ Prune => LearnInv'
  <1> SUFFICES ASSUME TypeInv, LearnInv, Prune PROVE LearnInv'
    OBVIOUS
  <1>1. mem.lists \in Bank /\ mem \in Memory
    BY DEF TypeInv, Sound, Memory
  <1>2. mem'.lists = PrunedLists /\ changed' = (PrunedIds # {})
    BY <1>1 DEF Prune, PrunedLists, PrunedIds, Memory
  <1>3. PrunedLists \in Banks(Unlearned)
    BY ScoredUnlearned DEF LearnInv
  <1>4. ASSUME PrunedIds = {} PROVE Contents(PrunedLists) = Contents(mem.lists)
    <2>1. PrunedLists = Scored
      BY <1>1, <1>4, PruneItems DEF Prunes
    <2>2. \A x : x \in Contents(Scored) <=>
                   \E c \in Lists : \E s \in ToSet(Scored[c]) : Content(s) = x
      BY <1>1, ScoredItems, ContentsItems
    <2>3. \A x : x \in Contents(mem.lists) <=>
                   \E c \in Lists : \E s \in ToSet(mem.lists[c]) : Content(s) = x
      BY <1>1, ContentsItems
    <2>4. \A c \in Lists : \A s \in ToSet(Scored[c]) :
            \E r \in ToSet(mem.lists[c]) : Content(r) = Content(s)
      <3>1. \A c \in Lists : \A s \in ToSet(Scored[c]) :
              \E r \in ToSet(mem.lists[c]) : r.id = s.id /\ r.text = s.text
        BY <1>1, ScoredItems
      <3> QED BY <3>1 DEF Content
    <2>5. \A c \in Lists : \A r \in ToSet(mem.lists[c]) :
            \E s \in ToSet(Scored[c]) : Content(s) = Content(r)
      <3>1. \A c \in Lists : \A r \in ToSet(mem.lists[c]) :
              \E s \in ToSet(Scored[c]) : s.id = r.id /\ s.text = r.text
        BY <1>1, ScoredItems
      <3> QED BY <3>1 DEF Content
    <2>6. \A x \in Contents(Scored) : x \in Contents(mem.lists)
      BY <2>2, <2>3, <2>4
    <2>7. \A x \in Contents(mem.lists) : x \in Contents(Scored)
      BY <2>2, <2>3, <2>5
    <2> QED BY <2>1, <2>6, <2>7
  <1>5. phase = "batch" /\ phase' = "update" /\ snap' = mem.lists /\ UNCHANGED <<env, val>>
    BY DEF Prune
  <1> QED BY <1>2, <1>3, <1>4, <1>5 DEF LearnInv

LEMMA LearnUpdate ==
  ASSUME TypeInv, LearnInv, NEW t \in Types, UpdateType(t)
  PROVE  LearnInv'
  <1>1. PICK revised, new, lists : Updates(t, revised, new, lists)
    BY UpdateFacts
  <1>2. mem.lists \in Banks(Unlearned)
    BY DEF LearnInv
  <1>3. new \in Seq(Skill) /\ \A s \in ToSet(new) : s.text.by = "round"
    BY <1>1 DEF Updates, Numbered
  <1>4. lists \in Banks(Unlearned)
    <2>1. lists \in Bank /\ Joined(lists, mem.lists, new, t, Skill)
      BY <1>1 DEF Updates
    <2>2. \A c \in Lists : \A s \in ToSet(lists[c]) :
            s \in ToSet(mem.lists[c]) \/ s \in ToSet(new)
      BY <2>1 DEF Joined
    <2>3. \A s \in Skill : s.text.by = "round" => s \in Unlearned
      BY DEF Skill, Unlearned, OtherText
    <2>4. \A c \in Lists : \A s \in ToSet(mem.lists[c]) : s \in Unlearned
      BY <1>2 DEF Banks, ToSet
    <2>5. \A c \in Lists : lists[c] \in Seq(Skill) /\ ToSet(lists[c]) \subseteq Skill
      BY <2>1, BankIds
    <2>6. \A c \in Lists : \A s \in ToSet(lists[c]) : s \in Unlearned
      BY <1>3, <2>2, <2>3, <2>4, <2>5
    <2>7. \A c \in Lists : lists[c] \in Seq(Unlearned)
      <3> TAKE c \in Lists
      <3>1. \A k \in 1..Len(lists[c]) : lists[c][k] \in Unlearned
        BY <2>5, <2>6 DEF ToSet
      <3> QED BY <2>5, <3>1
    <2> QED BY <2>1, <2>7 DEF Bank, Banks
  <1>5. /\ mem' = IF lists = mem.lists THEN mem ELSE Changed(lists)
        /\ changed' = (changed \/ lists # mem.lists)
        /\ phase = "update" /\ UNCHANGED <<env, val, phase, snap>>
    BY <1>1 DEF Updates
  <1>6. mem'.lists = lists
    BY <1>5 DEF Changed
  <1>7. changed \in BOOLEAN
    BY DEF TypeInv
  <1> QED BY <1>4, <1>5, <1>6, <1>7 DEF LearnInv

LEMMA LearnApply == TypeInv /\ LearnInv /\ ApplyUpdates => LearnInv'
  <1> SUFFICES ASSUME TypeInv, LearnInv, ApplyUpdates PROVE LearnInv'
    OBVIOUS
  <1> DEFINE text == [by |-> "round", at |-> round]
             lists == Synthesize(mem.lists, pend \cup AllChanged, text)
  <1>1. text \in OtherText
    BY DEF TypeInv, Text, OtherText
  <1>2. lists \in Banks(Unlearned)
    BY <1>1, SynthesizeType DEF LearnInv, Unlearned, Rewritten
  <1>3. mem' = IF pend = {} THEN mem ELSE Changed(lists)
    BY DEF ApplyUpdates
  <1> HIDE DEF lists
  <1>4. mem'.lists \in Banks(Unlearned)
    BY <1>2, <1>3 DEF Changed, LearnInv
  <1>5. phase' = "verify" /\ UNCHANGED <<val, snap>>
    BY DEF ApplyUpdates
  <1> QED BY <1>4, <1>5 DEF LearnInv

LEMMA LearnPublish ==
  ASSUME TypeInv, LearnInv, NEW memory, Sound(memory), memory.lists \in Banks(Unlearned),
         Publish(memory), val' = val
  PROVE  LearnInv'
  <1>1. /\ mem' = memory /\ snap' = memory.lists
        /\ env' = SyncSkillToEnv(env, memory.lists)
    BY DEF Publish
  <1>2. env'.lists = memory.lists
    BY <1>1, UnlearnedInBank, SoundSync DEF TypeInv
  <1>3. Learned(memory.lists) = {}
    BY UnlearnedNone
  <1> QED BY <1>1, <1>2, <1>3 DEF LearnInv

\* What a restore makes of two banks of skills of one kind is one.
LEMMA RestoredKind ==
  ASSUME TypeInv, rejected' \subseteq Lists, NEW S,
         mem.lists \in Banks(S), snap \in Banks(S),
         NEW ids \in Orders(UNION {changedBy[c] : c \in rejected'})
  PROVE  RestorePartial(mem.lists, snap, ids) \in Banks(S)
  <1> DEFINE all == UNION {changedBy[c] : c \in rejected'}
  <1>1. all \in SUBSET SkillId /\ IsFiniteSet(all)
    BY RejectedIds
  <1>2. snap \in Bank
    BY DEF TypeInv
  <1>3. ids \in Orders(all)
    OBVIOUS
  <1> HIDE DEF all
  <1>4. ids \in Seq(SkillId)
    BY <1>1, <1>2, <1>3, OrdersType DEF Ordering
  <1>5. PICK r, back : RestoreBy(r, back, mem.lists, snap, ids, SkillId, S)
    BY <1>4, RestoreRecursion
  <1>6. back \in Seq(SkillId)
    BY <1>5 DEF RestoreBy
  <1>7. Len(back) \in 0..Len(back)
    BY <1>6
  <1> QED BY <1>5, <1>7 DEF RestoreBy, Restores

LEMMA LearnJudge == TypeInv /\ LearnInv /\ JudgePerType => LearnInv'
  <1> SUFFICES ASSUME TypeInv, LearnInv, JudgePerType PROVE LearnInv'
    OBVIOUS
  <1>1. PublishesRestored
    BY JudgeFacts
  <1>2. rejected' \subseteq Lists /\ val' = val
    BY <1>1 DEF PublishesRestored
  <1>3. CASE Publish(mem)
    BY <1>2, <1>3, LearnPublish DEF TypeInv, LearnInv
  <1>4. ASSUME NEW ids \in Orders(UNION {changedBy[c] : c \in rejected'}),
               Publish(Changed(RestorePartial(mem.lists, snap, ids)))
        PROVE  LearnInv'
    <2>1. RestorePartial(mem.lists, snap, ids) \in Banks(Unlearned)
      BY <1>2, RestoredKind DEF LearnInv
    <2>2. RestorePartial(mem.lists, snap, ids) \in Bank
      BY <2>1, UnlearnedInBank
    <2>3. /\ Sound(Changed(RestorePartial(mem.lists, snap, ids)))
          /\ Changed(RestorePartial(mem.lists, snap, ids)).lists \in Banks(Unlearned)
      BY <2>1, <2>2, SoundChanged
    <2> QED BY <1>2, <1>4, <2>3, LearnPublish
  <1> QED BY <1>1, <1>3, <1>4 DEF PublishesRestored

LEMMA LearnJudgeAll == TypeInv /\ LearnInv /\ JudgeAll => LearnInv'
  <1> SUFFICES ASSUME TypeInv, LearnInv, JudgeAll PROVE LearnInv'
    OBVIOUS
  <1>1. val' = val /\ (Publish(mem) \/ Publish(Changed(snap)))
    BY DEF JudgeAll
  <1>2. Sound(mem) /\ mem.lists \in Banks(Unlearned)
    BY DEF TypeInv, LearnInv
  <1>3. Sound(Changed(snap)) /\ Changed(snap).lists \in Banks(Unlearned)
    BY SoundChanged DEF TypeInv, LearnInv
  <1> QED BY <1>1, <1>2, <1>3, LearnPublish

LEMMA LearnStep == TypeInv /\ LearnInv /\ [Next]_vars => LearnInv'
  <1> SUFFICES ASSUME TypeInv, LearnInv, [Next]_vars PROVE LearnInv'
    OBVIOUS
  <1>0. mem.lists \in Bank /\ Sound(mem) /\ Sound(env) /\ Sound(val)
    BY DEF TypeInv, Sound, Memory
  <1>1. CASE Rollout
    <2>1. env'.lists = env.lists
      BY <1>0, <1>1, SoundWarm DEF Rollout
    <2>2. phase = "idle" /\ UNCHANGED <<mem, val, snap>>
      BY <1>1 DEF Rollout, work
    <2> QED BY <2>1, <2>2 DEF LearnInv
  <1>2. CASE NoRound
    BY <1>2 DEF NoRound, LearnInv, work
  <1>3. CASE Validate
    BY <1>3, LearnValidate
  <1>4. CASE Prune
    BY <1>4, LearnPrune
  <1>5. CASE NoPrune
    BY <1>5 DEF NoPrune, LearnInv
  <1>6. ASSUME NEW t \in Types, UpdateType(t) PROVE LearnInv'
    BY <1>6, LearnUpdate
  <1>7. CASE ApplyUpdates
    BY <1>7, LearnApply
  <1>8. CASE NothingChanged
    BY <1>8 DEF NothingChanged, LearnInv, LeaveRound
  <1>9. CASE Replay
    BY <1>9 DEF Replay, LearnInv, work
  <1>10. CASE NoReplay
    BY <1>10 DEF NoReplay, LearnInv, work
  <1>11. CASE Fallback
    <2>1. val'.lists = mem.lists
      BY <1>0, <1>11, SoundSync, SoundWarm DEF Fallback
    <2> QED BY <1>11, <2>1 DEF Fallback, LearnInv, work
  <1>12. CASE JudgePerType
    BY <1>12, LearnJudge
  <1>13. CASE JudgeAll
    BY <1>13, LearnJudgeAll
  <1>14. CASE UNCHANGED vars
    BY <1>14 DEF LearnInv, vars, work
  <1> QED BY <1>1, <1>2, <1>3, <1>4, <1>5, <1>6, <1>7, <1>8, <1>9, <1>10, <1>11, <1>12,
             <1>13, <1>14 DEF Next, Stopped

LEMMA LearnSuffices == LearnInv => ValidationOnlyTrains
  BY UnlearnedNone DEF LearnInv, ValidationOnlyTrains

\* In every configuration what is learned from validation reaches training
\* prompts only, and between rounds these show the published bank otherwise.
THEOREM ValidationStaysOut == Spec => []ValidationOnlyTrains
  BY TypeInit, TypeStep, LearnInit, LearnStep, LearnSuffices, PTL DEF Spec

-----------------------------------------------------------------------------
(* What merging takes *)

\* A step that prunes is Prune.
LEMMA PrunedIsPrune == TypeInv /\ [Next]_vars /\ Pruned => Prune
  <1> SUFFICES ASSUME TypeInv, [Next]_vars, Pruned PROVE Prune
    OBVIOUS
  <1>1. phase = "batch" /\ phase' = "update" /\ mem' # mem
    BY DEF Pruned
  <1>2. ~Rollout /\ ~Validate /\ ~ApplyUpdates /\ ~NothingChanged
    BY <1>1 DEF Rollout, Validate, ApplyUpdates, NothingChanged
  <1>3. ~NoRound /\ ~NoPrune /\ ~Replay /\ ~NoReplay /\ ~Fallback /\ ~JudgePerType /\ ~JudgeAll
    BY <1>1 DEF NoRound, NoPrune, Replay, NoReplay, Fallback, JudgePerType, JudgeAll
  <1>4. \A t \in Types : ~UpdateType(t)
    BY <1>1 DEF UpdateType
  <1>5. ~UNCHANGED vars
    BY <1>1 DEF vars
  <1> QED BY <1>2, <1>3, <1>4, <1>5 DEF Next, Stopped

\* Walking a bank with no id in two places meets every id once.
LEMMA DistinctWalk ==
  ASSUME NEW lists \in Bank, Distinct(lists)
  PROVE  Singles(Walk(lists), Skill)
  <1> DEFINE flat == Walk(lists)
             ss == [k \in 1..Len(Order) |-> lists[Order[k]]]
             m == Len(Order)
  <1>1. flat \in Seq(Skill)
    BY BankIds
  <1>2. PICK p, q : Places(flat, ss, m, p, q)
    BY BankIsBanks, WalkPlaces
  <1>3. m \in Nat /\ \A k \in 1..m : Order[k] \in Lists /\ ss[k] = lists[Order[k]]
    BY OrderType
  <1>4. \A j, k \in 1..m : Order[j] = Order[k] => j = k
    BY OrderType
  <1>5. Len(flat) \in Nat
    BY <1>1
  <1> HIDE DEF flat, ss, m
  <1>6. ASSUME NEW i \in 1..Len(flat)
        PROVE  /\ p[i] \in 1..m /\ Order[p[i]] \in Lists /\ q[i] \in Int
               /\ q[i] \in DOMAIN lists[Order[p[i]]]
               /\ flat[i] = lists[Order[p[i]]][q[i]]
    <2>1. p[i] \in 1..m /\ q[i] \in 1..Len(ss[p[i]]) /\ flat[i] = ss[p[i]][q[i]]
      BY <1>2 DEF Places
    <2>2. Order[p[i]] \in Lists /\ ss[p[i]] = lists[Order[p[i]]]
      BY <1>3, <2>1
    <2>3. lists[Order[p[i]]] \in Seq(Skill)
      BY <2>2 DEF Bank
    <2>4. DOMAIN lists[Order[p[i]]] = 1..Len(lists[Order[p[i]]])
      BY <2>3
    <2>5. q[i] \in DOMAIN lists[Order[p[i]]] /\ q[i] \in Int
      BY <2>1, <2>2, <2>4
    <2> QED BY <2>1, <2>2, <2>5
  <1>7. ASSUME NEW i \in 1..Len(flat), NEW j \in 1..Len(flat), i < j
        PROVE  flat[i].id # flat[j].id
    <2> SUFFICES ASSUME flat[i].id = flat[j].id PROVE FALSE
      OBVIOUS
    <2>1. Order[p[i]] = Order[p[j]] /\ q[i] = q[j]
      <3>1. /\ Order[p[i]] \in Lists /\ q[i] \in DOMAIN lists[Order[p[i]]]
            /\ flat[i] = lists[Order[p[i]]][q[i]]
        BY <1>6
      <3>2. /\ Order[p[j]] \in Lists /\ q[j] \in DOMAIN lists[Order[p[j]]]
            /\ flat[j] = lists[Order[p[j]]][q[j]]
        BY <1>6
      <3>3. lists[Order[p[i]]][q[i]].id = lists[Order[p[j]]][q[j]].id
        BY <3>1, <3>2
      <3> QED BY <3>1, <3>2, <3>3 DEF Distinct
    <2>2. p[i] = p[j]
      BY <1>4, <1>6, <2>1
    <2>3. p[i] < p[j] \/ (p[i] = p[j] /\ q[i] < q[j])
      BY <1>2, <1>7 DEF Places
    <2>4. p[i] \in Int /\ q[i] \in Int
      BY <1>6
    <2> QED BY <2>1, <2>2, <2>3, <2>4
  <1>8. \A j, k \in 1..Len(flat) : flat[j].id = flat[k].id => j = k
    BY <1>5, <1>7
  <1>9. \A s \in Skill : s.utility \in Int
    BY SkillParts
  <1>10. Singles(flat, Skill)
    BY <1>1, <1>8, <1>9 DEF Singles
  <1> QED BY <1>10 DEF flat

LEMMA ScoredDistinct ==
  ASSUME mem.lists \in Bank, Distinct(mem.lists)
  PROVE  Distinct(Scored)
  <1>1. Scored \in Bank /\ \A c \in Lists : SameIds(Scored[c], mem.lists[c])
    BY ScoredItems
  <1>2. \A c \in Lists : /\ DOMAIN Scored[c] = DOMAIN mem.lists[c]
                         /\ \A k \in DOMAIN Scored[c] : Scored[c][k].id = mem.lists[c][k].id
    <2> TAKE c \in Lists
    <2>1. Scored[c] \in Seq(Skill) /\ mem.lists[c] \in Seq(Skill)
      BY <1>1 DEF Bank
    <2>2. DOMAIN Scored[c] = 1..Len(Scored[c]) /\ DOMAIN mem.lists[c] = 1..Len(mem.lists[c])
      BY <2>1
    <2> QED BY <1>1, <2>2 DEF SameIds
  <1> QED BY <1>2 DEF Distinct

\* What is merged leads to what stays, and nothing is left to merge.
MergeKeeps ==
  LET skills == ToSet(Walk(Scored))
      merged == {s \in skills : s.id \in MergedIds}
      stay   == skills \ merged
  IN  /\ \A away \in SUBSET merged : away # {} =>
           \E s \in away, r \in skills \ away :
             Dynamic(s) /\ Near({s, r}) /\ s.utility <= r.utility
      /\ \A s, r \in stay : s # r /\ Near({s, r}) /\ Dynamic(s) =>
           s.utility > r.utility \/ (s.utility = r.utility /\ ~Dynamic(r))

LEMMA MergeStep ==
  ASSUME TypeInv, conf.mode = "embedding", UniqueIds(mem.lists)
  PROVE  MergeKeeps
  <1> DEFINE flat == Walk(Scored)
             skills == ToSet(flat)
  <1>1. mem.lists \in Bank
    BY DEF TypeInv, Sound, Memory
  <1>2. Distinct(mem.lists)
    BY <1>1, BankIsBanks, WalkDistinct DEF UniqueIds
  <1>3. Singles(flat, Skill)
    BY <1>1, <1>2, ScoredDistinct, ScoredItems, DistinctWalk
  <1> HIDE DEF flat
  <1>4. /\ LeadOut(flat, MergedAway(flat))
        /\ \A s, r \in skills :
             s # r /\ s.id \notin MergedAway(flat) /\ r.id \notin MergedAway(flat)
               => Settled(s, r)
    BY <1>3, MergedSettled
  <1>5. MergedIds = MergedAway(flat)
    BY DEF MergedIds, flat
  <1>6. \A away \in SUBSET {s \in skills : s.id \in MergedIds} : away # {} =>
          \E s \in away, r \in skills \ away :
            Dynamic(s) /\ Near({s, r}) /\ s.utility <= r.utility
    BY <1>4, <1>5 DEF LeadOut, Leads
  <1>7. \A s, r \in skills \ {x \in skills : x.id \in MergedIds} :
          s # r /\ Near({s, r}) /\ Dynamic(s) =>
            s.utility > r.utility \/ (s.utility = r.utility /\ ~Dynamic(r))
    BY <1>4, <1>5 DEF Settled, Outranks
  <1> QED BY <1>6, <1>7 DEF MergeKeeps, flat

\* In every configuration a skill that is merged away leads, by near-duplicates of
\* no smaller utility, to one that stays, and no two that stay should be merged.
THEOREM MergingKeepsOne == Spec => MergeKeepsOne
  <1>1. TypeInv => [Pruned /\ conf.mode = "embedding" /\ UniqueIds(mem.lists) =>
                      LET skills == ToSet(Walk(Scored))
                          merged == {s \in skills : s.id \in MergedIds}
                          stay   == skills \ merged
                      IN  /\ \A away \in SUBSET merged : away # {} =>
                               \E s \in away, r \in skills \ away :
                                 Dynamic(s) /\ Near({s, r}) /\ s.utility <= r.utility
                          /\ \A s, r \in stay : s # r /\ Near({s, r}) /\ Dynamic(s) =>
                               s.utility > r.utility
                                 \/ (s.utility = r.utility /\ ~Dynamic(r))]_vars
    BY MergeStep DEF MergeKeeps
  <1> QED BY <1>1, TypeInit, TypeStep, PTL DEF Spec, MergeKeepsOne

-----------------------------------------------------------------------------
(* What a round changes *)

\* A prefix of a type's own is in no other list.
OwnPrefix(lists) ==
  \A c \in Lists : \A s \in ToSet(lists[c]) : \A t \in Types \ {c} :
    s.id.pfx = Prefix[t] => Prefix[t] = "dyn"

OwnInv == OwnPrefix(mem.lists) /\ OwnPrefix(snap)

InRound == phase \in {"update", "verify", "judge", "fallback", "compare"}

\* What the round has done to a list is recorded under its key, or under general.
Traced ==
  /\ \A c \in Lists : \A s \in ToSet(mem.lists[c]) :
       s.id \in pend \cup AllChanged => s.id \in changedBy[c]
  /\ \A c \in Lists : \A s \in ToSet(mem.lists[c]) :
       s.id \notin changedBy[c] => \E e \in ToSet(snap[c]) : Content(e) = Content(s)
  /\ \A c \in Lists : \A e \in ToSet(snap[c]) :
       (\E s \in ToSet(mem.lists[c]) : s.id = e.id) \/ e.id \in changedBy[General]
  /\ Distinct(mem.lists)
  /\ SameIds(Statics(mem.lists[General]), Statics(snap[General]))

RoundInv == InRound /\ Distinct(snap) => Traced

LEMMA HoldsItem ==
  ASSUME NEW list
  PROVE  \A i : Holds(list, i) <=> \E s \in ToSet(list) : s.id = i
  BY DEF Holds, ToSet

\* Distinct banks, item by item ...
LEMMA DistinctItems ==
  ASSUME NEW lists, Distinct(lists)
  PROVE  \A c, d \in Lists : \A s \in ToSet(lists[c]), r \in ToSet(lists[d]) :
           s.id = r.id => c = d /\ s = r
  <1> SUFFICES ASSUME NEW c \in Lists, NEW d \in Lists, NEW s \in ToSet(lists[c]),
                      NEW r \in ToSet(lists[d]), s.id = r.id
               PROVE  c = d /\ s = r
    OBVIOUS
  <1>1. PICK k \in DOMAIN lists[c] : s = lists[c][k]
    BY DEF ToSet
  <1>2. PICK l \in DOMAIN lists[d] : r = lists[d][l]
    BY DEF ToSet
  <1> QED BY <1>1, <1>2 DEF Distinct

\* ... and list by list.
Apart(lists) ==
  \A c, d \in Lists : \A s \in ToSet(lists[c]), r \in ToSet(lists[d]) : s.id = r.id => c = d

LEMMA DistinctLists ==
  ASSUME NEW lists \in Bank, Separate(lists), Apart(lists)
  PROVE  Distinct(lists)
  <1> SUFFICES ASSUME NEW c \in Lists, NEW d \in Lists, NEW k \in DOMAIN lists[c],
                      NEW l \in DOMAIN lists[d], lists[c][k].id = lists[d][l].id
               PROVE  c = d /\ k = l
    BY DEF Distinct
  <1>1. lists[c][k] \in ToSet(lists[c]) /\ lists[d][l] \in ToSet(lists[d])
    BY DEF ToSet
  <1>2. c = d
    BY <1>1 DEF Apart
  <1>3. lists[c] \in Seq(Skill)
    BY DEF Bank
  <1>4. k \in 1..Len(lists[c]) /\ l \in 1..Len(lists[c])
    BY <1>2, <1>3
  <1>5. k = l
    BY <1>2, <1>4 DEF Separate
  <1> QED BY <1>2, <1>5

LEMMA SameIdsSelf == ASSUME NEW a PROVE SameIds(a, a)
  BY DEF SameIds

LEMMA OwnInit == Init => OwnInv /\ RoundInv
  <1> SUFFICES ASSUME Init PROVE OwnInv /\ RoundInv
    OBVIOUS
  <1>1. OwnPrefix(InitLists)
    <2> SUFFICES ASSUME NEW c \in Lists, NEW s \in ToSet(InitLists[c]), NEW t \in Types \ {c},
                        s.id.pfx = Prefix[t], Prefix[t] # "dyn"
                 PROVE  FALSE
      BY DEF OwnPrefix
    <2>1. c \in Lists \ {t}
      OBVIOUS
    <2> QED BY <2>1, PrefixAssumption
  <1>2. mem.lists = InitLists /\ snap = InitLists /\ phase = "idle"
    BY DEF Init, Loaded
  <1> QED BY <1>1, <1>2 DEF OwnInv, RoundInv, InRound

LEMMA RoundPrune == TypeInv /\ OwnInv /\ Prune => OwnInv' /\ RoundInv'
  <1> SUFFICES ASSUME TypeInv, OwnInv, Prune PROVE OwnInv' /\ RoundInv'
    OBVIOUS
  <1>1. mem.lists \in Bank /\ mem \in Memory
    BY DEF TypeInv, Sound, Memory
  <1>2. /\ mem'.lists = PrunedLists /\ snap' = mem.lists /\ pend' = {}
        /\ changedBy' = [NoChange EXCEPT ![General] = PrunedIds]
    BY <1>1 DEF Prune, PrunedLists, PrunedIds, Memory
  <1>3. Prunes(PrunedLists, PrunedIds)
    BY <1>1, PruneItems
  <1>4. /\ changedBy'[General] = PrunedIds
        /\ \A c \in Lists \ {General} : changedBy'[c] = {}
    BY <1>2, TypesInLists DEF NoChange
  <1>5. \A c \in Lists : \A s \in ToSet(PrunedLists[c]) :
          \E r \in ToSet(mem.lists[c]) : r.id = s.id /\ r.text = s.text
    <2>1. \A c \in Lists : ToSet(PrunedLists[c]) \subseteq ToSet(Scored[c])
      BY <1>3 DEF Prunes
    <2>2. \A c \in Lists : \A s \in ToSet(Scored[c]) :
            \E r \in ToSet(mem.lists[c]) : r.id = s.id /\ r.text = s.text
      BY <1>1, ScoredItems
    <2> QED BY <2>1, <2>2
  <1>6. OwnPrefix(PrunedLists)
    BY <1>5 DEF OwnInv, OwnPrefix
  <1>7. OwnInv'
    BY <1>2, <1>6 DEF OwnInv, OwnPrefix
  <1>8. ASSUME Distinct(mem.lists) PROVE Traced'
    <2>1. Scored \in Bank /\ Distinct(Scored)
      BY <1>1, <1>8, ScoredDistinct, ScoredItems
    <2>2. AllChanged' = PrunedIds
      BY <1>4, TypesInLists DEF AllChanged
    <2>3. \A c \in Lists : \A s \in ToSet(PrunedLists[c]) : s.id \notin PrunedIds
      <3> SUFFICES ASSUME NEW c \in Lists, NEW s \in ToSet(PrunedLists[c]),
                          s.id \in PrunedIds
                   PROVE  FALSE
        OBVIOUS
      <3>1. s \in ToSet(Scored[c]) /\ s.id \notin MergedIds /\ ~Useless(s)
        BY <1>3 DEF Prunes
      <3>2. PICK d \in Lists : \E r \in ToSet(Scored[d]) :
              r.id = s.id /\ (s.id \in MergedIds \/ Useless(r))
        BY <1>3 DEF Prunes
      <3>3. PICK r \in ToSet(Scored[d]) : r.id = s.id /\ (s.id \in MergedIds \/ Useless(r))
        BY <3>2
      <3>4. s = r
        BY <2>1, <3>1, <3>3, DistinctItems
      <3> QED BY <3>1, <3>3, <3>4
    <2>4. \A c \in Lists : \A s \in ToSet(PrunedLists[c]) :
            \E e \in ToSet(mem.lists[c]) : Content(e) = Content(s)
      BY <1>5 DEF Content
    <2>5. \A c \in Lists : \A e \in ToSet(mem.lists[c]) :
            (\E s \in ToSet(PrunedLists[c]) : s.id = e.id) \/ e.id \in PrunedIds
      <3> TAKE c \in Lists
      <3> TAKE e \in ToSet(mem.lists[c])
      <3>1. PICK s \in ToSet(Scored[c]) : s.id = e.id /\ s.text = e.text
        BY <1>1, ScoredItems
      <3>2. s.id \in PrunedIds \/ s \in ToSet(PrunedLists[c])
        BY <1>3 DEF Prunes
      <3> QED BY <3>1, <3>2
    <2>6. Distinct(PrunedLists)
      <3>1. Separate(Scored)
        BY <2>1, BankIsBanks, DistinctSeparate
      <3>2. Separate(PrunedLists)
        BY <1>3, <3>1 DEF Prunes, Separate
      <3>3. Apart(PrunedLists)
        <4>1. \A c \in Lists : ToSet(PrunedLists[c]) \subseteq ToSet(Scored[c])
          BY <1>3 DEF Prunes
        <4> QED BY <2>1, <4>1, DistinctItems DEF Apart
      <3> QED BY <1>3, <3>2, <3>3, DistinctLists DEF Prunes
    <2>7. SameIds(Statics(PrunedLists[General]), Statics(mem.lists[General]))
      <3>1. SameIds(Statics(PrunedLists[General]), Statics(Scored[General]))
        BY <1>3, TypesInLists DEF Prunes
      <3>2. SameIds(Statics(Scored[General]), Statics(mem.lists[General]))
        <4>1. SameIds(Scored[General], mem.lists[General])
          BY <1>1, ScoredItems, TypesInLists
        <4>2. Scored[General] \in Seq(Skill) /\ mem.lists[General] \in Seq(Skill)
          BY <1>1, <2>1, TypesInLists, BankIds
        <4> QED BY <4>1, <4>2, StaticsSame
      <3> QED BY <3>1, <3>2, SameIdsTrans
    <2> QED BY <1>2, <1>4, <2>2, <2>3, <2>4, <2>5, <2>6, <2>7 DEF Traced
  <1> QED BY <1>2, <1>7, <1>8 DEF RoundInv

LEMMA RoundNoPrune == TypeInv /\ OwnInv /\ NoPrune => OwnInv' /\ RoundInv'
  <1> SUFFICES ASSUME TypeInv, OwnInv, NoPrune PROVE OwnInv' /\ RoundInv'
    OBVIOUS
  <1>1. snap' = mem.lists /\ mem' = mem /\ pend' = {} /\ changedBy' = NoChange
    BY DEF NoPrune
  <1>2. OwnInv'
    BY <1>1 DEF OwnInv, OwnPrefix
  <1>3. AllChanged' = {}
    BY <1>1 DEF AllChanged, NoChange
  <1>4. ASSUME Distinct(mem.lists) PROVE Traced'
    <2>1. SameIds(Statics(mem.lists[General]), Statics(mem.lists[General]))
      BY SameIdsSelf
    <2> QED BY <1>1, <1>3, <1>4, <2>1 DEF Traced
  <1> QED BY <1>1, <1>2, <1>4 DEF RoundInv

\* An id in one list is recorded under it.
LEMMA CategoryHome ==
  ASSUME Distinct(mem.lists), NEW c \in Lists, NEW s \in ToSet(mem.lists[c])
  PROVE  CategoryOf(s.id) = c
  <1> DEFINE n == Len(TypeOrder)
             I == {k \in 1..n : Holds(mem.lists[TypeOrder[k]], s.id)}
             k == IF I # {} THEN Min(I) ELSE 0
  <1>1. CategoryOf(s.id) = IF k = 0 THEN General ELSE TypeOrder[k]
    BY DEF CategoryOf, SelectInSeq
  <1>2. n \in Nat /\ \A j \in 1..n : TypeOrder[j] \in Types
    BY OrderAssumption DEF Types, ToSet
  <1>3. \A j \in I : TypeOrder[j] = c
    <2> TAKE j \in I
    <2>1. TypeOrder[j] \in Lists
      BY <1>2, TypesInLists
    <2>2. PICK r \in ToSet(mem.lists[TypeOrder[j]]) : r.id = s.id
      BY HoldsItem
    <2> QED BY <2>1, <2>2, DistinctItems
  <1>4. I \in SUBSET (1..n)
    OBVIOUS
  <1>5. c # General => I # {}
    <2> SUFFICES ASSUME c # General PROVE I # {}
      OBVIOUS
    <2>1. c \in Types
      BY OrderType
    <2>2. PICK j \in 1..n : TypeOrder[j] = c
      BY <2>1, OrderAssumption DEF Types, ToSet
    <2>3. Holds(mem.lists[c], s.id)
      BY HoldsItem
    <2> QED BY <2>2, <2>3
  <1> HIDE DEF I, n
  <1>6. CASE I = {}
    BY <1>1, <1>5, <1>6
  <1>7. CASE I # {}
    <2>1. Min(I) \in I
      BY <1>2, <1>4, <1>7, FirstLast
    <2>2. k = Min(I) /\ k # 0
      BY <1>2, <1>4, <1>7, <2>1
    <2> QED BY <1>1, <1>3, <2>1, <2>2
  <1> QED BY <1>6, <1>7

\* No other list has the id of a new skill.
LEMMA NewUntaken ==
  ASSUME TypeInv, OwnPrefix(mem.lists), NEW t \in Types, NEW new, NEW k,
         Numbered(new, k, NextDynIndex(mem.lists), Prefix[t], "round"),
         NEW s \in ToSet(new), NEW c \in Lists, NEW r \in ToSet(mem.lists[c]), r.id = s.id
  PROVE  c = t
  <1> SUFFICES ASSUME c # t PROVE FALSE
    OBVIOUS
  <1>1. mem.lists \in Bank
    BY DEF TypeInv, Sound, Memory
  <1>2. s.id.pfx = Prefix[t] /\ s.id.n >= NextDynIndex(mem.lists) /\ s \in Skill
    BY DEF Numbered, ToSet
  <1>3. t \in Types \ {c}
    OBVIOUS
  <1>4. r.id.pfx = "dyn"
    BY <1>2, <1>3 DEF OwnPrefix
  <1>5. r.id \in Ids(mem.lists)
    BY <1>1, BankIds
  <1>6. r.id.n < NextDynIndex(mem.lists) /\ NextDynIndex(mem.lists) \in Int
    BY <1>1, <1>4, <1>5, FirstIndex
  <1>7. s.id.n \in Int
    <2>1. s.id.n \in 1..MaxIndex
      BY <1>2, SkillParts
    <2> QED BY <2>1
  <1> QED BY <1>2, <1>6, <1>7

\* Adding new skills to a list keeps ids apart.
LEMMA FiledDistinct ==
  ASSUME NEW old \in Bank, Distinct(old), NEW new, NEW k, NEW first \in Nat, NEW pfx, NEW by,
         k \in Nat, Numbered(new, k, first, pfx, by), NEW t \in Lists, NEW lists \in Bank,
         Joined(lists, old, new, t, Skill)
  PROVE  Distinct(lists)
  <1> DEFINE keep == {s \in ToSet(new) : s.id \notin Ids(old)}
             add == Only(new, keep)
             m == Len(old[t])
             n == Len(add)
  <1>1. new \in Seq(Skill) /\ Len(new) = k
    BY DEF Numbered
  <1>2. \A i, j \in 1..Len(new) : new[i].id = new[j].id => i = j
    <2> SUFFICES ASSUME NEW i \in 1..k, NEW j \in 1..k, new[i].id = new[j].id PROVE i = j
      BY <1>1
    <2>1. /\ new[i].id = [pfx |-> pfx, n |-> first + i - 1]
          /\ new[j].id = [pfx |-> pfx, n |-> first + j - 1]
      BY DEF Numbered
    <2>2. [pfx |-> pfx, n |-> first + i - 1].n = [pfx |-> pfx, n |-> first + j - 1].n
      BY <2>1
    <2>3. first + i - 1 = first + j - 1
      BY <2>2
    <2> QED BY <2>3
  <1>3. add \in Seq(Skill) /\ ToSet(add) = keep
    BY <1>1, OnlyType
  <1>4. \A i, j \in 1..n : add[i].id = add[j].id => i = j
    BY <1>1, <1>2, OnlySeparate
  <1>5. old[t] \in Seq(Skill) /\ Separate(old)
    BY BankIsBanks, DistinctSeparate DEF Bank
  <1>6. lists[t] = old[t] \o add /\ \A d \in Lists \ {t} : lists[d] = old[d]
    BY DEF Joined
  <1>7. /\ lists[t] \in Seq(Skill) /\ Len(lists[t]) = m + n
        /\ \A i \in 1..m : lists[t][i] = old[t][i]
        /\ \A i \in 1..n : lists[t][m + i] = add[i]
    <2> HIDE DEF add, keep
    <2>1. /\ old[t] \o add \in Seq(Skill) /\ Len(old[t] \o add) = Len(old[t]) + Len(add)
          /\ \A i \in 1..Len(old[t]) : (old[t] \o add)[i] = old[t][i]
          /\ \A i \in 1..Len(add) : (old[t] \o add)[Len(old[t]) + i] = add[i]
      BY <1>3, <1>5, AppendAt
    <2> QED BY <1>6, <2>1
  <1>8. m \in Nat /\ n \in Nat
    BY <1>3, <1>5
  <1>9. \A i \in 1..n : add[i].id \notin Ids(old)
    <2> TAKE i \in 1..n
    <2>1. \A s \in keep : s.id \notin Ids(old)
      OBVIOUS
    <2> HIDE DEF add, keep
    <2>2. add[i] \in ToSet(add)
      BY <1>3 DEF ToSet
    <2> QED BY <1>3, <2>1, <2>2
  <1>10. \A i \in 1..m : old[t][i].id \in Ids(old)
    BY <1>5, <1>8, BankIds DEF ToSet
  <1> HIDE DEF add, m, n, keep
  <1>11. ASSUME NEW i \in 1..Len(lists[t]), NEW j \in 1..Len(lists[t]),
                lists[t][i].id = lists[t][j].id
         PROVE  i = j
    <2>1. i \in 1..(m + n) /\ j \in 1..(m + n)
      BY <1>7
    <2>2. CASE i <= m /\ j <= m
      <3>1. i \in 1..m /\ j \in 1..m
        BY <1>8, <2>1, <2>2
      <3>2. old[t][i].id = old[t][j].id
        BY <1>7, <1>11, <3>1
      <3> QED BY <1>5, <3>1, <3>2 DEF Separate, m
    <2>3. CASE i <= m /\ j > m
      <3>1. i \in 1..m /\ j - m \in 1..n /\ m + (j - m) = j
        BY <1>8, <2>1, <2>3
      <3>2. lists[t][i] = old[t][i] /\ lists[t][j] = add[j - m]
        BY <1>7, <3>1
      <3> QED BY <1>9, <1>10, <1>11, <3>1, <3>2
    <2>4. CASE i > m /\ j <= m
      <3>1. j \in 1..m /\ i - m \in 1..n /\ m + (i - m) = i
        BY <1>8, <2>1, <2>4
      <3>2. lists[t][j] = old[t][j] /\ lists[t][i] = add[i - m]
        BY <1>7, <3>1
      <3> QED BY <1>9, <1>10, <1>11, <3>1, <3>2
    <2>5. CASE i > m /\ j > m
      <3>1. j - m \in 1..n /\ m + (j - m) = j /\ i - m \in 1..n /\ m + (i - m) = i
        BY <1>8, <2>1, <2>5
      <3>2. lists[t][j] = add[j - m] /\ lists[t][i] = add[i - m]
        BY <1>7, <3>1
      <3>3. i - m = j - m
        BY <1>4, <1>11, <3>1, <3>2
      <3> QED BY <1>8, <2>1, <3>3
    <2> QED BY <1>8, <2>1, <2>2, <2>3, <2>4, <2>5
  <1>12. Separate(lists)
    <2> SUFFICES ASSUME NEW c \in Lists, NEW i \in 1..Len(lists[c]),
                        NEW j \in 1..Len(lists[c]), lists[c][i].id = lists[c][j].id
                 PROVE  i = j
      BY DEF Separate
    <2>1. CASE c = t
      BY <1>11, <2>1
    <2>2. CASE c # t
      BY <1>5, <1>6, <2>2 DEF Separate
    <2> QED BY <2>1, <2>2
  <1>13. Apart(lists)
    <2>1. \A c \in Lists : \A s \in ToSet(lists[c]) :
            s \in ToSet(old[c]) \/ (c = t /\ s.id \notin Ids(old))
      BY <1>6 DEF Joined
    <2>2. \A c \in Lists : \A s \in ToSet(old[c]) : s.id \in Ids(old)
      BY BankIds
    <2> QED BY <2>1, <2>2, DistinctItems DEF Apart
  <1> QED BY <1>12, <1>13, DistinctLists

LEMMA RoundUpdate ==
  ASSUME TypeInv, OwnInv, RoundInv, NEW t \in Types, UpdateType(t)
  PROVE  OwnInv' /\ RoundInv'
  <1>1. PICK revised, new, lists : Updates(t, revised, new, lists)
    BY UpdateFacts
  <1>2. /\ lists \in Bank /\ Joined(lists, mem.lists, new, t, Skill)
        /\ mem' = IF lists = mem.lists THEN mem ELSE Changed(lists)
        /\ Numbered(new, Len(new), NextDynIndex(mem.lists), Prefix[t], "round")
        /\ pend' = pend \cup revised /\ phase = "update" /\ UNCHANGED snap
    BY <1>1 DEF Updates
  <1> DEFINE ids == {s.id : s \in ToSet(new)}
  <1>3. \A c \in Lists :
          /\ changedBy'[c] = changedBy[c] \cup {i \in revised : CategoryOf(i) = c}
                               \cup IF c = t THEN ids ELSE {}
          /\ changedBy[c] \subseteq changedBy'[c]
    BY <1>1 DEF Updates
  <1>4. t \in Lists /\ General \in Lists /\ t # General
    BY TypesInLists
  <1>5. mem'.lists = lists /\ mem.lists \in Bank
    BY <1>2 DEF Changed, TypeInv, Sound, Memory
  <1>6. /\ \A c \in Lists : \A s \in ToSet(lists[c]) :
             s \in ToSet(mem.lists[c]) \/ (c = t /\ s \in ToSet(new))
        /\ \A c \in Lists : ToSet(mem.lists[c]) \subseteq ToSet(lists[c])
        /\ lists[General] = mem.lists[General]
    BY <1>2, <1>4 DEF Joined
  <1>7. \A s \in ToSet(new) : s.id \in ids /\ s.id.pfx = Prefix[t]
    BY <1>2 DEF Numbered
  <1>8. \A i \in ids : \E s \in ToSet(new) : s.id = i
    OBVIOUS
  <1> HIDE DEF ids
  <1>9. OwnPrefix(lists)
    <2> SUFFICES ASSUME NEW c \in Lists, NEW s \in ToSet(lists[c]), NEW u \in Types \ {c},
                        s.id.pfx = Prefix[u]
                 PROVE  Prefix[u] = "dyn"
      BY DEF OwnPrefix
    <2>1. CASE s \in ToSet(mem.lists[c])
      BY <2>1 DEF OwnInv, OwnPrefix
    <2>2. CASE c = t /\ s \in ToSet(new)
      <3>1. Prefix[t] = Prefix[u] /\ t \in Types \ {u}
        BY <1>7, <2>2
      <3> QED BY <3>1, PrefixAssumption
    <2> QED BY <1>6, <2>1, <2>2
  <1>10. OwnInv'
    BY <1>2, <1>5, <1>9 DEF OwnInv, OwnPrefix
  <1>11. ASSUME Distinct(snap) PROVE Traced'
    <2>1. Traced
      BY <1>2, <1>11 DEF RoundInv, InRound
    <2>2. ASSUME NEW c \in Lists, NEW s \in ToSet(lists[c]),
                 s.id \in pend' \cup AllChanged'
          PROVE  s.id \in changedBy'[c]
      <3>1. s.id \in pend \cup AllChanged \cup revised \cup ids
        BY <1>2, <1>3, <2>2 DEF AllChanged
      <3>2. CASE s \in ToSet(mem.lists[c])
        <4>1. CASE s.id \in pend \cup AllChanged
          BY <1>3, <2>1, <3>2, <4>1 DEF Traced
        <4>2. CASE s.id \in revised
          BY <1>3, <2>1, <3>2, <4>2, CategoryHome DEF Traced
        <4>3. CASE s.id \in ids
          <5>1. PICK r \in ToSet(new) : r.id = s.id
            BY <1>8, <4>3
          <5>2. c = t
            BY <1>2, <3>2, <5>1, NewUntaken DEF OwnInv
          <5> QED BY <1>3, <4>3, <5>2
        <4> QED BY <3>1, <4>1, <4>2, <4>3
      <3>3. CASE c = t /\ s \in ToSet(new)
        BY <1>3, <1>7, <3>3
      <3> QED BY <1>6, <3>2, <3>3
    <2>3. ASSUME NEW c \in Lists, NEW s \in ToSet(lists[c]), s.id \notin changedBy'[c]
          PROVE  \E e \in ToSet(snap[c]) : Content(e) = Content(s)
      <3>1. s \in ToSet(mem.lists[c])
        BY <1>3, <1>6, <1>7, <2>3
      <3>2. s.id \notin changedBy[c]
        BY <1>3, <2>3
      <3> QED BY <2>1, <3>1, <3>2 DEF Traced
    <2>4. \A c \in Lists : \A e \in ToSet(snap[c]) :
            (\E s \in ToSet(lists[c]) : s.id = e.id) \/ e.id \in changedBy'[General]
      BY <1>3, <1>4, <1>6, <2>1 DEF Traced
    <2>5. Distinct(lists)
      <3>1. Len(new) \in Nat /\ NextDynIndex(mem.lists) \in Nat
        BY <1>2, <1>5, FirstIndex DEF Numbered
      <3> QED BY <1>2, <1>4, <1>5, <2>1, <3>1, FiledDistinct DEF Traced
    <2>6. SameIds(Statics(lists[General]), Statics(snap[General]))
      BY <1>6, <2>1 DEF Traced
    <2>7. snap' = snap
      BY <1>2
    <2> QED BY <1>5, <2>2, <2>3, <2>4, <2>5, <2>6, <2>7 DEF Traced
  <1> QED BY <1>2, <1>10, <1>11 DEF RoundInv

LEMMA RoundApply == TypeInv /\ OwnInv /\ RoundInv /\ ApplyUpdates => OwnInv' /\ RoundInv'
  <1> SUFFICES ASSUME TypeInv, OwnInv, RoundInv, ApplyUpdates PROVE OwnInv' /\ RoundInv'
    OBVIOUS
  <1> DEFINE text == [by |-> "round", at |-> round]
             ids == pend \cup AllChanged
             lists == Synthesize(mem.lists, ids, text)
  <1>1. mem.lists \in Bank /\ text \in Text
    BY DEF TypeInv, Sound, Memory, Text
  <1>2. Rewritten(lists, mem.lists, ids, text, Skill) /\ lists \in Bank
    BY <1>1, RevisedType
  <1>3. /\ mem' = (IF pend = {} THEN mem ELSE Changed(lists)) /\ phase = "update"
        /\ UNCHANGED <<snap, changedBy, pend>>
    BY DEF ApplyUpdates
  <1>4. AllChanged' = AllChanged
    BY <1>3 DEF AllChanged
  <1> HIDE DEF lists, text
  <1>5. \A c \in Lists :
          /\ lists[c] \in Seq(Skill) /\ mem.lists[c] \in Seq(Skill)
          /\ DOMAIN lists[c] = 1..Len(mem.lists[c]) /\ Len(lists[c]) = Len(mem.lists[c])
          /\ DOMAIN mem.lists[c] = 1..Len(mem.lists[c])
          /\ \A k \in 1..Len(mem.lists[c]) :
               /\ lists[c][k].id = mem.lists[c][k].id
               /\ lists[c][k].id \notin ids => lists[c][k].text = mem.lists[c][k].text
    <2> TAKE c \in Lists
    <2>1. lists[c] \in Seq(Skill) /\ mem.lists[c] \in Seq(Skill)
      BY <1>1, <1>2 DEF Bank
    <2>2. Len(lists[c]) = Len(mem.lists[c])
      BY <1>2 DEF Rewritten
    <2>3. \A k \in 1..Len(mem.lists[c]) :
               /\ lists[c][k].id = mem.lists[c][k].id
               /\ lists[c][k].id \notin ids => lists[c][k].text = mem.lists[c][k].text
      BY <1>2 DEF Rewritten
    <2> QED BY <2>1, <2>2, <2>3
  <1>6. \A c \in Lists : \A s \in ToSet(lists[c]) : \E r \in ToSet(mem.lists[c]) :
          r.id = s.id /\ (s.id \notin ids => Content(s) = Content(r))
    <2> TAKE c \in Lists
    <2> TAKE s \in ToSet(lists[c])
    <2>1. PICK k \in 1..Len(mem.lists[c]) : s = lists[c][k]
      BY <1>5 DEF ToSet
    <2>2. mem.lists[c][k] \in ToSet(mem.lists[c])
      BY <1>5 DEF ToSet
    <2> QED BY <1>5, <2>1, <2>2 DEF Content
  <1>7. \A c \in Lists : \A r \in ToSet(mem.lists[c]) : \E s \in ToSet(lists[c]) : s.id = r.id
    <2> TAKE c \in Lists
    <2> TAKE r \in ToSet(mem.lists[c])
    <2>1. PICK k \in 1..Len(mem.lists[c]) : r = mem.lists[c][k]
      BY <1>5 DEF ToSet
    <2>2. lists[c][k] \in ToSet(lists[c])
      BY <1>5 DEF ToSet
    <2> QED BY <1>5, <2>1, <2>2
  <1>8. OwnPrefix(lists)
    BY <1>6 DEF OwnInv, OwnPrefix
  <1>9. CASE pend = {}
    BY <1>3, <1>4, <1>9 DEF OwnInv, OwnPrefix, RoundInv, InRound, Traced, Distinct
  <1>10. CASE pend # {}
    <2>1. mem'.lists = lists
      BY <1>3, <1>10 DEF Changed
    <2>2. OwnInv'
      BY <1>3, <1>8, <2>1 DEF OwnInv, OwnPrefix
    <2>3. ASSUME Distinct(snap) PROVE Traced'
      <3>1. Traced
        BY <1>3, <2>3 DEF RoundInv, InRound
      <3>2. \A c \in Lists : \A s \in ToSet(lists[c]) : s.id \in ids => s.id \in changedBy[c]
        BY <1>6, <3>1 DEF Traced
      <3>3. ASSUME NEW c \in Lists, NEW s \in ToSet(lists[c]), s.id \notin changedBy[c]
            PROVE  \E e \in ToSet(snap[c]) : Content(e) = Content(s)
        <4>1. s.id \notin ids
          BY <3>2, <3>3
        <4>2. PICK r \in ToSet(mem.lists[c]) : r.id = s.id /\ Content(s) = Content(r)
          BY <1>6, <4>1
        <4> QED BY <3>1, <3>3, <4>2 DEF Traced
      <3>4. \A c \in Lists : \A e \in ToSet(snap[c]) :
              (\E s \in ToSet(lists[c]) : s.id = e.id) \/ e.id \in changedBy[General]
        <4> TAKE c \in Lists
        <4> TAKE e \in ToSet(snap[c])
        <4>1. CASE e.id \in changedBy[General]
          BY <4>1
        <4>2. CASE e.id \notin changedBy[General]
          <5>1. PICK r \in ToSet(mem.lists[c]) : r.id = e.id
            BY <3>1, <4>2 DEF Traced
          <5> QED BY <1>7, <5>1
        <4> QED BY <4>1, <4>2
      <3>5. Distinct(lists)
        <4>1. \A c \in Lists : \A k \in DOMAIN lists[c] :
                k \in DOMAIN mem.lists[c] /\ lists[c][k].id = mem.lists[c][k].id
          BY <1>5
        <4>2. Distinct(mem.lists)
          BY <3>1 DEF Traced
        <4> QED BY <4>1, <4>2 DEF Distinct
      <3>6. SameIds(Statics(lists[General]), Statics(snap[General]))
        <4>1. SameIds(lists[General], mem.lists[General])
          BY <1>5, TypesInLists DEF SameIds
        <4>2. SameIds(Statics(lists[General]), Statics(mem.lists[General]))
          BY <1>5, <4>1, TypesInLists, StaticsSame
        <4> QED BY <3>1, <4>2, SameIdsTrans DEF Traced
      <3> QED BY <1>3, <1>4, <2>1, <3>2, <3>3, <3>4, <3>5, <3>6 DEF Traced
    <2> QED BY <1>3, <2>2, <2>3 DEF RoundInv
  <1> QED BY <1>9, <1>10

\* What is put back goes to the list it was in.
LEMMA RestoredOwn ==
  ASSUME NEW lists \in Bank, NEW old \in Bank, NEW ids \in Seq(SkillId),
         OwnPrefix(lists), OwnPrefix(old)
  PROVE  OwnPrefix(RestorePartial(lists, old, ids))
  <1> DEFINE R == {b \in Banks(Skill) : OwnPrefix(b)}
             gone == ToSet(ids) \ Ids(old)
  <1>1. lists \in Banks(Skill) /\ old \in Banks(Skill)
    BY BankIsBanks
  <1>2. PICK r, back : RestoreBy(r, back, lists, old, ids, SkillId, Skill)
    BY <1>1, RestoreRecursion
  <1>3. /\ back \in Seq(SkillId) /\ ToSet(back) = ToSet(ids) \cap Ids(old)
        /\ RestorePartial(lists, old, ids) = r[Len(back)]
        /\ r[0] = Without(lists, gone) /\ Len(back) \in Nat
        /\ \A n \in 0..Len(back) : r[n] \in Banks(Skill)
        /\ \A n \in 1..Len(back) : r[n] = PutBack(r[n - 1], old, back[n])
    BY <1>2 DEF RestoreBy, Restores
  <1>4. r[0] \in R
    <2>1. Removed(Without(lists, gone), lists, gone, Skill)
      BY <1>1, WithoutType
    <2>2. \A c \in Lists : ToSet(Without(lists, gone)[c]) \subseteq ToSet(lists[c])
      BY <2>1 DEF Removed
    <2>3. OwnPrefix(Without(lists, gone))
      BY <2>2 DEF OwnPrefix
    <2> QED BY <1>3, <2>1, <2>3 DEF Removed
  <1>5. ASSUME NEW n \in 1..Len(back), r[n - 1] \in R PROVE r[n] \in R
    <2> DEFINE b == r[n - 1]
               new == r[n]
               i == back[n]
    <2>1. b \in Banks(Skill) /\ OwnPrefix(b) /\ new \in Banks(Skill)
      BY <1>3, <1>5
    <2>2. i \in ToSet(back)
      BY <1>3 DEF ToSet
    <2>3. PICK d \in Lists : Holds(old[d], i)
      BY <1>3, <2>2, BankIds
    <2>4. new = PutBack(b, old, i)
      BY <1>3
    <2> HIDE DEF b, new, i
    <2>5. PICK c, o : PutAt(b, old, i, new, c, o)
      BY <1>1, <2>1, <2>3, <2>4, PutBackAt
    <2>6. /\ \A e \in Lists \ {c} : new[e] = b[e]
          /\ old[c][o] \in ToSet(old[c]) /\ c \in Lists
          /\ \/ new[c] = Append(b[c], old[c][o])
             \/ \E h \in 1..Len(b[c]) :
                  /\ Len(new[c]) = Len(b[c])
                  /\ \A k \in 1..Len(b[c]) :
                       new[c][k] = IF k = h THEN old[c][o] ELSE b[c][k]
      <3>1. c \in Lists
        BY <2>5 DEF PutAt
      <3>2. /\ \A e \in Lists \ {c} : new[e] = b[e]
            /\ old[c][o] \in ToSet(old[c])
            /\ \/ /\ ~Holds(b[c], i) /\ new[c] = Append(b[c], old[c][o])
               \/ \E h \in 1..Len(b[c]) :
                    /\ b[c][h].id = i /\ Len(new[c]) = Len(b[c])
                    /\ \A k \in 1..Len(b[c]) :
                         new[c][k] = IF k = h THEN old[c][o] ELSE b[c][k]
        BY <1>1, <2>1, <2>5, PutAtType
      <3> QED BY <3>1, <3>2
    <2>7. \A s \in ToSet(new[c]) : s \in ToSet(b[c]) \/ s \in ToSet(old[c])
      <3>1. new[c] \in Seq(Skill) /\ b[c] \in Seq(Skill) /\ old[c] \in Seq(Skill)
        BY <1>1, <2>1, <2>6 DEF Banks
      <3>2. CASE new[c] = Append(b[c], old[c][o])
        <4>1. old[c][o] \in Skill
          BY <2>6, <3>1 DEF ToSet
        <4>2. ToSet(new[c]) = ToSet(b[c]) \cup {old[c][o]}
          BY <3>1, <3>2, <4>1, AppendSet
        <4> QED BY <2>6, <4>2
      <3>3. ASSUME NEW h \in 1..Len(b[c]), Len(new[c]) = Len(b[c]),
                   \A k \in 1..Len(b[c]) : new[c][k] = IF k = h THEN old[c][o] ELSE b[c][k]
            PROVE  \A s \in ToSet(new[c]) : s \in ToSet(b[c]) \/ s \in ToSet(old[c])
        <4> TAKE s \in ToSet(new[c])
        <4>1. PICK k \in 1..Len(b[c]) : s = new[c][k]
          BY <3>1, <3>3 DEF ToSet
        <4>2. b[c][k] \in ToSet(b[c])
          BY <3>1 DEF ToSet
        <4> QED BY <2>6, <3>3, <4>1, <4>2
      <3> QED BY <2>6, <3>2, <3>3
    <2>8. \A e \in Lists : \A s \in ToSet(new[e]) : s \in ToSet(b[e]) \/ s \in ToSet(old[e])
      BY <2>6, <2>7
    <2>9. OwnPrefix(new)
      BY <2>1, <2>8 DEF OwnPrefix
    <2>10. new \in R
      BY <2>1, <2>9
    <2> QED BY <2>10 DEF new
  <1> HIDE DEF R
  <1>6. \A n \in 0..Len(back) : r[n] \in R
    BY <1>3, <1>4, <1>5, StepsWithin
  <1>7. r[Len(back)] \in R
    BY <1>3, <1>6
  <1> QED BY <1>3, <1>7 DEF R

LEMMA OwnPublish ==
  ASSUME NEW memory, OwnPrefix(memory.lists), Publish(memory)
  PROVE  OwnInv' /\ RoundInv'
  <1>1. mem' = memory /\ snap' = memory.lists /\ phase' = "idle"
    BY DEF Publish, LeaveRound
  <1>2. OwnInv'
    BY <1>1 DEF OwnInv, OwnPrefix
  <1> QED BY <1>1, <1>2 DEF RoundInv, InRound

LEMMA RoundJudge == TypeInv /\ OwnInv /\ JudgePerType => OwnInv' /\ RoundInv'
  <1> SUFFICES ASSUME TypeInv, OwnInv, JudgePerType PROVE OwnInv' /\ RoundInv'
    OBVIOUS
  <1>1. PublishesRestored
    BY JudgeFacts
  <1>2. rejected' \subseteq Lists
    BY <1>1 DEF PublishesRestored
  <1>3. CASE Publish(mem)
    BY <1>3, OwnPublish DEF OwnInv
  <1>4. ASSUME NEW ids \in Orders(UNION {changedBy[c] : c \in rejected'}),
               Publish(Changed(RestorePartial(mem.lists, snap, ids)))
        PROVE  OwnInv' /\ RoundInv'
    <2> DEFINE all == UNION {changedBy[c] : c \in rejected'}
    <2>1. all \in SUBSET SkillId /\ IsFiniteSet(all)
      BY <1>2, RejectedIds
    <2>2. mem.lists \in Bank /\ snap \in Bank
      BY DEF TypeInv, Sound, Memory
    <2>3. ids \in Orders(all)
      OBVIOUS
    <2> HIDE DEF all
    <2>4. ids \in Seq(SkillId)
      BY <2>1, <2>2, <2>3, OrdersType DEF Ordering
    <2>5. OwnPrefix(RestorePartial(mem.lists, snap, ids))
      BY <2>2, <2>4, RestoredOwn DEF OwnInv
    <2>6. OwnPrefix(Changed(RestorePartial(mem.lists, snap, ids)).lists)
      BY <2>5 DEF Changed
    <2> QED BY <1>4, <2>6, OwnPublish
  <1> QED BY <1>1, <1>3, <1>4 DEF PublishesRestored

LEMMA RoundStep == TypeInv /\ OwnInv /\ RoundInv /\ [Next]_vars => OwnInv' /\ RoundInv'
  <1> SUFFICES ASSUME TypeInv, OwnInv, RoundInv, [Next]_vars PROVE OwnInv' /\ RoundInv'
    OBVIOUS
  <1>0. ASSUME UNCHANGED <<mem, snap, changedBy, pend>>, InRound' => InRound
        PROVE  OwnInv' /\ RoundInv'
    BY <1>0 DEF OwnInv, OwnPrefix, RoundInv, Traced, AllChanged, Distinct
  <1>1. CASE Rollout
    BY <1>0, <1>1 DEF Rollout, work, InRound
  <1>2. CASE NoRound
    BY <1>0, <1>2 DEF NoRound, work, InRound
  <1>3. CASE Validate
    BY <1>0, <1>3 DEF Validate, work, InRound
  <1>4. CASE Prune
    BY <1>4, RoundPrune
  <1>5. CASE NoPrune
    BY <1>5, RoundNoPrune
  <1>6. ASSUME NEW t \in Types, UpdateType(t) PROVE OwnInv' /\ RoundInv'
    BY <1>6, RoundUpdate
  <1>7. CASE ApplyUpdates
    BY <1>7, RoundApply
  <1>8. CASE NothingChanged
    BY <1>8 DEF NothingChanged, LeaveRound, OwnInv, OwnPrefix, RoundInv, InRound
  <1>9. CASE Replay
    BY <1>0, <1>9 DEF Replay, work, InRound
  <1>10. CASE NoReplay
    BY <1>0, <1>10 DEF NoReplay, work, InRound
  <1>11. CASE Fallback
    BY <1>0, <1>11 DEF Fallback, work, InRound
  <1>12. CASE JudgePerType
    BY <1>12, RoundJudge
  <1>13. CASE JudgeAll
    <2>1. Publish(mem) \/ Publish(Changed(snap))
      BY <1>13 DEF JudgeAll
    <2>2. OwnPrefix(mem.lists) /\ OwnPrefix(Changed(snap).lists)
      BY DEF OwnInv, Changed
    <2> QED BY <2>1, <2>2, OwnPublish
  <1>14. CASE UNCHANGED vars
    BY <1>0, <1>14 DEF vars, work, InRound
  <1> QED BY <1>1, <1>2, <1>3, <1>4, <1>5, <1>6, <1>7, <1>8, <1>9, <1>10, <1>11, <1>12,
             <1>13, <1>14 DEF Next, Stopped

-----------------------------------------------------------------------------
(* What an eviction takes *)

\* A dynamic skill is not below the threshold, and has lost no more utility
\* than its misses, counted by m, account for.
Worth(s, m) ==
  Dynamic(s) => /\ s.utility >= MinUtility
                /\ NewUtility - m[s.id.n] * Loss <= s.utility
WorthSkills(m) == {s \in Skill : Worth(s, m)}

\* The bank is worth the misses counted, what a rollback puts back those counted
\* before the round, and a round brings skills into a list with full utility only.
EarnInv ==
  /\ mem.lists \in Banks(WorthSkills(missed)) /\ snap \in Banks(WorthSkills(before))
  /\ InRound => \A c \in Lists : \A s \in ToSet(mem.lists[c]) :
       Holds(snap[c], s.id) \/ s.utility = NewUtility

LEMMA LossOfMiss ==
  ASSUME NEW m \in Nat
  PROVE  m * Loss \in Nat /\ (m + 1) * Loss = m * Loss + Loss
  BY UtilityAssumption

LEMMA LossOfMisses ==
  ASSUME NEW m \in Nat, NEW k \in Nat, m <= k
  PROVE  m * Loss <= k * Loss
  BY UtilityAssumption

\* More misses only leave more room.
LEMMA WorthMore ==
  ASSUME NEW m \in [1..MaxIndex -> Nat], NEW k \in [1..MaxIndex -> Nat],
         NEW s \in WorthSkills(m), m[s.id.n] <= k[s.id.n]
  PROVE  s \in WorthSkills(k)
  <1> DEFINE n == s.id.n
  <1>1. s \in Skill /\ Worth(s, m)
    BY DEF WorthSkills
  <1>2. n \in 1..MaxIndex /\ s.utility \in Int
    BY <1>1, SkillParts
  <1>3. m[n] \in Nat /\ k[n] \in Nat /\ m[n] <= k[n]
    BY <1>2
  <1> HIDE DEF n
  <1>4. m[n] * Loss <= k[n] * Loss /\ m[n] * Loss \in Nat /\ k[n] * Loss \in Nat
    BY <1>3, LossOfMiss, LossOfMisses
  <1>5. Worth(s, k)
    BY <1>1, <1>2, <1>4 DEF Worth, NewUtility, n
  <1> QED BY <1>1, <1>5 DEF WorthSkills

\* A skill of full utility has earned nothing yet, whatever is counted.
LEMMA WorthNew ==
  ASSUME NEW s \in Skill, s.utility = NewUtility, NEW m \in [1..MaxIndex -> Nat]
  PROVE  s \in WorthSkills(m)
  <1>1. m[s.id.n] \in Nat
    BY SkillParts
  <1>2. m[s.id.n] * Loss \in Nat
    BY <1>1, LossOfMiss
  <1> QED BY <1>2, UtilityAssumption DEF WorthSkills, Worth, NewUtility

\* ... and any count of another index may change.
LEMMA WorthSame ==
  ASSUME NEW m, NEW k, NEW s \in WorthSkills(m), Dynamic(s) => k[s.id.n] = m[s.id.n]
  PROVE  s \in WorthSkills(k)
  BY DEF WorthSkills, Worth

LEMMA WorthInBank == ASSUME NEW m PROVE Banks(WorthSkills(m)) \subseteq Bank
  <1>1. WorthSkills(m) \subseteq Skill
    BY DEF WorthSkills
  <1>2. \A l \in Seq(WorthSkills(m)) : l \in Seq(Skill)
    BY <1>1
  <1> QED BY <1>2 DEF Banks, Bank

LEMMA EarnInit == Init => EarnInv
  <1> SUFFICES ASSUME Init PROVE EarnInv
    OBVIOUS
  <1>1. InitLists \in Bank
    BY InitListsAssumption
  <1>2. ASSUME NEW c \in Lists, NEW s \in ToSet(InitLists[c]) PROVE s \in WorthSkills(missed)
    <2>1. s \in ToSet(Walk(InitLists)) /\ s \in Skill
      BY <1>1, BankIds
    <2>2. Dynamic(s) => s.utility >= MinUtility
      BY <2>1, InitListsAssumption DEF Dynamic
    <2>3. s.id.n \in 1..MaxIndex /\ s.id = [pfx |-> s.id.pfx, n |-> s.id.n]
      BY <2>1, SkillParts
    <2>4. missed[s.id.n] = MissesInFile(s.id.n)
      BY <2>3 DEF Init
    <2>5. Dynamic(s) => NewUtility - MissesInFile(s.id.n) * Loss <= s.utility
      BY <2>1, <2>3, FileMisses DEF Dynamic, Explains
    <2> QED BY <2>1, <2>2, <2>4, <2>5 DEF WorthSkills, Worth
  <1>3. InitLists \in Banks(WorthSkills(missed))
    BY <1>1, <1>2, BankOf
  <1>4. mem.lists = InitLists /\ snap = InitLists /\ before = missed /\ ~InRound
    BY DEF Init, Loaded, InRound
  <1> QED BY <1>3, <1>4 DEF EarnInv

\* A skill keeps its worth when misses are counted.
LEMMA PruneWorth ==
  ASSUME TypeInv, Prune, NEW s \in WorthSkills(missed)
  PROVE  Dynamic(s) =>
           /\ NewUtility - missed'[s.id.n] * Loss <= s.utility
           /\ s.id \in Missing => NewUtility - missed'[s.id.n] * Loss <= s.utility - Loss
  <1> SUFFICES ASSUME Dynamic(s)
               PROVE  /\ NewUtility - missed'[s.id.n] * Loss <= s.utility
                      /\ s.id \in Missing =>
                           NewUtility - missed'[s.id.n] * Loss <= s.utility - Loss
    OBVIOUS
  <1> DEFINE n == s.id.n
  <1>1. s \in Skill /\ NewUtility - missed[n] * Loss <= s.utility
    BY DEF WorthSkills, Worth
  <1>2. n \in 1..MaxIndex /\ s.id = [pfx |-> s.id.pfx, n |-> n] /\ s.utility \in Int
    BY <1>1, SkillParts
  <1>3. missed'[n] = missed[n] + IF [pfx |-> "dyn", n |-> n] \in Missing THEN 1 ELSE 0
    BY <1>2 DEF Prune, Missing
  <1>4. missed[n] \in Nat
    BY <1>2 DEF TypeInv
  <1>5. s.id = [pfx |-> "dyn", n |-> n]
    BY <1>2 DEF Dynamic
  <1> HIDE DEF n
  <1>6. missed[n] * Loss \in Nat /\ (missed[n] + 1) * Loss = missed[n] * Loss + Loss
    BY <1>4, LossOfMiss
  <1>7. Loss \in Nat /\ NewUtility \in Nat
    BY UtilityAssumption DEF NewUtility
  <1>8. CASE s.id \in Missing
    <2>1. missed'[n] = missed[n] + 1
      BY <1>3, <1>5, <1>8
    <2>2. missed'[n] * Loss = missed[n] * Loss + Loss
      BY <1>6, <2>1
    <2> QED BY <1>1, <1>2, <1>6, <1>7, <1>8, <2>2 DEF n
  <1>9. CASE s.id \notin Missing
    <2>1. missed'[n] = missed[n]
      BY <1>3, <1>4, <1>5, <1>9
    <2> QED BY <1>1, <1>9, <2>1 DEF n
  <1> QED BY <1>8, <1>9

\* The utility a skill has once utilities are up to date, and its misses.
LEMMA ScoredWorth ==
  ASSUME TypeInv, EarnInv, Prune, NEW c \in Lists, NEW s \in ToSet(Scored[c]), Dynamic(s)
  PROVE  /\ NewUtility - missed'[s.id.n] * Loss <= s.utility
         /\ s.utility < MinUtility => s.id \in Missing
         /\ s \in Skill
  <1>1. mem.lists \in Bank
    BY DEF TypeInv, Sound, Memory
  <1>2. PICK r \in ToSet(mem.lists[c]) : /\ r.id = s.id /\ r.text = s.text
                                         /\ s.utility >= r.utility - Loss
                                         /\ s.id \notin Missing => s.utility >= r.utility
    BY <1>1, ScoredItems
  <1>3. s \in Skill
    BY <1>1, ScoredItems, BankIds
  <1>4. r \in WorthSkills(missed)
    BY <1>1, BankOf DEF EarnInv
  <1>5. r \in Skill /\ Dynamic(r) /\ r.utility >= MinUtility
    BY <1>2, <1>4 DEF WorthSkills, Worth, Dynamic
  <1>6. /\ NewUtility - missed'[s.id.n] * Loss <= r.utility
        /\ s.id \in Missing => NewUtility - missed'[s.id.n] * Loss <= r.utility - Loss
    BY <1>2, <1>4, <1>5, PruneWorth
  <1>7. s.utility \in Int /\ r.utility \in Int /\ s.id.n \in 1..MaxIndex
    BY <1>3, <1>5, SkillParts
  <1>8. missed'[s.id.n] * Loss \in Int /\ Loss \in Int /\ MinUtility \in Int
    <2>1. missed'[s.id.n] \in Nat
      BY <1>7, TypePrune DEF TypeInv
    <2>2. missed'[s.id.n] * Loss \in Nat
      BY <2>1, LossOfMiss
    <2>3. Loss \in Int /\ MinUtility \in Int
      BY UtilityAssumption
    <2> DEFINE x == missed'[s.id.n] * Loss
    <2> HIDE DEF x
    <2>4. x \in Int
      BY <2>2 DEF x
    <2> QED BY <2>3, <2>4 DEF x
  <1>9. CASE s.id \in Missing
    BY <1>2, <1>3, <1>6, <1>7, <1>8, <1>9 DEF NewUtility
  <1>10. CASE s.id \notin Missing
    BY <1>2, <1>3, <1>5, <1>6, <1>7, <1>8, <1>10 DEF NewUtility
  <1> QED BY <1>9, <1>10

LEMMA EarnPrune == TypeInv /\ EarnInv /\ Prune => EarnInv'
  <1> SUFFICES ASSUME TypeInv, EarnInv, Prune PROVE EarnInv'
    OBVIOUS
  <1>1. mem.lists \in Bank /\ mem \in Memory
    BY DEF TypeInv, Sound, Memory
  <1>2. mem'.lists = PrunedLists /\ snap' = mem.lists /\ before' = missed
    BY <1>1 DEF Prune, PrunedLists, Memory
  <1>3. snap' \in Banks(WorthSkills(before'))
    BY <1>2 DEF EarnInv
  <1>4. Prunes(PrunedLists, PrunedIds)
    BY <1>1, PruneItems
  <1>5. \A c \in Lists : \A s \in ToSet(PrunedLists[c]) : s \in WorthSkills(missed')
    <2> TAKE c \in Lists
    <2> TAKE s \in ToSet(PrunedLists[c])
    <2>1. s \in ToSet(Scored[c]) /\ ~Useless(s) /\ s \in Skill
      BY <1>4, BankIds DEF Prunes
    <2>2. s.utility \in Int
      BY <2>1, SkillParts
    <2>3. Dynamic(s) => s.utility >= MinUtility
      BY <2>1, <2>2, UtilityAssumption DEF Useless
    <2>4. Dynamic(s) => NewUtility - missed'[s.id.n] * Loss <= s.utility
      BY <2>1, ScoredWorth
    <2> QED BY <2>1, <2>3, <2>4 DEF WorthSkills, Worth
  <1>6. mem'.lists \in Banks(WorthSkills(missed'))
    BY <1>2, <1>4, <1>5, BankOf DEF Prunes
  <1>7. \A c \in Lists : \A s \in ToSet(mem'.lists[c]) : Holds(snap'[c], s.id)
    <2> TAKE c \in Lists
    <2> TAKE s \in ToSet(mem'.lists[c])
    <2>0. s \in ToSet(PrunedLists[c])
      BY <1>2
    <2>1. s \in ToSet(Scored[c])
      BY <1>4, <2>0 DEF Prunes
    <2>2. PICK r \in ToSet(mem.lists[c]) : r.id = s.id
      BY <1>1, <2>1, ScoredItems
    <2> QED BY <1>2, <2>2, HoldsItem
  <1> QED BY <1>3, <1>6, <1>7 DEF EarnInv

LEMMA EarnNoPrune == EarnInv /\ NoPrune => EarnInv'
  <1> SUFFICES ASSUME EarnInv, NoPrune PROVE EarnInv'
    OBVIOUS
  <1>1. mem' = mem /\ snap' = mem.lists /\ before' = missed /\ missed' = missed
    BY DEF NoPrune
  <1>2. \A c \in Lists : \A s \in ToSet(mem.lists[c]) : Holds(mem.lists[c], s.id)
    BY HoldsItem
  <1> QED BY <1>1, <1>2 DEF EarnInv

\* Only the skills of ids that were free are counted anew.
LEMMA EarnUpdate ==
  ASSUME TypeInv, EarnInv, NEW t \in Types, UpdateType(t)
  PROVE  EarnInv'
  <1>1. PICK revised, new, lists : Updates(t, revised, new, lists)
    BY UpdateFacts
  <1>2. /\ lists \in Bank /\ Joined(lists, mem.lists, new, t, Skill)
        /\ mem' = IF lists = mem.lists THEN mem ELSE Changed(lists)
        /\ phase = "update" /\ UNCHANGED <<snap, before>>
        /\ \A s \in ToSet(new) : s.utility = NewUtility
        /\ Recounted(lists)
    BY <1>1 DEF Updates, Numbered
  <1>3. mem'.lists = lists /\ mem.lists \in Bank
    BY <1>2 DEF Changed, TypeInv, Sound, Memory
  <1>4. missed' \in [1..MaxIndex -> Nat]
    BY TypeUpdate DEF TypeInv
  <1>5. ASSUME NEW c \in Lists, NEW s \in ToSet(lists[c])
        PROVE  s \in ToSet(mem.lists[c]) \/ s.utility = NewUtility
    BY <1>2, <1>5 DEF Joined
  <1>6. ASSUME NEW c \in Lists, NEW s \in ToSet(lists[c])
        PROVE  s \in WorthSkills(missed')
    <2>1. s \in Skill
      BY <1>2, BankIds
    <2>2. CASE s.utility = NewUtility
      BY <1>4, <2>1, <2>2, WorthNew
    <2>3. CASE s \in ToSet(mem.lists[c])
      <3>1. s \in WorthSkills(missed)
        BY <1>3, <2>3, BankOf DEF EarnInv
      <3>2. s.id \in Ids(mem.lists)
        BY <1>3, <2>3, BankIds
      <3>3. s.id.n \in 1..MaxIndex /\ s.id = [pfx |-> s.id.pfx, n |-> s.id.n]
        BY <2>1, SkillParts
      <3>4. Dynamic(s) => missed'[s.id.n] = missed[s.id.n]
        BY <1>2, <3>2, <3>3 DEF Recounted, Dynamic
      <3> QED BY <3>1, <3>4, WorthSame
    <2> QED BY <1>5, <2>2, <2>3
  <1>7. lists \in Banks(WorthSkills(missed'))
    BY <1>2, <1>6, BankOf
  <1>8. \A c \in Lists : \A s \in ToSet(lists[c]) : Holds(snap[c], s.id) \/ s.utility = NewUtility
    BY <1>2, <1>5 DEF EarnInv, InRound
  <1> QED BY <1>2, <1>3, <1>7, <1>8 DEF EarnInv

LEMMA EarnApply == TypeInv /\ EarnInv /\ ApplyUpdates => EarnInv'
  <1> SUFFICES ASSUME TypeInv, EarnInv, ApplyUpdates PROVE EarnInv'
    OBVIOUS
  <1> DEFINE text == [by |-> "round", at |-> round]
             lists == Synthesize(mem.lists, pend \cup AllChanged, text)
  <1>1. mem.lists \in Bank /\ text \in Text
    BY DEF TypeInv, Sound, Memory, Text
  <1>2. Rewritten(lists, mem.lists, pend \cup AllChanged, text, Skill) /\ lists \in Bank
    BY <1>1, RevisedType
  <1>3. /\ mem' = (IF pend = {} THEN mem ELSE Changed(lists)) /\ phase = "update"
        /\ UNCHANGED <<snap, missed, before>>
    BY DEF ApplyUpdates, counters, history
  <1> HIDE DEF lists, text
  <1>4. ASSUME NEW c \in Lists, NEW s \in ToSet(lists[c])
        PROVE  \E r \in ToSet(mem.lists[c]) : r.id = s.id /\ r.utility = s.utility
    <2>1. lists[c] \in Seq(Skill) /\ mem.lists[c] \in Seq(Skill)
      BY <1>1, <1>2 DEF Bank
    <2>2. Len(lists[c]) = Len(mem.lists[c])
      BY <1>2 DEF Rewritten
    <2>3. PICK k \in 1..Len(mem.lists[c]) : s = lists[c][k]
      BY <2>1, <2>2 DEF ToSet
    <2>4. s.id = mem.lists[c][k].id /\ s.utility = mem.lists[c][k].utility
      BY <1>2, <2>3 DEF Rewritten
    <2>5. mem.lists[c][k] \in ToSet(mem.lists[c])
      BY <2>1, <2>3 DEF ToSet
    <2> QED BY <2>4, <2>5
  <1>5. ASSUME NEW c \in Lists, NEW s \in ToSet(lists[c])
        PROVE  s \in WorthSkills(missed) /\ (Holds(snap[c], s.id) \/ s.utility = NewUtility)
    <2>1. PICK r \in ToSet(mem.lists[c]) : r.id = s.id /\ r.utility = s.utility
      BY <1>4
    <2>2. s \in Skill /\ r \in WorthSkills(missed)
      BY <1>1, <1>2, BankIds, BankOf DEF EarnInv
    <2>3. Holds(snap[c], r.id) \/ r.utility = NewUtility
      BY <1>3 DEF EarnInv, InRound
    <2> QED BY <2>1, <2>2, <2>3 DEF WorthSkills, Worth, Dynamic
  <1>6. lists \in Banks(WorthSkills(missed))
    BY <1>2, <1>5, BankOf
  <1>7. CASE pend = {}
    BY <1>3, <1>7 DEF EarnInv, InRound
  <1>8. CASE pend # {}
    <2>1. mem'.lists = lists
      BY <1>3, <1>8 DEF Changed
    <2> QED BY <1>3, <1>5, <1>6, <2>1 DEF EarnInv
  <1> QED BY <1>7, <1>8

\* What is published has earned what it lost, by the counts published with it.
LEMMA EarnPublish ==
  ASSUME NEW memory, memory.lists \in Banks(WorthSkills(missed')), Publish(memory)
  PROVE  EarnInv'
  <1>1. mem' = memory /\ snap' = memory.lists /\ before' = missed' /\ phase' = "idle"
    BY DEF Publish, LeaveRound
  <1> QED BY <1>1 DEF EarnInv, InRound

\* A partial rollback takes the counts back of the skills it puts back.
LEMMA EarnRestored ==
  ASSUME TypeInv, EarnInv, RoundInv, InRound,
         NEW all \in SUBSET SkillId, IsFiniteSet(all), NEW ids \in Orders(all)
  PROVE  RestorePartial(mem.lists, snap, ids) \in Banks(WorthSkills(Undone(all)))
  <1> DEFINE new == RestorePartial(mem.lists, snap, ids)
             m == Undone(all)
             plain == Separate(mem.lists) /\ Distinct(snap)
  <1>1. mem.lists \in Bank /\ snap \in Bank
    BY DEF TypeInv, Sound, Memory
  <1>2. ids \in Seq(SkillId) /\ ToSet(ids) = all
    BY <1>1, OrdersType DEF Ordering
  <1>3. From(new, mem.lists, snap, all, plain)
    <2>1. mem.lists \in Banks(Skill) /\ snap \in Banks(Skill)
      BY <1>1, BankIsBanks
    <2> QED BY <1>2, <2>1, RestoreFrom
  <1>4. new \in Bank
    BY <1>1, RestoredType
  <1>5. m \in [1..MaxIndex -> Nat]
    BY UndoneType
  <1>6. UniqueIds(snap) => plain
    <2>1. ASSUME UniqueIds(snap) PROVE Distinct(snap)
      BY <1>1, <2>1, BankIsBanks, WalkDistinct DEF UniqueIds
    <2>2. Distinct(snap) => Distinct(mem.lists)
      BY DEF RoundInv, Traced
    <2>3. Distinct(mem.lists) => Separate(mem.lists)
      BY <1>1, BankIsBanks, DistinctSeparate
    <2> QED BY <2>1, <2>2, <2>3
  <1>7. ASSUME NEW n \in 1..MaxIndex
        PROVE  LET back == [pfx |-> "dyn", n |-> n] \in all
               IN  /\ ~back => m[n] = missed[n]
                   /\ back => before[n] <= m[n]
                   /\ ~UniqueIds(snap) => missed[n] <= m[n]
    <2>1. before[n] \in Nat /\ missed[n] \in Nat
      BY DEF TypeInv
    <2> QED BY <2>1 DEF Undone
  <1> HIDE DEF new, m, plain
  <1>8. ASSUME NEW c \in Lists, NEW s \in ToSet(new[c])
        PROVE  s \in WorthSkills(m)
    <2> DEFINE n == s.id.n
    <2>1. s \in Skill
      BY <1>4, BankIds
    <2>2. n \in 1..MaxIndex /\ s.id = [pfx |-> s.id.pfx, n |-> n]
      BY <2>1, SkillParts
    <2>3. missed \in [1..MaxIndex -> Nat] /\ before \in [1..MaxIndex -> Nat]
      BY DEF TypeInv
    <2>4. Dynamic(s) => s.id = [pfx |-> "dyn", n |-> n]
      BY <2>2 DEF Dynamic
    <2> HIDE DEF n
    <2>5. CASE ~Dynamic(s)
      BY <2>1, <2>5 DEF WorthSkills, Worth
    <2>6. CASE Dynamic(s) /\ s \in ToSet(snap[c]) /\ s.id \in all
      <3>1. s \in WorthSkills(before)
        BY <1>1, <2>6, BankOf DEF EarnInv
      <3>2. before[n] <= m[n]
        BY <1>7, <2>2, <2>4, <2>6
      <3> QED BY <1>5, <2>3, <3>1, <3>2, WorthMore DEF n
    <2>7. CASE Dynamic(s) /\ s \in ToSet(mem.lists[c]) /\ (~UniqueIds(snap) \/ s.id \notin all)
      <3>1. s \in WorthSkills(missed)
        BY <1>1, <2>7, BankOf DEF EarnInv
      <3>2. missed[n] <= m[n]
        <4>1. missed[n] \in Nat
          BY <2>2, <2>3
        <4> QED BY <1>7, <2>2, <2>4, <2>7, <4>1
      <3> QED BY <1>5, <2>3, <3>1, <3>2, WorthMore DEF n
    <2>8. CASE s \in ToSet(mem.lists[c]) /\ ~Holds(snap[c], s.id)
      <3>1. s.utility = NewUtility
        BY <2>8 DEF EarnInv
      <3> QED BY <1>5, <2>1, <3>1, WorthNew
    <2> QED BY <1>3, <1>6, <2>5, <2>6, <2>7, <2>8 DEF From
  <1>9. new \in Banks(WorthSkills(m))
    BY <1>4, <1>8, BankOf
  <1> QED BY <1>9 DEF new, m

LEMMA EarnJudge == TypeInv /\ EarnInv /\ RoundInv /\ JudgePerType => EarnInv'
  <1> SUFFICES ASSUME TypeInv, EarnInv, RoundInv, JudgePerType PROVE EarnInv'
    OBVIOUS
  <1> DEFINE all == UNION {changedBy[c] : c \in rejected'}
  <1>1. PublishesRestored
    BY JudgeFacts
  <1>2. rejected' \subseteq Lists /\ missed' = Undone(all) /\ InRound
    BY <1>1 DEF PublishesRestored, InRound
  <1>3. all \in SUBSET SkillId /\ IsFiniteSet(all)
    BY <1>2, RejectedIds
  <1>4. CASE rejected' = {} /\ Publish(mem)
    <2>1. all = {}
      BY <1>4
    <2> HIDE DEF all
    <2>2. missed' = missed
      BY <1>2, <2>1 DEF Undone, TypeInv
    <2> QED BY <1>4, <2>2, EarnPublish DEF EarnInv
  <1>5. ASSUME NEW ids \in Orders(all), Publish(Changed(RestorePartial(mem.lists, snap, ids)))
        PROVE  EarnInv'
    <2> HIDE DEF all
    <2>1. RestorePartial(mem.lists, snap, ids) \in Banks(WorthSkills(missed'))
      BY <1>2, <1>3, EarnRestored
    <2>2. Changed(RestorePartial(mem.lists, snap, ids)).lists \in Banks(WorthSkills(missed'))
      BY <2>1 DEF Changed
    <2> QED BY <1>5, <2>2, EarnPublish
  <1> QED BY <1>1, <1>4, <1>5 DEF PublishesRestored

LEMMA EarnJudgeAll == EarnInv /\ JudgeAll => EarnInv'
  <1> SUFFICES ASSUME EarnInv, JudgeAll PROVE EarnInv'
    OBVIOUS
  <1>1. CASE missed' = missed /\ Publish(mem)
    BY <1>1, EarnPublish DEF EarnInv
  <1>2. CASE missed' = before /\ Publish(Changed(snap))
    <2>1. Changed(snap).lists \in Banks(WorthSkills(missed'))
      BY <1>2 DEF Changed, EarnInv
    <2> QED BY <1>2, <2>1, EarnPublish
  <1> QED BY <1>1, <1>2 DEF JudgeAll

LEMMA EarnStep == TypeInv /\ EarnInv /\ RoundInv /\ [Next]_vars => EarnInv'
  <1> SUFFICES ASSUME TypeInv, EarnInv, RoundInv, [Next]_vars PROVE EarnInv'
    OBVIOUS
  <1>0. ASSUME UNCHANGED <<mem, snap, missed, before>>, InRound' => InRound PROVE EarnInv'
    BY <1>0 DEF EarnInv
  <1>1. CASE Rollout
    BY <1>0, <1>1 DEF Rollout, work, counters, history, InRound
  <1>2. CASE NoRound
    BY <1>0, <1>2 DEF NoRound, work, counters, history, InRound
  <1>3. CASE Validate
    BY <1>0, <1>3 DEF Validate, work, history, InRound
  <1>4. CASE Prune
    BY <1>4, EarnPrune
  <1>5. CASE NoPrune
    BY <1>5, EarnNoPrune
  <1>6. ASSUME NEW t \in Types, UpdateType(t) PROVE EarnInv'
    BY <1>6, EarnUpdate
  <1>7. CASE ApplyUpdates
    BY <1>7, EarnApply
  <1>8. CASE NothingChanged
    BY <1>8 DEF NothingChanged, LeaveRound, EarnInv, InRound
  <1>9. CASE Replay
    BY <1>0, <1>9 DEF Replay, work, counters, history, InRound
  <1>10. CASE NoReplay
    BY <1>0, <1>10 DEF NoReplay, work, counters, history, InRound
  <1>11. CASE Fallback
    BY <1>0, <1>11 DEF Fallback, work, counters, history, InRound
  <1>12. CASE JudgePerType
    BY <1>12, EarnJudge
  <1>13. CASE JudgeAll
    BY <1>13, EarnJudgeAll
  <1>14. CASE UNCHANGED vars
    BY <1>0, <1>14 DEF vars, work, counters, history, InRound
  <1> QED BY <1>1, <1>2, <1>3, <1>4, <1>5, <1>6, <1>7, <1>8, <1>9, <1>10, <1>11, <1>12,
             <1>13, <1>14 DEF Next, Stopped

\* The ids of a round the pruner evicted, and why.
LEMMA EvictionStep ==
  TypeInv /\ EarnInv /\ [Next]_vars =>
    (Pruned => \A i \in changedBy'[General] \ MergedIds :
                 /\ i \in Shown \ Credited
                 /\ NewUtility - missed'[i.n] * Loss < MinUtility)
  <1> SUFFICES ASSUME TypeInv, EarnInv, [Next]_vars, Pruned,
                      NEW i \in changedBy'[General] \ MergedIds
               PROVE  /\ i \in Shown \ Credited
                      /\ NewUtility - missed'[i.n] * Loss < MinUtility
    OBVIOUS
  <1>1. Prune
    BY PrunedIsPrune
  <1>2. mem.lists \in Bank
    BY DEF TypeInv, Sound, Memory
  <1>3. changedBy'[General] = PrunedIds
    BY <1>1, TypesInLists DEF Prune, PrunedIds, NoChange
  <1>4. PICK c \in Lists : \E s \in ToSet(Scored[c]) : s.id = i /\ Dynamic(s) /\ Useless(s)
    BY <1>2, <1>3, PruneItems DEF Prunes
  <1>5. PICK s \in ToSet(Scored[c]) : s.id = i /\ Dynamic(s) /\ Useless(s)
    BY <1>4
  <1>6. /\ NewUtility - missed'[s.id.n] * Loss <= s.utility
        /\ s.utility < MinUtility => s.id \in Missing
        /\ s \in Skill
    BY <1>1, <1>5, ScoredWorth
  <1>7. s.utility \in Int /\ s.id.n \in 1..MaxIndex
    BY <1>6, SkillParts
  <1>8. missed'[s.id.n] * Loss \in Nat
    <2>1. missed'[s.id.n] \in Nat
      BY <1>1, <1>7, TypePrune DEF TypeInv
    <2> QED BY <2>1, LossOfMiss
  <1>9. s.utility < MinUtility
    BY <1>5 DEF Useless
  <1>10. NewUtility - missed'[s.id.n] * Loss < MinUtility
    BY <1>6, <1>7, <1>8, <1>9, UtilityAssumption DEF NewUtility
  <1>11. i \in Shown \ Credited
    BY <1>5, <1>6, <1>9 DEF Missing
  <1> QED BY <1>5, <1>10, <1>11

\* In every configuration a skill is evicted only in a batch that showed it and
\* where it helped nothing, and only after enough of those; one whose round was
\* undone does not count, nor one of an earlier skill of the same id.
THEOREM EvictionIsEarned == Spec => EvictionEarned
  <1> DEFINE IInv == TypeInv /\ OwnInv /\ RoundInv /\ EarnInv
  <1>1. Init => IInv
    BY TypeInit, OwnInit, EarnInit
  <1>2. IInv /\ [Next]_vars => IInv'
    BY TypeStep, RoundStep, EarnStep
  <1>3. IInv /\ [Next]_vars =>
          [Pruned => \A i \in changedBy'[General] \ MergedIds :
             /\ i \in Shown \ Credited
             /\ NewUtility - missed'[i.n] * Loss < MinUtility]_vars
    BY EvictionStep
  <1> QED BY <1>1, <1>2, <1>3, PTL DEF Spec, EvictionEarned

-----------------------------------------------------------------------------
(* What a rollback leaves *)

SeparateList(list) == \A k, l \in 1..Len(list) : list[k].id = list[l].id => k = l

\* A list without repeated ids is no longer than one that has all its ids.
LEMMA NoLonger ==
  ASSUME NEW a \in Seq(Skill), NEW b \in Seq(Skill), SeparateList(a),
         \A s \in ToSet(a) : \E e \in ToSet(b) : e.id = s.id
  PROVE  Len(a) <= Len(b)
  <1> DEFINE m == Len(a)
             n == Len(b)
             f == [k \in 1..m |-> CHOOSE j \in 1..n : b[j].id = a[k].id]
  <1>1. m \in Nat /\ n \in Nat /\ DOMAIN a = 1..m /\ DOMAIN b = 1..n
    OBVIOUS
  <1>2. \A k \in 1..m : \E j \in 1..n : b[j].id = a[k].id
    <2> TAKE k \in 1..m
    <2>1. a[k] \in ToSet(a)
      BY <1>1 DEF ToSet
    <2>2. PICK e \in ToSet(b) : e.id = a[k].id
      BY <2>1
    <2>3. PICK j \in 1..n : b[j] = e
      BY <1>1 DEF ToSet
    <2> QED BY <2>2, <2>3
  <1>3. \A k \in 1..m : f[k] \in 1..n /\ b[f[k]].id = a[k].id
    BY <1>2
  <1>4. f \in [1..m -> 1..n]
    BY <1>2
  <1>5. \A k, l \in 1..m : a[k].id = a[l].id => k = l
    BY DEF SeparateList
  <1> HIDE DEF f, m, n
  <1>6. f \in Injection(1..m, 1..n)
    BY <1>3, <1>4, <1>5 DEF Injection, IsInjective
  <1>7. /\ IsFiniteSet(1..m) /\ Cardinality(1..m) = m
        /\ IsFiniteSet(1..n) /\ Cardinality(1..n) = n
    BY <1>1, FS_Interval
  <1>8. Cardinality(1..m) <= Cardinality(1..n)
    BY <1>6, <1>7, FS_Injection
  <1> QED BY <1>7, <1>8 DEF m, n

SameContents(a, b) ==
  /\ \A s \in ToSet(a) : \E e \in ToSet(b) : Content(e) = Content(s)
  /\ \A e \in ToSet(b) : \E s \in ToSet(a) : Content(s) = Content(e)

LEMMA SameLength ==
  ASSUME NEW a \in Seq(Skill), NEW b \in Seq(Skill), SeparateList(a), SeparateList(b),
         SameContents(a, b)
  PROVE  Len(a) = Len(b)
  <1>1. \A s, e : Content(e) = Content(s) => e.id = s.id
    BY DEF Content
  <1>2. \A s \in ToSet(a) : \E e \in ToSet(b) : e.id = s.id
    BY <1>1 DEF SameContents
  <1>3. \A e \in ToSet(b) : \E s \in ToSet(a) : s.id = e.id
    BY <1>1 DEF SameContents
  <1>4. Len(a) <= Len(b) /\ Len(b) <= Len(a)
    BY <1>2, <1>3, NoLonger
  <1> QED BY <1>4

LEMMA FirstAt ==
  ASSUME NEW list \in Seq(Skill), NEW k \in Nat
  PROVE  /\ FirstOf(list, k) = {list[j] : j \in 1..(IF k < Len(list) THEN k ELSE Len(list))}
         /\ Len(list) <= k => FirstOf(list, k) = ToSet(list)
  <1> DEFINE m == IF k < Len(list) THEN k ELSE Len(list)
             sub == SubSeq(list, 1, m)
  <1>1. m \in Nat /\ m <= Len(list) /\ Len(list) \in Nat /\ DOMAIN list = 1..Len(list)
    OBVIOUS
  <1>2. Len(list) <= k => m = Len(list)
    OBVIOUS
  <1> HIDE DEF m
  <1>3. DOMAIN sub = 1..m /\ \A j \in 1..m : sub[j] = list[j]
    BY <1>1
  <1>4. ToSet(sub) = {list[j] : j \in 1..m}
    BY <1>3 DEF ToSet
  <1>5. FirstOf(list, k) = ToSet(sub)
    BY DEF FirstOf, m
  <1>6. Len(list) <= k => {list[j] : j \in 1..m} = ToSet(list)
    BY <1>1, <1>2 DEF ToSet
  <1> QED BY <1>4, <1>5, <1>6 DEF m

\* Lists with the same contents, and their static skills in the same order.
Alike(a, b) ==
  /\ a \in Seq(Skill) /\ b \in Seq(Skill) /\ SeparateList(a) /\ SeparateList(b)
  /\ SameContents(a, b)

LEMMA AlikeDynamic ==
  ASSUME NEW a, NEW b, Alike(a, b)
  PROVE  LET x == Only(a, {s \in ToSet(a) : Dynamic(s)})
             y == Only(b, {s \in ToSet(b) : Dynamic(s)})
         IN  Len(x) = Len(y) /\ SameContents(x, y) /\ x \in Seq(Skill) /\ y \in Seq(Skill)
  <1> DEFINE X == {s \in ToSet(a) : Dynamic(s)}
             Y == {s \in ToSet(b) : Dynamic(s)}
             x == Only(a, X)
             y == Only(b, Y)
  <1>1. a \in Seq(Skill) /\ b \in Seq(Skill)
    BY DEF Alike
  <1>2. x \in Seq(Skill) /\ ToSet(x) = X /\ y \in Seq(Skill) /\ ToSet(y) = Y
    BY <1>1, OnlyType
  <1>3. \A s, e : Content(e) = Content(s) => (Dynamic(e) <=> Dynamic(s))
    BY DEF Content, Dynamic
  <1>4. /\ \A s \in X : \E e \in Y : Content(e) = Content(s)
        /\ \A e \in Y : \E s \in X : Content(s) = Content(e)
    BY <1>3 DEF Alike, SameContents
  <1>5. SeparateList(x)
    <2>1. \A k, l \in 1..Len(a) : a[k].id = a[l].id => k = l
      BY DEF Alike, SeparateList
    <2> HIDE DEF X
    <2> QED BY <1>1, <2>1, OnlySeparate DEF SeparateList
  <1>6. SeparateList(y)
    <2>1. \A k, l \in 1..Len(b) : b[k].id = b[l].id => k = l
      BY DEF Alike, SeparateList
    <2> HIDE DEF Y
    <2> QED BY <1>1, <2>1, OnlySeparate DEF SeparateList
  <1> HIDE DEF x, y
  <1>7. SameContents(x, y)
    BY <1>2, <1>4 DEF SameContents
  <1>8. Len(x) = Len(y)
    BY <1>2, <1>5, <1>6, <1>7, SameLength
  <1> QED BY <1>2, <1>7, <1>8 DEF x, y

\* Static skills with the same contents and the same order of ids are equal
\* position by position, up to their utility.
LEMMA AlikeStatics ==
  ASSUME NEW a, NEW b, Alike(a, b), SameIds(Statics(a), Statics(b))
  PROVE  /\ Statics(a) \in Seq(Skill) /\ Statics(b) \in Seq(Skill)
         /\ Len(Statics(a)) = Len(Statics(b))
         /\ \A k \in 1..Len(Statics(a)) : Content(Statics(a)[k]) = Content(Statics(b)[k])
  <1>1. a \in Seq(Skill) /\ b \in Seq(Skill)
    BY DEF Alike
  <1>2. /\ Statics(a) \in Seq(Skill) /\ ToSet(Statics(a)) = {y \in ToSet(a) : ~Dynamic(y)}
        /\ Statics(b) \in Seq(Skill) /\ ToSet(Statics(b)) = {y \in ToSet(b) : ~Dynamic(y)}
    BY <1>1, StaticsType
  <1>3. \A y, z \in ToSet(b) : y.id = z.id => y = z
    <2> SUFFICES ASSUME NEW y \in ToSet(b), NEW z \in ToSet(b), y.id = z.id PROVE y = z
      OBVIOUS
    <2>1. PICK k \in 1..Len(b) : y = b[k]
      BY <1>1 DEF ToSet
    <2>2. PICK l \in 1..Len(b) : z = b[l]
      BY <1>1 DEF ToSet
    <2>3. k = l
      BY <2>1, <2>2 DEF Alike, SeparateList
    <2> QED BY <2>1, <2>2, <2>3
  <1>4. ASSUME NEW k \in 1..Len(Statics(a))
        PROVE  Content(Statics(a)[k]) = Content(Statics(b)[k])
    <2> DEFINE s == Statics(a)[k]
               e == Statics(b)[k]
    <2>1. s.id = e.id /\ k \in 1..Len(Statics(b))
      BY DEF SameIds
    <2>2. s \in ToSet(Statics(a)) /\ e \in ToSet(Statics(b))
      BY <1>2, <2>1 DEF ToSet
    <2>3. s \in ToSet(a) /\ e \in ToSet(b)
      BY <1>2, <2>2
    <2> HIDE DEF s, e
    <2>4. PICK r \in ToSet(b) : Content(r) = Content(s)
      BY <2>3 DEF Alike, SameContents
    <2>5. r.id = s.id
      BY <2>4 DEF Content
    <2>6. r = e
      BY <1>3, <2>1, <2>3, <2>4, <2>5
    <2> QED BY <2>4, <2>6 DEF s, e
  <1> QED BY <1>2, <1>4 DEF SameIds

\* The contents of a set of skills.
Read(set) == {Content(s) : s \in set}

LEMMA ReadSame ==
  ASSUME NEW a, NEW b, SameContents(a, b)
  PROVE  Read(ToSet(a)) = Read(ToSet(b))
  <1>1. /\ \A s \in ToSet(a) : \E e \in ToSet(b) : Content(e) = Content(s)
        /\ \A e \in ToSet(b) : \E s \in ToSet(a) : Content(s) = Content(e)
    BY DEF SameContents
  <1> QED BY <1>1 DEF Read

\* What embedding mode shows depends on the contents of the lists ...
LEMMA ShowsEmbedding ==
  ASSUME NEW a \in Bank, NEW t \in Types, conf.mode = "embedding"
  PROVE  Retrieve(Changed(a), t, conf) =
           Closest(Read(ToSet(a[General])), t, conf.topK)
             \cup Closest(Read(ToSet(a[t])), t, conf.taskTopK)
  <1>1. Warm(Changed(a), conf.mode).cache = {Embed(a)}
    BY DEF Warm, Changed, Loaded
  <1>2. \A c \in Lists : ToSet(Embed(a)[c]) = Read(ToSet(a[c]))
    BY EmbedType DEF Read
  <1>3. ToSet(Embed(a)[General]) = Read(ToSet(a[General]))
        /\ ToSet(Embed(a)[t]) = Read(ToSet(a[t]))
    BY <1>2, TypesInLists
  <1>4. Retrieve(Changed(a), t, conf) =
          UNION {Closest(ToSet(items[General]), t, conf.topK)
                   \cup Closest(ToSet(items[t]), t, conf.taskTopK) : items \in {Embed(a)}}
    BY <1>1 DEF Retrieve
  <1>5. Retrieve(Changed(a), t, conf) =
          Closest(ToSet(Embed(a)[General]), t, conf.topK)
            \cup Closest(ToSet(Embed(a)[t]), t, conf.taskTopK)
    BY <1>4
  <1> QED BY <1>3, <1>5

\* ... and what template mode shows also on the order of the static skills, if
\* it shows all skills of the type.
Dynamics(list) == Only(list, {s \in ToSet(list) : Dynamic(s)})
Room(list) == IF conf.topK - Len(Dynamics(list)) > 0 THEN conf.topK - Len(Dynamics(list)) ELSE 0

LEMMA ShowsTemplate ==
  ASSUME NEW a \in Bank, NEW t \in Types, conf.mode # "embedding"
  PROVE  Retrieve(Changed(a), t, conf) =
           Read(ToSet(Dynamics(a[General])))
             \cup Read(FirstOf(Statics(a[General]), Room(a[General])))
             \cup Read(FirstOf(a[t], conf.taskTopK))
  <1> DEFINE x == ToSet(Dynamics(a[General]))
             y == FirstOf(Statics(a[General]), Room(a[General]))
             z == FirstOf(a[t], conf.taskTopK)
  <1>1. Retrieve(Changed(a), t, conf) = {Content(s) : s \in x \cup y \cup z}
    BY DEF Retrieve, Changed, RetrieveTemplate, Dynamics, Statics, Room
  <1> HIDE DEF x, y, z
  <1>2. {Content(s) : s \in x \cup y \cup z} = Read(x) \cup Read(y) \cup Read(z)
    BY DEF Read
  <1> QED BY <1>1, <1>2 DEF x, y, z

LEMMA ShowsAlike ==
  ASSUME NEW a \in Bank, NEW b \in Bank, NEW t \in Types, conf \in Setups,
         Alike(a[General], b[General]), Alike(a[t], b[t]),
         SameIds(Statics(a[General]), Statics(b[General])),
         conf.mode = "template" => Len(b[t]) <= conf.taskTopK
  PROVE  Retrieve(Changed(a), t, conf) = Retrieve(Changed(b), t, conf)
  <1>1. CASE conf.mode = "embedding"
    <2>1. Read(ToSet(a[General])) = Read(ToSet(b[General])) /\ Read(ToSet(a[t])) = Read(ToSet(b[t]))
      BY ReadSame DEF Alike
    <2> QED BY <1>1, <2>1, ShowsEmbedding
  <1>2. CASE conf.mode # "embedding"
    <2> DEFINE sa == Statics(a[General])
               sb == Statics(b[General])
               m == Room(b[General])
    <2>1. conf.topK \in Nat /\ conf.taskTopK \in Nat /\ conf.mode = "template"
      BY <1>2, SetupsAssumption
    <2>2. /\ Len(Dynamics(a[General])) = Len(Dynamics(b[General]))
          /\ SameContents(Dynamics(a[General]), Dynamics(b[General]))
          /\ Dynamics(b[General]) \in Seq(Skill)
      BY AlikeDynamic DEF Dynamics
    <2>3. Read(ToSet(Dynamics(a[General]))) = Read(ToSet(Dynamics(b[General])))
      BY <2>2, ReadSame
    <2>4. Room(a[General]) = m
      BY <2>2 DEF Room
    <2>5. m \in Nat
      <3>1. Len(Dynamics(b[General])) \in Nat
        BY <2>2
      <3> QED BY <2>1, <3>1 DEF Room
    <2>6. /\ sa \in Seq(Skill) /\ sb \in Seq(Skill) /\ Len(sa) = Len(sb)
          /\ \A k \in 1..Len(sa) : Content(sa[k]) = Content(sb[k])
      BY AlikeStatics
    <2> HIDE DEF sa, sb, m
    <2>7. Read(FirstOf(sa, m)) = Read(FirstOf(sb, m))
      <3> DEFINE n == IF m < Len(sa) THEN m ELSE Len(sa)
      <3>1. FirstOf(sa, m) = {sa[j] : j \in 1..n} /\ FirstOf(sb, m) = {sb[j] : j \in 1..n}
        BY <2>5, <2>6, FirstAt
      <3>2. \A j \in 1..n : j \in 1..Len(sa)
        BY <2>5, <2>6
      <3> HIDE DEF n
      <3>3. \A j \in 1..n : Content(sa[j]) = Content(sb[j])
        BY <2>6, <3>2
      <3> QED BY <3>1, <3>3 DEF Read
    <2>8. Read(FirstOf(a[t], conf.taskTopK)) = Read(FirstOf(b[t], conf.taskTopK))
      <3>1. /\ a[t] \in Seq(Skill) /\ b[t] \in Seq(Skill) /\ SameContents(a[t], b[t])
            /\ SeparateList(a[t]) /\ SeparateList(b[t])
        BY DEF Alike
      <3>2. Len(a[t]) = Len(b[t])
        BY <3>1, SameLength
      <3>3. FirstOf(a[t], conf.taskTopK) = ToSet(a[t]) /\ FirstOf(b[t], conf.taskTopK) = ToSet(b[t])
        BY <2>1, <3>1, <3>2, FirstAt
      <3> QED BY <3>1, <3>3, ReadSame
    <2> QED BY <1>2, <2>3, <2>4, <2>7, <2>8, ShowsTemplate DEF sa, sb, m
  <1> QED BY <1>1, <1>2

\* A partial restore of everything the round changed among the general skills
\* and those of a type leaves lists like those of the snapshot.
LEMMA RestoredAlike ==
  ASSUME TypeInv, InRound, RoundInv, UniqueIds(snap), ~IdReused,
         NEW keys \in SUBSET Lists, NEW t \in Types,
         {c \in {General, t} : changedBy[c] # {}} \subseteq keys,
         NEW ids \in Seq(SkillId), ToSet(ids) = UNION {changedBy[c] : c \in keys}
  PROVE  LET new == RestorePartial(mem.lists, snap, ids)
         IN  /\ new \in Bank
             /\ \A c \in {General, t} : Alike(new[c], snap[c])
             /\ SameIds(Statics(new[General]), Statics(snap[General]))
  <1> DEFINE new == RestorePartial(mem.lists, snap, ids)
             I == ToSet(ids)
  <1>1. mem.lists \in Bank /\ snap \in Bank
    BY DEF TypeInv, Sound, Memory
  <1>2. mem.lists \in Banks(Skill) /\ snap \in Banks(Skill)
    BY <1>1, BankIsBanks
  <1>3. Distinct(snap)
    BY <1>2, WalkDistinct DEF UniqueIds
  <1>4. Traced
    BY <1>3 DEF RoundInv
  <1>5. Separate(mem.lists) /\ Separate(snap)
    BY <1>2, <1>3, <1>4, DistinctSeparate DEF Traced
  <1>6. NothingReused(mem.lists, snap)
    BY DEF IdReused, NothingReused
  <1>7. /\ new \in Banks(Skill) /\ Separate(new)
        /\ \A c \in Lists : ToSet(new[c]) = {s \in ToSet(mem.lists[c]) : s.id \notin I}
                                              \cup {s \in ToSet(snap[c]) : s.id \in I}
    BY <1>2, <1>3, <1>5, <1>6, RestoreSet
  <1>8. SameIds(Statics(new[General]), Statics(snap[General]))
    BY <1>2, <1>4, TypesInLists, RestoreStatics DEF Traced
  <1>9. General \in Lists /\ t \in Lists
    BY TypesInLists
  <1>10. \A c \in {General, t} : changedBy[c] \subseteq I
    <2> SUFFICES ASSUME NEW c \in {General, t}, changedBy[c] # {} PROVE changedBy[c] \subseteq I
      OBVIOUS
    <2>1. c \in keys
      OBVIOUS
    <2> QED BY <2>1
  <1> HIDE DEF new, I
  <1>11. ASSUME NEW c \in {General, t} PROVE SameContents(new[c], snap[c])
    <2>1. c \in Lists
      BY <1>9
    <2>2. ASSUME NEW s \in ToSet(new[c])
          PROVE  \E e \in ToSet(snap[c]) : Content(e) = Content(s)
      <3>1. CASE s \in ToSet(snap[c])
        BY <3>1
      <3>2. CASE s \in ToSet(mem.lists[c]) /\ s.id \notin I
        <4>1. s.id \notin changedBy[c]
          BY <1>10, <3>2
        <4> QED BY <1>4, <2>1, <3>2, <4>1 DEF Traced
      <3> QED BY <1>7, <2>1, <2>2, <3>1, <3>2
    <2>3. ASSUME NEW e \in ToSet(snap[c])
          PROVE  \E s \in ToSet(new[c]) : Content(s) = Content(e)
      <3>1. CASE e.id \in I
        BY <1>7, <2>1, <3>1
      <3>2. CASE e.id \notin I
        <4>1. e.id \notin changedBy[General] /\ e.id \notin changedBy[c]
          BY <1>10, <3>2
        <4>2. PICK s \in ToSet(mem.lists[c]) : s.id = e.id
          BY <1>4, <2>1, <4>1 DEF Traced
        <4>3. s \in ToSet(new[c])
          BY <1>7, <2>1, <3>2, <4>2
        <4>4. PICK r \in ToSet(snap[c]) : Content(r) = Content(s)
          BY <1>4, <2>1, <4>1, <4>2 DEF Traced
        <4>5. r.id = e.id
          BY <4>2, <4>4 DEF Content
        <4>6. r = e
          BY <1>3, <2>1, <4>5, DistinctItems
        <4> QED BY <4>3, <4>4, <4>6
      <3> QED BY <3>1, <3>2
    <2> QED BY <2>2, <2>3 DEF SameContents
  <1>12. \A c \in {General, t} : Alike(new[c], snap[c])
    <2> TAKE c \in {General, t}
    <2>1. c \in Lists
      BY <1>9
    <2>2. new[c] \in Seq(Skill) /\ snap[c] \in Seq(Skill)
      BY <1>2, <1>7, <2>1 DEF Banks
    <2>3. SeparateList(new[c]) /\ SeparateList(snap[c])
      BY <1>5, <1>7, <2>1 DEF Separate, SeparateList
    <2> QED BY <1>11, <2>2, <2>3 DEF Alike
  <1>13. new \in Bank
    BY <1>7, BankIsBanks
  <1> QED BY <1>8, <1>12, <1>13 DEF new

LEMMA RejectedStep ==
  ASSUME TypeInv, RoundInv, [Next]_vars, vars' # vars, NEW t \in Types, AllRejected(t),
         conf.mode = "template" => Len(snap[t]) <= conf.taskTopK
  PROVE  ShowsSame(t)
  <1>1. /\ phase \in {"judge", "compare"} /\ rejected' # {} /\ UniqueIds(snap) /\ ~IdReused
        /\ {c \in {General, t} : changedBy[c] # {}} \subseteq rejected'
    BY DEF AllRejected
  <1>2. snap \in Bank /\ conf \in Setups
    BY DEF TypeInv
  <1>3. JudgePerType \/ JudgeAll
    <2>1. ~Rollout /\ ~NoRound /\ ~Validate /\ ~Prune /\ ~NoPrune /\ ~Stopped
      BY <1>1 DEF Rollout, NoRound, Validate, Prune, NoPrune, Stopped
    <2>2. ~ApplyUpdates /\ ~NothingChanged /\ ~Replay /\ ~NoReplay /\ ~Fallback
      BY <1>1 DEF ApplyUpdates, NothingChanged, Replay, NoReplay, Fallback
    <2>3. \A u \in Types : ~UpdateType(u)
      BY <1>1 DEF UpdateType
    <2> QED BY <2>1, <2>2, <2>3 DEF Next
  <1>4. CASE JudgePerType
    <2>1. PublishesRestored
      BY <1>4, JudgeFacts
    <2>2. rejected' \in SUBSET Lists
      BY <2>1 DEF PublishesRestored
    <2>3. PICK ids \in Orders(UNION {changedBy[c] : c \in rejected'}) :
            Publish(Changed(RestorePartial(mem.lists, snap, ids)))
      BY <1>1, <2>1 DEF PublishesRestored
    <2> DEFINE keys == rejected'
               all == UNION {changedBy[c] : c \in keys}
               new == RestorePartial(mem.lists, snap, ids)
    <2>4. keys \in SUBSET Lists /\ {c \in {General, t} : changedBy[c] # {}} \subseteq keys
      BY <1>1, <2>2
    <2>5. ids \in Orders(all) /\ mem' = Changed(new)
      BY <2>3 DEF Publish
    <2> HIDE DEF keys
    <2>6. all \in SUBSET SkillId /\ IsFiniteSet(all)
      BY <2>4, RejectedIds
    <2>7. ids \in Seq(SkillId) /\ ToSet(ids) = all
      <3> HIDE DEF all
      <3> QED BY <1>2, <2>5, <2>6, OrdersType DEF Ordering
    <2>8. InRound
      BY <1>1 DEF InRound
    <2>9. /\ new \in Bank /\ \A c \in {General, t} : Alike(new[c], snap[c])
          /\ SameIds(Statics(new[General]), Statics(snap[General]))
      BY <1>1, <2>4, <2>7, <2>8, RestoredAlike
    <2> HIDE DEF new, all
    <2>10. Alike(new[General], snap[General]) /\ Alike(new[t], snap[t])
      BY <2>9
    <2>11. Retrieve(Changed(new), t, conf) = Retrieve(Changed(snap), t, conf)
      BY <1>2, <2>9, <2>10, ShowsAlike
    <2> QED BY <2>5, <2>11 DEF ShowsSame
  <1>5. CASE JudgeAll
    <2>1. mem' = Changed(snap)
      BY <1>1, <1>5 DEF JudgeAll, Publish
    <2> QED BY <2>1 DEF ShowsSame
  <1> QED BY <1>3, <1>4, <1>5

\* In every configuration that shows all skills of a task type, in every order in
\* which ids are put back, a type whose changes are rejected has its prompts back.
THEOREM RejectionShowsSame == Spec => RejectedShowsSame
  <1>1. Init => TypeInv /\ OwnInv /\ RoundInv
    BY TypeInit, OwnInit
  <1>2. TypeInv /\ OwnInv /\ RoundInv /\ [Next]_vars => (TypeInv /\ OwnInv /\ RoundInv)'
    BY TypeStep, RoundStep
  <1>3. TypeInv /\ OwnInv /\ RoundInv /\ [Next]_vars =>
          [\A t \in Types :
             AllRejected(t) /\ (conf.mode = "template" => Len(snap[t]) <= conf.taskTopK) =>
               ShowsSame(t)]_vars
    BY RejectedStep
  <1> QED BY <1>1, <1>2, <1>3, PTL DEF Spec, RejectedShowsSame
=============================================================================
