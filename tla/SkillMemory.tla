---------------------------- MODULE SkillMemory ----------------------------
(***************************************************************************)
(* A skill memory as a rollout reads it and the pruner rewrites it: ordered *)
(* lists, utilities, the cache of embeddings                                *)
(* (agent_system/memory/skills_only_memory.py, skill_pruner.py).           *)
(*                                                                         *)
(* SkillBank abstracts the same dictionary to a set of entries, which is   *)
(* what the rounds of skill evolution need.  Here the order inside a list  *)
(* matters (retrieval cuts lists off), and so does the utility of a skill. *)
(* A text is named by who wrote it and when.                               *)
(***************************************************************************)
EXTENDS Integers, Sequences, SequencesExt

CONSTANTS
  TypeOrder,        \* the task types, in the order of the dictionary
  Near(_),          \* the embeddings of two skills are above merge_threshold
  Closeness(_, _),  \* similarity of a task of this type and a skill's text
  Gain,             \* what the pruner adds to the utility of a skill that
  Loss,             \*   helped, and takes off one that did not, and the
  MinUtility        \*   utility it evicts below: hundredths, EMA included

General == "general"
Order   == <<General>> \o TypeOrder
Types   == ToSet(TypeOrder)
Lists   == ToSet(Order)

ASSUME OrderAssumption == TypeOrder \in Seq(STRING) /\ IsInjective(Order)
ASSUME UtilityAssumption ==
  Gain \in Nat /\ Loss \in Nat \ {0} /\ MinUtility \in 0..100

\* The utility of a skill that has none yet, and the largest one.
NewUtility == 100
MaxUtility == 200

Dynamic(s) == s.id.pfx = "dyn"
Content(s) == [id |-> s.id, text |-> s.text]

\* All skills, in the order the code walks them.
Walk(lists) == FlattenSeq([k \in DOMAIN Order |-> lists[Order[k]]])
Ids(lists)  == {s.id : s \in ToSet(Walk(lists))}

Holds(list, i) == \E k \in DOMAIN list : list[k].id = i

\* The list in which _find_skill finds an id of the bank.
Home(lists, i) == Order[SelectInSeq(Order, LAMBDA c : Holds(lists[c], i))]

\* The largest number of a dyn_ id in the bank, plus one.
NextDynIndex(lists) ==
  LET used == {i.n : i \in {j \in Ids(lists) : j.pfx = "dyn"}}
  IN  1 + CHOOSE n \in {0} \cup used : \A m \in used : m <= n

-----------------------------------------------------------------------------
(* Changing the lists                                                        *)

\* A list comprehension: the items of a list that are in a set, in order.
Only(list, set) ==
  LET only[n \in 0..Len(list)] ==
        IF n = 0 THEN <<>>
        ELSE IF list[n] \in set THEN Append(only[n - 1], list[n]) ELSE only[n - 1]
  IN  only[Len(list)]

Without(lists, ids) ==
  [c \in Lists |-> Only(lists[c], {s \in ToSet(lists[c]) : s.id \notin ids})]

\* New skills go to the end of their list, those with a taken id nowhere.
AddSkills(lists, new, c) ==
  [lists EXCEPT ![c] = @ \o Only(new, {s \in ToSet(new) : s.id \notin Ids(lists)})]

Synthesize(lists, ids, text) ==
  [c \in Lists |-> [k \in DOMAIN lists[c] |->
     LET s == lists[c][k] IN IF s.id \in ids THEN [s EXCEPT !.text = text] ELSE s]]

\* Mutant of Clip: utilities are not bounded.
ClipNot(u) == u

Clip(u) == IF u < 0 THEN 0 ELSE IF u > MaxUtility THEN MaxUtility ELSE u

\* update_utility: each id once, in the entry _find_skill finds.
Credit(lists, ids, delta) ==
  [c \in Lists |-> [k \in DOMAIN lists[c] |->
     LET s == lists[c][k]
     IN  IF s.id \in ids /\ Home(lists, s.id) = c
           THEN [s EXCEPT !.utility = Clip(@ + delta)] ELSE s]]

\* evict_low_utility: entry by entry, dynamic skills only; and the ids evicted,
\* which another list may still hold.
Useless(s) == Dynamic(s) /\ s.utility < MinUtility
Evict(lists) ==
  [c \in Lists |-> Only(lists[c], {s \in ToSet(lists[c]) : ~Useless(s)})]
Low(lists) == {s.id : s \in {r \in ToSet(Walk(lists)) : Useless(r)}}

\* Mutant of PutBack: a skill that is still there keeps its utility.
PutBackKeepsUtility(lists, snap, i) ==
  LET c    == Order[SelectLastInSeq(Order, LAMBDA d : Holds(snap[d], i))]
      old  == snap[c][SelectLastInSeq(snap[c], LAMBDA s : s.id = i)]
      here == SelectInSeq(lists[c], LAMBDA s : s.id = i)
  IN  IF here = 0 THEN [lists EXCEPT ![c] = Append(@, old)]
      ELSE [lists EXCEPT ![c][here] = [old EXCEPT !.utility = lists[c][here].utility]]

\* One id of the snapshot is put back: over the entry of that id in the list
\* where the snapshot had it last, or else at the end of that list.
PutBack(lists, snap, i) ==
  LET c    == Order[SelectLastInSeq(Order, LAMBDA d : Holds(snap[d], i))]
      old  == snap[c][SelectLastInSeq(snap[c], LAMBDA s : s.id = i)]
      here == SelectInSeq(lists[c], LAMBDA s : s.id = i)
  IN  IF here = 0 THEN [lists EXCEPT ![c] = Append(@, old)]
      ELSE [lists EXCEPT ![c][here] = old]

\* Mutant of RestorePartial: what was evicted is not put back.
RestorePartialNoInsert(lists, snap, ids) ==
  LET back == Only(ids, Ids(snap))
      restored[n \in 0..Len(back)] ==
        IF n = 0 THEN Without(lists, ToSet(ids) \ Ids(snap))
        ELSE IF back[n] \in Ids(restored[n - 1])
          THEN PutBack(restored[n - 1], snap, back[n]) ELSE restored[n - 1]
  IN  restored[Len(back)]

\* restore_partial: ids is the order in which Python iterates over a set.
RestorePartial(lists, snap, ids) ==
  LET back == Only(ids, Ids(snap))
      restored[n \in 0..Len(back)] ==
        IF n = 0 THEN Without(lists, ToSet(ids) \ Ids(snap))
        ELSE PutBack(restored[n - 1], snap, back[n])
  IN  restored[Len(back)]

-----------------------------------------------------------------------------
(* Merging near-duplicates                                                   *)

\* Mutant of MergeWith: on a tie both go.
MergeWithBoth(flat, i, gone) ==
  LET merge[j \in 0..(Len(flat) - i)] ==
        IF j = 0 THEN [gone |-> gone, stop |-> FALSE]
        ELSE LET acc == merge[j - 1]
                 low == (IF Dynamic(flat[i + j]) /\ flat[i].utility >= flat[i + j].utility
                           THEN {flat[i + j].id} ELSE {}) \cup
                        (IF Dynamic(flat[i]) /\ flat[i + j].utility >= flat[i].utility
                           THEN {flat[i].id} ELSE {})
             IN  IF acc.stop \/ flat[i + j].id \in acc.gone \/ ~Near({flat[i], flat[i + j]})
                   THEN acc
                 ELSE [gone |-> acc.gone \cup low, stop |-> flat[i].id \in low]
  IN  merge[Len(flat) - i].gone

\* Of two near-duplicates one goes, if it is dynamic: the one of lower utility,
\* the later one on a tie, or if only that one is dynamic.
Merge(acc, i, j) ==
  IF acc.stop \/ j.id \in acc.gone \/ ~Near({i, j}) THEN acc
  ELSE IF Dynamic(j) /\ i.utility >= j.utility
    THEN [gone |-> acc.gone \cup {j.id}, stop |-> FALSE]
  ELSE IF Dynamic(i) /\ j.utility > i.utility
    THEN [gone |-> acc.gone \cup {i.id}, stop |-> TRUE]
  ELSE acc

\* Skill i against every later one that is still there, until i itself goes.
MergeWith(flat, i, gone) ==
  LET merge[j \in 0..(Len(flat) - i)] ==
        IF j = 0 THEN [gone |-> gone, stop |-> FALSE]
        ELSE Merge(merge[j - 1], flat[i], flat[i + j])
  IN  merge[Len(flat) - i].gone

\* merge_similar: the ids of the skills merged into others.
MergedAway(flat) ==
  LET gone[i \in 0..Len(flat)] ==
        IF i = 0 THEN {}
        ELSE LET before == gone[i - 1]
             IN  IF flat[i].id \in before THEN before ELSE MergeWith(flat, i, before)
  IN  gone[Len(flat)]

-----------------------------------------------------------------------------
(* Retrieval                                                                 *)

\* The items of the embedding cache; their utility plays no part.
Embed(lists) ==
  [c \in Lists |-> [k \in DOMAIN lists[c] |-> Content(lists[c][k])]]

\* A memory is its lists and its cache: no set of items, or one.
Loaded(lists, mode) ==
  [lists |-> lists, cache |-> IF mode = "embedding" THEN {Embed(lists)} ELSE {}]

\* A memory whose lists have been replaced: the cache is invalidated.
Changed(lists) == [lists |-> lists, cache |-> {}]

\* _compute_skill_embeddings: only an empty cache is computed.
Warm(memory, mode) ==
  IF mode = "embedding" /\ memory.cache = {} THEN Loaded(memory.lists, mode)
  ELSE memory

\* The k items closest to a task of type t (Closeness has no ties: the code
\* breaks them by position).
Closest(items, t, k) ==
  {s \in items :
     Cardinality({r \in items : Closeness(t, r) > Closeness(t, s)}) < k}

FirstOf(list, k) == ToSet(SubSeq(list, 1, IF k < Len(list) THEN k ELSE Len(list)))

\* Every dynamic general skill, then static ones up to topK, and the first
\* skills of the type.
RetrieveTemplate(lists, t, conf) ==
  LET general == ToSet(lists[General])
      dynamic == Only(lists[General], {s \in general : Dynamic(s)})
      static  == Only(lists[General], {s \in general : ~Dynamic(s)})
      room    == conf.topK - Len(dynamic)
  IN  {Content(s) : s \in ToSet(dynamic)
                            \cup FirstOf(static, IF room > 0 THEN room ELSE 0)
                            \cup FirstOf(lists[t], conf.taskTopK)}

\* What the prompt of a task of type t shows.  In embedding mode the items of
\* the cache are ranked, whatever the lists hold by now.
Retrieve(memory, t, conf) ==
  IF conf.mode = "embedding"
    THEN UNION {Closest(ToSet(items[General]), t, conf.topK)
                  \cup Closest(ToSet(items[t]), t, conf.taskTopK) :
                  items \in Warm(memory, conf.mode).cache}
    ELSE RetrieveTemplate(memory.lists, t, conf)
=============================================================================
