------------------------------ MODULE SkillBank ------------------------------
(***************************************************************************)
(* The skill bank of agent_system/memory/skills_only_memory.py, as         *)
(* operators on a value.                                                   *)
(*                                                                         *)
(* The Python bank is a dictionary of lists: the general skills and one    *)
(* list per task type.  Here it is a set of entries; an entry says in      *)
(* which list a skill is filed, its skill_id, in which evolution round its *)
(* meta dimensions were last written, and from which of those versions     *)
(* its synthesized_text was generated.  The order inside a list and the    *)
(* utility of a skill are not kept: nothing modelled here reads them.      *)
(* common_mistakes is never written and is left out.                       *)
(*                                                                         *)
(* One id may be filed in two lists (the Python code allows it and the     *)
(* evolution round reaches it); it is filed at most once per list, which   *)
(* WellFormed states and the proofs establish.                             *)
(***************************************************************************)
EXTENDS Integers, FiniteSets

CONSTANTS
  TaskTypes,  \* the task types the environments report
  Rank,       \* the order in which the code walks the lists of the bank
  Prefixes,   \* the prefixes of skill ids: "gen", "dyn", "cle", ...
  MaxIndex    \* bound on the number NNN of a skill id prefix_NNN

General == "general"
Categories == TaskTypes \cup {General}

ASSUME TaskTypesAssumption == General \notin TaskTypes
ASSUME RankAssumption ==
  /\ Rank \in [Categories -> Nat]
  /\ \A c, d \in Categories : Rank[c] = Rank[d] => c = d
  /\ \A c \in TaskTypes : Rank[General] < Rank[c]
ASSUME MaxIndexAssumption == MaxIndex \in Nat \ {0}

Id == [pfx : Prefixes, n : 1..MaxIndex]

\* The text of a skill that was added but never synthesized.
NoText == -1

Entry == [cat : Categories, id : Id, meta : Nat, text : Nat \cup {NoText}]

Ids(bank) == {e.id : e \in bank}

\* A bank in which no list holds the same id twice.
WellFormed(bank) ==
  /\ bank \subseteq Entry
  /\ \A e, f \in bank : e.cat = f.cat /\ e.id = f.id => e = f

\* Every skill of one bank is filed in another where that one has it.
Keeps(bank, initial) ==
  \A e \in initial : \E f \in bank : f.cat = e.cat /\ f.id = e.id

-----------------------------------------------------------------------------
(* Look-ups *)

\* The entry the code finds for an id: the first one, general skills first.
FindSkill(bank, i) ==
  {e \in bank : /\ e.id = i
                /\ \A f \in bank : f.id = i => Rank[e.cat] <= Rank[f.cat]}

\* What a rollout of task type tt can be shown: general and its own skills.
Retrievable(bank, tt) == {e.id : e \in {f \in bank : f.cat \in {General, tt}}}

\* Only ids that still carry the prefix dyn_ may be evicted or merged away.
Evictable(i) == i.pfx = "dyn"

\* Mutant of NextDynIndex: counts the dyn_ ids instead of taking the largest.
NextDynIndexByCount(bank) ==
  Cardinality({i \in Ids(bank) : i.pfx = "dyn"}) + 1

\* The number after the largest dyn_NNN of the bank (1 when there is none).
NextDynIndex(bank) ==
  LET used == {i.n : i \in {j \in Ids(bank) : j.pfx = "dyn"}}
  IN  CHOOSE n \in 1..(MaxIndex + 1) :
        /\ \A m \in used : m < n
        /\ n = 1 \/ n - 1 \in used

-----------------------------------------------------------------------------
(* Updates *)

\* Mutant of AddSkills: no check for ids the bank already has.
AddSkillsUnchecked(bank, ids, cat, version) ==
  bank \cup {[cat |-> cat, id |-> i, meta |-> version, text |-> NoText] :
               i \in ids}

\* File the new skills under cat, skipping the ids the bank already has.
AddSkills(bank, ids, cat, version) ==
  bank \cup {[cat |-> cat, id |-> i, meta |-> version, text |-> NoText] :
               i \in ids \ Ids(bank)}

\* One meta dimension of every id is rewritten, in the entry FindSkill finds.
UpdateMeta(bank, ids, version) ==
  {IF e.id \in ids /\ e \in FindSkill(bank, e.id)
     THEN [e EXCEPT !.meta = version] ELSE e : e \in bank}

\* Mutant of SynthesizeAll: a skill that already has a text is skipped.
SynthesizeMissing(bank, ids) ==
  {IF e.id \in ids /\ e.text = NoText THEN [e EXCEPT !.text = e.meta] ELSE e :
     e \in bank}

\* The text of every entry of the ids is regenerated from its meta dimensions.
SynthesizeAll(bank, ids) ==
  {IF e.id \in ids THEN [e EXCEPT !.text = e.meta] ELSE e : e \in bank}

\* What snap_map holds for the ids: the last entry of each id in the snapshot.
SnapshotEntries(snap, ids) ==
  {e \in snap : /\ e.id \in ids
                /\ \A f \in snap : f.id = e.id => Rank[f.cat] <= Rank[e.cat]}

\* Mutants of RestorePartial: nothing is put back; new skills stay.
RestorePartialForgets(bank, snap, ids) == {e \in bank : e.id \notin ids}

RestorePartialKeepsNew(bank, snap, ids) ==
  {e \in bank : e.id \notin ids \/ e.id \notin Ids(snap)}
    \cup SnapshotEntries(snap, ids)

\* Ids the snapshot lacks are removed; the others are put back, in the list
\* where the snapshot had them, over whatever that list holds for them now.
RestorePartial(bank, snap, ids) ==
  LET kept == {e \in bank : e.id \notin ids \/ e.id \in Ids(snap)}
      back == SnapshotEntries(snap, ids)
  IN  {e \in kept : \A s \in back : ~(s.cat = e.cat /\ s.id = e.id)} \cup back
=============================================================================
