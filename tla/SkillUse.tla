------------------------------ MODULE SkillUse ------------------------------
(***************************************************************************)
(* How skills are retrieved, credited, merged, evicted, revised and rolled *)
(* back, with the lists, utilities and caches of SkillMemory: rollouts and *)
(* validations (agent_system/environments/env_manager.py) between rounds   *)
(* of skill evolution (verl/trainer/ppo/ray_trainer.py).                   *)
(*                                                                         *)
(* There are three memories: the trainer's, which the rounds rewrite, and  *)
(* those of the training and the validation environments, which retrieve.  *)
(* Validation is a second writer: with enable_dynamic_update it files      *)
(* skills of its own in the memory of the training environments.           *)
(*                                                                         *)
(* SkillEvolution has the early exits, exceptions, crashes and the file of *)
(* a round; they are left out here.  All tasks of a type have one task     *)
(* description, so that a type stands for what its prompts show.           *)
(***************************************************************************)
EXTENDS SkillMemory

CONSTANTS
  InitLists,      \* the skills file all three memories load
  Setups,         \* configurations of retrieval
  DynamicUpdate,  \* enable_dynamic_update
  IdPrefixes,     \* what the ids of skills begin with
  Prefix,         \* the one new skills of a type get
  MaxNew,         \* bound on new skills per call of the LLM
  MaxEdits,       \* bound on revised and new skills per round
  MaxIndex,       \* bound on the number of a skill id
  MaxRounds,      \* bound on rounds of skill evolution
  MaxChecks       \* bound on validations

\* Retrieval mode and sizes; taskTopK is at least the length of any list when
\* task_specific_top_k is not set.
ASSUME SetupsAssumption ==
  Setups \subseteq [mode : {"embedding", "template"}, topK : Nat, taskTopK : Nat]

ASSUME BoundsAssumption ==
  /\ {MaxNew, MaxEdits, MaxIndex, MaxRounds, MaxChecks} \subseteq Nat
  /\ DynamicUpdate \in BOOLEAN
  /\ "dyn" \in IdPrefixes /\ Prefix \in [Types -> IdPrefixes]

SkillId == [pfx : IdPrefixes, n : 1..MaxIndex]
Text    == [by : {"file", "round", "validation"}, at : 0..MaxRounds]
Skill   == [id : SkillId, text : Text, utility : 0..MaxUtility]
Bank    == [Lists -> Seq(Skill)]

\* No dynamic skill of the file is one the pruner would have evicted.
ASSUME InitListsAssumption ==
  /\ InitLists \in Bank
  /\ \A s \in ToSet(Walk(InitLists)) :
       /\ s.text.by = "file"
       /\ s.id.pfx = "dyn" => s.utility >= MinUtility

\* A prefix of its own is no other type's, and no other list of the file uses it.
ASSUME PrefixAssumption ==
  \A t \in Types : Prefix[t] # "dyn" =>
    /\ \A u \in Types \ {t} : Prefix[u] # Prefix[t]
    /\ \A c \in Lists \ {t} : \A s \in ToSet(InitLists[c]) : s.id.pfx # Prefix[t]

VARIABLES
  conf,       \* one of Setups
  mem,        \* the trainer's memory: _skill_memory
  env,        \* the memory of the training environments
  val,        \* the memory of the validation environments
  phase,      \* where the trainer is
  shown,      \* the ids the prompts of each type showed in this batch
  won,        \* task types with a successful trajectory in this batch
  lost,       \* task types with a failed one, still to be looked at
  snap,       \* the lists before the round
  changedBy,  \* changed_by_type
  changed,    \* whether the round changed anything so far
  pend,       \* all_updates: ids of skills to revise
  rejected,   \* the keys of changed_by_type the last verdict rolled back
  missed,     \* history: how often the skill of a dyn_ id was shown and helped
              \* nothing since it entered, in rounds that were not undone
  before,     \* history: missed when the round began
  round,      \* rounds begun
  checks      \* validations run

batch    == <<shown, won, lost>>
work     == <<snap, changedBy, changed, pend, rejected>>
history  == <<missed, before>>
counters == <<history, round, checks>>
vars     == <<conf, mem, env, val, phase, batch, work, counters>>

Phases == {"idle", "batch", "update", "verify", "judge", "fallback", "compare"}

NoChange == [c \in Lists |-> {}]

\* The least number of misses that explains the utilities of a dynamic skill in
\* the file; it may have had more, and credit in between.
Explains(k, n) ==
  \A s \in ToSet(Walk(InitLists)) :
    s.id = [pfx |-> "dyn", n |-> n] => NewUtility - k * Loss <= s.utility

MissesInFile(n) ==
  CHOOSE k \in 0..NewUtility :
    Explains(k, n) /\ \A m \in 0..NewUtility : Explains(m, n) => k <= m

Init ==
  /\ conf \in Setups
  /\ mem = Loaded(InitLists, conf.mode)
  /\ env = mem /\ val = mem
  /\ phase = "idle"
  /\ shown = [t \in Types |-> {}] /\ won = {} /\ lost = {}
  /\ snap = InitLists /\ changedBy = NoChange /\ changed = FALSE
  /\ pend = {} /\ rejected = {}
  /\ missed = [n \in 1..MaxIndex |-> MissesInFile(n)] /\ before = missed
  /\ round = 0 /\ checks = 0

-----------------------------------------------------------------------------
(* Using the skills                                                          *)

ShownIds(memory, t) == {s.id : s \in Retrieve(memory, t, conf)}

\* A training step: every skill-arm prompt retrieves, every type in the batch
\* has trajectories that succeed, fail, or both.
Rollout ==
  /\ phase = "idle" /\ round < MaxRounds
  /\ env' = Warm(env, conf.mode)
  /\ \E w, l \in SUBSET Types :
       /\ w \cup l # {}
       /\ won' = w /\ lost' = l
       /\ shown' = [t \in Types |-> IF t \in w \cup l THEN ShownIds(env, t) ELSE {}]
  /\ phase' = "batch"
  /\ UNCHANGED <<conf, mem, val, work, counters>>

\* Rounds are run every update_freq steps only.
NoRound ==
  /\ phase = "batch"
  /\ phase' = "idle"
  /\ shown' = [t \in Types |-> {}] /\ won' = {} /\ lost' = {}
  /\ UNCHANGED <<conf, mem, env, val, work, counters>>

NewSkills(c, k, first, pfx, by) ==
  [j \in 1..k |-> [id |-> [pfx |-> pfx, n |-> first + j - 1],
                   text |-> [by |-> by, at |-> round], utility |-> NewUtility]]

\* Mutant of FileValidationSkills: in the memory that is validated, too.
FileValidationSkillsBoth(new) ==
  /\ env' = Changed(AddSkills(env.lists, new, General))
  /\ val' = Changed(AddSkills(val.lists, new, General))

\* val_envs retrieves; the skills learned from its failures are filed in the
\* memory of the training environments only.
FileValidationSkills(new) ==
  LET lists == AddSkills(env.lists, new, General)
  IN  /\ env' = IF lists = env.lists THEN env ELSE Changed(lists)
      /\ val' = Warm(val, conf.mode)

\* A validation retrieves from val_envs' memory.  With enable_dynamic_update
\* and enough failures the LLM invents skills, numbered by that memory, which
\* are filed in the training environments' memory as general ones.
Validate ==
  /\ phase = "idle" /\ checks < MaxChecks
  /\ checks' = checks + 1
  /\ \E k \in IF DynamicUpdate THEN 0..MaxNew ELSE {0} :
       LET first == NextDynIndex(val.lists)
       IN  /\ first + k - 1 <= MaxIndex  \* bound
           /\ FileValidationSkills(NewSkills(General, k, first, "dyn", "validation"))
  /\ UNCHANGED <<conf, mem, phase, batch, work, history, round>>

-----------------------------------------------------------------------------
(* A round: prune                                                            *)

Shown    == UNION {shown[t] : t \in Types}
Credited == UNION {shown[t] : t \in won}

\* Retrieved but in no successful trajectory.
Missing == Shown \ Credited

\* The lists once utilities have been brought up to date.
Scored == Credit(Credit(mem.lists, Credited, Gain), Missing, -Loss)

\* Merging needs the embedding model.
MergedIds == IF conf.mode = "embedding" THEN MergedAway(Walk(Scored)) ELSE {}

\* The no-skill arm does well: utilities, then merging, then eviction.
Prune ==
  /\ phase = "batch"
  /\ round' = round + 1
  /\ snap' = mem.lists
  /\ LET lists == Evict(Without(Scored, MergedIds))
         gone  == MergedIds \cup Low(Without(Scored, MergedIds))
     IN  /\ mem' = [mem EXCEPT !.lists = lists,
                               !.cache = IF gone = {} THEN @ ELSE {}]
         /\ changedBy' = [NoChange EXCEPT ![General] = gone]
         /\ changed' = (gone # {})
  /\ before' = missed
  /\ missed' = [n \in 1..MaxIndex |->
                  missed[n] + IF [pfx |-> "dyn", n |-> n] \in Shown \ Credited THEN 1 ELSE 0]
  /\ pend' = {} /\ rejected' = {}
  /\ phase' = "update"
  /\ UNCHANGED <<conf, env, val, batch, checks>>

\* The no-skill arm does not.
NoPrune ==
  /\ phase = "batch"
  /\ round' = round + 1
  /\ snap' = mem.lists
  /\ before' = missed
  /\ changedBy' = NoChange /\ changed' = FALSE /\ pend' = {} /\ rejected' = {}
  /\ phase' = "update"
  /\ UNCHANGED <<conf, mem, env, val, batch, missed, checks>>

-----------------------------------------------------------------------------
(* A round: update                                                           *)

\* The key an updated skill is recorded under: its task type, else general.
CategoryOf(i) ==
  LET k == SelectInSeq(TypeOrder, LAMBDA c : Holds(mem.lists[c], i))
  IN  IF k = 0 THEN General ELSE TypeOrder[k]

\* Skills this round has revised or invented so far (for the bound).
Edits == Cardinality(pend)
  + Cardinality({s \in ToSet(Walk(mem.lists)) :
                   s.text = [by |-> "round", at |-> round]})

\* One call of the LLM: it may revise skills the failed trajectories used and
\* invent new ones, numbered after the dyn_ ids still in the bank.
UpdateType(t) ==
  /\ phase = "update" /\ t \in lost
  /\ \E revised \in SUBSET shown[t], k \in 0..MaxNew :
       LET first == NextDynIndex(mem.lists)
           new   == NewSkills(t, k, first, Prefix[t], "round")
           lists == AddSkills(mem.lists, new, t)
       IN  /\ first + k - 1 <= MaxIndex /\ Edits + Cardinality(revised) + k <= MaxEdits
           /\ mem' = IF lists = mem.lists THEN mem ELSE Changed(lists)
           /\ changed' = (changed \/ lists # mem.lists)
           /\ missed' = [n \in 1..MaxIndex |->
                IF [pfx |-> "dyn", n |-> n] \in Ids(lists) \ Ids(mem.lists)
                  THEN 0 ELSE missed[n]]
           /\ pend' = pend \cup revised
           /\ changedBy' = [c \in Lists |->
                changedBy[c] \cup {i \in revised : CategoryOf(i) = c}
                             \cup IF c = t THEN {s.id : s \in ToSet(new)} ELSE {}]
  /\ lost' = lost \ {t}
  /\ UNCHANGED <<conf, env, val, phase, shown, won, snap, rejected, before, round, checks>>

AllChanged == UNION {changedBy[c] : c \in Lists}

\* Revised dimensions are written and the texts of all changed skills are
\* generated anew.
ApplyUpdates ==
  /\ phase = "update" /\ lost = {}
  /\ changed \/ pend # {}
  /\ mem' = IF pend = {} THEN mem
            ELSE Changed(Synthesize(mem.lists, pend \cup AllChanged,
                                    [by |-> "round", at |-> round]))
  /\ changed' = TRUE
  /\ phase' = "verify"
  /\ UNCHANGED <<conf, env, val, batch, snap, changedBy, pend, rejected, counters>>

LeaveRound ==
  /\ phase' = "idle"
  /\ shown' = [t \in Types |-> {}] /\ won' = {} /\ lost' = {}
  /\ changedBy' = NoChange /\ changed' = FALSE /\ pend' = {}

\* Utilities stay as the pruner left them; nothing is saved or synced.
NothingChanged ==
  /\ phase = "update" /\ lost = {} /\ ~changed /\ pend = {}
  /\ LeaveRound
  /\ snap' = mem.lists /\ before' = missed
  /\ UNCHANGED <<conf, mem, env, val, rejected, missed, round, checks>>

-----------------------------------------------------------------------------
(* A round: verify, decide                                                   *)

\* Mutant of SyncSkillToEnv: the embeddings of the old skills are kept.
SyncSkillToEnvCached(target, lists) == [target EXCEPT !.lists = lists]

\* _sync_skill_to_env: an environment's memory gets a copy of the lists.
SyncSkillToEnv(target, lists) == [target EXCEPT !.lists = lists, !.cache = {}]

\* The tasks of the batch are replayed with the candidate skills; the replay
\* may raise.
Replay ==
  /\ phase = "verify"
  /\ env' = Warm(SyncSkillToEnv(env, mem.lists), conf.mode)
  /\ phase' \in {"judge", "fallback"}
  /\ UNCHANGED <<conf, mem, val, batch, work, counters>>

NoReplay ==
  /\ phase = "verify"
  /\ phase' = "fallback"
  /\ UNCHANGED <<conf, mem, env, val, batch, work, counters>>

\* Other tasks are run on val_envs with the candidate skills.
Fallback ==
  /\ phase = "fallback"
  /\ val' = Warm(SyncSkillToEnv(val, mem.lists), conf.mode)
  /\ phase' = "compare"
  /\ UNCHANGED <<conf, mem, env, batch, work, counters>>

UniqueIds(lists) == IsInjective([k \in DOMAIN Walk(lists) |-> Walk(lists)[k].id])

\* The misses that count when the changes to these ids are undone: those of before
\* the round.  Where the snapshot had an id twice only one of its skills is put
\* back, and the larger count stands.
Undone(ids) ==
  [n \in 1..MaxIndex |->
     IF [pfx |-> "dyn", n |-> n] \in ids /\ (UniqueIds(snap) \/ before[n] > missed[n])
       THEN before[n] ELSE missed[n]]

\* The decided bank goes to the training environments.
Publish(memory) ==
  /\ mem' = memory
  /\ env' = SyncSkillToEnv(env, memory.lists)
  /\ snap' = memory.lists /\ before' = missed'
  /\ LeaveRound

\* Types are rolled back one after the other and Python iterates over a set of
\* ids in any order, which matters for those that will be appended to the list
\* they were in; all orders of all of them are tried.
Orders(ids) ==
  LET gone == {i \in ids : \E c \in Lists : Holds(snap[c], i) /\ ~Holds(mem.lists[c], i)}
  IN  {o \o SetToSeq(ids \ gone) : o \in SetToSeqs(gone)}

\* Every key judged worse is rolled back: a task type by its own replayed
\* tasks (a type with none stays), general skills by the mean over all, which
\* drops only if some type does, and does if all do.
JudgePerType ==
  /\ phase = "judge"
  /\ \E measured \in SUBSET {t \in Types : shown[t] # {}} \ {{}} :
     \E dropped \in SUBSET measured, mean \in BOOLEAN :
       /\ mean => dropped # {}
       /\ dropped = measured => mean
       /\ rejected' = {c \in Lists : changedBy[c] # {} /\
                         IF c = General THEN mean ELSE c \in dropped}
  /\ missed' = Undone(UNION {changedBy[c] : c \in rejected'})
  /\ IF rejected' = {} THEN Publish(mem)
     ELSE \E ids \in Orders(UNION {changedBy[c] : c \in rejected'}) :
            Publish(Changed(RestorePartial(mem.lists, snap, ids)))
  /\ UNCHANGED <<conf, val, round, checks>>

\* The change is judged as a whole, or not at all (no verdict, no rollback).
JudgeAll ==
  /\ phase \in {"verify", "fallback", "compare"}
  /\ \/ rejected' = {} /\ missed' = missed /\ Publish(mem)
     \/ /\ phase = "compare" /\ rejected' = Lists
        /\ missed' = before /\ Publish(Changed(snap))
  /\ UNCHANGED <<conf, val, round, checks>>

Stopped == phase = "idle" /\ round = MaxRounds /\ checks = MaxChecks /\ UNCHANGED vars

Next ==
  \/ Rollout \/ NoRound \/ Validate
  \/ Prune \/ NoPrune
  \/ (\E t \in Types : UpdateType(t)) \/ ApplyUpdates \/ NothingChanged
  \/ Replay \/ NoReplay \/ Fallback \/ JudgePerType \/ JudgeAll
  \/ Stopped

Spec == Init /\ [][Next]_vars

-----------------------------------------------------------------------------
(* Correctness                                                               *)

Memories == {mem, env, val}

\* Every variable has its type, and the utilities stay between 0 and 2.
TypeOK ==
  /\ conf \in Setups /\ phase \in Phases
  /\ \A m \in Memories :
       /\ m \in [lists : Bank, cache : SUBSET [Lists -> Seq([id : SkillId, text : Text])]]
       /\ Cardinality(m.cache) <= 1
  /\ shown \in [Types -> SUBSET SkillId] /\ won \subseteq Types /\ lost \subseteq Types
  /\ snap \in Bank /\ changedBy \in [Lists -> SUBSET SkillId] /\ changed \in BOOLEAN
  /\ pend \subseteq SkillId /\ rejected \subseteq Lists
  /\ {missed, before} \subseteq [1..MaxIndex -> Nat]
  /\ round \in 0..MaxRounds /\ checks \in 0..MaxChecks

\* Whatever rewrites a memory - adding, merging, evicting, revising, a sync, a
\* rollback - no prompt is ever built from the embeddings of skills the memory
\* no longer has, or has in another wording.
CacheFresh == \A m \in Memories : m.cache \subseteq {Embed(m.lists)}

Contents(lists) == {Content(s) : s \in ToSet(Walk(lists))}
Learned(lists)  == {s \in Contents(lists) : s.text.by = "validation"}

\* Skills learned from validation failures reach training prompts only: never
\* the memory that is validated, nor the bank that is published; apart from
\* them the training environments have exactly the trainer's bank whenever no
\* round is under way ("skills derived from validation failures must not be
\* fed back into the validation memory").
ValidationOnlyTrains ==
  /\ Learned(mem.lists) = {} /\ Learned(val.lists) = {}
  /\ phase \in {"idle", "batch"} =>
       Contents(env.lists) \ Learned(env.lists) = Contents(mem.lists)

\* A new skill took the id of a skill that was filed elsewhere.
IdReused ==
  \E c \in Lists : \E i \in {s.id : s \in ToSet(mem.lists[c])} \cap Ids(snap) :
    ~Holds(snap[c], i)

\* A verdict rejects everything the round changed of what type t can be shown.
AllRejected(t) ==
  /\ phase \in {"judge", "compare"} /\ rejected' # {}
  /\ {c \in {General, t} : changedBy[c] # {}} \subseteq rejected'
  /\ UniqueIds(snap) /\ ~IdReused

ShowsSame(t) == Retrieve(mem', t, conf) = Retrieve(Changed(snap), t, conf)

\* When everything a round changed among the skills a task type can be shown
\* is rejected, its prompts are what they were before the round: texts and
\* ranking are back, evicted skills too, wherever in the list they are put.
\* Prompts that show only the first skills of the type's list are excepted: a
\* skill restore_partial puts back at the end may be cut off.
RejectedShowsSame ==
  [][\A t \in Types :
       AllRejected(t) /\ (conf.mode = "template" => Len(snap[t]) <= conf.taskTopK) =>
         ShowsSame(t)]_vars

Pruned == phase = "batch" /\ phase' = "update" /\ mem' # mem

\* A skill is evicted for its utility only in a batch that showed it and where it
\* helped nothing, and only after enough of those: a miss in a round whose
\* changes to the skill were undone does not count, nor one of an earlier skill
\* with the same id.
EvictionEarned ==
  [][Pruned => \A i \in changedBy'[General] \ MergedIds :
       /\ i \in Shown \ Credited
       /\ NewUtility - missed'[i.n] * Loss < MinUtility]_vars

\* Every skill merged away leads, by way of near-duplicates of no smaller
\* utility, to a skill that stays: whatever set of them one takes, some skill in
\* it has such a near-duplicate outside.  And no dynamic skill stays that has a
\* near-duplicate of larger utility, or two dynamic ones of the same.
MergeKeepsOne ==
  [][Pruned /\ conf.mode = "embedding" /\ UniqueIds(mem.lists) =>
       LET skills == ToSet(Walk(Scored))
           merged == {s \in skills : s.id \in MergedIds}
           stay   == skills \ merged
       IN  /\ \A away \in SUBSET merged : away # {} =>
                \E s \in away, r \in skills \ away :
                  Dynamic(s) /\ Near({s, r}) /\ s.utility <= r.utility
           /\ \A s, r \in stay : s # r /\ Near({s, r}) /\ Dynamic(s) =>
                s.utility > r.utility \/ (s.utility = r.utility /\ ~Dynamic(r))]_vars
=============================================================================
