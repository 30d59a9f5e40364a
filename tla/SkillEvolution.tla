---------------------------- MODULE SkillEvolution ----------------------------
(***************************************************************************)
(* One trainer running rounds of skill evolution                           *)
(* (RayPPOTrainer._run_skill_evolution and what it calls): snapshot the    *)
(* bank, prune it, let the teacher LLM revise and extend it per failing    *)
(* task type, verify the result with rollouts, roll back what got worse,   *)
(* save the bank and copy it into the training environments.               *)
(*                                                                         *)
(* Three banks live in memory - the trainer's, the training environment    *)
(* manager's and the validation environment manager's - and one on disk.   *)
(* The process may be killed between any two steps and started again.      *)
(*                                                                         *)
(* What the models and the teacher answer is arbitrary: which types fail,  *)
(* which skills the LLM revises, how many it invents, which success rates  *)
(* a verification rollout measures, whether a call raises.                 *)
(***************************************************************************)
EXTENDS SkillBank

CONSTANTS
  Prefix,          \* the prefix new skills of a task type are renamed to
  InitBank,        \* the bank in the JSON file the run starts from
  MaxNew,          \* skill.max_new_skills
  VerifyMethod,    \* skill.verify_method: "rollout", "notverify" or "none"
  ValEpisodes,     \* skill.val_episodes (0 skips the val_envs verification)
  ReplaySupported, \* the environments can be reset to given tasks
  SaveInPlace,     \* skill.save_path is the file the bank is loaded from
  ValAlwaysSkills, \* what make_envs sets val_envs.val_rollout_always_skills to
  MaxRounds,       \* bound: rounds explored
  MaxCrashes       \* bound: kills explored

ASSUME PrefixAssumption == Prefix \in [TaskTypes -> Prefixes]
ASSUME InitBankAssumption ==
  /\ WellFormed(InitBank)
  /\ \A e \in InitBank : e.meta = 0 /\ e.text = 0 /\ ~Evictable(e.id)
ASSUME ParameterAssumption ==
  /\ MaxNew \in Nat /\ ValEpisodes \in Nat
  /\ VerifyMethod \in {"rollout", "notverify", "none"}
  /\ {ReplaySupported, SaveInPlace, ValAlwaysSkills} \subseteq BOOLEAN
  /\ MaxRounds \in Nat /\ MaxCrashes \in Nat

VARIABLES
  bank,       \* _skill_memory.skills, the trainer's bank
  envBank,    \* envs.retrieval_memory.skills
  valBank,    \* val_envs.retrieval_memory.skills
  envAlways,  \* envs.val_rollout_always_skills
  valAlways,  \* val_envs.val_rollout_always_skills
  disk,       \* the file at _skill_save_path
  pc,         \* where the trainer is in the round
  round,      \* rounds begun (numbers the versions; survives crashes)
  crashes,    \* kills so far
  snap,       \* snapshot
  groups,     \* failing task types not yet shown to the LLM
  changedBy,  \* changed_by_type
  pend,       \* ids in all_updates
  changed,    \* changed
  verdict,    \* what verification returned
  rejected,   \* the keys of changed_by_type whose success rate dropped
  skipped     \* new skills add_skills refused as duplicates (history)

memory  == <<bank, envBank, valBank>>
flags   == <<envAlways, valAlways>>
results == <<verdict, rejected>>
work    == <<groups, changedBy, pend, changed, skipped>>
history == <<round, crashes>>
vars    == <<memory, flags, disk, pc, history, snap, work, results>>

Phases == {"idle", "prune", "update", "verify", "replay", "fallback",
           "valrollout", "decide", "save", "write", "sync", "down", "dead"}

NoIds == [c \in Categories |-> {}]
AllChanged == UNION {changedBy[c] : c \in Categories}

\* The process has loaded its three banks from the initial file.
Init ==
  /\ bank = InitBank /\ envBank = InitBank /\ valBank = InitBank
  /\ envAlways = FALSE /\ valAlways = ValAlwaysSkills
  /\ disk = [state |-> IF SaveInPlace THEN "whole" ELSE "absent",
             bank |-> InitBank]
  /\ pc = "idle" /\ round = 0 /\ crashes = 0
  /\ snap = InitBank
  /\ groups = {} /\ changedBy = NoIds /\ pend = {} /\ changed = FALSE
  /\ verdict = "none" /\ rejected = {} /\ skipped = {}

\* The locals of a round go out of scope; the snapshot of the next one will be
\* the bank as it then is.
LeaveRound ==
  /\ snap' = bank'
  /\ groups' = {} /\ changedBy' = NoIds /\ pend' = {} /\ changed' = FALSE
  /\ skipped' = {} /\ rejected' = {}

-----------------------------------------------------------------------------
(* Changing the bank *)

\* A round starts: the no-skill arm decides whether it prunes, the skill arm
\* which task types have failed trajectories to learn from (none when its
\* success rate is outside [update_lower_bound, 1)).
BeginRound ==
  /\ pc = "idle" /\ round < MaxRounds
  /\ round' = round + 1
  /\ snap' = bank
  /\ groups' \in SUBSET TaskTypes
  /\ pc' \in {"prune", "update"}
  /\ verdict' = "none"
  /\ UNCHANGED <<memory, flags, disk, crashes, changedBy, pend, changed,
                 skipped, rejected>>

\* Mutant of Prune: evicted skills are not recorded as changed.
PruneUnrecorded ==
  /\ pc = "prune"
  /\ \E evicted \in SUBSET {e \in bank : Evictable(e.id)} :
       /\ bank' = bank \ evicted
       /\ changed' = (evicted # {})
  /\ pc' = "update"
  /\ UNCHANGED <<envBank, valBank, flags, disk, history, snap, groups, pend,
                 changedBy, skipped, results>>

\* The pruner merges duplicates away and evicts low-utility skills, entry by
\* entry.  Which of the evictable ones go depends on utilities and embeddings,
\* and is left open here.
Prune ==
  /\ pc = "prune"
  /\ \E evicted \in SUBSET {e \in bank : Evictable(e.id)} :
       /\ bank' = bank \ evicted
       /\ changedBy' = [changedBy EXCEPT ![General] = Ids(evicted)]
       /\ changed' = (evicted # {})
  /\ pc' = "update"
  /\ UNCHANGED <<envBank, valBank, flags, disk, history, snap, groups, pend,
                 skipped, results>>

\* The ids the k new skills of type tt get: dyn_NNN from the next free index,
\* renamed to the prefix of the type.
NewIds(tt, k) ==
  {[pfx |-> Prefix[tt], n |-> NextDynIndex(bank) + j] : j \in 0..(k - 1)}

\* The key of changed_by_type an updated skill is recorded under: the first
\* task-type list that holds it, else "general".
CategoryOf(i) ==
  LET lists == {c \in TaskTypes : \E e \in bank : e.cat = c /\ e.id = i}
  IN  IF lists = {} THEN General
      ELSE CHOOSE c \in lists : \A d \in lists : Rank[c] <= Rank[d]

\* The LLM is shown the failures of one task type.  Updates of skills those
\* trajectories did not use are dropped; new skills are added at once, and all
\* their ids are recorded as changed, added or not.  A failed call changes
\* nothing (updates and k empty).
UpdateType(tt) ==
  /\ pc = "update" /\ tt \in groups
  /\ \E updates \in SUBSET Retrievable(envBank, tt), k \in 0..MaxNew :
       LET new == NewIds(tt, k) IN
       /\ new \subseteq Id  \* bound: indices stay within MaxIndex
       /\ changedBy' = [c \in Categories |->
            changedBy[c] \cup {i \in updates : CategoryOf(i) = c}
                         \cup IF c = tt THEN new ELSE {}]
       /\ bank' = AddSkills(bank, new, tt, round)
       /\ skipped' = skipped \cup (new \cap Ids(bank))
       /\ changed' = (changed \/ ~(new \subseteq Ids(bank)))
       /\ pend' = pend \cup updates
  /\ groups' = groups \ {tt}
  /\ UNCHANGED <<envBank, valBank, flags, disk, pc, history, snap, results>>

\* Mutant of ApplyUpdates: the bank is saved before it is verified.
ApplyUpdatesAndSave ==
  /\ pc = "update" /\ groups = {}
  /\ changed \/ pend # {}
  /\ bank' = IF pend = {} THEN bank
             ELSE SynthesizeAll(UpdateMeta(bank, pend, round),
                                pend \cup AllChanged)
  /\ disk' = [state |-> "whole", bank |-> bank']
  /\ changed' = TRUE
  /\ pc' = "verify"
  /\ UNCHANGED <<envBank, valBank, flags, history, snap, groups, changedBy,
                 pend, skipped, results>>

\* All types done: apply the updates and, if there are any, regenerate the
\* text of every skill recorded as changed.
ApplyUpdates ==
  /\ pc = "update" /\ groups = {}
  /\ changed \/ pend # {}
  /\ bank' = IF pend = {} THEN bank
             ELSE SynthesizeAll(UpdateMeta(bank, pend, round),
                                pend \cup AllChanged)
  /\ changed' = TRUE
  /\ pc' = "verify"
  /\ UNCHANGED <<envBank, valBank, flags, disk, history, snap, groups,
                 changedBy, pend, skipped, results>>

NothingChanged ==
  /\ pc = "update" /\ groups = {}
  /\ ~changed /\ pend = {}
  /\ pc' = "idle"
  /\ UNCHANGED <<memory, flags, disk, history, verdict>>
  /\ LeaveRound

-----------------------------------------------------------------------------
(* Verifying the change *)

\* verify_method = notverify: everything is accepted.
SkipVerify ==
  /\ pc = "verify" /\ VerifyMethod = "notverify"
  /\ pc' = "decide"
  /\ UNCHANGED <<memory, flags, disk, history, snap, work, results>>

\* The training environments get the candidate bank and only skill arms.
StartReplay ==
  /\ pc = "verify" /\ VerifyMethod # "notverify" /\ ReplaySupported
  /\ envBank' = bank /\ envAlways' = TRUE
  /\ pc' = "replay"
  /\ UNCHANGED <<bank, valBank, valAlways, disk, history, snap, work, results>>

\* No replay in this environment, or the replay batch could not be built.
NoReplay ==
  /\ pc = "verify" /\ VerifyMethod # "notverify"
  /\ pc' = "fallback"
  /\ UNCHANGED <<memory, flags, disk, history, snap, work, results>>

\* Mutants of ReplayFails: the flag is not reset; the replay is tried again.
ReplayFailsFlagLeft ==
  /\ pc = "replay"
  /\ pc' = "fallback"
  /\ UNCHANGED <<memory, flags, disk, history, snap, work, results>>

ReplayFailsRetries ==
  /\ pc = "replay"
  /\ envAlways' = FALSE
  /\ pc' = "verify"
  /\ UNCHANGED <<memory, valAlways, disk, history, snap, work, results>>

\* The replay raises or reports no success flags.
ReplayFails ==
  /\ pc = "replay"
  /\ envAlways' = FALSE
  /\ pc' = "fallback"
  /\ UNCHANGED <<memory, valAlways, disk, history, snap, work, results>>

\* The keys judged worse: a task type by its own tasks, general skills by the
\* mean over all tasks.  A type no replayed task has is accepted.  The mean
\* can drop only if some type does, and must if all do.
Worse(dropped, globalDrop) ==
  {c \in Categories : /\ changedBy[c] # {}
                      /\ IF c = General THEN globalDrop ELSE c \in dropped}

ReplayReturns ==
  /\ pc = "replay"
  /\ envAlways' = FALSE
  /\ verdict' = "per_type"
  /\ \E measured \in SUBSET TaskTypes \ {{}} : \E dropped \in SUBSET measured :
       \E globalDrop \in BOOLEAN :
         /\ globalDrop => dropped # {}
         /\ dropped = measured => globalDrop
         /\ rejected' = Worse(dropped, globalDrop)
  /\ pc' = "decide"
  /\ UNCHANGED <<memory, valAlways, disk, history, snap, work>>

\* The fallback gives up before it touches val_envs: it is switched off, or no
\* task of the batch used a changed skill (never so when an update was kept).
SkipFallback ==
  /\ pc = "fallback" /\ (ValEpisodes = 0 \/ pend = {})
  /\ pc' = "decide"
  /\ UNCHANGED <<memory, flags, disk, history, snap, work, results>>

\* val_envs gets the candidate bank.  Tasks can only have used skills that
\* were in the bank before the round.
StartFallback ==
  /\ pc = "fallback" /\ ValEpisodes > 0 /\ AllChanged \cap Ids(snap) # {}
  /\ valBank' = bank /\ valAlways' = TRUE
  /\ pc' = "valrollout"
  /\ UNCHANGED <<bank, envBank, envAlways, disk, history, snap, work, results>>

\* The val_envs rollout raises, or it returns and the change is judged as one.
FallbackEnds ==
  /\ pc = "valrollout"
  /\ valAlways' = FALSE
  /\ verdict' \in {"none", "better", "worse"}
  /\ pc' = "decide"
  /\ UNCHANGED <<memory, envAlways, disk, history, snap, work, rejected>>

-----------------------------------------------------------------------------
(* Deciding, and publishing the result *)

\* Mutants of RejectedIds: everything is rolled back; "general" is forgotten.
RejectedIdsAll == AllChanged

RejectedIdsOfTypes == UNION {changedBy[c] : c \in rejected \ {General}}

\* Ids rolled back one by one after a per-type verdict.
RejectedIds == UNION {changedBy[c] : c \in rejected}

Decide ==
  /\ pc = "decide"
  /\ bank' = CASE verdict = "worse"    -> snap
               [] verdict = "per_type" -> RestorePartial(bank, snap, RejectedIds)
               [] OTHER                -> bank
  /\ pc' = "save"
  /\ UNCHANGED <<envBank, valBank, flags, disk, history, snap, work, results>>

\* save_skills opens the file for writing, which truncates it ...
OpenFile ==
  /\ pc = "save"
  /\ disk' = [disk EXCEPT !.state = "torn"]
  /\ pc' = "write"
  /\ UNCHANGED <<memory, flags, history, snap, work, results>>

\* ... and then writes the JSON.
WriteFile ==
  /\ pc = "write"
  /\ disk' = [state |-> "whole", bank |-> bank]
  /\ pc' = "sync"
  /\ UNCHANGED <<memory, flags, history, snap, work, results>>

SyncSkillToEnv ==
  /\ pc = "sync"
  /\ envBank' = bank
  /\ pc' = "idle"
  /\ UNCHANGED <<bank, valBank, flags, disk, history, verdict>>
  /\ LeaveRound

-----------------------------------------------------------------------------
(* The process *)

\* The process dies: an unhandled exception, or a kill.
Crash ==
  /\ pc \notin {"down", "dead"} /\ crashes < MaxCrashes
  /\ crashes' = crashes + 1
  /\ pc' = "down"
  /\ UNCHANGED <<memory, flags, disk, round, snap, work, results>>

\* A new process reads the bank its configuration names, three times.  A torn
\* file does not parse and the process dies again.
Restart ==
  /\ pc = "down"
  /\ IF SaveInPlace /\ disk.state = "torn"
     THEN /\ pc' = "dead"
          /\ UNCHANGED <<memory, flags, snap, work, results>>
     ELSE LET loaded == IF SaveInPlace THEN disk.bank ELSE InitBank IN
          /\ bank' = loaded /\ envBank' = loaded /\ valBank' = loaded
          /\ envAlways' = FALSE /\ valAlways' = ValAlwaysSkills
          /\ pc' = "idle"
          /\ LeaveRound /\ verdict' = "none"
  /\ UNCHANGED <<disk, history>>

Trainer ==
  \/ BeginRound \/ Prune \/ (\E tt \in TaskTypes : UpdateType(tt))
  \/ ApplyUpdates \/ NothingChanged
  \/ SkipVerify \/ StartReplay \/ NoReplay \/ ReplayFails \/ ReplayReturns
  \/ SkipFallback \/ StartFallback \/ FallbackEnds
  \/ Decide \/ OpenFile \/ WriteFile \/ SyncSkillToEnv

\* Training is over, or the process cannot start any more.
Stopped ==
  /\ pc = "dead" \/ (pc = "idle" /\ round = MaxRounds)
  /\ UNCHANGED vars

Next == Trainer \/ Crash \/ Restart \/ Stopped

Spec == Init /\ [][Next]_vars

\* The trainer is one thread whose calls all return (the LLM client and the
\* rollouts are bounded by timeouts, retries and max_steps), and the operator
\* restarts it.
FairSpec == Spec /\ WF_vars(Trainer) /\ WF_vars(Restart)

-----------------------------------------------------------------------------
(* The configurations whose rollbacks are exact *)

\* Every task type has a prefix of its own other than dyn (_TYPE_PREFIX), and
\* the bank file files each id once and each prefix of a type under that type.
Mapped(prefix, initial) ==
  /\ \A s, t \in DOMAIN prefix : prefix[s] = prefix[t] => s = t
  /\ \A t \in DOMAIN prefix : prefix[t] # "dyn"
  /\ \A e, f \in initial : e.id = f.id => e = f
  /\ \A e \in initial, t \in DOMAIN prefix : e.id.pfx = prefix[t] => e.cat = t

-----------------------------------------------------------------------------
(* Correctness *)

Banks == {bank, envBank, valBank, snap, disk.bank}

\* Every variable has its type, and no list of any bank holds an id twice:
\* neither adding skills nor putting evicted ones back duplicates an entry.
TypeOK ==
  /\ disk \in [state : {"absent", "torn", "whole"}, bank : SUBSET Entry]
  /\ \A b \in Banks : WellFormed(b)
  /\ envAlways \in BOOLEAN /\ valAlways \in BOOLEAN
  /\ pc \in Phases /\ round \in Nat /\ crashes \in Nat
  /\ groups \subseteq TaskTypes
  /\ changedBy \in [Categories -> SUBSET Id]
  /\ pend \subseteq Id /\ skipped \subseteq Id
  /\ changed \in BOOLEAN
  /\ verdict \in {"none", "per_type", "better", "worse"}
  /\ rejected \subseteq Categories

\* Whatever is evicted, merged, rolled back or reloaded, no bank ever loses a
\* skill of the initial bank from its list ("static skills are protected").
StaticProtected == \A b \in Banks : Keeps(b, InitBank)

EntriesOf(b, i) == {e \in b : e.id = i}

Candidate == pc \in {"prune", "update", "verify", "replay", "fallback",
                     "valrollout", "decide"}
Decided   == pc \in {"save", "write", "sync"}

\* The skills whose change the verdict let stand.
AcceptedIds == IF verdict = "worse" THEN {}
               ELSE UNION {changedBy[c] : c \in Categories \ rejected}

\* A skill rolled back by a per-type verdict is exactly as the snapshot had it,
\* in every list; a new one is gone (what restore_partial promises).
RollbackRestores ==
  Decided /\ verdict = "per_type" =>
    \A i \in RejectedIds : EntriesOf(bank, i) = EntriesOf(snap, i)

\* The decision never touches a skill of an accepted type: rolling back one
\* type leaves the useful changes of the others alone.
AcceptedKept ==
  [][pc = "decide" /\ pc' = "save" =>
       \A i \in AcceptedIds : EntriesOf(bank', i) = EntriesOf(bank, i)]_vars

\* The skills that are no longer what they were when the round began.
Touched == {i \in Ids(bank) \cup Ids(snap) : EntriesOf(bank, i) # EntriesOf(snap, i)}

\* No change goes unrecorded: every skill the round evicted, added, revised or
\* re-synthesized is in changed_by_type, so that it can be judged.
EveryChangeRecorded == Candidate => Touched \subseteq AllChanged

\* What is published differs from the snapshot only in accepted skills.
OnlyAcceptedChange == Decided => Touched \subseteq AcceptedIds

\* Between rounds the training rollouts retrieve from the trainer's own bank
\* and run both arms, whichever way the last verification ended.
TrainingSeesDecidedBank ==
  pc = "idle" => envBank = bank /\ ~envAlways

\* No bank, rolled back, published or reloaded, ever shows a skill with a text
\* made from older meta dimensions than the ones it holds.
TextFollowsMeta == \A b \in Banks : \A e \in b : e.text \in {e.meta, NoText}

\* When the bank is saved where it is loaded from, the file holds the bank of
\* before the round until the decision is taken, and the decided bank when the
\* round is over: a restart never resumes from an unverified bank.
FileIsDecided ==
  SaveInPlace =>
    /\ Candidate => disk = [state |-> "whole", bank |-> snap]
    /\ pc = "idle" => disk = [state |-> "whole", bank |-> bank]

\* Every skill the LLM invents enters the bank: its id is never taken.
NewSkillsAdded == skipped = {}

\* A round always ends, and the trainer goes back to training.
RoundEnds == (Candidate \/ Decided) ~> (pc \in {"idle", "dead"})

\* Skill evolution implements AtomicEvolution: until the decision the official
\* bank is the snapshot, from the decision on it is the trainer's bank.
Atomic == INSTANCE AtomicEvolution WITH
  running  <- pc \notin {"down", "dead"},
  official <- IF pc \in {"down", "dead"} THEN {}
              ELSE IF Candidate THEN snap ELSE bank,
  licence  <- IF pc = "decide" THEN AcceptedIds ELSE {},
  stored   <- disk

ImplementsAtomic == Atomic!Spec

-----------------------------------------------------------------------------
(* What comments and documents say, and the code does not do *)

\* README.md, on verification: "Updates are accepted only when they preserve
\* or improve task performance" - so a bank that changed has been measured.
AcceptedOnlyIfMeasured ==
  Decided /\ VerifyMethod = "rollout" /\ ValEpisodes > 0 /\ bank # snap =>
    verdict # "none"

\* make_envs: "val always uses full skills, no A/B split".
ValidationUsesSkills ==
  pc = "idle" /\ ValAlwaysSkills => valAlways

=============================================================================
