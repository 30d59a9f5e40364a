# A2SE in TLA+

A2SE trains a language-model agent with reinforcement learning and, while it
trains, keeps rewriting the *skill bank* the agent is prompted with. This
directory holds TLA+ specifications of that program, the TLC configurations that
check them on small instances, and TLAPS proofs for all instances.

| Files | What they are |
| --- | --- |
| `SkillBank`, `SkillEvolution`, `AtomicEvolution`, `MCSkillEvolution` | rounds of skill evolution with failures, crashes and the bank's file, and the abstract promise they implement |
| `SkillMemory`, `SkillUse`, `MCSkillUse` | ordered lists with utilities and embedding caches: retrieval, crediting, merging, eviction, rollback, validation as a second writer |
| `TrainerLoop`, `MCTrainerLoop` | `fit`, checkpoints written by many ranks, kill and resume |
| `MultiTurn`, `TrainBatch`, `MCTrainBatch` | one training step: rollout with two arms, gathering, filling up, balancing, rewards, advantages |
| `HybridEngine`, `MCHybridEngine` | the GPU workers: calls of a worker group, training state and inference engine on one device, tensor-parallel groups |
| `SkillEvolutionProofs`, `RollbackProofs`, `SkillMemoryProofs`, `SkillUseProofs`, `TrainerLoopProofs`, `TrainBatchProofs`, `HybridEngineProofs` | lemmas and theorems |
| `ListLemmas` | what `FlattenSeq`, `SumFunction` and recursions over a list compute, for lists and sets of any size |
| `AlfRounds`, `WebRounds`, `Curate`, `Engine`, `Resume`, `TrainStep` (`.cfg`) | runs that pass |
| `WebRollback`, `AlfNewIds`, `Unmeasured`, `ValArm`, `KeepOne`, `Hindsight` (`.cfg`) | runs that refute something the repository says of itself |
| `PROJECT.json` | components, runs, mutants, source map, findings, hazards, theorems |

Run `tlc -workers 2 -config Engine.cfg MCHybridEngine.tla` to check a run and
`tlapm HybridEngineProofs.tla` to check the proofs of a module.

## 1. Inventory of the system

Paths are relative to the repository's source root.

**Skill bank** (`agent_system/memory/skills_only_memory.py`). State: a
dictionary of lists (general skills, one list per task type, common mistakes);
each skill has an id, five meta dimensions, a synthesized text and a utility; an
embedding cache. Operations: add, remove, update one dimension, synthesize,
update utility, evict, snapshot, restore, restore_partial, save, retrieve. There
are three instances in memory (trainer, training environments, validation
environments) and one file. Hard: ids are the only identity, and they are
assigned, renamed, freed and reused by different parts; three copies and a file
must agree at the right moments. Correct when: no list holds an id twice, static
skills are never lost, a restored skill is exactly what it was.

**Skill evolution round** (`verl/trainer/ppo/ray_trainer.py`,
`_run_skill_evolution` and the `_verify_skill_change*` family). State: the
snapshot, `changed_by_type`, `all_updates`, the verdict, a flag in each
environment manager. Operations: snapshot, prune, LLM update per failing task
type, synthesis, verification by replay with a fallback to the validation
environments, rollback per type or as a whole, save, sync. Called from `fit`
every `update_freq` steps. Hard: many early returns and exceptions, each of which
must leave three banks and two flags right; partial rollback; process death.
Correct when: what is published is the snapshot plus accepted changes, training
resumes on it with both arms, the file never holds an unverified bank.

**Skill pruner** (`skill_pruner.py`). Utilities go up for skills attributed to
successes and down for retrieved ones that were not; near-duplicates are merged
(embedding mode only); dynamic skills below a threshold are evicted. Correct
when: static skills survive, of near-duplicates one stays, utilities stay in
[0, 2], a skill is evicted only for what it did.

**Skill updater and LLM client** (`skill_updater.py`). Builds a prompt from
failed trajectories, calls the teacher with retries and backoff, parses JSON,
renumbers new ids as `dyn_NNN`. Correct when: every call returns, at most
`max_new_skills` come back, ids are fresh.

**Skill retrieval** (`retrieve`, `_embedding_retrieve`). Which skills a prompt
shows: in template mode the first general ones and those of the task type, in
embedding mode (the shipped scripts) the nearest general ones and the nearest of
the type, through a cache that each change invalidates. Correct when: the cache
is never stale, the ids reported are those shown.

**Trainer loop** (`fit`, `_save_checkpoint`, `_load_checkpoint`) and **checkpoint
managers** (`verl/utils/checkpoint/`). Rollout, rewards, advantages, update,
evolution hook, validation, checkpoint, resume. State: step, epoch, position in
the data, the parameters of every rank, shard files, the tracker file. Hard: a
checkpoint is many files of many processes; old ones are deleted meanwhile; it
contains the policy, the optimizer and the data position but not the bank.
Correct when: what the tracker names can be loaded, a resumed run goes on with
the next batch and with a bank and a policy that belong together.

**Validation and validation-driven updates** (`_validate`,
`_update_skills_from_validation`). Evaluates on `val_envs`; optionally asks the
LLM for skills and adds them to the training environments' bank: a second writer
of a bank the evolution round overwrites.

**Environment managers** (`agent_system/environments/env_manager.py`). Per
environment: observations, skill retrieval at reset, the mask that splits a
group in a skill arm and a no-skill arm, replay resets with padding. Correct
when: each arm has the size the ratio asks for, a prompt has its arm's skills.

**Multi-turn rollout** (`agent_system/multi_turn_rollout/`). Steps all
environments until done or `max_steps`, with active masks; fans trajectory
metadata out to step rows; dynamic sampling; fills a batch up to a multiple of
the world size. Hard: rows, trajectories and groups are matched by position.
Correct when: a row's data is its trajectory's, finished environments contribute
nothing, every step played is trained.

**Grouped advantages and hindsight reward** (`gigpo/`, `core_algos.py`,
`reward_manager/episode.py`, `apply_ahsr`). Over groups formed by uid. Correct
when: only comparable rows are compared, and a step is pushed the way its
episode went.

**Data protocol and dispatch** (`verl/protocol.py`,
`single_controller/base/decorator.py`). Padding, chunking, concatenation.

**Worker groups** (`single_controller/ray/`), **FSDP and Megatron workers**
(`verl/workers/fsdp_workers.py`, ...), **rollout engines**
(`verl/workers/rollout/`, `verl/workers/sharding_manager/`). One process per GPU
holds a shard of the model and of the optimizer and an inference engine; the
driver calls all workers at once. State: where parameters and optimizer state
are, the engine's copy of the parameters and its sampling parameters, the random
generator. Hard: the device is shared by turns, collectives need all ranks, an
exception of one group reaches the driver before the others have finished.
Correct when: the policy is trained on its own answers, rows come back in their
places, everything is put away between calls, every call ends.

**Left out**: trajectory memory, models and third-party patches, recipes,
environment packages but for ALFWorld's interface, prompts, offline skill
generation, framework utilities (section 7).

### How they interact

One driver process runs `fit`, which calls the rollout (environment managers,
Ray actors behind them, and the worker group), then scores, updates, and runs the
evolution round; the round calls the LLM client and, to verify, the same rollout
on the same managers and workers. The driver communicates by method calls, by
shared Python objects (a manager's `retrieval_memory` is overwritten by the
round) and by attributes set on other objects (`val_rollout_always_skills`).
Concurrency begins below it: the ranks of a worker group execute the same calls
at their own pace, meet in collectives, and write files side by side. Processes
may be killed at any point; calls may raise, and verification swallows that.

The list of hazards with their lines is in `PROJECT.json`.

## 2. Plan

1. *(done)* Skill evolution and its abstract promise.
2. *(done)* Rollout and training batch: metadata fan-out, arms, filling up,
   dispatch (planned separately as `RolloutLoop`, `EnvReset` and `Dispatch`, built
   as `MultiTurn` and `TrainBatch`, since rows have to be followed through all of
   them).
3. *(done)* `TrainerLoop`: checkpoint and resume. The round inside it is a change
   of the bank that is written some time after it is made; `SkillEvolution` has
   the inside of a round.
4. *(done)* Pruner, retrieval and the second writer (`SkillMemory`, `SkillUse`).
5. *(done)* The GPU workers (`HybridEngine`).
6. *(left)* The asynchronous rollout server and SGLang's engines; Megatron's
   dispatch and sharding manager; the other advantage estimators. The launch
   scripts use none of them.

The retry loop of the LLM client was planned and dropped: the call is
synchronous and keeps nothing between attempts, so a model of it would restate a
loop counter.

Every invariant, action property and refinement of the passing runs is proved,
some under hypotheses named in section 6; liveness is not.

## 3. The models

### SkillBank and SkillEvolution

A bank is a set of entries `[cat, id, meta, text]`. `cat` is the list the skill
is filed in; `meta` is the round in which its dimensions were last written and
`text` the version its `synthesized_text` was made from (`NoText` for none), so
that *stale* and *missing* texts can be told apart without modelling text. A
skill id `prefix_NNN` is a record of a prefix and a number because the code
decides by the prefix (`dyn_` may be evicted) and computes with the number.
`Rank` is the order in which the code walks the lists; it decides which of two
entries with one id `_find_skill` returns and which one `snap_map` keeps.

| Operator | Code |
| --- | --- |
| `AddSkills` | `add_skills`: skips ids any list has |
| `UpdateMeta` | `update_meta_dim` through `_find_skill` |
| `SynthesizeAll` | `synthesize_all`: every entry of the ids |
| `SnapshotEntries`, `RestorePartial` | `restore_partial` |
| `NextDynIndex` | `_next_dyn_index`: highest `dyn_` number plus one |
| `Retrievable` | `retrieve`, before truncation to `top_k` |

Left out here: the order inside a list, utilities, the embedding cache (they are
in `SkillMemory`), common mistakes (never written), prompt formatting.
`Retrievable` is what either retrieval mode may show a type: general skills and
those of its own list.

Variables of `SkillEvolution`: the three banks, the two flags, the file, `pc` (where the trainer is),
and the locals of a round (`snap`, `groups`, `changedBy`, `pend`, `changed`,
`verdict`, `rejected`). `round` numbers versions. `skipped` is a history variable:
the new skills `add_skills` refused.

One action is one stretch of the round between two points where the process may
die or another outcome is possible:

| Action | Code in `ray_trainer.py` |
| --- | --- |
| `BeginRound` | entry, snapshot, the two success-rate conditions |
| `Prune` | 1267-1301, with `SkillPruner.prune` |
| `UpdateType` | the loop over failing task types, one iteration |
| `ApplyUpdates` | updates applied, texts synthesized once |
| `NothingChanged` | `if changed` is false |
| `SkipVerify`, `StartReplay`, `NoReplay`, `ReplayFails`, `ReplayReturns` | `_verify_skill_change_replay`, `_verify_skill_change_true_replay` |
| `SkipFallback`, `StartFallback`, `FallbackEnds` | `_verify_skill_change` |
| `Decide` | per-type or global rollback |
| `OpenFile`, `WriteFile` | `save_skills`: `open(path, 'w')`, then `json.dump` |
| `SyncSkillToEnv` | the last sync and the return |
| `Crash`, `Restart` | the process is killed; a new one loads the configured file |

Environment choices: which task types fail, which evictable entries are evicted,
what the LLM revises (only skills the rollout could show are kept, as in the
code) and how many skills it invents, which rates a replay measures. The measured
rates are abstracted to the set of types whose rate dropped and whether the mean
dropped; the mean can drop only if some type does and must if all do. A rejected
key of `changed_by_type` other than `general` needs a measurement of that type.

The snapshot is also kept between rounds as a copy of the bank; this makes
"differs from the snapshot" meaningful everywhere and has no counterpart in code.

### AtomicEvolution

One official bank, one file, and a trainer that is `running` or dead. The official
bank changes only in an `Evolve` step and then only in skills licensed before it; it
keeps the initial skills. The file
receives only official banks, not atomically. A crash loses the official bank and
a restart takes it from the file (if whole) or from the initial bank. The mapping
in `SkillEvolution`: the official bank is the snapshot until the decision and the
trainer's bank after it; the licence is the accepted part of `changed_by_type`.

### SkillMemory and SkillUse

The same memory as a rollout reads it: lists in order, each skill
`[id, text, utility]`, a cache that is a set of embedded items or empty. A text is
named by its author (file, LLM, validation) and the round of its writing; utilities
are hundredths. Which embeddings are near-duplicates (`Near`, on pairs of skills: a
product of embeddings does not depend on their order) and how close a skill is to a
task of a type (`Closeness`) are constants.

| Operator or action | Code |
| --- | --- |
| `Credit`, `Evict`, `Merge`, `MergeWith`, `MergedAway` | `update_utility`, `evict_low_utility`, `SkillPruner.merge_similar` |
| `RestorePartial`, `PutBack` | `restore_partial`, in any order of the set of ids |
| `Warm`, `Closest`, `RetrieveTemplate`, `Retrieve` | `_compute_skill_embeddings`, `_embedding_retrieve`, `retrieve` |
| `Rollout`, `NoRound` | a training step; rounds run every `update_freq` steps only |
| `Validate`, `FileValidationSkills` | `_validate`, `_update_skills_from_validation` |
| `Prune`, `NoPrune` | `SkillPruner.prune` under its success-rate condition |
| `UpdateType`, `ApplyUpdates`, `NothingChanged` | LLM updates, synthesis, a round without a change |
| `Replay`, `NoReplay`, `Fallback` | verification, with the candidate bank synced to either environment |
| `JudgePerType`, `JudgeAll`, `Publish`, `SyncSkillToEnv` | rollback by type or as a whole, last sync |

Loops over lists are recursive functions of the number of items passed (`Only`,
`MergeWith`, `MergedAway`, `RestorePartial`), which is what the proofs need. New
skills of a type get its prefix (`Prefix`: `_TYPE_PREFIX`, or `dyn`). `missed` and
`before` are history variables: how often a round charged the present holder of a
`dyn_` number, now and at the start of the round. A number that is filed anew starts
at zero, and a rollback takes the counts back with the skills it takes back
(`Undone`), so that only misses in rounds that stand are counted. All tasks of a type
have one description, so that a type stands for what its prompts show. Crashes,
exceptions and the file are in `SkillEvolution` only.

### TrainerLoop

Parameters are a version: the life of the process and the step they come from, and
how many changes of the bank the rollouts had seen. A checkpoint is per role
(actor, critic), part (model, optimizer, extra) and rank a file that holds a
version or is unreadable; `data.pt` holds a position; the tracker is absent, torn
or names a step. `taken` is a history variable: what each checkpoint is to hold.

| Action | Code |
| --- | --- |
| `NextBatch`, `NextEpoch`, `Train`, `NoEvolution`, `Evolve`, `WriteBank`, `NoSave`, `EndStep` | `fit` |
| `BeginSave`, `RoleSaved`, `SaveLoader`, `OpenTracker`, `WriteTracker` | `_save_checkpoint` |
| `Rotate`, `MakeDir`, `WriteFile`, `AppendPath` per rank, `Barrier` | `save_checkpoint` of the FSDP and the Megatron manager; `Program` is their order |
| `Crash`, `Restart`, `Loads`, `ResumeStep` | a kill, which tears what is being written; `_load_checkpoint` and `load_checkpoint` |

The driver and each rank move on their own between barriers. A kill ends all
processes of the job at once, as the end of a Ray job does. A tracker that is empty
is fatal (`int('')`), and so is a missing file: `pc` becomes `dead`.

### MultiTurn and TrainBatch

One training step. A text is what it answers: a prompt is `[traj, turn, skills]`
and a response is the prompt it was made for, so that a row that got another's
answer shows. `played` is a history variable: every episode as it saw itself.
Rewards are in units of 0.1, means are integers over a common denominator.

| Action or operator | Code |
| --- | --- |
| `PadTo`, `Unpad`, `Chunks`, `OnWorkers` | `pad_dataproto_to_divisor`, `unpad_dataproto`, `chunk`, data-parallel dispatch and collect |
| `ArmMask`, `SkillArmSize`, `Retrieved`, `Reset` | `compute_with_skills_ab_mask`, `reset`, the environments' seeds |
| `Generate`, `PlayTurn`, `Turn`, `AfterLoop` | `vanilla_multi_turn_loop`; the dynamic loop raises after its first rollout |
| `Annotate`, `Success`, `Gather` | `gather_rollout_data`, `multi_turn_loop`, `success_evaluator` |
| `StepReturns`, `Adjust`, `Balance`, `LogProb` | `compute_step_discounted_returns`, `adjust_batch` (copy mode), `_balance_batch`, `compute_log_prob` |
| `Score`, `Penalty`, `Ahsr`, `Advantage`, `Update` | `EpisodeRewardManager`, `apply_invalid_action_penalty`, `apply_ahsr`, GRPO's advantage |

Abstractions: returns are undiscounted and the division by the standard deviation
is left out, both of which keep signs and order; `_balance_batch` may produce any
partition into equal parts, since sequence lengths are free; one game per seed,
and replay resets are left out; of GiGPO the step returns are in, the step groups
are not.

### HybridEngine

The parameters of a rank are the number of updates its shard went through, a row
is the number of its prompt and how its answer was made (`by`: whose parameters,
which sampling parameters), the state of a random generator is its stream and how
often it was used. `drawn` is a history variable.

| Action or operator | Code |
| --- | --- |
| `Call`, `Return`, `Raise` | `execute_all_async`, `func_generator` with `ray.get`; the `except` of the verification |
| `Follows` | which worker calls `fit`, verification and validation make after one another |
| `Begin`, `Compute`, `Finish` | `update_actor`, `compute_log_prob`, `save_checkpoint`, `load_checkpoint` of `ActorRolloutRefWorker`: load, one collective pass, offload |
| `Sync`, `Weights` | `FSDPVLLMShardingManager.__enter__`, `update_params` |
| `Gather`, `Part` | `preprocess_data` (`all_gather_data_proto`), `postprocess_data` |
| `Sample`, `SampleFails`, `Sampling` | `vLLMRollout.generate_sequences`, `update_sampling_params` |
| `Leave`, `PutBack` | `__exit__`, also after an exception |
| `GenSeed`, `Init` | `__init__` of the manager, `init_model` |

Collectives (`Sync`, `Gather`, `Sample`, `Compute`) are joint steps of their ranks,
enabled when all have arrived; everything else a rank does alone. A call that
raises in one tensor-parallel group wakes the driver while other ranks may still
be at work; their queue then holds the next call as well. What fails is
generation, on all ranks of a group alike (they execute the same requests in
lockstep). Failures in `__enter__` are left out: `__exit__` would not run, and the
process is then usually lost to the out-of-memory error that caused it. The
computation of the critic and the reference policy, LoRA, Ulysses parallelism and
vLLM up to 0.6.3 are left out.

## 4. The runs

| Run | Instance and bounds | What it shows |
| --- | --- | --- |
| `AlfRounds` | Alf, saved in place, replay and fallback, 2 rounds, 1 kill | a per-type rollback restores exactly the rejected skills and keeps accepted ones; only accepted changes are published; training resumes on the decided bank with both arms; no stale text; no initial skill lost; the file never holds an unverified bank; rounds end; `AtomicEvolution` is implemented |
| `WebRounds` | Web, no verification, separate file, 2 rounds, 1 kill | every change recorded; new ids never collide; refinement although ids are reused and a restart takes the initial bank |
| `Curate` | 2 rounds, 1 validation, both retrieval modes | utilities stay in range; no prompt from stale embeddings; validation's skills reach training only; a rejected change leaves prompts as they were, if they show all skills of the type or rank them; a skill is evicted only for its own misses in rounds that stand; merging keeps one of each group |
| `Resume` | 2 ranks, FSDP and Megatron, critic, 2 checkpoints kept, 5 steps, 1 kill | the tracked checkpoint is whole at every moment; a resumed run goes on with the next batch at the right parameters; the bank is not behind the policy; bounded training and disk; training ends |
| `TrainStep` | seven configurations, below | a row keeps its own episode and answer through padding, dispatch, filling up and shuffling; every step trained; groups comparable; no step of a lost episode reinforced while the skill arm is at most 10/3 of the other, none of a won one discouraged while the product of the arms is at most 20 |
| `Engine` | 2 groups of 2 ranks, offloading, 7 calls, 2 failed generations | updates use answers of the parameters they update; rows come back in order; random states belong to groups and to training; device memory by turns; calls end |
| `WebRollback` | Web, 2 rounds | **violated**: finding 1 |
| `AlfNewIds` | Alf, 1 round | **violated**: finding 2 |
| `Unmeasured` | Alf, 1 round | **violated**: finding 3 |
| `ValArm` | Alf, 1 round | **violated**: finding 4 |
| `KeepOne` | as `Resume` with one checkpoint kept, three steps, one saved at each | **violated**: finding 5 |
| `Hindsight` | one group of two | **violated**: finding 6 |

Every property of a passing run has a mutant: an operator next to the one it
changes (marked `Mutant of`), with which TLC finds the property violated.

### Bounds

*Skill evolution.* `Alf` is shaped like the ALFWorld bank: one type whose prefix its
initial skill already has (`clean`/`cle`), one with a fresh prefix
(`examine`/`exa`). `Web` is shaped like the WebShop bank: no type has a prefix, so
new skills stay `dyn_NNN` and can be evicted. Two task types are enough for one to
be accepted and one rejected in a round; two rounds for a skill to be added, then
evicted, reused and rolled back.

*Curate.* A bank in the shape of the WebShop one as an earlier run left it, with
dynamic skills in two lists, two of them one miss from eviction. `Gain` and `Loss`
are scaled up so that two misses evict a skill instead of 27; one revised or new
skill per round. `Near` contains a chain (1-2-3, not transitive) and a dynamic
skill like a static one; `Closeness` has no ties, which the code breaks by
position.

*Resume.* Five steps over two epochs of three batches, a save at every second
step: the second epoch is entered after a checkpoint in the first, the last step is
not a multiple, and two checkpoints are rotated out. `SaveFreq`, `UpdateFreq` and
`CriticWarmup` coincide at step 2. One kill reaches every point of a save; a second
kill multiplies the states beyond what is practical, and a run that was resumed is
in the same kind of state as one that was not, except for its list of saved paths,
which `DiskBounded` and the theorem `TrainingIsBounded` are about.

*TrainStep.* `OddGroup`: three trajectories on two workers, so the rollout is
padded, arms of two and one. `EvenGroup`: two arms of two, so the arm without
skills can both win and lose. `TwoTasks`: a quarter of two rounds to zero and is
raised to one. `FewRows`: more workers than environments, so padding goes round,
and fewer rows than are to be copied, so the step fails. `NoSplit`: no arms,
penalties, up to every row copied, step returns. `Resampling`: the dynamic loop.
`UnevenGroup`: arms of three and one, as uneven as `LostNotReinforced` allows (the
next, four to one, is beyond 10/3), two turns, so that trajectories have several rows
of which one gets the hindsight reward and some are copied. That larger groups bring
nothing new is not left to the bound: both properties of the advantages are proved
for every size within their conditions.

*Engine.* Two groups of two ranks are the least with which groups can drift apart
and ranks of a group be confused; one row per rank. Seven calls are enough for
rollout, score, replay (raises), fallback (raises), rollout, score, learn, and for
two training steps in a row; two turns per rollout. The runs start before a
validation, a first training step or a resume. Offloading is on; the theorems hold
for all settings.

### Fairness

`SkillEvolution`: weak fairness of the trainer's steps and of `Restart`; the
trainer is one thread, LLM calls have timeouts and a bounded number of retries,
rollouts end at `max_steps`, file writes return. `TrainerLoop`: weak fairness of
the driver, the barrier, each rank's own steps and `Restart`, each of which is a
process that waits for nothing but what the model's guards say. `HybridEngine`: weak
fairness of the driver, of each rank, and of each collective once all its ranks have
arrived, which is what NCCL guarantees as long as nobody dies; generation ends because
the response length is bounded. `TrainBatch` states no liveness: it is one sequential
driver, and that it does not stop halfway is the absence of deadlocks. `Restart` stands for whoever operates the job. Nothing is assumed about
which outcome a step has; kills and failures are bounded. Only `RoundEnds`,
`RunEnds` and `CallsReturn` need fairness.

Deadlock is checked in every run: states in which the program has ended, or has
died, or has reached a bound stutter explicitly (`Stopped`).

## 5. What was found

1. *`restore_partial` goes by id.* With evictable skills a round can evict
   `dyn_001`, give the same id to a new skill of another task type, and roll that
   back: the evicted skill returns and the rejected one stays under the same id,
   against the docstring (`skills_only_memory.py:856-858`).
2. *New ids collide after renaming.* Uniqueness is ensured among `dyn_` ids, then
   the prefix is replaced. With the shipped ALFWorld bank and the default of three
   new skills, all new skills of the six mapped types present in it are dropped
   (`xxx_001` to `xxx_003` exist).
3. *No verdict means accepted.* If no rollout gives a result, the change stays,
   against the README's "accepted only when".
4. *The arm flag is not restored.* After one fallback verification, validation
   splits arms, against "val always uses full skills, no A/B split".
5. *Keeping one checkpoint, as the code advises, can lose all.* The old checkpoint
   is deleted before the new one is written, and the tracker is rewritten last; a
   kill in between leaves nothing to resume from.
6. *The hindsight reward reaches one row of a trajectory*, the first in an order
   that copying and balancing have shuffled; the docstring adds it to the
   trajectory's reward.

Met while modelling, without a run of its own:

- A rollback may hide a skill: `restore_partial` puts an evicted skill back at the
  end of its list (`skills_only_memory.py:893`), and in template mode the prompts
  show the first `task_specific_top_k` skills of the type. With room for one skill,
  a list of two dynamic ones and the first of them evicted, prompts show the second
  after everything was rejected. So `RejectedShowsSame` excepts such prompts. The
  launch scripts retrieve by embedding, where the order of a list plays no part.
- New skills get a synthesized text only if some old skill was revised in the same
  round (`ray_trainer.py:1458`, against its comment at 1460).
- `update_sampling_params` has no `try`: a generate call that raises under
  validation parameters leaves them for later training rollouts
  (`vllm_rollout_spmd.py:230-245`). `OnPolicy` asks for the sampling of training
  only as long as no generate call has raised.
- `val_envs` keeps a candidate bank that was rejected (`ray_trainer.py:2164`, no
  later sync).
- The dynamic-sampling loop unpacks eight of the ten values the vanilla loop
  returns and always raises (`rollout_loop.py:533`). Like too few rows to copy
  (`Adjust`), this ends the step as `failed`; no property says that a step updates
  the policy.
- A kill while the tracker is rewritten leaves it empty, and no restart succeeds
  until it is repaired by hand (`ray_trainer.py:2457`, "for atomic usage"). The same
  holds for the bank: a kill within `save_skills` leaves a file that does not load.
  `RunEnds` and `FileIsDecided` take a restart that fails on such a file for an end.
- With a skill arm of more than 10/3 of the other, lost steps can be reinforced: the
  negative hindsight rewards of many lost skill trajectories outweigh the success of
  the group and pull its mean below zero, and later rows of the same trajectories,
  which get no hindsight reward, then have a positive advantage. Of five with a ratio
  of 0.8, four lost with skills in two rows each and the one without skills won in
  one: the rewards add up to 4000 - 4 * 1200 = -800. The other way round, with 15
  trajectories in the skill arm and 5 in the other, hindsight rewards of winners with
  skills can lift the mean above the reward of a winner without.
- The arm size is `round()` clipped to at least one
  (`env_manager.py:49`), where the docstring says "ceil"; with ratios above one
  half a small group may have no arm without skills.
- A replay with a single recorded task resets worker 0 only
  (`env_manager.py:305`); a replay with fewer distinct tasks than the batch fails an
  assertion after environments were reset, and the fallback follows.
- New skills renamed to a mapped prefix can never be evicted
  (`skills_only_memory.py:812` tests for `dyn_`); evicted skills are judged under
  `general` by the global mean (`ray_trainer.py:1287`); when several types revise
  one skill the last revision wins (`ray_trainer.py:1448`).
- `_update_skills_from_validation` numbers new skills by `val_envs`' bank but files
  them in `envs`' bank, until the next sync overwrites it.
- `retrieve` can be forced to include given ids (`skills_only_memory.py:345`), but
  the verification never asks for it: a new skill ranked beyond `top_k` may be
  accepted without having been shown.
- `run_alfworld_grpo.sh:83` documents `verify_method=none`, which runs the
  verification, since the code tests for `notverify`.
- With dynamic batch sizes `compute_log_prob` of the actor puts log probabilities
  back in order but not entropies; these only feed a metric.

## 6. What is proved

For every value of the constants within the named assumptions:

| Module | Theorem | Property |
| --- | --- | --- |
| `SkillEvolutionProofs` | `TypeCorrect` | `TypeOK`, including that no list of any bank holds an id twice |
| | `StaticSkillsSafe` | `StaticProtected` |
| | `TrainingSeesDecided` | `TrainingSeesDecidedBank` |
| | `FileDecided` | `FileIsDecided` |
| | `ChangesRecorded` | `EveryChangeRecorded` |
| | `TextNeverStale` | `TextFollowsMeta` |
| | `NewSkillsEnter` | `NewSkillsAdded` |
| `RollbackProofs` | `RollbackExact` | `RollbackRestores`, if `Mapped` |
| | `RollbackLimited` | `AcceptedKept`, if `Mapped` |
| | `OnlyAcceptedPublished` | `OnlyAcceptedChange`, if `Careful` |
| | `RoundsAreAtomic` | `ImplementsAtomic`, if `Careful` |
| `TrainerLoopProofs` | `TypeCorrect` | `TypeOK` |
| | `TrainingIsBounded` | `TrainingBounded` |
| | `CheckpointIsWhole` | `TrackedIsWhole` |
| | `ResumedInStep` | `StepFollowsStep` |
| | `BankKeepsUp` | `BankNotBehindPolicy` |
| | `DiskIsBounded` | `DiskBounded` |
| `SkillUseProofs` | `TypeCorrect` | `TypeOK`, including that utilities stay in [0, 2] |
| | `CacheIsFresh` | `CacheFresh` |
| | `ValidationStaysOut` | `ValidationOnlyTrains` |
| | `EvictionIsEarned` | `EvictionEarned` |
| | `MergingKeepsOne` | `MergeKeepsOne` |
| | `RejectionShowsSame` | `RejectedShowsSame` |
| `TrainBatchProofs` | `Comparable` | `GroupsAreComparable` |
| | `TypeCorrect` | `TypeOK` |
| | `EpisodesAreOwn` | `OwnEpisode` |
| | `StepsAreOwn` | `OwnStep` |
| | `StepsTrained` | `EveryStepTrained` |
| | `LostIsNotReinforced` | `LostNotReinforced` |
| | `WonIsNotDiscouraged` | `WonNotDiscouraged` |
| `HybridEngineProofs` | `TypeCorrect` | `TypeOK` |
| | `TurnsTaken` | `TakesTurns` |
| | `TrainingKeepsDraws` | `TrainingDraws` |
| | `GroupsDrawAlone` | `OwnDraws` |
| | `AnswersAreOwn` | `OwnAnswers` |
| | `UpdatesOnPolicy` | `OnPolicy` |

Assumptions are the `ASSUME`s of the modules; TLC evaluates them in every run.
Those with content: lists are walked in a fixed order and the initial file files no
id twice, holds no `dyn_` id and has its texts (`SkillEvolution`); the lead of a
lead is itself (`TrainerLoop`); the divisor of a batch is a multiple of the number
of workers (`MultiTurn`, as `adjust_batch` computes it); the world size is a
multiple of the tensor-parallel size (`HybridEngine`, asserted by `_build_rollout`);
of `SkillUse` those of the next paragraph.

`InitListsAssumption`: the file has only skills of its own texts and no dynamic
skill below the eviction threshold, since every bank that is saved has been through
the pruner or never lost utility. A file does not say how often its skills were
missed; `missed` starts with the least number that explains their utilities
(`MissesInFile`). `PrefixAssumption`: a prefix of a type's own, other than `dyn`,
is no other type's, and the file uses it in that type's list only. It holds for
`_TYPE_PREFIX` (`ray_trainer.py:1347-1351`) with the shipped ALFWorld bank, and for
WebShop, whose types have no prefix. `IdPrefixes` names what ids begin with.
Nothing is assumed of `Near` and `Closeness`: similarity need not be transitive.

Four theorems of `RollbackProofs` have a hypothesis besides. `Mapped(Prefix, InitBank)` says that every
task type has a prefix of its own other than `dyn`, and that the bank's file files
an id once and the prefix of a type under that type. `_TYPE_PREFIX` gives
ALFWorld's seven task types such prefixes and its shipped bank is filed so; the run
`AlfRounds` evaluates it for its instance (`AlfIsMapped`). Trajectories whose type
the keyword match leaves unknown get `dyn`, and are outside it. WebShop's types have no
prefix, and there the run `WebRollback` shows that the theorem would be false
(finding 1). `Careful` is `Mapped`, or `VerifyMethod = "notverify"`, under which
nothing is rolled back.

**Skill evolution.** `SkillEvolutionProofs` first shows that each operation keeps a bank well
formed and keeps the skills of the initial bank; `TypeNext` and `StaticNext` apply
these lemmas action by action. The other properties are not inductive as they stand:

- `TrainingSeesDecidedBank` speaks of the idle trainer only, and a round that
  changes nothing returns without a sync. `RoundInv` adds that as long as `changed`
  is false the trainer's bank is the snapshot and the environments' bank - which
  needs `AddNothing`: adding skills that are all refused adds nothing.
- `FileIsDecided` needs `FileInv`: the file is still the snapshot when the round
  opens it, and has the trainer's bank when it is synced.
- `EveryChangeRecorded` needs `RecordInv`: updates waiting to be applied are
  recorded already, although `ApplyUpdates` comes after the types are done. It
  rests on `CategoryOfType`: every skill gets a key, found as the least element of
  a set of naturals.
- `NewSkillsAdded`: `NextDynIndexFree` shows that the number after the highest
  `dyn_` number of all lists is free, and so are those that follow it.

`RollbackProofs` is about the decision. A per-type rollback removes and puts back
skills by their ids, so what it does is exact only if an id stays in one list. This
is `FiledInv`: in a round the bank only grows beyond the snapshot (nothing is
evicted, since ids with a type's prefix are not evictable), has every id in one list
only, and records an id as changed under the list it is in. `RestoreExact` and
`RestoreOthers` then give what `restore_partial` does to rejected and to other
skills. `OnlyAcceptedChange` follows from `EveryChangeRecorded` at the moment of the
decision (`DecisionInv`). For the refinement `AtomicNext` maps each action: all that
happens before the decision stutters or changes only what is licensed
(`AtomicCandidate`), the decision is an `Evolve` (`AtomicDecide`), and writing the
file needs `FileInv` and `WritingInv`.

**Use of the skills.** `SkillMemoryProofs` says what each operation does to lists of
any length. `OnlyRecursion`, `MergeRecursion`, `MergedRecursion` and
`RestoreRecursion` turn a recursive function into a first value and a step; the
facts that follow go by `StepsWithin` and `ListInduction` of `ListLemmas`, for each
prefix of the loop. The six properties rest on five invariants:

- `TypeInv` is `TypeOK` with `CacheFresh` in it (`Sound`: a memory's cache, if it has
  one, is that of its lists). Neither is enough alone: that prompts show only
  skills the memory has (`ShownHeld`), and so that what is credited and revised has
  a type, needs the cache to be fresh. It adds that the ids shown and changed are
  finitely many, without which an order of them would not be a list (`OrdersType`).
- `LearnInv`: the banks of the trainer and of validation, and the snapshot, hold
  nothing learned from validation; between rounds what the training environments
  have besides is exactly that. Outside rounds `ValidationOnlyTrains` says it of
  the first two only, but a rollback publishes the snapshot.
- `EarnInv`: a dynamic skill in the trainer's bank has lost at most `Loss` per miss
  counted in `missed` (`PruneWorth`), one in the snapshot per miss counted in
  `before`, and in a round a skill the snapshot does not have has lost nothing. So
  a rollback has to return utilities and counts together: `EvictionIsEarned` is
  proved with `OwnInv` and `RoundInv`, by which the skills a rollback takes back are
  exactly those whose counts go back, also when an id was used again.
- `OwnInv` and `RoundInv`: a prefix of a type's own stays in its list, and in a
  round (whose snapshot has no id twice) everything that differs from the snapshot
  is recorded under the key of its list or, if evicted, under `general` (`Traced`).
  Static skills stay in order, because the pruner does not touch them and
  `restore_partial` overwrites in place.

`MergedSettled` shows for `merge_similar`, by the recursion over both loops, that any
set of merged skills has a member with a near-duplicate of no smaller utility
outside the set (`LeadOut`): the one merged last. A chain of near-duplicates can
thus not close to a cycle. What stays was compared with everything that stays
(`Settled`), since the inner loop is left only when the outer skill itself is gone.

For `RejectedShowsSame`, `RestoreSet` gives what a partial restore leaves in each list
for every order of the ids: the skills of other ids and, of these ids, what the
snapshot had. With `Traced` the lists a type is shown have the contents of the
snapshot's (`RestoredAlike`), and static skills are in the same order
(`RestoreStatics`). That is what retrieval depends on (`ShowsAlike`), in template
mode with the proviso that all skills of the type are shown, without which it is
false (section 5).

**Training loop.** `TypeOK` says that only steps up to `TotalSteps` plus the kills
allowed are ever saved. It is not inductive alone: `Bounds` adds that a step at work
is at most the last one plus one per earlier life. A step is entered only below
`TotalSteps` or by a restart, whose tracker names a step of an earlier life.

**Checkpoints.** That the tracked checkpoint is whole is an invariant of two
checkpoints, the tracked one and the one being written, while ranks are at
different places of the save program. `FilesInv` has five parts: the step at work
comes after the tracked one (`OrderInv`); each rank's list of saved paths is
ascending and ends with the tracked step, or with the present one once it has been
recorded (`PathsInv`); the ranks of a role hold the same parameters (`AgreeInv`);
the files of the new checkpoint are those of memory as far as each rank has come
(`SavedInv`); those of the tracked one are as taken (`WholeInv`). With `VictimsOld`
- what a rank deletes is older than the tracked step unless one checkpoint is kept -
`Rotate` cannot touch the tracked checkpoint. `ResumeInv` says what step memory and
the tracked checkpoint are at, that the loader has yielded one batch per step, and
that no parameters have seen a change of the bank which its file lacks. The bound
of `DiskInv` is Keep per life: there is a set of checkpoints that earlier lives
left, of at most Keep per earlier life, and everything else on disk is in the list
of each rank.

**Training batch.** `GroupInv` says how tasks and arms were laid out by the last
reset. The rest of `Comparable` is arithmetic: environments of a group are an
interval of length `n` (`BlockOf`, `GroupIsInterval`, `PlaceInBlock`,
`IntervalSize`), and the rounded arm size of at most half a group of two or more
lies strictly between zero and `n` (`ArmSizeBounds`).

What a row carries is spread over the rollout and the batch. `RolloutInv` relates
the collected rows to the episodes: row `t` of an environment is step `t` of its
episode up to the episode's end and inactive after it, the prompts asked next are
those of this turn, and the reward counted is the sum over the steps. `RowsInv`
says that each row of the batch is a step of its own episode (`StepRow`), with the
return from there on (`OwnReturn`) and the log probability of its response
(`OwnLogp`), that a trajectory's rows are in order of turn while step returns are
computed, and that the rows of a step are one or two (`Copies`). None is inductive
without the others: returns need the order and that no step is missing, the
divisibility of the batch makes dispatch the identity.

The argument is in the lists. `FlattenPlaces` says that `FlattenSeq` takes every
element of every list once and in order, from which the filtered rows of an
environment (`EffectiveInTurn`) and the batch (`GatherCollects`) follow.
`FlattenEqual` and `ChunkPlace` show that chunks joined by rank are the batch
(`OnWorkersSame`), also with padding taken off again (`GenerateSame`). Step returns
sum over later rows of the batch what the episode sums over later steps: `SumMatch`
needs a bijection between them (`ReturnIsRewards`). Draws without replacement copy
a row once at most (`RowsAdjust`), and the places that parts give to rows are a
permutation (`PlaceOnce`, by the pigeonhole principle). All divisions are by the
configuration's sizes, so that the theorems hold for any number of workers, also
more than rows.

*Directions of the advantages.* Both properties compare a row with the mean of its
group, however many rows each trajectory has and whichever carries the hindsight
reward. `EndInv` (a won episode is over, so it is rewarded once) and `ScoreInv`
(without penalties a row's score is 100 for success and 0 otherwise; its hindsight
reward is none or the one of `apply_ahsr`) say what the rows of a group are rewarded
with when advantages are computed. `SumParts` splits a sum over a set, and
`SumOfKinds` bounds that of a group with winners and losers of the skill arm that get
the hindsight reward, first rows of the other arm, and any number of further rows with
a reward between those of losing and winning (`HindsightGroup`, `PlainGroup`).
`GroupNotNegative` then shows that the sum is not negative: each winner without
skills brings `100 * Scale`, and it makes every loser with skills pay 0.3 of that
divided by the size of the arm without, which is where 10/3 comes from.
`GroupNotAbove` shows that the mean is not above the reward of winning: if the skill
arm does better, by at least one over the product of the arms, lambda+ is 0 at
products of at most 20, and if it does not, those who lost make up for what its
winners get (`SmallArms`). `Direction` is what follows for each row.

Induction over lists and sets is done over sets of numbers (`Counting`,
`SubsetInduction`), since induction rules that take a predicate cannot be used.

**Workers.** `TypeOK` contains the shape of the rows at every place of a call,
which needs that a group's rows come from its own ranks and a rank's part lies in
its group's rows (`GatherPlace`, `PartPlace`: division with remainder). `TakesTurns`
speaks of some places in a call; `TurnInv` says for each place what is on the
device, and uses that a call appended to the queue of a busy rank is not the one it
executes (`OpStays`). For the random states, `TrainingInv` says where the training
state is during generation, and `LockstepInv` that the ranks of a group agree on
the state their next sampling starts from (`GenState`), which is at two different
places in and outside generation; `DrawKeeps` handles a sampling that may raise
before or after its draw.

`OwnAnswers` follows from `OwnInv`, the number of each row at every place of a
call, by the same lemmas on places as `TypeOK` (`GatherNumber`, `PartNumber`).
`OnPolicy` is about five calls at once, some of which ranks may still have to
execute after the driver has been woken by an exception. `QueueInv` says what is in
the queue of a rank: all calls since the one it returned from, and all but the last
are of a verification that raised. So none of them is an update, which gives
`MadeInv`: the shards are of one version, and everything a rank has in hand in a
rollout or scoring, or has returned to the call awaited, was made with that version.
`BatchInv` carries this from the rollout's end through scoring to the update, for
the driver's batch and its scores.

**Only model-checked.** Liveness (`RoundEnds`, `RunEnds` and `CallsReturn`), which the prover cannot do. The theorems on the advantages have the
conditions on the arms that the properties state. Beyond 10/3 `LostNotReinforced` is
false (section 5); 20 is the product from which lambda+ may stay positive while the
skill arm does better. By the reward formula the smallest groups that violate
`WonNotDiscouraged` without the condition have twenty trajectories (15 and 5, 16 and
4); for products between 20 and theirs nothing is proved.
`RejectedShowsSame` and `MergeKeepsOne` are stated for banks with unique ids, and
the former for rounds that reuse none, in theorem and run alike.

## 7. Not modelled

- *Other back ends*: SGLang, the asynchronous rollout server, the Hugging Face
  rollout, Megatron's dispatch and sharding manager, vLLM up to 0.6.3. The launch
  scripts use the synchronous vLLM rollout on FSDP; Megatron is modelled where its
  checkpoints differ.
- *Other algorithms*: PPO's and the other advantage estimators, GiGPO's step
  groups, KL terms, the recipes. They are arithmetic on tensors.
- *`filter_group_data`*: unreachable, since the dynamic loop raises before it.
- *Worker placement*: resource pools, register center; start-up over Ray's
  placement groups.
- *Vendored code*: the ALFWorld agents and generators, simulators, third-party
  patches, model definitions, which make up most of the repository's lines.
- *LLM retries*, prompt building, parsing of answers, keyword detection of task
  types: the call returns any outcome.
- *Trajectory memory*, metrics, logging, datasets, offline skill generation.
