----------------------------- MODULE TrainerLoop -----------------------------
(***************************************************************************)
(* The training loop of RayPPOTrainer.fit and its checkpoints: one driver, *)
(* a group of worker ranks that write a checkpoint together, a directory   *)
(* that survives the process, and the resume of a killed run.              *)
(*                                                                         *)
(* A checkpoint of step N is a directory global_step_N with the files of   *)
(* the actor, of the critic and of the data loader; the tracker file names *)
(* the step to resume from.  Files are written one after the other and a   *)
(* kill may tear each of them.  Old checkpoints are deleted while a new    *)
(* one is written.  The skill bank has a file of its own.                  *)
(*                                                                         *)
(* Parameters are abstracted to a version: the life of the process and the *)
(* step that produced them, and how many changes of the skill bank the     *)
(* rollouts they were trained on had seen.                                 *)
(***************************************************************************)
EXTENDS Integers, Sequences, FiniteSets

CONSTANTS
  Ranks,         \* the worker processes
  Lead,          \* data-parallel rank 0 of each model-parallel group: Lead[r]
  Backends,      \* the worker implementations explored: "fsdp", "megatron"
  UseCritic,     \* algorithm.adv_estimator needs a critic
  Keep,          \* max_actor_ckpt_to_keep, max_critic_ckpt_to_keep (0: all)
  TotalSteps,    \* total_training_steps
  TotalEpochs,   \* trainer.total_epochs
  EpochLength,   \* batches in the data loader
  SaveFreq,      \* trainer.save_freq
  UpdateFreq,    \* skill.update_freq
  CriticWarmup,  \* trainer.critic_warmup
  SaveInPlace,   \* skill.save_path is the file the bank is loaded from
  MaxCrashes     \* bound: kills explored

Roles == IF UseCritic THEN {"actor", "critic"} ELSE {"actor"}
Parts == {"model", "optim", "extra"}
\* A resumed run may add one step to a finished one, once per life.
Steps == 1..(TotalSteps + MaxCrashes)

ASSUME RanksAssumption == Ranks # {} /\ IsFiniteSet(Ranks)
ASSUME LeadAssumption ==
  Lead \in [Ranks -> Ranks] /\ \A r \in Ranks : Lead[Lead[r]] = Lead[r]
ASSUME BackendsAssumption == Backends \subseteq {"fsdp", "megatron"}
ASSUME LoopAssumption ==
  /\ {UseCritic, SaveInPlace} \subseteq BOOLEAN
  /\ Keep \in [Roles -> Nat]
  /\ {TotalSteps, TotalEpochs, EpochLength, SaveFreq, UpdateFreq}
       \subseteq Nat \ {0}
  /\ CriticWarmup \in Nat /\ MaxCrashes \in Nat

Version == [life : Nat, step : Nat, bank : Nat]

\* The pretrained model; a file that is missing or torn (loading either raises).
Pretrained == [life |-> 0, step |-> 0, bank |-> 0]
Unreadable == [life |-> -1, step |-> 0, bank |-> 0]
NoData == -1

VARIABLES
  backend,  \* the strategy of this run
  pc,       \* where the driver is
  life,     \* processes started so far
  step,     \* global_steps
  epoch,    \* epoch
  pos,      \* batches of this epoch the loader has yielded
  mem,      \* what each rank holds, per role and part
  bank,     \* changes of the skill bank made so far that it contains
  role,     \* the role being saved
  at,       \* where each rank is in save_checkpoint: index into Program
  prev,     \* previous_saved_paths, per role and rank (steps stand for paths)
  shard,    \* the checkpoint files, per role, step, part and rank
  data,     \* data.pt, per step
  tracker,  \* latest_checkpointed_iteration.txt
  bankFile, \* the file at skill.save_path
  taken     \* per step: what the checkpoint is to hold (history)

disk    == <<shard, data, tracker>>
loop    == <<step, epoch, pos>>
saving  == <<role, at, prev>>
process == <<backend, life>>
vars == <<process, pc, loop, mem, bank, saving, disk, bankFile, taken>>

Phases == {"fetch", "train", "evolve", "writebank", "save", "role", "data",
           "opentracker", "tracker", "next", "done", "down", "dead"}

NoFiles == [k \in Parts |-> [r \in Ranks |-> Unreadable]]

Init ==
  /\ backend \in Backends
  /\ pc = "fetch" /\ life = 1 /\ step = 1 /\ epoch = 0 /\ pos = 0
  /\ mem = [o \in Roles |-> [k \in Parts |-> [r \in Ranks |-> Pretrained]]]
  /\ bank = 0
  /\ role = "actor" /\ at = [r \in Ranks |-> 1]
  /\ prev = [o \in Roles |-> [r \in Ranks |-> <<>>]]
  /\ shard = [o \in Roles |-> [s \in Steps |-> NoFiles]]
  /\ data = [s \in Steps |-> NoData]
  /\ tracker = [state |-> "absent", step |-> 0]
  /\ bankFile = [state |-> "whole", bank |-> 0]
  /\ taken = [s \in Steps |-> [mem |-> mem, pos |-> 0]]

-----------------------------------------------------------------------------
(* The loop *)

\* Mutant of IsLastStep: only the exact step ends the run.
IsExactlyLast == step = TotalSteps

IsLastStep == step >= TotalSteps

\* Mutant of NextBatch: the loader does not stop at its last batch.
NextBatchOnAndOn ==
  /\ pc = "fetch"
  /\ pos' = pos + 1
  /\ pc' = "train"
  /\ UNCHANGED <<process, step, epoch, mem, bank, saving, disk, bankFile, taken>>

\* The loader yields the next batch.
NextBatch ==
  /\ pc = "fetch" /\ pos < EpochLength
  /\ pos' = pos + 1
  /\ pc' = "train"
  /\ UNCHANGED <<process, step, epoch, mem, bank, saving, disk, bankFile, taken>>

\* Mutant of NextEpoch: the loader is asked again without being rewound.
NextEpochNotRewound ==
  /\ pc = "fetch" /\ pos = EpochLength
  /\ UNCHANGED vars

\* The loader is exhausted: the next epoch, or the end of fit.
NextEpoch ==
  /\ pc = "fetch" /\ pos = EpochLength
  /\ IF epoch + 1 < TotalEpochs
     THEN epoch' = epoch + 1 /\ pos' = 0 /\ pc' = pc
     ELSE pc' = "done" /\ UNCHANGED <<epoch, pos>>
  /\ UNCHANGED <<process, step, mem, bank, saving, disk, bankFile, taken>>

\* Rollout and updates, as one step: nothing of them survives a kill.  The
\* actor is only updated after the critic's warm-up.
Train ==
  /\ pc = "train"
  /\ LET new == [life |-> life, step |-> step, bank |-> bank] IN
     mem' = [o \in Roles |->
               IF o = "critic" \/ CriticWarmup <= step
               THEN [k \in Parts |-> [r \in Ranks |-> new]] ELSE mem[o]]
  /\ pc' = "evolve"
  /\ UNCHANGED <<process, loop, bank, saving, disk, bankFile, taken>>

NoEvolution ==
  /\ pc = "evolve"
  /\ pc' = "save"
  /\ UNCHANGED <<process, loop, mem, bank, saving, disk, bankFile, taken>>

\* Mutant of Evolve: the changed bank stays in memory.
EvolveUnsaved ==
  /\ pc = "evolve" /\ step % UpdateFreq = 0
  /\ bank' = bank + 1
  /\ pc' = "save"
  /\ UNCHANGED <<process, loop, mem, saving, disk, bankFile, taken>>

\* A round of skill evolution that changes the bank (SkillEvolution says how)
\* ends with opening its file for writing ...
Evolve ==
  /\ pc = "evolve" /\ step % UpdateFreq = 0
  /\ bank' = bank + 1
  /\ bankFile' = [bankFile EXCEPT !.state = "torn"]
  /\ pc' = "writebank"
  /\ UNCHANGED <<process, loop, mem, saving, disk, taken>>

\* ... and writing it.
WriteBank ==
  /\ pc = "writebank"
  /\ bankFile' = [state |-> "whole", bank |-> bank]
  /\ pc' = "save"
  /\ UNCHANGED <<process, loop, mem, bank, saving, disk, taken>>

NoSave ==
  /\ pc = "save" /\ ~(IsLastStep \/ step % SaveFreq = 0)
  /\ pc' = "next"
  /\ UNCHANGED <<process, loop, mem, bank, saving, disk, bankFile, taken>>

EndStep ==
  /\ pc = "next"
  /\ step' = step + 1
  /\ pc' = IF IsLastStep THEN "done" ELSE "fetch"
  /\ UNCHANGED <<process, epoch, pos, mem, bank, saving, disk, bankFile, taken>>

-----------------------------------------------------------------------------
(* Saving a checkpoint *)

\* What a rank does in save_checkpoint of its checkpoint manager.
Program ==
  IF backend = "fsdp"
  THEN <<"rotate", "mkdir", "barrier", "model", "optim", "extra", "barrier",
         "append">>
  ELSE <<"rotate", "mkdir", "model", "barrier", "optim", "barrier", "extra",
         "append">>

\* The rank that writes the file rank r loads.  Under Megatron the model and
\* the optimizer state are written by data-parallel rank 0 of the group.
WriterOf(k, r) == IF backend = "fsdp" \/ k = "extra" THEN r ELSE Lead[r]

Running(r) == pc = "role" /\ at[r] <= Len(Program)
Doing(r, what) == Running(r) /\ Program[at[r]] = what
Advance(r) == at' = [at EXCEPT ![r] = @ + 1]

BeginSave ==
  /\ pc = "save" /\ (IsLastStep \/ step % SaveFreq = 0)
  /\ taken' = [taken EXCEPT ![step] = [mem |-> mem, pos |-> pos]]
  /\ role' = "actor" /\ at' = [r \in Ranks |-> 1]
  /\ pc' = "role"
  /\ UNCHANGED <<process, loop, mem, bank, prev, disk, bankFile>>

\* Mutants of Surplus: one checkpoint too many is deleted, or too few.
SurplusPlusOne(o, q) ==
  IF Keep[o] > 0 /\ Len(q) >= Keep[o] THEN Len(q) - Keep[o] + 2 ELSE 0

SurplusLate(o, q) ==
  IF Keep[o] > 0 /\ Len(q) > Keep[o] THEN Len(q) - Keep[o] ELSE 0

\* How many of the saved paths q must go to make room for the next one.
Surplus(o, q) ==
  IF Keep[o] > 0 /\ Len(q) >= Keep[o] THEN Len(q) - Keep[o] + 1 ELSE 0

Victims(o, r) == {prev[o][r][i] : i \in 1..Surplus(o, prev[o][r])}

\* Old checkpoints go before the new one is written.
Rotate(r) ==
  /\ Doing(r, "rotate")
  /\ LET n == Surplus(role, prev[role][r]) IN
     prev' = [prev EXCEPT ![role][r] = SubSeq(@, n + 1, Len(@))]
  /\ shard' = [shard EXCEPT ![role] =
                [s \in Steps |-> IF s \in Victims(role, r) THEN NoFiles ELSE @[s]]]
  /\ Advance(r)
  /\ UNCHANGED <<process, pc, loop, mem, bank, role, data, tracker, bankFile,
                 taken>>

MakeDir(r) ==
  /\ Doing(r, "mkdir")
  /\ Advance(r)
  /\ UNCHANGED <<process, pc, loop, mem, bank, role, prev, disk, bankFile, taken>>

WriteFile(r) ==
  /\ \E k \in Parts :
       /\ Doing(r, k)
       /\ shard' = IF WriterOf(k, r) = r
                   THEN [shard EXCEPT ![role][step][k][r] = mem[role][k][r]]
                   ELSE shard
  /\ Advance(r)
  /\ UNCHANGED <<process, pc, loop, mem, bank, role, prev, data, tracker,
                 bankFile, taken>>

AppendPath(r) ==
  /\ Doing(r, "append")
  /\ prev' = [prev EXCEPT ![role][r] = Append(@, step)]
  /\ Advance(r)
  /\ UNCHANGED <<process, pc, loop, mem, bank, role, disk, bankFile, taken>>

\* A barrier lets all ranks pass together, when all have reached it.
Barrier ==
  /\ \A r \in Ranks : Doing(r, "barrier")
  /\ \A r, q \in Ranks : at[r] = at[q]
  /\ at' = [r \in Ranks |-> at[r] + 1]
  /\ UNCHANGED <<process, pc, loop, mem, bank, role, prev, disk, bankFile, taken>>

\* The driver has the results of all ranks: the critic, or the data loader.
RoleSaved ==
  /\ pc = "role" /\ \A r \in Ranks : at[r] > Len(Program)
  /\ IF role = "actor" /\ UseCritic
     THEN role' = "critic" /\ at' = [r \in Ranks |-> 1] /\ pc' = pc
     ELSE pc' = "data" /\ UNCHANGED <<role, at>>
  /\ UNCHANGED <<process, loop, mem, bank, prev, disk, bankFile, taken>>

SaveLoader ==
  /\ pc = "data"
  /\ data' = [data EXCEPT ![step] = pos]
  /\ pc' = "opentracker"
  /\ UNCHANGED <<process, loop, mem, bank, saving, shard, tracker, bankFile,
                 taken>>

OpenTracker ==
  /\ pc = "opentracker"
  /\ tracker' = [tracker EXCEPT !.state = "torn"]
  /\ pc' = "tracker"
  /\ UNCHANGED <<process, loop, mem, bank, saving, shard, data, bankFile, taken>>

WriteTracker ==
  /\ pc = "tracker"
  /\ tracker' = [state |-> "whole", step |-> step]
  /\ pc' = "next"
  /\ UNCHANGED <<process, loop, mem, bank, saving, shard, data, bankFile, taken>>

-----------------------------------------------------------------------------
(* Kill and resume *)

\* The files a kill leaves torn when it interrupts the ranks of hit: the one a
\* rank is writing, and those of a directory a rank is deleting.
Torn(hit, o, s, k, r) ==
  /\ o = role
  /\ \/ r \in hit /\ Doing(r, k) /\ s = step /\ WriterOf(k, r) = r
     \/ \E q \in hit : Doing(q, "rotate") /\ s \in Victims(role, q)

Crash ==
  /\ pc \notin {"done", "down", "dead"} /\ life <= MaxCrashes
  /\ \E hit \in SUBSET Ranks :
       shard' = [o \in Roles |-> [s \in Steps |-> [k \in Parts |->
                   [r \in Ranks |-> IF Torn(hit, o, s, k, r)
                      THEN Unreadable ELSE shard[o][s][k][r]]]]]
  /\ data' \in {data} \cup IF pc = "data"
                           THEN {[data EXCEPT ![step] = NoData]} ELSE {}
  /\ pc' = "down"
  /\ UNCHANGED <<process, loop, mem, bank, saving, tracker, bankFile, taken>>

\* What every rank would load from the checkpoint of step s.
Loads(o, s) ==
  [k \in Parts |-> [r \in Ranks |-> shard[o][s][k][WriterOf(k, r)]]]

Loadable(s) ==
  \A o \in Roles, k \in Parts, r \in Ranks : Loads(o, s)[k][r] # Unreadable

\* Mutant of ResumeStep: the step that was saved is trained again.
ResumeSavedStep == tracker.step

\* Training resumes with the step after the one that was saved.
ResumeStep == tracker.step + 1

\* A new process starts: it loads the bank (a torn file does not parse), then
\* the checkpoint the tracker names (a torn tracker is no number, a missing
\* shard raises); without a tracker it trains from scratch.
Restart ==
  /\ pc = "down"
  /\ life' = life + 1
  /\ IF \/ SaveInPlace /\ bankFile.state = "torn"
        \/ tracker.state = "torn"
        \/ tracker.state = "whole" /\ ~Loadable(tracker.step)
     THEN pc' = "dead" /\ UNCHANGED <<loop, mem, bank, saving>>
     ELSE /\ pc' = "fetch" /\ epoch' = 0
          /\ bank' = IF SaveInPlace THEN bankFile.bank ELSE 0
          /\ role' = "actor" /\ at' = [r \in Ranks |-> 1]
          /\ prev' = [o \in Roles |-> [r \in Ranks |-> <<>>]]
          /\ IF tracker.state = "absent"
             THEN /\ step' = 1 /\ pos' = 0
                  /\ mem' = [o \in Roles |-> [k \in Parts |->
                               [r \in Ranks |-> Pretrained]]]
             ELSE /\ step' = ResumeStep
                  /\ pos' = IF data[tracker.step] = NoData THEN 0
                            ELSE data[tracker.step]
                  /\ mem' = [o \in Roles |-> Loads(o, tracker.step)]
  /\ UNCHANGED <<backend, disk, bankFile, taken>>

Driver ==
  \/ NextBatch \/ NextEpoch \/ Train \/ NoEvolution \/ Evolve \/ WriteBank
  \/ NoSave \/ BeginSave \/ RoleSaved \/ SaveLoader \/ OpenTracker
  \/ WriteTracker \/ EndStep

Worker(r) == Rotate(r) \/ MakeDir(r) \/ WriteFile(r) \/ AppendPath(r)

Stopped == pc \in {"done", "dead"} /\ UNCHANGED vars

Next ==
  \/ Driver \/ (\E r \in Ranks : Worker(r)) \/ Barrier
  \/ Crash \/ Restart \/ Stopped

Spec == Init /\ [][Next]_vars

\* The driver and every rank go on as long as they can (rollouts end at
\* max_steps, files are written, collectives complete when all have joined),
\* and the operator starts a killed run again.
FairSpec ==
  /\ Spec
  /\ WF_vars(Driver) /\ WF_vars(Barrier) /\ WF_vars(Restart)
  /\ \A r \in Ranks : WF_vars(Worker(r))

-----------------------------------------------------------------------------
(* Correctness *)

Alive == pc \notin {"done", "down", "dead"}

DriverTypes ==
  /\ backend \in Backends /\ pc \in Phases /\ life \in Nat \ {0}
  /\ step \in Nat \ {0} /\ epoch \in Nat /\ pos \in 0..EpochLength
  /\ bank \in Nat /\ role \in Roles

MemTypes == mem \in [Roles -> [Parts -> [Ranks -> Version]]]

SavingTypes ==
  at \in [Ranks -> Nat \ {0}] /\ prev \in [Roles -> [Ranks -> Seq(Nat)]]

ShardTypes ==
  shard \in [Roles -> [Steps -> [Parts -> [Ranks -> Version \cup {Unreadable}]]]]

FileTypes ==
  /\ data \in [Steps -> (0..EpochLength) \cup {NoData}]
  /\ tracker \in [state : {"absent", "torn", "whole"}, step : Steps \cup {0}]
  /\ bankFile \in [state : {"torn", "whole"}, bank : Nat]

TakenTypes ==
  taken \in [Steps -> [mem : [Roles -> [Parts -> [Ranks -> Version]]],
                      pos : 0..EpochLength]]

\* Every variable has its type.
TypeOK ==
  DriverTypes /\ MemTypes /\ SavingTypes /\ ShardTypes /\ FileTypes /\ TakenTypes

\* The checkpoint the tracker names holds, at every moment and after every
\* kill, all files of all ranks of both roles and of the loader, as they were
\* when that checkpoint was begun - as long as each role keeps two or more.
TrackedIsWhole ==
  (\A o \in Roles : Keep[o] # 1) /\ tracker.state = "whole" =>
    /\ \A o \in Roles : Loads(o, tracker.step) = taken[tracker.step].mem[o]
    /\ data[tracker.step] = taken[tracker.step].pos

\* A step begins with all ranks of a role at the same parameters, those of
\* the step before (the actor's from the end of the critic's warm-up on), and
\* with the loader at the batch that follows: no batch is trained twice or
\* skipped, whatever was killed and resumed.
StepFollowsStep ==
  pc = "fetch" =>
    /\ \A o \in Roles, k \in Parts, r \in Ranks :
         mem[o][k][r].step =
           IF o = "actor" /\ step <= CriticWarmup THEN 0 ELSE step - 1
    /\ \A o \in Roles, k, l \in Parts, q, r \in Ranks :
         mem[o][k][q] = mem[o][l][r]
    /\ pos % EpochLength = (step - 1) % EpochLength

\* When the bank is saved where it is loaded from, no policy ever runs with a
\* bank that lacks a change it was trained with, although the checkpoint does
\* not contain the bank.
BankNotBehindPolicy ==
  SaveInPlace /\ Alive =>
    \A o \in Roles, k \in Parts, r \in Ranks : mem[o][k][r].bank <= bank

\* A run that is killed and resumed, even after its last checkpoint, trains at
\* most one step more per life than it was asked to.
TrainingBounded == step <= TotalSteps + life

\* Each life of the process leaves at most Keep checkpoints on disk.
DiskBounded ==
  \A o \in Roles : Keep[o] > 0 =>
    Cardinality({s \in Steps : shard[o][s] # NoFiles}) <= Keep[o] * life

\* Training ends: the ranks never wait for each other forever, and every epoch
\* gets its batches.
RunEnds == <>(pc \in {"done", "dead"})

-----------------------------------------------------------------------------
(* What the code's advice says, and the code does not do *)

\* _save_checkpoint recommends "max_actor_ckpt_to_keep=1", and the tracker
\* file "rescords the latest chckpoint during training to restart from": so
\* what a tracker names can be loaded.
TrackedIsLoadable == tracker.state = "whole" => Loadable(tracker.step)
=============================================================================
