------------------------------ MODULE MultiTurn ------------------------------
(***************************************************************************)
(* The multi-turn rollout of one training step: every prompt is repeated   *)
(* n times, the copies form a group, each copy plays one episode in an     *)
(* environment of its own, and part of each group sees no skills.          *)
(*                                                                         *)
(* All environments move together, turn by turn.  One that is done goes on *)
(* receiving actions and returning results until the last one is done;     *)
(* these results must not reach the training batch.                        *)
(*                                                                         *)
(* A text is abstracted to what it answers: the prompt of an environment   *)
(* in a turn is [traj, turn, skills] and the response to it is that same   *)
(* record.  Environments are numbered from 1, as rows and workers are.     *)
(***************************************************************************)
EXTENDS Integers, Sequences, FiniteSets, SequencesExt

CONSTANTS
  Setups  \* the configurations explored; one is chosen at the start

(* groups:  data.train_batch_size                                            *)
(* n:       env.rollout.n                                                    *)
(* percent: skills_only_memory.ab_ratio times 100; -1 without ab_rollout     *)
(* turns:   env.max_steps                                                    *)
(* workers: world_size of the actor's worker group                           *)
(* divisor: the least common multiple that adjust_batch computes             *)
(* dynamic: algorithm.filter_groups.enable                                   *)
(* penalty: actor.use_invalid_action_penalty                                 *)
(* ahsr:    skill.ahsr_enabled                                               *)
(* gigpo:   algorithm.adv_estimator is gigpo; grpo otherwise                 *)
Setup == [groups : Nat \ {0}, n : Nat \ {0}, percent : (0..100) \cup {-1},
          turns : Nat \ {0}, workers : Nat \ {0}, divisor : Nat \ {0},
          dynamic : BOOLEAN, penalty : BOOLEAN, ahsr : BOOLEAN,
          gigpo : BOOLEAN]

ASSUME SetupsAssumption ==
  Setups \subseteq Setup /\ \A s \in Setups : s.divisor % s.workers = 0

VARIABLES
  conf,      \* the configuration
  phase,     \* where the training step is
  turn,      \* _step, from 1
  tasks,     \* envs.tasks: the game each environment plays
  mask,      \* with_skills_mask: who is in the skill arm
  obs,       \* the prompt each environment asks next
  isDone,    \* is_done
  total,     \* total_batch_list: a row per environment and turn
  epReward,  \* episode_rewards
  epLength,  \* episode_lengths
  played,    \* traj_steps: the steps of each episode, as the episode saw them
  rows       \* the batch

episode == <<tasks, mask>>
rollout == <<turn, obs, isDone, total, epReward, epLength, played>>
vars == <<conf, phase, episode, rollout, rows>>

Envs == 1..(conf.groups * conf.n)
Group(e) == ((e - 1) \div conf.n) + 1

------------------------------------------------------------------------------
(* Sending rows to the workers and back.                                     *)

\* Rows to add so that a batch of size k splits into d equal parts.
PadSize(k, d) == IF k % d = 0 THEN 0 ELSE d - (k % d)

\* Padding takes the first rows, again and again.
PadTo(s, d) == [i \in 1..(Len(s) + PadSize(Len(s), d)) |-> s[((i - 1) % Len(s)) + 1]]

\* Mutant of Unpad: the padding is taken off the front.
UnpadFront(s, k) == SubSeq(s, k + 1, Len(s))

Unpad(s, k) == SubSeq(s, 1, Len(s) - k)

Chunks(s, k) ==
  LET size == Len(s) \div k
  IN  [w \in 1..k |-> SubSeq(s, (w - 1) * size + 1, w * size)]

\* What comes back from the workers, put together by rank: each has answered
\* its chunk row by row.
OnWorkers(s) == FlattenSeq(Chunks(s, conf.workers))

------------------------------------------------------------------------------
(* Reset: the same game for the whole group, skills for one part of it.      *)

\* Python's round(a / b): the nearest integer, halves to the even one.
RoundHalfEven(a, b) ==
  LET q == a \div b
      r == 2 * (a % b)
  IN  IF r > b \/ (r = b /\ q % 2 = 1) THEN q + 1 ELSE q

AtLeast(a, b) == IF a >= b THEN a ELSE b
AtMost(a, b)  == IF a <= b THEN a ELSE b

\* How many trajectories of a group get skills.
SkillArmSize(n, percent) == AtLeast(1, AtMost(n, RoundHalfEven(n * percent, 100)))

\* Mutant of ArmMask: the batch is split, not each group.
ArmMaskOfBatch ==
  [e \in Envs |-> conf.percent = -1
                    \/ e <= SkillArmSize(Cardinality(Envs), conf.percent)]

\* compute_with_skills_ab_mask; without it everyone gets skills.
ArmMask ==
  [e \in Envs |-> conf.percent = -1
                    \/ (e - 1) % conf.n < SkillArmSize(conf.n, conf.percent)]

\* Mutant of Game: numbered from 1 as if from 0.
GameOffByOne(e) == ((e - 1) \div conf.n) - 1

\* The worker of environment e draws its games with seed + e // n.
Game(e) == (e - 1) \div conf.n

\* retrieved_memories: one entry per task, None for the no-skill arm.
Retrieved(arm) == [i \in 1..Len(arm) |-> IF arm[i] THEN "skills" ELSE "none"]

\* A value no worker has computed yet.
NoPrompt == [traj |-> 0, turn |-> 0, skills |-> FALSE]

Ask(e, t, memories) == [traj |-> e, turn |-> t, skills |-> memories[e] = "skills"]

Reset ==
  /\ phase = "reset"
  /\ tasks' = [e \in Envs |-> Game(e)]
  /\ mask' = ArmMask
  /\ obs' = [e \in Envs |-> Ask(e, 1, Retrieved(mask'))]
  /\ phase' = "turn"
  /\ UNCHANGED <<conf, turn, isDone, total, epReward, epLength, played, rows>>

------------------------------------------------------------------------------
(* One iteration of the collection loop.                                     *)

\* The workers answer the prompts of all environments, done or not.
Answer(prompt) == prompt
Generate(prompts) ==
  LET back == OnWorkers(PadTo(prompts, conf.workers))
  IN  Unpad([i \in DOMAIN back |-> Answer(back[i])],
            PadSize(Len(prompts), conf.workers))

\* The uid of the group of row e: a new one every n rows.
Uid(e) == Group(e)

\* A running episode goes on, is lost, or is won.  A finished game may repeat
\* its result or report nothing.
Outcome == [won : BOOLEAN, done : BOOLEAN, valid : BOOLEAN]
Running ==
  {o \in Outcome : (o.won => o.done) /\ (o.valid \/ conf.penalty)}
Finished == {o \in Outcome : o.won = o.done /\ o.valid}

RewardOf(o) == IF o.won THEN 1 ELSE 0

Extend(lists, entry) == [e \in Envs |-> Append(lists[e], entry[e])]

PlayTurn(out) ==
  LET resp   == Generate(obs)
      active == [e \in Envs |-> ~isDone[e]]
  IN
  /\ total' = Extend(total,
       [e \in Envs |-> [traj |-> e, uid |-> Uid(e), turn |-> turn, resp |-> resp[e],
                        rew |-> RewardOf(out[e]), won |-> out[e].won,
                        valid |-> out[e].valid, active |-> active[e]]])
  /\ played' = [e \in Envs |-> IF isDone[e] THEN played[e]
                               ELSE Append(played[e], out[e])]
  /\ epReward' = [e \in Envs |-> IF active[e] THEN epReward[e] + RewardOf(out[e])
                                 ELSE epReward[e]]
  /\ epLength' = [e \in Envs |-> IF active[e] THEN epLength[e] + 1 ELSE epLength[e]]
  /\ isDone' = [e \in Envs |-> isDone[e] \/ out[e].done]
  /\ obs' = [e \in Envs |-> Ask(e, turn + 1, Retrieved(mask))]

\* The dynamic loop unpacks eight of the ten values the vanilla loop returns:
\* it raises after its first rollout.
AfterLoop == IF conf.dynamic THEN "failed" ELSE "gather"

Turn ==
  /\ phase = "turn"
  /\ \E out \in [Envs -> Running \cup Finished] :
       /\ \A e \in Envs : out[e] \in IF isDone[e] THEN Finished ELSE Running
       /\ PlayTurn(out)
  /\ turn' = turn + 1
  /\ phase' = IF (\A e \in Envs : isDone'[e]) \/ turn = conf.turns
              THEN AfterLoop ELSE "turn"
  /\ UNCHANGED <<conf, episode, rows>>

------------------------------------------------------------------------------
(* Gathering the rows of the episodes.                                       *)

\* success_evaluator: what the last row of e that was active reported.
Success(e) ==
  LET act == {t \in DOMAIN total[e] : total[e][t].active}
  IN  total[e][CHOOSE t \in act : \A u \in act : u <= t].won

\* What gather_rollout_data and multi_turn_loop add to a row, by traj_index.
Annotate(row) ==
  [traj |-> row.traj, uid |-> row.uid, turn |-> row.turn, resp |-> row.resp,
   rew |-> row.rew, valid |-> row.valid,
   reward |-> epReward[row.traj], length |-> epLength[row.traj],
   success |-> Success(row.traj), arm |-> mask[row.traj], task |-> tasks[row.traj],
   ret |-> 0, logp |-> NoPrompt, score |-> 0, intrinsic |-> 0, adv |-> 0]

\* Mutant of Active: the rows of finished environments are kept.
ActiveOrNot(row) == TRUE

Active(row) == row.active

\* What gather_rollout_data takes of the rows of environment e.
Effective(e) ==
  FlattenSeq([t \in DOMAIN total[e] |->
    IF Active(total[e][t]) THEN <<Annotate(total[e][t])>> ELSE <<>>])

Gather ==
  /\ phase = "gather"
  /\ rows' = FlattenSeq([e \in Envs |-> Effective(e)])
  /\ phase' = "returns"
  /\ UNCHANGED <<conf, episode, rollout>>

InitRollout ==
  /\ conf \in Setups
  /\ phase = "reset"
  /\ turn = 1
  /\ tasks = <<>> /\ mask = <<>> /\ obs = <<>>
  /\ isDone = [e \in Envs |-> FALSE]
  /\ total = [e \in Envs |-> <<>>]
  /\ epReward = [e \in Envs |-> 0]
  /\ epLength = [e \in Envs |-> 0]
  /\ played = [e \in Envs |-> <<>>]
  /\ rows = <<>>

NextRollout == Reset \/ Turn \/ Gather
=============================================================================
