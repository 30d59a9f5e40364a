----------------------------- MODULE TrainBatch ------------------------------
(***************************************************************************)
(* One training step of RayPPOTrainer.fit after the rollout: step returns, *)
(* filling up and reordering of the batch, log probabilities, rewards, the *)
(* hindsight skill reward, advantages.                                     *)
(*                                                                         *)
(* Rewards are integers in units of 0.1: a won episode (10.0) scores 100,  *)
(* an invalid action costs 1.  Means are rationals; Scale(g) is a common   *)
(* denominator of those of group g.                                        *)
(***************************************************************************)
EXTENDS MultiTurn

------------------------------------------------------------------------------
(* Step returns, for GiGPO only, undiscounted.  The rows of a trajectory     *)
(* have to be in the order in which they were played.                        *)

Return(i) ==
  LET later == {j \in i..Len(rows) : rows[j].traj = rows[i].traj}
  IN  SumFunction([j \in later |-> 100 * rows[j].rew])

StepReturns ==
  /\ phase = "returns"
  /\ rows' = IF conf.gigpo
             THEN [i \in DOMAIN rows |-> [rows[i] EXCEPT !.ret = Return(i)]]
             ELSE rows
  /\ phase' = "adjust"
  /\ UNCHANGED <<conf, episode, rollout>>

------------------------------------------------------------------------------
(* adjust_batch copies rows until the size divides; _balance_batch reorders. *)

\* Mutant of Draws: a row may be drawn again.
DrawsAgain(k, m) == [1..m -> 1..k]

\* np.random.choice(k, m, replace=False), in the order drawn.
Draws(k, m) == {d \in [1..m -> 1..k] : \A i, j \in 1..m : d[i] = d[j] => i = j}

\* Drawing more rows than there are raises, and fit ends.
Adjust ==
  /\ phase = "adjust"
  /\ LET k     == Len(rows)
         toAdd == PadSize(k, conf.divisor)
     IN  \/ /\ toAdd <= k
            /\ \E d \in Draws(k, toAdd) :
                 rows' = rows \o [i \in 1..toAdd |-> rows[d[i]]]
            /\ phase' = "balance"
         \/ /\ toAdd > k
            /\ phase' = "failed"
            /\ UNCHANGED rows
  /\ UNCHANGED <<conf, episode, rollout>>

\* Partitions of the rows into parts of equal size: which depends on the
\* sequence lengths, which are free here.
EqualParts(k) ==
  {p \in [1..k -> 1..conf.workers] :
     \A w \in 1..conf.workers :
       Cardinality({i \in 1..k : p[i] = w}) * conf.workers = k}

\* Where row i goes: behind the rows of the parts before its own and those of its
\* own part that it comes after now, since a part is sorted.
Place(p, i) ==
  Cardinality({j \in DOMAIN p : p[j] < p[i] \/ (p[j] = p[i] /\ j <= i)})

Balance ==
  /\ phase = "balance"
  /\ \E p \in EqualParts(Len(rows)) :
       rows' = [k \in DOMAIN rows |-> rows[CHOOSE i \in DOMAIN rows : Place(p, i) = k]]
  /\ phase' = "logprob"
  /\ UNCHANGED <<conf, episode, rollout>>

------------------------------------------------------------------------------
(* Worker computations come back as columns, joined to the batch by          *)
(* position.                                                                 *)

LogProbOf(row) == row.resp

LogProb ==
  /\ phase = "logprob"
  /\ LET back == OnWorkers(rows)
     IN  rows' = [i \in DOMAIN rows |->
                    [rows[i] EXCEPT !.logp = LogProbOf(back[i])]]
  /\ phase' = "score"
  /\ UNCHANGED <<conf, episode, rollout>>

\* apply_invalid_action_penalty takes this off the score and the step return.
Penalty(row) == IF conf.penalty /\ ~row.valid THEN 1 ELSE 0

\* The reward of the episode on each of its rows, less the penalty.
Score(row) == 100 * row.reward - Penalty(row)

Scores ==
  /\ phase = "score"
  /\ rows' = [i \in DOMAIN rows |->
               [rows[i] EXCEPT !.score = Score(rows[i]),
                               !.ret = IF conf.gigpo THEN @ - Penalty(rows[i]) ELSE @]]
  /\ phase' = "ahsr"
  /\ UNCHANGED <<conf, episode, rollout>>

------------------------------------------------------------------------------
(* apply_ahsr.  Per group: baseline B/b over the no-skill arm and mean S/s   *)
(* over the skill arm, one row per trajectory, the first in the batch.       *)

FirstOfTraj(i) == \A j \in 1..(i - 1) : rows[j].traj # rows[i].traj
ArmRows(g, arm) ==
  {i \in DOMAIN rows : rows[i].uid = g /\ rows[i].arm = arm /\ FirstOfTraj(i)}

Total(S) == SumFunction([i \in S |-> rows[i].score])
Size(g, arm) == Cardinality(ArmRows(g, arm))

Positive(x) == IF x > 0 THEN x ELSE 0

\* (S/s - B/b), times s * b.
ArmGain(g) ==
  IF Size(g, TRUE) = 0 THEN 0
  ELSE Total(ArmRows(g, TRUE)) * Size(g, FALSE)
         - Total(ArmRows(g, FALSE)) * Size(g, TRUE)

Scale(g) ==
  IF Size(g, FALSE) = 0 THEN 1
  ELSE 10 * Size(g, FALSE) * Size(g, FALSE) * AtLeast(1, Size(g, TRUE))

\* Mutant of LambdaPlus: 2, whatever the gain.
LambdaPlusConstant(g) == 20 * Size(g, FALSE) * AtLeast(1, Size(g, TRUE))

\* lambda+ = max(0, 2 - 4 * gain) with the gain in units of 1.0, and
\* lambda- = 0.3; both times 10 * s * b.
LambdaPlus(g) ==
  Positive(20 * Size(g, FALSE) * AtLeast(1, Size(g, TRUE)) - 4 * Positive(ArmGain(g)))
LambdaMinus(g) == 3 * Size(g, FALSE) * AtLeast(1, Size(g, TRUE))

\* Mutant of Delta: the baseline less the reward.
DeltaReversed(i) ==
  Total(ArmRows(rows[i].uid, FALSE)) - rows[i].score * Size(rows[i].uid, FALSE)

\* (R - B/b), times b.
Delta(i) ==
  rows[i].score * Size(rows[i].uid, FALSE) - Total(ArmRows(rows[i].uid, FALSE))

\* The intrinsic reward of row i, times Scale of its group: the first row of a
\* skill-arm trajectory gets it, the others nothing.
Intrinsic(i) ==
  LET g == rows[i].uid
  IN  IF i \in ArmRows(g, TRUE) /\ Size(g, FALSE) > 0
      THEN LambdaPlus(g) * Positive(Delta(i)) - LambdaMinus(g) * Positive(-Delta(i))
      ELSE 0

\* Without two arms the batch is returned as it is.
TwoArms == {rows[i].arm : i \in DOMAIN rows} = BOOLEAN

Ahsr ==
  /\ phase = "ahsr"
  /\ rows' = IF conf.ahsr /\ conf.percent # -1 /\ TwoArms
             THEN [i \in DOMAIN rows |-> [rows[i] EXCEPT !.intrinsic = Intrinsic(i)]]
             ELSE rows
  /\ phase' = "advantage"
  /\ UNCHANGED <<conf, episode, rollout>>

------------------------------------------------------------------------------
(* compute_advantage: score less the mean over all rows of the group, copies *)
(* included; a group of one row keeps its score.  Only the sign is used, so  *)
(* the standard deviation is left out.  This is all of GRPO and the episode  *)
(* term of GiGPO; its step term compares observations, which have no model.  *)

Reward(i) == Scale(rows[i].uid) * rows[i].score + rows[i].intrinsic

Adv(i) ==
  LET group == {j \in DOMAIN rows : rows[j].uid = rows[i].uid}
  IN  IF Cardinality(group) = 1 THEN Reward(i)
      ELSE Cardinality(group) * Reward(i) - SumFunction([j \in group |-> Reward(j)])

Advantage ==
  /\ phase = "advantage"
  /\ rows' = [i \in DOMAIN rows |-> [rows[i] EXCEPT !.adv = Adv(i)]]
  /\ phase' = "update"
  /\ UNCHANGED <<conf, episode, rollout>>

\* Critic and actor are updated: each worker takes its chunk, and chunk
\* asserts that the sizes are equal.
Update ==
  /\ phase = "update"
  /\ phase' = IF Len(rows) % conf.workers = 0 THEN "done" ELSE "failed"
  /\ UNCHANGED <<conf, episode, rollout, rows>>

\* The step is over, or fit has raised.
Over == phase \in {"done", "failed"} /\ UNCHANGED vars

Next ==
  \/ NextRollout
  \/ StepReturns \/ Adjust \/ Balance
  \/ LogProb \/ Scores \/ Ahsr \/ Advantage \/ Update
  \/ Over

Spec == InitRollout /\ [][Next]_vars

------------------------------------------------------------------------------
(* Properties.                                                               *)

Phases == {"reset", "turn", "gather", "returns", "adjust", "balance", "logprob",
           "score", "ahsr", "advantage", "update", "done", "failed"}
Prompt == [traj : Nat, turn : Nat, skills : BOOLEAN]
Row == [traj : Envs, uid : Nat, turn : Nat, resp : Prompt, rew : Nat,
        valid : BOOLEAN, reward : Nat, length : Nat, success : BOOLEAN,
        arm : BOOLEAN, task : Nat, ret : Int, logp : Prompt, score : Int,
        intrinsic : Int, adv : Int]
TurnRow == [traj : Envs, uid : Nat, turn : Nat, resp : Prompt, rew : Nat,
            won : BOOLEAN, valid : BOOLEAN, active : BOOLEAN]

AllIn(s, S) == \A i \in DOMAIN s : s[i] \in S

\* The variables of the rollout and of the batch keep their types.
TypeOK ==
  /\ conf \in Setups /\ phase \in Phases
  /\ turn \in 1..(conf.turns + 1)
  /\ phase # "reset" => /\ tasks \in [Envs -> Nat]
                        /\ mask \in [Envs -> BOOLEAN]
                        /\ obs \in [Envs -> Prompt]
  /\ isDone \in [Envs -> BOOLEAN]
  /\ epReward \in [Envs -> Nat] /\ epLength \in [Envs -> Nat]
  /\ \A e \in Envs : AllIn(total[e], TurnRow) /\ AllIn(played[e], Outcome)
  /\ AllIn(rows, Row)

\* Phases in which the rows have their scores, and in which the batch has been
\* filled up and shuffled.
Scored == {"ahsr", "advantage", "update", "done"}
Shuffled == phase \in {"logprob", "score"} \cup Scored

\* The rewards of episode e from step t on.
RewardsFrom(e, t) ==
  SumFunction([u \in t..Len(played[e]) |-> RewardOf(played[e][u])])

\* Whatever is padded, filled up or reordered, a row carries what its own
\* episode did: how it ended, how long it took, what it earned from this step
\* on, and no result of an environment that had already finished.
OwnEpisode ==
  \A i \in DOMAIN rows :
    LET r == rows[i]
        p == played[r.traj]
    IN  /\ r.turn \in DOMAIN p
        /\ r.length = Len(p)
        /\ r.reward = RewardsFrom(r.traj, 1)
        /\ r.success = p[Len(p)].won
        /\ conf.gigpo /\ phase # "returns" =>
             r.ret = 100 * RewardsFrom(r.traj, r.turn)
                       - (IF phase \in Scored THEN Penalty(r) ELSE 0)

\* The response and the log probability in a row were computed by a worker for
\* the prompt this trajectory was asked in this turn; padding and dispatch
\* never shift a column against the rows.  The trajectory is labelled with the
\* arm whose prompt it saw.
OwnStep ==
  \A i \in DOMAIN rows :
    LET r == rows[i]
    IN  /\ r.resp = [traj |-> r.traj, turn |-> r.turn, skills |-> r.arm]
        /\ phase \in {"score"} \cup Scored => r.logp = r.resp

\* Every step an episode played is in the batch, once before the batch is
\* filled up and at most twice after it.
EveryStepTrained ==
  phase \in {"returns", "adjust", "balance"} \/ Shuffled =>
    \A e \in Envs : \A t \in DOMAIN played[e] :
      Cardinality({i \in DOMAIN rows : rows[i].traj = e /\ rows[i].turn = t})
        \in IF phase \in {"returns", "adjust"} THEN {1} ELSE {1, 2}

\* Rows compared with each other (same uid) come from one task.  When at most
\* half of a group of two or more is to get skills, the group has both arms, so
\* the hindsight reward has a baseline and the success rate of each arm a value.
GroupsAreComparable ==
  phase \notin {"reset", "failed"} =>
    \A e \in Envs :
      LET mates == {f \in Envs : Uid(f) = Uid(e)}
      IN  /\ \A f \in mates : tasks[f] = tasks[e]
          /\ Cardinality(mates) = conf.n
          /\ conf.percent \in 0..50 /\ conf.n > 1 =>
               {mask[f] : f \in mates} = BOOLEAN

\* The advantages of GRPO are there, and nothing but success was scored.
OnlySuccess == phase \in {"update", "done"} /\ ~conf.penalty /\ ~conf.gigpo

\* No step of a lost episode is reinforced, however many rows the trajectories of
\* its group have, whichever of them were copied and whichever came first and got
\* the hindsight reward.  In a group with two arms the skill arm must not exceed
\* the other by more than 1 / lambda-: the penalties of a larger one can outweigh
\* the rewards of the group.
LostNotReinforced ==
  OnlySuccess =>
    \A i \in DOMAIN rows :
      LET g == rows[i].uid
      IN  /\ ~rows[i].success
          /\ Size(g, FALSE) = 0 \/ 3 * Size(g, TRUE) <= 10 * Size(g, FALSE)
          => rows[i].adv <= 0

\* No step of a won episode is discouraged, in the same sense: the hindsight
\* reward that others of its group get on top of theirs declines in time.  With
\* arms whose product is at most 20, as in every group of up to nine, an arm that
\* does better at all does so by enough for lambda+ to be 0.
WonNotDiscouraged ==
  OnlySuccess =>
    \A i \in DOMAIN rows :
      LET g == rows[i].uid
      IN  rows[i].success /\ Size(g, TRUE) * Size(g, FALSE) <= 20 => rows[i].adv >= 0

\* apply_ahsr's docstring (ray_trainer.py:213-216): per skill-arm trajectory i,
\* R_tilde_i = R_i + R_int_i.  Every row of the trajectory gets the same.
IntrinsicPerTrajectory ==
  \A i, j \in DOMAIN rows :
    rows[i].traj = rows[j].traj => rows[i].intrinsic = rows[j].intrinsic
=============================================================================
