---------------------------- MODULE MCTrainBatch -----------------------------
(***************************************************************************)
(* Small training configurations, each for a case of its own.              *)
(***************************************************************************)
EXTENDS TrainBatch

Base == [groups |-> 1, n |-> 2, percent |-> 50, turns |-> 2, workers |-> 2,
         divisor |-> 2, dynamic |-> FALSE, penalty |-> FALSE, ahsr |-> TRUE,
         gigpo |-> FALSE]

\* A group of three on two workers: the rollout is padded, arms of two and one.
OddGroup   == [Base EXCEPT !.n = 3]
\* Two arms of two: the no-skill arm may win and lose.
EvenGroup  == [Base EXCEPT !.n = 4, !.turns = 1]
\* Arms of three and one, the most uneven whose lost episodes are not reinforced:
\* the single trajectory without skills may win in one turn, the others lose in two.
UnevenGroup == [Base EXCEPT !.n = 4, !.percent = 75, !.workers = 1, !.divisor = 1]
\* Two tasks; a quarter of two rounds to zero and is raised to one.
TwoTasks   == [Base EXCEPT !.groups = 2, !.turns = 1, !.divisor = 4, !.percent = 25]
\* One trajectory per task, so no other arm, and more workers than
\* environments: padding goes round, and one row is too few to copy two.
FewRows    == [Base EXCEPT !.n = 1, !.workers = 3, !.divisor = 3,
                              !.gigpo = TRUE]
\* No arms, but penalties; up to two of two rows are copied; step returns.
NoSplit    == [Base EXCEPT !.percent = -1, !.penalty = TRUE, !.divisor = 4,
                              !.gigpo = TRUE]
\* Dynamic sampling.
Resampling == [Base EXCEPT !.turns = 1, !.dynamic = TRUE]

AllSetups == {OddGroup, EvenGroup, UnevenGroup, TwoTasks, FewRows, NoSplit, Resampling}
OneGroup  == {Base}
=============================================================================
