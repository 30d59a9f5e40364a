----------------------------- MODULE HybridEngine -----------------------------
(***************************************************************************)
(* The workers that hold the policy (ActorRolloutRefWorker with FSDP and   *)
(* vLLM).  One process per GPU trains and generates in turn: it holds a    *)
(* shard of the parameters and of the optimizer, which may be offloaded    *)
(* between calls, and an inference engine that sleeps while training.  To  *)
(* generate, all workers load the parameters into their engines, the ranks *)
(* of a tensor-parallel group gather their rows and sample in lockstep,    *)
(* and each returns its own part.                                          *)
(*                                                                         *)
(* The driver makes one call at a time on all workers and waits for all of *)
(* them, but is woken by the first that raises.  Workers take their calls  *)
(* in order, each at its own pace; collectives wait for their ranks.       *)
(*                                                                         *)
(* Parameters are the number of updates they went through, a row is the    *)
(* number of its prompt, and the state of a random generator is its stream *)
(* and how often it was used.                                              *)
(***************************************************************************)
EXTENDS Integers, Sequences

CONSTANTS
  World,          \* number of workers
  TP,             \* rollout.tensor_model_parallel_size
  Rows,           \* rows of a call per worker, after padding
  ParamOffload,   \* values of fsdp_config.param_offload explored
  OptimOffload,   \* values of fsdp_config.optimizer_offload explored
  MaxCalls,       \* bound: calls of the driver
  MaxTurns,       \* bound: calls of a multi-turn rollout
  MaxFailures     \* bound: generate calls that raise in a group

ASSUME SizesAssumption ==
  /\ {World, TP, Rows} \subseteq Nat \ {0} /\ World % TP = 0
  /\ {MaxCalls, MaxTurns, MaxFailures} \subseteq Nat
ASSUME OffloadAssumption ==
  ParamOffload \subseteq BOOLEAN /\ OptimOffload \subseteq BOOLEAN

Ranks  == 0..(World - 1)
Dp(r)  == r \div TP
Tp(r)  == r % TP
Groups == 0..((World \div TP) - 1)
Group(g) == {r \in Ranks : Dp(r) = g}

VARIABLES
  offload, \* [param, optim]: what this run offloads
  stage,   \* what the driver is at
  training, \* the first training step has begun
  turn,    \* calls made in this stage
  id,      \* number of the latest call
  waiting, \* the driver is in a call
  batch,   \* how the answers of this training step were made
  scored,  \* how their old_log_probs were made
  failed,  \* generate calls that raised in a group
  calls,   \* per rank: calls to execute, oldest first
  at,      \* per rank: where it is in a call
  rows,    \* per rank: the rows in its hands
  error,   \* per rank: the call is raising
  result,  \* per rank: what its last call returned
  version, \* per rank: updates its shard went through
  param,   \* per rank: where the parameters are
  optim,   \* per rank: where the optimizer's state is
  engine,  \* per rank: [awake, weights, sampling] of the inference engine
  rng,     \* per rank: [now, train, gen] states of the device's generator
  drawn    \* per rank: how often it has sampled (history)

driver == <<stage, training, turn, id, waiting, batch, scored>>
shard  == <<version, param, optim>>
vars == <<offload, driver, failed, calls, at, rows, error, result, shard,
          engine, rng, drawn>>

Modes  == {"train", "val"}
Places == {"idle", "sync", "gather", "sample", "leave", "compute", "finish"}
Rollouts == {"rollout", "replay", "fallback", "validate"}
Stages == Rollouts \cup {"load", "score", "learn", "save"}

\* What an answer or a score was made with; a row of a call, and its prompt.
By(weights, sampling) == [weights |-> weights, sampling |-> sampling]
Nobody == By({}, "none")
Chunk(r) == [k \in 1..Rows |-> [prompt |-> r * Rows + k, by |-> Nobody]]
Stream(kind, seed, used) == [kind |-> kind, seed |-> seed, used |-> used]
Used(s) == [s EXCEPT !.used = @ + 1]

\* Mutant of GenSeed: each rank has a seed of its own.
GenSeedOfRank(r) == r + 1000

GenSeed(r) == Dp(r) + 1000

\* init_model; a resumed run begins with load_checkpoint.
Init ==
  /\ offload \in [param : ParamOffload, optim : OptimOffload]
  /\ stage \in {"load", "validate", "rollout"}
  /\ training = (stage = "rollout")
  /\ turn = 0 /\ id = 0 /\ waiting = FALSE
  /\ batch = {} /\ scored = {} /\ failed = 0
  /\ calls = [r \in Ranks |-> <<>>]
  /\ at = [r \in Ranks |-> "idle"]
  /\ rows = [r \in Ranks |-> <<>>]
  /\ error = [r \in Ranks |-> FALSE]
  /\ result = [r \in Ranks |-> [id |-> 0, ok |-> TRUE, rows |-> <<>>]]
  /\ version = [r \in Ranks |-> 0]
  /\ param = [r \in Ranks |-> IF offload.param THEN "cpu" ELSE "gpu"]
  /\ optim = [r \in Ranks |-> "empty"]
  /\ engine = [r \in Ranks |->
                 [awake |-> FALSE, weights |-> {}, sampling |-> "train"]]
  /\ rng = [r \in Ranks |-> [now   |-> Stream("train", r, 0),
                             train |-> Stream("train", r, 0),
                             gen   |-> Stream("gen", GenSeed(r), 0)]]
  /\ drawn = [r \in Ranks |-> 0]

-----------------------------------------------------------------------------
(* The driver *)

\* A call on every worker; with it goes the worker's part of the rows.
Call ==
  /\ stage \in Stages /\ ~waiting
  /\ id' = id + 1 /\ turn' = turn + 1 /\ waiting' = TRUE
  /\ calls' = [r \in Ranks |-> Append(calls[r], [id |-> id', op |-> stage])]
  /\ UNCHANGED <<offload, stage, training, batch, scored, failed, at, rows, error,
                 result, shard, engine, rng, drawn>>

\* What fit does after a stage.
Follows(s) ==
  CASE s = "load"     -> {"validate", "rollout"}
    [] s = "rollout"  -> {"score"}
    [] s = "score"    -> {"learn", "replay", "fallback", "validate", "save",
                          "rollout"}
    [] s = "learn"    -> {"replay", "fallback", "validate", "save", "rollout"}
    [] s = "replay"   -> {"fallback", "validate", "save", "rollout"}
    [] s = "fallback" -> {"validate", "save", "rollout"}
    [] s = "validate" -> IF training THEN {"save", "rollout"} ELSE {"rollout"}
    [] s = "save"     -> {"rollout"}

Enter(s) ==
  /\ stage' = IF id < MaxCalls THEN s ELSE "done"
  /\ training' = (training \/ s = "rollout")
  /\ turn' = 0

Made == {result[r].rows[k].by : r \in Ranks, k \in 1..Rows}

Answered == \A r \in Ranks : result[r].id = id /\ result[r].ok

\* ray.get returns the results of all workers.
Return ==
  /\ waiting /\ Answered
  /\ waiting' = FALSE
  /\ batch' = IF stage # "rollout" THEN batch
              ELSE Made \cup (IF turn = 1 THEN {} ELSE batch)
  /\ scored' = IF stage = "score" THEN Made ELSE scored
  /\ \/ /\ stage \in Rollouts /\ turn < MaxTurns /\ id < MaxCalls
        /\ UNCHANGED <<stage, training, turn>>
     \/ \E s \in Follows(stage) : Enter(s)
  /\ UNCHANGED <<offload, id, failed, calls, at, rows, error, result, shard,
                 engine, rng, drawn>>

\* ray.get raises as soon as one worker has, the others may still be at work.
\* Verification swallows it and goes on; anywhere else it ends the run.
Raise ==
  /\ waiting /\ \E r \in Ranks : result[r].id = id /\ ~result[r].ok
  /\ waiting' = FALSE
  /\ \/ stage \in {"replay", "fallback"} /\ \E s \in Follows(stage) : Enter(s)
     \/ /\ stage \notin {"replay", "fallback"}
        /\ stage' = "dead" /\ UNCHANGED <<training, turn>>
  /\ UNCHANGED <<offload, id, batch, scored, failed, calls, at, rows, error,
                 result, shard, engine, rng, drawn>>

-----------------------------------------------------------------------------
(* The workers *)

Op(r) == Head(calls[r]).op

\* Mutant of Unloaded: what was loaded stays on the device.
StaysLoaded(r) == param[r]

Unloaded(r) == IF offload.param THEN "cpu" ELSE param[r]

\* Mutant of Begin: the call is taken off the queue when it begins.
BeginPops(r) ==
  /\ stage # "dead" /\ at[r] = "idle" /\ calls[r] # <<>>
  /\ at' = [at EXCEPT ![r] = IF Op(r) \in Rollouts THEN "sync" ELSE "compute"]
  /\ calls' = [calls EXCEPT ![r] = Tail(@)]
  /\ rows' = [rows EXCEPT ![r] = Chunk(r)]
  /\ param' = [param EXCEPT ![r] = "gpu"]
  /\ optim' = [optim EXCEPT ![r] =
                 IF Op(r) = "learn" /\ @ = "cpu" THEN "gpu" ELSE @]
  /\ UNCHANGED <<offload, driver, failed, error, result, version, engine, rng,
                 drawn>>

\* A worker takes its next call.  Every call loads the parameters, an update
\* the optimizer's state too, of which there is none before the first update.
Begin(r) ==
  /\ stage # "dead" /\ at[r] = "idle" /\ calls[r] # <<>>
  /\ at' = [at EXCEPT ![r] = IF Op(r) \in Rollouts THEN "sync" ELSE "compute"]
  /\ rows' = [rows EXCEPT ![r] = Chunk(r)]
  /\ param' = [param EXCEPT ![r] = "gpu"]
  /\ optim' = [optim EXCEPT ![r] =
                 IF Op(r) = "learn" /\ @ = "cpu" THEN "gpu" ELSE @]
  /\ UNCHANGED <<offload, driver, failed, calls, error, result, version,
                 engine, rng, drawn>>

\* Mutant of Weights: the engine loads parameters only once.
WeightsOnce(r) ==
  IF engine[r].weights = {} THEN {version[q] : q \in Ranks}
  ELSE engine[r].weights

\* The parameters put together from the shards of all ranks.
Weights(r) == {version[q] : q \in Ranks}

\* The sharding manager's __enter__: the engines wake up and load the
\* parameters of all ranks; then each rank offloads its shard and changes to
\* the random state of its group.
Sync ==
  /\ stage # "dead" /\ \A r \in Ranks : at[r] = "sync"
  /\ at' = [r \in Ranks |-> "gather"]
  /\ engine' = [r \in Ranks |->
                  [engine[r] EXCEPT !.awake = TRUE, !.weights = Weights(r)]]
  /\ param' = [r \in Ranks |-> Unloaded(r)]
  /\ rng' = [r \in Ranks |->
               [rng[r] EXCEPT !.train = rng[r].now, !.now = rng[r].gen]]
  /\ UNCHANGED <<offload, driver, failed, calls, rows, error, result, version,
                 optim, drawn>>

\* preprocess_data: each rank of the group gets the rows of all its ranks.
Gather(g) ==
  /\ stage # "dead" /\ \A r \in Group(g) : at[r] = "gather"
  /\ at' = [r \in Ranks |-> IF Dp(r) = g THEN "sample" ELSE at[r]]
  /\ rows' = [r \in Ranks |->
                IF Dp(r) # g THEN rows[r]
                ELSE [k \in 1..(TP * Rows) |->
                        rows[g * TP + ((k - 1) \div Rows)][1 + ((k - 1) % Rows)]]]
  /\ UNCHANGED <<offload, driver, failed, calls, error, result, shard, engine,
                 rng, drawn>>

\* Mutant of Part: the part of the group, not of the rank in the group.
PartOfGroup(r) == [k \in 1..Rows |-> (Dp(r) % TP) * Rows + k]

\* postprocess_data: which of the group's rows a rank returns.
Part(r) == [k \in 1..Rows |-> Tp(r) * Rows + k]

\* The sampling parameters of a call: validation brings its own.
Sampling(r) == IF Op(r) = "rollout" THEN engine[r].sampling ELSE "val"

Draw(g) ==
  /\ rng' = [r \in Ranks |-> IF Dp(r) # g THEN rng[r]
                              ELSE [rng[r] EXCEPT !.now = Used(@)]]
  /\ drawn' = [r \in Ranks |-> IF Dp(r) # g THEN drawn[r] ELSE drawn[r] + 1]

\* The engine samples an answer to every row with the parameters of the call,
\* puts back those it found, and each rank keeps its part.
Sample(g) ==
  /\ stage # "dead" /\ \A r \in Group(g) : at[r] = "sample"
  /\ at' = [r \in Ranks |-> IF Dp(r) = g THEN "leave" ELSE at[r]]
  /\ rows' = [r \in Ranks |->
                IF Dp(r) # g THEN rows[r]
                ELSE [k \in 1..Rows |->
                        [rows[r][Part(r)[k]] EXCEPT
                           !.by = By(engine[r].weights, Sampling(r))]]]
  /\ Draw(g)
  /\ UNCHANGED <<offload, driver, failed, calls, error, result, shard, engine>>

\* Generation raises, on all ranks of a group alike, before or after the first
\* draw.  update_sampling_params has no try: the parameters of this call stay.
SampleFails(g) ==
  /\ stage # "dead" /\ \A r \in Group(g) : at[r] = "sample"
  /\ failed < MaxFailures /\ failed' = failed + 1
  /\ at' = [r \in Ranks |-> IF Dp(r) = g THEN "leave" ELSE at[r]]
  /\ error' = [r \in Ranks |-> Dp(r) = g \/ error[r]]
  /\ engine' = [r \in Ranks |->
                  IF Dp(r) # g THEN engine[r]
                  ELSE [engine[r] EXCEPT !.sampling = Sampling(r)]]
  /\ UNCHANGED <<rng, drawn>> \/ Draw(g)
  /\ UNCHANGED <<offload, driver, calls, rows, result, shard>>

Outcome(r) == [id |-> Head(calls[r]).id, ok |-> ~error[r],
               rows |-> IF error[r] THEN <<>> ELSE rows[r]]

Done(r) ==
  /\ at' = [at EXCEPT ![r] = "idle"]
  /\ result' = [result EXCEPT ![r] = Outcome(r)]
  /\ calls' = [calls EXCEPT ![r] = Tail(@)]
  /\ rows' = [rows EXCEPT ![r] = <<>>]
  /\ error' = [error EXCEPT ![r] = FALSE]

\* Mutant of PutBack: only a call that succeeds puts the random states back.
PutBackOnSuccess(r) ==
  rng' = IF error[r] THEN rng
         ELSE [rng EXCEPT ![r].gen = rng[r].now, ![r].now = rng[r].train]

\* Mutant of PutBack: the state generation has reached is not kept.
PutBackForgets(r) == rng' = [rng EXCEPT ![r].now = rng[r].train]

\* The random states change places again.
PutBack(r) ==
  rng' = [rng EXCEPT ![r].gen = rng[r].now, ![r].now = rng[r].train]

\* Mutant of Leave: a worker whose call raised goes on waiting.
LeaveWaits(r) ==
  /\ stage # "dead" /\ at[r] = "leave"
  /\ \/ error[r] /\ UNCHANGED vars
     \/ /\ ~error[r]
        /\ engine' = [engine EXCEPT ![r].awake = FALSE]
        /\ PutBack(r)
        /\ Done(r)
        /\ UNCHANGED <<offload, driver, failed, shard, drawn>>

\* The sharding manager's __exit__, also when generation raised: the engine
\* sleeps and the training random state comes back; the call returns or raises.
Leave(r) ==
  /\ stage # "dead" /\ at[r] = "leave"
  /\ engine' = [engine EXCEPT ![r].awake = FALSE]
  /\ PutBack(r)
  /\ Done(r)
  /\ UNCHANGED <<offload, driver, failed, shard, drawn>>

\* A pass through the sharded model, on all ranks together.  A checkpoint that
\* is loaded was saved after one update, with its training random state.
Compute(op) ==
  /\ stage # "dead" /\ \A r \in Ranks : at[r] = "compute" /\ Op(r) = op
  /\ at' = [r \in Ranks |-> "finish"]
  /\ version' = [r \in Ranks |-> CASE op = "learn" -> version[r] + 1
                                   [] op = "load"  -> 1
                                   [] OTHER        -> version[r]]
  /\ optim' = IF op \in {"learn", "load"} THEN [r \in Ranks |-> "gpu"]
              ELSE optim
  /\ rng' = [r \in Ranks |->
               CASE op = "learn" -> [rng[r] EXCEPT !.now = Used(@)]
                 [] op = "load"  -> [rng[r] EXCEPT
                                       !.now = Stream("train", r, 1)]
                 [] OTHER        -> rng[r]]
  /\ rows' = IF op # "score" THEN rows
             ELSE [r \in Ranks |-> [k \in 1..Rows |->
                    [rows[r][k] EXCEPT !.by = By(Weights(r), "train")]]]
  /\ UNCHANGED <<offload, driver, failed, calls, error, result, param, engine,
                 drawn>>

\* What was loaded is offloaded again, and the call returns.
Finish(r) ==
  /\ stage # "dead" /\ at[r] = "finish"
  /\ param' = [param EXCEPT ![r] = Unloaded(r)]
  /\ optim' = [optim EXCEPT ![r] =
                 IF offload.optim /\ Op(r) \in {"learn", "load"} THEN "cpu"
                 ELSE @]
  /\ Done(r)
  /\ UNCHANGED <<offload, driver, failed, version, engine, rng, drawn>>

\* Bound: the steps are over, or the run has died.
Stopped == stage \in {"done", "dead"} /\ UNCHANGED vars

Driver == Call \/ Return \/ Raise
Worker(r) == Begin(r) \/ Leave(r) \/ Finish(r)
Collective ==
  \/ Sync
  \/ \E g \in Groups : Gather(g) \/ Sample(g) \/ SampleFails(g)
  \/ \E op \in Stages : Compute(op)

Next == Driver \/ (\E r \in Ranks : Worker(r)) \/ Collective \/ Stopped

Spec == Init /\ [][Next]_vars

\* The driver waits in ray.get, workers run as they can, and a collective all
\* of whose ranks have arrived is carried out.
FairSpec ==
  /\ Spec
  /\ WF_vars(Driver) /\ WF_vars(Sync)
  /\ \A r \in Ranks : WF_vars(Worker(r))
  /\ \A g \in Groups : WF_vars(Gather(g)) /\ WF_vars(Sample(g) \/ SampleFails(g))
  /\ WF_vars(\E op \in Stages : Compute(op))

-----------------------------------------------------------------------------
(* Properties *)

Streams == [kind : {"train", "gen"}, seed : Nat, used : Nat]
Origins == [weights : SUBSET Nat, sampling : Modes \cup {"none"}]
RowsOf  == [prompt : Nat, by : Origins]

TypeDriver ==
  /\ offload \in [param : BOOLEAN, optim : BOOLEAN]
  /\ stage \in Stages \cup {"done", "dead"}
  /\ training \in BOOLEAN /\ turn \in Nat /\ id \in Nat /\ failed \in Nat
  /\ waiting \in BOOLEAN /\ (waiting => id > 0 /\ stage \in Stages)
  /\ batch \subseteq Origins /\ scored \subseteq Origins

TypeCalls ==
  /\ calls \in [Ranks -> Seq([id : Nat, op : Stages])]
  /\ at \in [Ranks -> Places]
  /\ error \in [Ranks -> BOOLEAN]
  /\ \A r \in Ranks : /\ at[r] # "idle" => calls[r] # <<>>
                      /\ error[r] => at[r] = "leave"

TypeRows ==
  /\ rows = [r \in Ranks |-> rows[r]]
  /\ \A r \in Ranks :
       \/ at[r] = "idle" /\ rows[r] = <<>>
       \/ at[r] \notin {"idle", "sample"} /\ rows[r] \in [1..Rows -> RowsOf]
       \/ /\ at[r] = "sample" \/ error[r]
          /\ rows[r] \in [1..(TP * Rows) -> RowsOf]

TypeResult ==
  /\ result = [r \in Ranks |-> result[r]]
  /\ \A r \in Ranks :
       /\ result[r].id \in Nat /\ result[r].ok \in BOOLEAN
       /\ result[r].ok /\ result[r].id > 0 =>
            result[r].rows \in [1..Rows -> RowsOf]

TypeDevice ==
  /\ version \in [Ranks -> Nat]
  /\ param \in [Ranks -> {"cpu", "gpu"}]
  /\ optim \in [Ranks -> {"empty", "cpu", "gpu"}]
  /\ engine \in [Ranks -> [awake : BOOLEAN, weights : SUBSET Nat,
                           sampling : Modes]]
  /\ rng \in [Ranks -> [now : Streams, train : Streams, gen : Streams]]
  /\ drawn \in [Ranks -> Nat]

\* Every variable keeps its type.  A rank at work has its call at the head of
\* its queue and its own rows or its group's in hand; a call that succeeded
\* returned one row for each that was sent.
TypeOK == TypeDriver /\ TypeCalls /\ TypeRows /\ TypeResult /\ TypeDevice

\* An update (update_actor) uses answers that were generated, and scored, by
\* the very parameters it updates; and unless a generate call has raised, they
\* were sampled the way compute_log_prob assumes, not as in validation.
OnPolicy ==
  \A r \in Ranks : at[r] = "compute" /\ Op(r) = "learn" =>
    /\ scored = {By({version[r]}, "train")}
    /\ \A b \in batch : b.weights = {version[r]}
    /\ failed = 0 => batch = scored

\* When a call returns, the concatenated results are the rows that were sent,
\* in their order: none is missing or from an earlier call, although groups
\* gather, sample and split, and an earlier call may still have been running.
OwnAnswers ==
  waiting /\ Answered => \A r \in Ranks, k \in 1..Rows :
                           result[r].rows[k].prompt = r * Rows + k

\* The ranks of a group sample in lockstep, so they start from one random
\* state; no other group, and no call before, ever started from that state, or
\* the copies of a prompt would get the same answers.
OwnDraws ==
  \A r \in Ranks : at[r] = "sample" =>
    /\ rng[r].now.used >= drawn[r]
    /\ \A q \in Ranks : at[q] = "sample" =>
         (rng[r].now.seed = rng[q].now.seed <=> Dp(r) = Dp(q))
    /\ \A q \in Group(Dp(r)) : at[q] = "sample" /\ rng[q].now = rng[r].now

\* Outside generation the device has its training random state, which only
\* updates advance - also after calls that raised, and in what is checkpointed.
TrainingDraws ==
  \A r \in Ranks : at[r] \notin {"gather", "sample", "leave"} =>
    rng[r].now = Stream("train", r, version[r])

\* Training state and inference engine share the device by taking turns: the
\* engine is awake in generation only, while what is offloaded is away; a pass
\* through the model has its parameters, and an update its optimizer, there.
\* Between calls everything is at rest, also after calls that raised.
TakesTurns ==
  \A r \in Ranks :
    /\ engine[r].awake <=> at[r] \in {"gather", "sample", "leave"}
    /\ at[r] \in {"idle", "gather", "sample", "leave"} =>
         /\ offload.param => param[r] = "cpu"
         /\ offload.optim => optim[r] # "gpu"
    /\ at[r] = "compute" =>
         param[r] = "gpu" /\ (Op(r) = "learn" => optim[r] # "cpu")

\* Every call ends: it returns or raises.  Groups of ranks that are a call
\* apart, after one of them raised, never wait for each other for good.
CallsReturn == waiting ~> ~waiting

=============================================================================
