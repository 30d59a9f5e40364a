-------------------------- MODULE HybridEngineProofs --------------------------
(***************************************************************************)
(* For every number of workers, every tensor-parallel size and every       *)
(* number of calls and failures: types; training state and engine take     *)
(* turns on the device; training keeps its random state; and groups sample *)
(* in lockstep from states of their own.                                   *)
(***************************************************************************)
EXTENDS HybridEngine, SequenceTheorems, TLAPS

-----------------------------------------------------------------------------
(* Places of rows *)

LEMMA Division ==
  ASSUME NEW a \in Nat, NEW n \in Nat \ {0}
  PROVE  /\ a \div n \in Nat /\ a % n \in 0..(n - 1)
         /\ a = (a \div n) * n + (a % n)
  BY SizesAssumption, Z3

\* A row of a group comes from a row of one of its ranks.
LEMMA GatherPlace ==
  ASSUME NEW g \in Groups, NEW k \in 1..(TP * Rows)
  PROVE  /\ g * TP + ((k - 1) \div Rows) \in Ranks
         /\ Dp(g * TP + ((k - 1) \div Rows)) = g
         /\ 1 + ((k - 1) % Rows) \in 1..Rows
  <1> DEFINE q == (k - 1) \div Rows
             m == World \div TP
  <1>0. World \in Nat /\ TP \in Nat \ {0} /\ Rows \in Nat \ {0} /\ g \in Nat
    BY SizesAssumption DEF Groups
  <1>1. TP * Rows \in Nat /\ k - 1 \in Nat /\ k - 1 < TP * Rows
    BY <1>0, Z3
  <1>2. q \in Nat /\ (k - 1) % Rows \in 0..(Rows - 1)
        /\ k - 1 = q * Rows + ((k - 1) % Rows)
    BY <1>0, <1>1, Division
  <1>3. m \in Nat /\ World = m * TP + (World % TP) /\ World % TP \in 0..(TP - 1)
    BY <1>0, Division
  <1>4. World = m * TP
    BY <1>0, <1>3, SizesAssumption
  <1>5. g < m
    BY <1>3 DEF Groups
  <1> HIDE DEF q, m
  <1>6. q < TP
    <2> SUFFICES ASSUME q >= TP PROVE FALSE
      BY <1>0, <1>2
    <2>1. q * Rows >= TP * Rows
      BY <1>0, <1>2, Z3
    <2> QED BY <2>1, <1>0, <1>1, <1>2, Z3
  <1>7. g * TP + q \in Nat /\ g * TP + q < World
    <2>1. (g + 1) * TP <= m * TP
      BY <1>0, <1>3, <1>5, Z3
    <2>2. (g + 1) * TP = g * TP + TP
      BY <1>0, Z3
    <2> QED BY <2>1, <2>2, <1>0, <1>2, <1>4, <1>6, Z3
  <1>8. (g * TP + q) \div TP = g
    <2> DEFINE a == g * TP + q
               b == a \div TP
    <2>1. b \in Nat /\ a = b * TP + (a % TP) /\ a % TP \in 0..(TP - 1)
      BY <1>0, <1>7, Division
    <2>2. a = g * TP + q
      OBVIOUS
    <2> HIDE DEF a, b
    <2>3. b < g => b * TP + TP <= g * TP
      BY <1>0, <2>1, Z3
    <2>4. g < b => g * TP + TP <= b * TP
      BY <1>0, <2>1, Z3
    <2>5. b * TP \in Nat /\ g * TP \in Nat
      BY <1>0, <2>1, Z3
    <2>6. b = g
      BY <1>0, <1>2, <1>6, <2>1, <2>2, <2>3, <2>4, <2>5
    <2> QED BY <2>6 DEF a, b
  <1> QED BY <1>0, <1>2, <1>7, <1>8 DEF Ranks, Dp, q

\* A rank's part is one of its group's rows.
LEMMA PartPlace ==
  ASSUME NEW r \in Ranks, NEW k \in 1..Rows
  PROVE  Part(r)[k] \in 1..(TP * Rows)
  <1> DEFINE t == r % TP
  <1>0. TP \in Nat \ {0} /\ Rows \in Nat \ {0} /\ r \in Nat
    BY SizesAssumption DEF Ranks
  <1>1. t \in 0..(TP - 1)
    BY <1>0, Division
  <1>2. Part(r)[k] = t * Rows + k
    BY DEF Part, Tp
  <1> HIDE DEF t
  <1>3. (t + 1) * Rows <= TP * Rows /\ (t + 1) * Rows = t * Rows + Rows
        /\ t * Rows \in Nat
    BY <1>0, <1>1, Z3
  <1> QED BY <1>0, <1>2, <1>3

-----------------------------------------------------------------------------
(* Types *)

LEMMA ChunkType ==
  ASSUME NEW r \in Ranks
  PROVE  Chunk(r) \in [1..Rows -> RowsOf]
  <1>1. \A k \in 1..Rows : r * Rows + k \in Nat
    BY SizesAssumption, Z3 DEF Ranks
  <1> QED BY <1>1 DEF Chunk, RowsOf, Origins, Nobody, By

LEMMA QueueType ==
  ASSUME NEW S, NEW q \in Seq(S), NEW e \in S
  PROVE  /\ Append(q, e) \in Seq(S) /\ Append(q, e) # <<>>
         /\ q # <<>> => /\ Head(q) \in S /\ Tail(q) \in Seq(S)
                        /\ Head(Append(q, e)) = Head(q)
  BY AppendProperties, HeadTailProperties, HeadTailAppend

LEMMA HeadType ==
  ASSUME TypeCalls, NEW r \in Ranks, calls[r] # <<>>
  PROVE  /\ Head(calls[r]).id \in Nat /\ Op(r) \in Stages
         /\ Tail(calls[r]) \in Seq([id : Nat, op : Stages])
  <1>1. calls[r] \in Seq([id : Nat, op : Stages])
    BY DEF TypeCalls
  <1>2. /\ Head(calls[r]) \in [id : Nat, op : Stages]
        /\ Tail(calls[r]) \in Seq([id : Nat, op : Stages])
    BY <1>1, HeadTailProperties
  <1> QED BY <1>2 DEF Op

\* The end of a call, with or without an exception.
LEMMA DoneTypes ==
  ASSUME TypeCalls, TypeRows, TypeResult,
         NEW r \in Ranks, at[r] \in {"leave", "finish"}, Done(r)
  PROVE  TypeCalls' /\ TypeRows' /\ TypeResult'
  <1>1. /\ Head(calls[r]).id \in Nat /\ Tail(calls[r]) \in Seq([id : Nat, op : Stages])
    BY HeadType DEF TypeCalls
  <1>2. TypeCalls'
    BY <1>1 DEF TypeCalls, Done, Places
  <1>3. TypeRows'
    BY DEF TypeRows, TypeCalls, Done
  <1>4. ~error[r] => rows[r] \in [1..Rows -> RowsOf]
    BY DEF TypeRows
  <1>5. /\ Outcome(r).id \in Nat /\ Outcome(r).ok \in BOOLEAN
        /\ Outcome(r).ok => Outcome(r).rows \in [1..Rows -> RowsOf]
    BY <1>1, <1>4 DEF Outcome, TypeCalls
  <1>6. TypeResult'
    BY <1>5 DEF TypeResult, Done
  <1> QED BY <1>2, <1>3, <1>6

LEMMA MadeType ==
  ASSUME TypeDriver, TypeResult, waiting, Answered
  PROVE  Made \subseteq Origins
  <1>1. \A r \in Ranks : result[r].rows \in [1..Rows -> RowsOf]
    BY DEF TypeDriver, TypeResult, Answered
  <1>2. \A r \in Ranks, k \in 1..Rows : result[r].rows[k].by \in Origins
    BY <1>1 DEF RowsOf
  <1> QED BY <1>2 DEF Made

LEMMA FollowsType ==
  ASSUME NEW s \in Stages, NEW t \in Follows(s)
  PROVE  t \in Stages
  BY DEF Follows, Stages, Rollouts

LEMMA DrawType ==
  ASSUME TypeDevice, NEW g \in Groups, Draw(g)
  PROVE  /\ rng' \in [Ranks -> [now : Streams, train : Streams, gen : Streams]]
         /\ drawn' \in [Ranks -> Nat]
  <1>1. ASSUME NEW r \in Ranks
        PROVE  /\ rng'[r] \in [now : Streams, train : Streams, gen : Streams]
               /\ drawn'[r] \in Nat
    <2>1. rng[r] \in [now : Streams, train : Streams, gen : Streams]
      BY DEF TypeDevice
    <2>2. Used(rng[r].now) \in Streams
      BY <2>1 DEF Used, Streams
    <2> QED BY <2>1, <2>2 DEF TypeDevice, Draw
  <1>2. rng' = [r \in Ranks |-> rng'[r]] /\ drawn' = [r \in Ranks |-> drawn'[r]]
    BY DEF Draw
  <1> QED BY <1>1, <1>2

\* The driver goes on to a stage of its program, or ends.
LEMMA EnterType ==
  ASSUME TypeDriver, NEW s \in Stages, Enter(s)
  PROVE  /\ stage' \in Stages \cup {"done"} /\ turn' \in Nat
         /\ training' \in BOOLEAN
  BY DEF Enter, TypeDriver

LEMMA TypeInit == Init => TypeOK
  <1> SUFFICES ASSUME Init PROVE TypeOK
    OBVIOUS
  <1>1. ASSUME NEW r \in Ranks PROVE r \in Nat /\ GenSeed(r) \in Nat
    <2>1. r \in Nat /\ TP \in Nat \ {0}
      BY SizesAssumption DEF Ranks
    <2>2. r \div TP \in Nat
      BY <2>1, Division
    <2> QED BY <2>1, <2>2 DEF GenSeed, Dp
  <1>2. TypeDriver
    BY OffloadAssumption DEF Init, TypeDriver, Stages, Rollouts
  <1>3. <<>> \in Seq([id : Nat, op : Stages])
    OBVIOUS
  <1>4. TypeCalls
    BY <1>3 DEF Init, TypeCalls, Places
  <1>5. \A r \in Ranks :
          /\ at[r] = "idle" /\ rows[r] = <<>>
          /\ result[r] = [id |-> 0, ok |-> TRUE, rows |-> <<>>]
    BY DEF Init
  <1>6. /\ rows = [r \in Ranks |-> rows[r]]
        /\ result = [r \in Ranks |-> result[r]]
    BY <1>5 DEF Init
  <1>7. TypeRows /\ TypeResult
    <2>1. TypeRows
      BY ONLY <1>5, <1>6 DEF TypeRows
    <2>2. ASSUME NEW r \in Ranks
          PROVE  /\ result[r].id = 0 /\ result[r].id \in Nat
                 /\ result[r].ok \in BOOLEAN
      <3>1. result[r] = [id |-> 0, ok |-> TRUE, rows |-> <<>>]
        BY <1>5
      <3>2. ASSUME NEW z
            PROVE  [id |-> 0, ok |-> TRUE, rows |-> z]
                     \in [id : {0}, ok : BOOLEAN, rows : {z}]
        OBVIOUS
      <3>3. result[r] \in [id : {0}, ok : BOOLEAN, rows : {<<>>}]
        BY ONLY <3>1, <3>2
      <3> QED BY ONLY <3>3
    <2>3. \A r \in Ranks : result[r].id = 0 => ~(result[r].id > 0)
      OBVIOUS
    <2>4. TypeResult
      BY ONLY <1>6, <2>2, <2>3, Zenon DEF TypeResult
    <2> QED BY <2>1, <2>4
  <1>8. TypeDevice
    BY <1>1 DEF Init, TypeDevice, Streams, Stream, Modes
  <1> QED BY <1>2, <1>4, <1>7, <1>8 DEF TypeOK

LEMMA TypeNext == TypeOK /\ [Next]_vars => TypeOK'
  <1> SUFFICES ASSUME TypeOK, [Next]_vars PROVE TypeOK'
    OBVIOUS
  <1> USE DEF TypeOK, driver, shard
  <1>1. CASE Call
    <2>1. TypeDriver'
      BY <1>1 DEF Call, TypeDriver
    <2>2. [id |-> id', op |-> stage] \in [id : Nat, op : Stages]
      BY <1>1 DEF Call, TypeDriver
    <2>3. ASSUME NEW r \in Ranks
          PROVE  /\ calls'[r] \in Seq([id : Nat, op : Stages])
                 /\ calls'[r] # <<>>
      <3>1. calls[r] \in Seq([id : Nat, op : Stages])
        BY DEF TypeCalls
      <3>2. calls'[r] = Append(calls[r], [id |-> id', op |-> stage])
        BY <1>1 DEF Call
      <3> QED BY <2>2, <3>1, <3>2, QueueType
    <2>4. TypeCalls'
      BY <1>1, <2>3 DEF Call, TypeCalls
    <2> QED BY <1>1, <2>1, <2>4 DEF Call, TypeRows, TypeResult, TypeDevice
  <1>2. CASE Return
    <2>1. Made \subseteq Origins
      BY <1>2, MadeType DEF Return
    <2>2. stage \in Stages /\ turn \in Nat /\ training \in BOOLEAN
      BY <1>2 DEF Return, TypeDriver
    <2>3. /\ stage' \in Stages \cup {"done"} /\ turn' \in Nat
          /\ training' \in BOOLEAN
      <3>1. CASE UNCHANGED <<stage, training, turn>>
        BY <2>2, <3>1
      <3>2. ASSUME NEW s \in Follows(stage), Enter(s)
            PROVE  /\ stage' \in Stages \cup {"done"} /\ turn' \in Nat
                   /\ training' \in BOOLEAN
        BY <2>2, <3>2, FollowsType, EnterType
      <3> QED BY <1>2, <3>1, <3>2 DEF Return
    <2>4. TypeDriver'
      BY <1>2, <2>1, <2>3 DEF Return, TypeDriver
    <2> QED BY <1>2, <2>4 DEF Return, TypeCalls, TypeRows, TypeResult, TypeDevice
  <1>3. CASE Raise
    <2>1. stage \in Stages /\ turn \in Nat /\ training \in BOOLEAN
      BY <1>3 DEF Raise, TypeDriver
    <2>2. /\ stage' \in Stages \cup {"done", "dead"} /\ turn' \in Nat
          /\ training' \in BOOLEAN
      <3>1. ASSUME NEW s \in Stages, Enter(s)
            PROVE  /\ stage' \in Stages \cup {"done"} /\ turn' \in Nat
                   /\ training' \in BOOLEAN
        BY <3>1, EnterType
      <3>2. CASE \E s \in Follows(stage) : Enter(s)
        BY <2>1, <3>1, <3>2, FollowsType
      <3>3. CASE stage' = "dead" /\ UNCHANGED <<training, turn>>
        BY <2>1, <3>3
      <3> QED BY <1>3, <3>2, <3>3 DEF Raise
    <2>3. TypeDriver'
      BY <1>3, <2>2 DEF Raise, TypeDriver
    <2> QED BY <1>3, <2>3 DEF Raise, TypeCalls, TypeRows, TypeResult, TypeDevice
  <1>4. ASSUME NEW r \in Ranks, Begin(r) PROVE TypeOK'
    <2>1. TypeCalls'
      BY <1>4 DEF Begin, TypeCalls, Places
    <2>2. TypeRows'
      BY <1>4, ChunkType DEF Begin, TypeRows, TypeCalls
    <2>3. TypeDevice'
      BY <1>4 DEF Begin, TypeDevice
    <2> QED BY <1>4, <2>1, <2>2, <2>3 DEF Begin, TypeDriver, TypeResult
  <1>5. ASSUME NEW r \in Ranks, Leave(r) PROVE TypeOK'
    <2>1. TypeCalls' /\ TypeRows' /\ TypeResult'
      BY <1>5, DoneTypes DEF Leave
    <2>2. TypeDevice'
      BY <1>5 DEF Leave, PutBack, TypeDevice
    <2> QED BY <1>5, <2>1, <2>2 DEF Leave, TypeDriver
  <1>6. ASSUME NEW r \in Ranks, Finish(r) PROVE TypeOK'
    <2>1. TypeCalls' /\ TypeRows' /\ TypeResult'
      BY <1>6, DoneTypes DEF Finish
    <2>2. TypeDevice'
      BY <1>6 DEF Finish, Unloaded, TypeDevice
    <2> QED BY <1>6, <2>1, <2>2 DEF Finish, TypeDriver
  <1>7. CASE Sync
    <2>1. TypeCalls'
      BY <1>7 DEF Sync, TypeCalls, Places
    <2>2. TypeRows'
      BY <1>7 DEF Sync, TypeRows, TypeCalls
    <2>3. \A r \in Ranks : Weights(r) \subseteq Nat /\ Unloaded(r) \in {"cpu", "gpu"}
      BY DEF Weights, Unloaded, TypeDevice
    <2>4. TypeDevice'
      BY <1>7, <2>3 DEF Sync, TypeDevice
    <2> QED BY <1>7, <2>1, <2>2, <2>4 DEF Sync, TypeDriver, TypeResult
  <1>8. ASSUME NEW g \in Groups, Gather(g) PROVE TypeOK'
    <2>1. TypeCalls'
      BY <1>8 DEF Gather, Group, TypeCalls, Places
    <2>2. ASSUME NEW r \in Ranks, Dp(r) = g
          PROVE  rows'[r] \in [1..(TP * Rows) -> RowsOf]
      <3>1. ASSUME NEW q \in Ranks, Dp(q) = g
            PROVE  rows[q] \in [1..Rows -> RowsOf]
        BY <1>8, <3>1 DEF Gather, Group, TypeRows, TypeCalls
      <3>2. ASSUME NEW k \in 1..(TP * Rows)
            PROVE  rows[g * TP + ((k - 1) \div Rows)][1 + ((k - 1) % Rows)] \in RowsOf
        <4> QED BY <3>1, GatherPlace
      <3> QED BY <1>8, <2>2, <3>2 DEF Gather
    <2>3. TypeRows'
      BY <1>8, <2>2 DEF Gather, TypeRows, TypeCalls
    <2> QED BY <1>8, <2>1, <2>3 DEF Gather, TypeDriver, TypeResult, TypeDevice
  <1>9. ASSUME NEW g \in Groups, Sample(g) PROVE TypeOK'
    <2>1. TypeCalls'
      BY <1>9 DEF Sample, Group, TypeCalls, Places
    <2>2. ASSUME NEW r \in Ranks, Dp(r) = g
          PROVE  rows'[r] \in [1..Rows -> RowsOf]
      <3>1. at[r] = "sample" /\ rows[r] \in [1..(TP * Rows) -> RowsOf]
        BY <1>9, <2>2 DEF Sample, Group, TypeRows, TypeCalls
      <3>2. By(engine[r].weights, Sampling(r)) \in Origins
        BY DEF By, Sampling, Origins, Modes, TypeDevice
      <3>3. ASSUME NEW k \in 1..Rows
            PROVE  [rows[r][Part(r)[k]] EXCEPT
                      !.by = By(engine[r].weights, Sampling(r))] \in RowsOf
        <4>1. rows[r][Part(r)[k]] \in RowsOf
          BY <3>1, PartPlace
        <4> QED BY <3>2, <4>1 DEF RowsOf
      <3> QED BY <1>9, <2>2, <3>3 DEF Sample
    <2>3. TypeRows'
      BY <1>9, <2>2 DEF Sample, TypeRows, TypeCalls
    <2>4. TypeDevice'
      BY <1>9, DrawType DEF Sample, TypeDevice
    <2> QED BY <1>9, <2>1, <2>3, <2>4 DEF Sample, TypeDriver, TypeResult
  <1>10. ASSUME NEW g \in Groups, SampleFails(g) PROVE TypeOK'
    <2>1. TypeDriver'
      BY <1>10 DEF SampleFails, TypeDriver
    <2>2. TypeCalls'
      BY <1>10 DEF SampleFails, Group, TypeCalls, Places
    <2>3. TypeRows'
      BY <1>10 DEF SampleFails, Group, TypeRows, TypeCalls
    <2>4. \A r \in Ranks : Sampling(r) \in Modes
      BY DEF Sampling, Modes, TypeDevice
    <2>5. engine' \in [Ranks -> [awake : BOOLEAN, weights : SUBSET Nat,
                                 sampling : Modes]]
      BY <1>10, <2>4 DEF SampleFails, TypeDevice
    <2>6. rng' \in [Ranks -> [now : Streams, train : Streams, gen : Streams]]
          /\ drawn' \in [Ranks -> Nat]
      <3>1. CASE UNCHANGED <<rng, drawn>>
        BY <3>1 DEF TypeDevice
      <3>2. CASE Draw(g)
        BY <3>2, DrawType
      <3> QED BY <1>10, <3>1, <3>2 DEF SampleFails
    <2>7. TypeDevice'
      BY <1>10, <2>5, <2>6 DEF SampleFails, TypeDevice
    <2> QED BY <1>10, <2>1, <2>2, <2>3, <2>7 DEF SampleFails, TypeResult
  <1>11. ASSUME NEW op \in Stages, Compute(op) PROVE TypeOK'
    <2>1. TypeCalls'
      BY <1>11 DEF Compute, TypeCalls, Places
    <2>2. ASSUME NEW r \in Ranks
          PROVE  rows'[r] \in [1..Rows -> RowsOf]
      <3>1. rows[r] \in [1..Rows -> RowsOf]
        BY <1>11 DEF Compute, TypeRows, TypeCalls
      <3>2. By(Weights(r), "train") \in Origins
        BY DEF By, Weights, Origins, Modes, TypeDevice
      <3> QED BY <1>11, <3>1, <3>2 DEF Compute, RowsOf
    <2>3. TypeRows'
      BY <1>11, <2>2 DEF Compute, TypeRows
    <2>4. TypeDevice'
      <3>1. version' \in [Ranks -> Nat]
        BY <1>11 DEF Compute, TypeDevice
      <3>2. rng' \in [Ranks -> [now : Streams, train : Streams, gen : Streams]]
        <4>1. ASSUME NEW r \in Ranks
              PROVE  rng'[r] \in [now : Streams, train : Streams, gen : Streams]
          <5>1. rng[r] \in [now : Streams, train : Streams, gen : Streams]
            BY DEF TypeDevice
          <5>2. Used(rng[r].now) \in Streams
            BY <5>1 DEF Used, Streams
          <5>3. Stream("train", r, 1) \in Streams
            BY SizesAssumption DEF Stream, Streams, Ranks
          <5> QED BY <1>11, <5>1, <5>2, <5>3 DEF Compute
        <4>2. rng' = [r \in Ranks |-> rng'[r]]
          BY <1>11 DEF Compute
        <4> QED BY <4>1, <4>2
      <3> QED BY <1>11, <3>1, <3>2 DEF Compute, TypeDevice
    <2> QED BY <1>11, <2>1, <2>3, <2>4 DEF Compute, TypeDriver, TypeResult
  <1>12. CASE UNCHANGED vars
    BY <1>12 DEF vars, TypeDriver, TypeCalls, TypeRows, TypeResult, TypeDevice
  <1> QED BY <1>1, <1>2, <1>3, <1>4, <1>5, <1>6, <1>7, <1>8, <1>9, <1>10,
             <1>11, <1>12
          DEF Next, Driver, Worker, Collective, Stopped

\* Every variable has its type: a call that succeeds returns its rows.
THEOREM TypeCorrect == Spec => []TypeOK
  BY TypeInit, TypeNext, PTL DEF Spec

-----------------------------------------------------------------------------
(* Taking turns *)

InGeneration(r) == at[r] \in {"gather", "sample", "leave"}

\* TakesTurns, and what is loaded on the way from one call to the next.
TurnInv ==
  \A r \in Ranks :
    /\ engine[r].awake <=> InGeneration(r)
    /\ at[r] = "idle" \/ InGeneration(r) =>
         (offload.param => param[r] = "cpu")
    /\ at[r] \in {"sync", "compute", "finish"} => param[r] = "gpu"
    /\ \/ at[r] \in {"idle", "sync"}
       \/ InGeneration(r)
       \/ at[r] = "compute" /\ Op(r) # "learn"
       \/ at[r] = "finish" /\ Op(r) \notin {"learn", "load"}
       => (offload.optim => optim[r] # "gpu")
    /\ at[r] = "compute" /\ Op(r) = "learn" => optim[r] # "cpu"

\* A call that is added to the queue of a rank at work waits.
LEMMA OpStays ==
  ASSUME TypeOK, Call, NEW r \in Ranks, at[r] # "idle"
  PROVE  Op(r)' = Op(r)
  <1>1. calls[r] \in Seq([id : Nat, op : Stages]) /\ calls[r] # <<>>
    BY DEF TypeOK, TypeCalls
  <1>2. [id |-> id', op |-> stage] \in [id : Nat, op : Stages]
    BY DEF Call, TypeOK, TypeDriver
  <1>3. Head(Append(calls[r], [id |-> id', op |-> stage])) = Head(calls[r])
    BY <1>1, <1>2, QueueType
  <1>4. calls'[r] = Append(calls[r], [id |-> id', op |-> stage])
    BY DEF Call
  <1> QED BY <1>3, <1>4 DEF Op

LEMMA TurnInit == Init => TurnInv
  <1> SUFFICES ASSUME Init PROVE TurnInv
    OBVIOUS
  <1> QED BY DEF Init, TurnInv, InGeneration

LEMMA TurnNext == TypeOK /\ TurnInv /\ [Next]_vars => TurnInv'
  <1> SUFFICES ASSUME TypeOK, TurnInv, [Next]_vars PROVE TurnInv'
    OBVIOUS
  <1>0. /\ at \in [Ranks -> Places]
        /\ offload \in [param : BOOLEAN, optim : BOOLEAN]
        /\ param \in [Ranks -> {"cpu", "gpu"}]
        /\ optim \in [Ranks -> {"empty", "cpu", "gpu"}]
        /\ engine \in [Ranks -> [awake : BOOLEAN, weights : SUBSET Nat,
                                 sampling : Modes]]
    BY DEF TypeOK, TypeDriver, TypeCalls, TypeDevice
  <1> USE DEF driver, shard, InGeneration
  <1>1. CASE Call
    <2>1. ASSUME NEW r \in Ranks PROVE at[r] # "idle" => Op(r)' = Op(r)
      BY <1>1, OpStays
    <2> QED BY <1>1, <2>1 DEF Call, TurnInv
  <1>2. CASE Return
    BY <1>2 DEF Return, TurnInv, Op
  <1>3. CASE Raise
    BY <1>3 DEF Raise, TurnInv, Op
  <1>4. ASSUME NEW r \in Ranks, Begin(r) PROVE TurnInv'
    BY <1>0, <1>4 DEF Begin, Rollouts, TurnInv, Op
  <1>5. ASSUME NEW r \in Ranks, Leave(r) PROVE TurnInv'
    BY <1>0, <1>5 DEF Leave, Done, TurnInv, Op
  <1>6. ASSUME NEW r \in Ranks, Finish(r) PROVE TurnInv'
    BY <1>0, <1>6 DEF Finish, Done, Unloaded, TurnInv, Op
  <1>7. CASE Sync
    <2>1. ASSUME NEW r \in Ranks
          PROVE  /\ at'[r] = "gather" /\ engine'[r].awake
                 /\ offload' = offload /\ optim'[r] = optim[r]
                 /\ offload.param => param'[r] = "cpu"
                 /\ offload.optim => optim[r] # "gpu"
      <3>1. at'[r] = "gather" /\ engine'[r].awake
        BY <1>0, <1>7 DEF Sync
      <3>2. offload' = offload /\ optim' = optim /\ at[r] = "sync"
        BY <1>7 DEF Sync
      <3>3. offload.param => param'[r] = "cpu"
        BY <1>7 DEF Sync, Unloaded
      <3>4. offload.optim => optim[r] # "gpu"
        BY <3>2 DEF TurnInv
      <3> QED BY <3>1, <3>2, <3>3, <3>4
    <2> QED BY <2>1 DEF TurnInv
  <1>8. ASSUME NEW g \in Groups, Gather(g) PROVE TurnInv'
    BY <1>0, <1>8 DEF Gather, Group, TurnInv, Op
  <1>9. ASSUME NEW g \in Groups, Sample(g) PROVE TurnInv'
    BY <1>0, <1>9 DEF Sample, Group, TurnInv, Op
  <1>10. ASSUME NEW g \in Groups, SampleFails(g) PROVE TurnInv'
    BY <1>0, <1>10 DEF SampleFails, Group, TurnInv, Op
  <1>11. ASSUME NEW op \in Stages, Compute(op) PROVE TurnInv'
    BY <1>0, <1>11 DEF Compute, TurnInv, Op
  <1>12. CASE UNCHANGED vars
    BY <1>12 DEF vars, TurnInv, Op
  <1> QED BY <1>1, <1>2, <1>3, <1>4, <1>5, <1>6, <1>7, <1>8, <1>9, <1>10,
             <1>11, <1>12
          DEF Next, Driver, Worker, Collective, Stopped

\* Whatever raises and however far groups are apart: the engine is awake only
\* in generation, what is offloaded is away by then and between calls, and
\* what computes has what it needs on the device.
THEOREM TurnsTaken == Spec => []TakesTurns
  <1>1. Init => TypeOK /\ TurnInv
    BY TypeInit, TurnInit
  <1>2. TypeOK /\ TurnInv /\ [Next]_vars => (TypeOK /\ TurnInv)'
    BY TypeNext, TurnNext
  <1>3. TypeOK /\ TurnInv => TakesTurns
    BY DEF TurnInv, TakesTurns, InGeneration
  <1> QED BY <1>1, <1>2, <1>3, PTL DEF Spec

-----------------------------------------------------------------------------
(* Random states *)

\* TrainingDraws, and where the state is kept during generation.
TrainingInv ==
  \A r \in Ranks :
    /\ InGeneration(r) => rng[r].train = Stream("train", r, version[r])
    /\ ~InGeneration(r) => rng[r].now = Stream("train", r, version[r])

\* The state a rank's next sampling starts from.
GenState(r) == IF InGeneration(r) THEN rng[r].now ELSE rng[r].gen

\* Groups move on together, each with a seed of its own.
LockstepInv ==
  /\ \A r \in Ranks : /\ GenState(r).seed = GenSeed(r)
                      /\ GenState(r).used >= drawn[r]
  /\ \A q, r \in Ranks : Dp(q) = Dp(r) =>
       /\ GenState(q) = GenState(r)
       /\ at[q] = "sample" => at[r] = "sample"

RandomInv == TrainingInv /\ LockstepInv

LEMMA RandomInit == Init => RandomInv
  <1> SUFFICES ASSUME Init PROVE RandomInv
    OBVIOUS
  <1>1. \A r \in Ranks : ~InGeneration(r)
    BY DEF Init, InGeneration
  <1>2. TrainingInv
    BY <1>1 DEF Init, TrainingInv
  <1>3. \A r \in Ranks : GenState(r) = Stream("gen", GenSeed(r), 0)
    BY <1>1 DEF Init, GenState
  <1>4. LockstepInv
    BY <1>3 DEF LockstepInv, Init, Stream, GenSeed
  <1> QED BY <1>2, <1>4 DEF RandomInv

\* A step that changes no random state and lets nobody enter or leave
\* generation or sampling.
LEMMA RandomStutter ==
  ASSUME RandomInv, UNCHANGED <<rng, version, drawn>>,
         \A r \in Ranks : /\ InGeneration(r)' <=> InGeneration(r)
                          /\ at'[r] = "sample" <=> at[r] = "sample"
  PROVE  RandomInv'
  BY DEF RandomInv, TrainingInv, LockstepInv, GenState, GenSeed

\* Sampling moves the state of a whole group, or of no rank.
LEMMA DrawKeeps ==
  ASSUME TypeOK, RandomInv, NEW g \in Groups, version' = version,
         \A r \in Group(g) : at[r] = "sample",
         at' = [r \in Ranks |-> IF Dp(r) = g THEN "leave" ELSE at[r]],
         Draw(g) \/ UNCHANGED <<rng, drawn>>
  PROVE  RandomInv'
  <1>1. ASSUME NEW r \in Ranks
        PROVE  /\ InGeneration(r)' <=> InGeneration(r)
               /\ at'[r] = "sample" <=> at[r] = "sample" /\ Dp(r) # g
               /\ Dp(r) = g => InGeneration(r)
    BY DEF InGeneration, Group
  <1>2. CASE UNCHANGED <<rng, drawn>>
    BY <1>1, <1>2 DEF RandomInv, TrainingInv, LockstepInv, GenState, GenSeed
  <1>3. CASE Draw(g)
    <2>1. ASSUME NEW r \in Ranks
          PROVE  /\ rng[r] \in [now : Streams, train : Streams, gen : Streams]
                 /\ rng[r].now.used \in Nat /\ drawn[r] \in Nat
      BY DEF TypeOK, TypeDevice, Streams
    <2>2. ASSUME NEW r \in Ranks, Dp(r) = g
          PROVE  /\ rng'[r].train = rng[r].train /\ GenState(r) = rng[r].now
                 /\ GenState(r)' = Used(GenState(r)) /\ drawn'[r] = drawn[r] + 1
                 /\ GenState(r)'.seed = GenState(r).seed
                 /\ GenState(r)'.used = GenState(r).used + 1
      <3>1. rng'[r] = [rng[r] EXCEPT !.now = Used(rng[r].now)]
        BY <1>3, <2>2 DEF Draw
      <3>2. /\ rng'[r].now = Used(rng[r].now) /\ rng'[r].train = rng[r].train
            /\ drawn'[r] = drawn[r] + 1
        BY <1>3, <2>1, <2>2, <3>1 DEF Draw
      <3>3. /\ Used(rng[r].now).seed = rng[r].now.seed
            /\ Used(rng[r].now).used = rng[r].now.used + 1
        BY <2>1 DEF Used, Streams
      <3> QED BY <1>1, <2>2, <3>2, <3>3 DEF GenState
    <2>3. ASSUME NEW r \in Ranks, Dp(r) # g
          PROVE  /\ rng'[r] = rng[r] /\ drawn'[r] = drawn[r]
                 /\ GenState(r)' = GenState(r)
      BY <1>1, <1>3, <2>3 DEF Draw, GenState
    <2>4. TrainingInv'
      <3>1. ASSUME NEW r \in Ranks
            PROVE  rng'[r].train = rng[r].train
                   /\ (~InGeneration(r) => rng'[r].now = rng[r].now)
        BY <1>1, <2>2, <2>3
      <3> QED BY <1>1, <3>1 DEF RandomInv, TrainingInv
    <2>5. ASSUME NEW r \in Ranks
          PROVE  GenState(r)'.seed = GenSeed(r) /\ GenState(r)'.used >= drawn'[r]
      <3>1. GenState(r).seed = GenSeed(r) /\ GenState(r).used >= drawn[r]
        BY DEF RandomInv, LockstepInv
      <3>2. CASE Dp(r) = g
        BY <2>1, <2>2, <3>1, <3>2
      <3>3. CASE Dp(r) # g
        BY <2>3, <3>1, <3>3
      <3> QED BY <3>2, <3>3
    <2>6. ASSUME NEW q \in Ranks, NEW r \in Ranks, Dp(q) = Dp(r)
          PROVE  /\ GenState(q)' = GenState(r)'
                 /\ at'[q] = "sample" => at'[r] = "sample"
      <3>1. /\ GenState(q) = GenState(r)
            /\ at[q] = "sample" => at[r] = "sample"
        BY <2>6 DEF RandomInv, LockstepInv
      <3>2. GenState(q)' = GenState(r)'
        BY <2>2, <2>3, <2>6, <3>1
      <3> QED BY <1>1, <2>6, <3>1, <3>2
    <2>7. LockstepInv'
      BY <2>5, <2>6 DEF LockstepInv, GenSeed
    <2> QED BY <2>4, <2>7 DEF RandomInv
  <1> QED BY <1>2, <1>3

LEMMA RandomNext == TypeOK /\ RandomInv /\ [Next]_vars => RandomInv'
  <1> SUFFICES ASSUME TypeOK, RandomInv, [Next]_vars PROVE RandomInv'
    OBVIOUS
  <1>0. /\ at \in [Ranks -> Places] /\ version \in [Ranks -> Nat]
        /\ rng \in [Ranks -> [now : Streams, train : Streams, gen : Streams]]
    BY DEF TypeOK, TypeCalls, TypeDevice
  <1> USE DEF driver, shard
  <1>1. CASE Driver
    BY <1>1, RandomStutter DEF Driver, Call, Return, Raise, InGeneration
  <1>2. ASSUME NEW r \in Ranks, Begin(r) PROVE RandomInv'
    <2>1. ASSUME NEW q \in Ranks
          PROVE  /\ InGeneration(q)' <=> InGeneration(q)
                 /\ at'[q] = "sample" <=> at[q] = "sample"
      BY <1>0, <1>2 DEF Begin, InGeneration
    <2> QED BY <1>2, <2>1, RandomStutter DEF Begin
  <1>3. ASSUME NEW r \in Ranks, Finish(r) PROVE RandomInv'
    <2>1. ASSUME NEW q \in Ranks
          PROVE  /\ InGeneration(q)' <=> InGeneration(q)
                 /\ at'[q] = "sample" <=> at[q] = "sample"
      BY <1>0, <1>3 DEF Finish, Done, InGeneration
    <2> QED BY <1>3, <2>1, RandomStutter DEF Finish
  <1>4. ASSUME NEW r \in Ranks, Leave(r) PROVE RandomInv'
    <2>1. ASSUME NEW q \in Ranks
          PROVE  /\ q # r => rng'[q] = rng[q] /\ at'[q] = at[q]
                 /\ GenState(q)' = GenState(q)
                 /\ at'[q] # "sample" \/ at'[q] = at[q]
      <3>1. CASE q = r
        <4>1. InGeneration(r) /\ ~InGeneration(r)' /\ at'[r] = "idle"
          BY <1>0, <1>4 DEF Leave, Done, InGeneration
        <4>2. rng'[r].gen = rng[r].now
          BY <1>0, <1>4 DEF Leave, PutBack
        <4> QED BY <3>1, <4>1, <4>2 DEF GenState
      <3>2. CASE q # r
        <4>1. at'[q] = at[q] /\ rng'[q] = rng[q]
          BY <1>0, <1>4, <3>2 DEF Leave, Done, PutBack
        <4> QED BY <4>1 DEF GenState, InGeneration
      <3> QED BY <3>1, <3>2
    <2>2. version' = version /\ drawn' = drawn
          /\ at[r] = "leave" /\ at'[r] = "idle" /\ rng'[r].now = rng[r].train
      BY <1>0, <1>4 DEF Leave, Done, PutBack
    <2>3. TrainingInv'
      BY <2>1, <2>2 DEF RandomInv, TrainingInv, InGeneration
    <2>4. ASSUME NEW q \in Ranks, NEW p \in Ranks, Dp(q) = Dp(p),
                 at'[q] = "sample"
          PROVE  at'[p] = "sample"
      <3>1. at[q] = "sample"
        BY <2>1, <2>4
      <3>2. at[p] = "sample" /\ at[r] = "leave"
        BY <2>2, <2>4, <3>1 DEF RandomInv, LockstepInv
      <3> QED BY <2>1, <3>2
    <2>5. LockstepInv'
      BY <2>1, <2>2, <2>4 DEF RandomInv, LockstepInv, GenSeed
    <2> QED BY <2>3, <2>5 DEF RandomInv
  <1>5. CASE Sync
    <2>1. ASSUME NEW r \in Ranks
          PROVE  /\ ~InGeneration(r) /\ InGeneration(r)' /\ at'[r] = "gather"
                 /\ rng'[r].train = rng[r].now /\ rng'[r].now = rng[r].gen
      BY <1>0, <1>5 DEF Sync, InGeneration
    <2>2. version' = version /\ drawn' = drawn
      BY <1>5 DEF Sync
    <2>3. \A r \in Ranks : GenState(r)' = GenState(r)
      BY <2>1 DEF GenState
    <2> QED BY <2>1, <2>2, <2>3
            DEF RandomInv, TrainingInv, LockstepInv, GenSeed
  <1>6. ASSUME NEW g \in Groups, Gather(g) PROVE RandomInv'
    <2>1. ASSUME NEW r \in Ranks
          PROVE  /\ InGeneration(r)' <=> InGeneration(r)
                 /\ at'[r] = "sample" <=> at[r] = "sample" \/ Dp(r) = g
      BY <1>6 DEF Gather, Group, InGeneration
    <2>2. UNCHANGED <<rng, version, drawn>>
      BY <1>6 DEF Gather
    <2> QED BY <2>1, <2>2
            DEF RandomInv, TrainingInv, LockstepInv, GenState, GenSeed
  <1>7. ASSUME NEW g \in Groups, Sample(g) PROVE RandomInv'
    BY <1>7, DrawKeeps DEF Sample
  <1>8. ASSUME NEW g \in Groups, SampleFails(g) PROVE RandomInv'
    BY <1>8, DrawKeeps DEF SampleFails
  <1>9. ASSUME NEW op \in Stages, Compute(op) PROVE RandomInv'
    <2>1. ASSUME NEW r \in Ranks
          PROVE  /\ ~InGeneration(r) /\ ~InGeneration(r)'
                 /\ at'[r] = "finish" /\ at[r] = "compute"
                 /\ rng'[r].gen = rng[r].gen /\ GenState(r)' = GenState(r)
                 /\ rng'[r].now = Stream("train", r, version'[r])
      <3>1. at[r] = "compute" /\ at'[r] = "finish"
        BY <1>9 DEF Compute
      <3>2. ~InGeneration(r) /\ ~InGeneration(r)'
        BY <3>1 DEF InGeneration
      <3>3. /\ rng[r] \in [now : Streams, train : Streams, gen : Streams]
            /\ rng[r].now = Stream("train", r, version[r])
        BY <1>0, <3>2 DEF RandomInv, TrainingInv
      <3>4. Used(rng[r].now) = Stream("train", r, version[r] + 1)
        BY <3>3 DEF Used, Stream
      <3>5. /\ rng'[r].gen = rng[r].gen
            /\ rng'[r].now = Stream("train", r, version'[r])
        BY <1>0, <1>9, <3>3, <3>4 DEF Compute
      <3> QED BY <3>1, <3>2, <3>5 DEF GenState
    <2>2. drawn' = drawn
      BY <1>9 DEF Compute
    <2> QED BY <2>1, <2>2 DEF RandomInv, TrainingInv, LockstepInv, GenSeed
  <1>10. CASE UNCHANGED vars
    BY <1>10, RandomStutter DEF vars, InGeneration
  <1> QED BY <1>1, <1>2, <1>3, <1>4, <1>5, <1>6, <1>7, <1>8, <1>9, <1>10
          DEF Next, Worker, Collective, Stopped

LEMMA RandomAlways == Spec => [](TypeOK /\ RandomInv)
  <1>1. Init => TypeOK /\ RandomInv
    BY TypeInit, RandomInit
  <1>2. TypeOK /\ RandomInv /\ [Next]_vars => (TypeOK /\ RandomInv)'
    BY TypeNext, RandomNext
  <1> QED BY <1>1, <1>2, PTL DEF Spec

\* Generation never takes from the training random state, not even in a call
\* that raises: outside generation it has moved once per update.
THEOREM TrainingKeepsDraws == Spec => []TrainingDraws
  <1>1. RandomInv => TrainingDraws
    BY DEF RandomInv, TrainingInv, TrainingDraws, InGeneration
  <1> QED BY RandomAlways, <1>1, PTL

\* A group samples from one random state that no other group and no earlier
\* call started from.
THEOREM GroupsDrawAlone == Spec => []OwnDraws
  <1>1. ASSUME TypeOK, RandomInv PROVE OwnDraws
    <2>1. ASSUME NEW r \in Ranks, at[r] = "sample"
          PROVE  /\ GenState(r) = rng[r].now /\ rng[r].now.seed = GenSeed(r)
                 /\ rng[r].now.used >= drawn[r]
      BY <1>1, <2>1 DEF RandomInv, LockstepInv, GenState, InGeneration
    <2>2. ASSUME NEW q \in Ranks, NEW r \in Ranks
          PROVE  GenSeed(q) = GenSeed(r) <=> Dp(q) = Dp(r)
      <3>1. Dp(q) \in Nat /\ Dp(r) \in Nat
        BY SizesAssumption, Division DEF Dp, Ranks
      <3> QED BY <3>1 DEF GenSeed
    <2>3. ASSUME NEW r \in Ranks, at[r] = "sample", NEW q \in Group(Dp(r))
          PROVE  at[q] = "sample" /\ rng[q].now = rng[r].now
      <3>1. q \in Ranks /\ Dp(q) = Dp(r)
        BY DEF Group
      <3>2. at[q] = "sample" /\ GenState(q) = GenState(r)
        BY <1>1, <2>3, <3>1 DEF RandomInv, LockstepInv
      <3> QED BY <2>1, <2>3, <3>1, <3>2
    <2> QED BY <2>1, <2>2, <2>3 DEF OwnDraws
  <1> QED BY RandomAlways, <1>1, PTL

-----------------------------------------------------------------------------
(* Answers *)

\* The rows a rank has in hand are its own, or all those of its group, in order;
\* and so are those it returned.
OwnInv ==
  \A r \in Ranks :
    /\ at[r] \notin {"idle", "sample"} /\ ~error[r] =>
         \A k \in 1..Rows : rows[r][k].prompt = r * Rows + k
    /\ at[r] = "sample" =>
         \A k \in 1..(TP * Rows) : rows[r][k].prompt = Dp(r) * (TP * Rows) + k
    /\ result[r].ok /\ result[r].id > 0 =>
         \A k \in 1..Rows : result[r].rows[k].prompt = r * Rows + k

\* The place of a gathered row among all rows sent, and of a row of a part.
LEMMA GatherNumber ==
  ASSUME NEW g \in Groups, NEW k \in 1..(TP * Rows)
  PROVE  (g * TP + ((k - 1) \div Rows)) * Rows + (1 + ((k - 1) % Rows))
           = g * (TP * Rows) + k
  <1> DEFINE q == (k - 1) \div Rows
             m == (k - 1) % Rows
  <1>0. TP \in Nat \ {0} /\ Rows \in Nat \ {0} /\ g \in Nat
    BY SizesAssumption DEF Groups
  <1>1. TP * Rows \in Nat
    BY <1>0, Z3
  <1>2. k - 1 \in Nat
    BY <1>1
  <1>3. q \in Nat /\ m \in 0..(Rows - 1) /\ k - 1 = q * Rows + m
    BY <1>0, <1>2, Division
  <1> HIDE DEF q, m
  <1>4. /\ q \in Int /\ m \in Int /\ k \in Int /\ g \in Int /\ TP \in Int
        /\ Rows \in Int /\ k = q * Rows + m + 1
    BY <1>0, <1>1, <1>3
  <1>5. (g * TP + q) * Rows + (1 + m) = g * (TP * Rows) + (q * Rows + m + 1)
    BY <1>4, Z3
  <1> QED BY <1>4, <1>5 DEF q, m

LEMMA PartNumber ==
  ASSUME NEW r \in Ranks, NEW k \in 1..Rows
  PROVE  Dp(r) * (TP * Rows) + Part(r)[k] = r * Rows + k
  <1> DEFINE d == r \div TP
             t == r % TP
  <1>0. TP \in Nat \ {0} /\ Rows \in Nat \ {0} /\ r \in Nat /\ k \in Nat
    BY SizesAssumption DEF Ranks
  <1>1. d \in Nat /\ t \in 0..(TP - 1) /\ r = d * TP + t
    BY <1>0, Division
  <1>2. Part(r)[k] = t * Rows + k /\ Dp(r) = d
    BY DEF Part, Tp, Dp
  <1> HIDE DEF d, t
  <1>3. /\ d \in Int /\ t \in Int /\ k \in Int /\ TP \in Int /\ Rows \in Int
    BY <1>0, <1>1
  <1>4. d * (TP * Rows) + (t * Rows + k) = (d * TP + t) * Rows + k
    BY <1>3, Z3
  <1> QED BY <1>1, <1>2, <1>4

\* The rows returned or in hand stay where they are.
LEMMA OwnStutter ==
  ASSUME OwnInv, UNCHANGED <<at, rows, error, result>>
  PROVE  OwnInv'
  BY DEF OwnInv

LEMMA OwnNext == TypeOK /\ OwnInv /\ [Next]_vars => OwnInv'
  <1> SUFFICES ASSUME TypeOK, OwnInv, [Next]_vars PROVE OwnInv'
    OBVIOUS
  <1>0. at \in [Ranks -> Places] /\ error \in [Ranks -> BOOLEAN]
        /\ \A r \in Ranks : error[r] => at[r] = "leave"
    BY DEF TypeOK, TypeCalls
  <1>1. CASE Driver
    BY <1>1, OwnStutter DEF Driver, Call, Return, Raise
  <1>2. ASSUME NEW r \in Ranks, Begin(r) PROVE OwnInv'
    <2>1. UNCHANGED <<error, result>> /\ at'[r] # "sample" /\ rows'[r] = Chunk(r)
      BY <1>0, <1>2 DEF Begin, TypeOK, TypeRows
    <2>2. \A q \in Ranks : q # r => at'[q] = at[q] /\ rows'[q] = rows[q]
      BY <1>2 DEF Begin
    <2>3. \A k \in 1..Rows : Chunk(r)[k].prompt = r * Rows + k
      BY DEF Chunk
    <2> QED BY <2>1, <2>2, <2>3 DEF OwnInv
  <1>3. ASSUME NEW r \in Ranks, at[r] \in {"leave", "finish"}, Done(r) PROVE OwnInv'
    <2>1. /\ at'[r] = "idle" /\ result'[r] = Outcome(r)
          /\ \A q \in Ranks : q # r => /\ at'[q] = at[q] /\ rows'[q] = rows[q]
                                       /\ error'[q] = error[q] /\ result'[q] = result[q]
      BY <1>0, <1>3 DEF Done, TypeOK, TypeResult
    <2>2. Outcome(r).ok => ~error[r] /\ Outcome(r).rows = rows[r]
      BY DEF Outcome
    <2>3. ~error[r] => \A k \in 1..Rows : rows[r][k].prompt = r * Rows + k
      BY <1>3 DEF OwnInv
    <2> QED BY <2>1, <2>2, <2>3 DEF OwnInv
  <1>4. CASE Sync
    <2>1. \A r \in Ranks : at[r] = "sync" /\ at'[r] = "gather"
      BY <1>4 DEF Sync
    <2> QED BY <1>4, <2>1 DEF Sync, OwnInv
  <1>5. ASSUME NEW g \in Groups, Gather(g) PROVE OwnInv'
    <2>1. \A q \in Ranks : Dp(q) = g => /\ at[q] = "gather" /\ ~error[q]
                                        /\ at'[q] = "sample"
      BY <1>0, <1>5 DEF Gather, Group
    <2>2. UNCHANGED <<error, result>>
      BY <1>5 DEF Gather
    <2>3. \A q \in Ranks : Dp(q) # g => at'[q] = at[q] /\ rows'[q] = rows[q]
      BY <1>5 DEF Gather
    <2>4. ASSUME NEW r \in Ranks, Dp(r) = g, NEW k \in 1..(TP * Rows)
          PROVE  rows'[r][k].prompt = g * (TP * Rows) + k
      <3> DEFINE q == g * TP + ((k - 1) \div Rows)
                 j == 1 + ((k - 1) % Rows)
      <3>1. rows'[r][k] = rows[q][j]
        BY <1>5, <2>4 DEF Gather
      <3>2. q \in Ranks /\ Dp(q) = g /\ j \in 1..Rows
        BY GatherPlace
      <3>3. q * Rows + j = g * (TP * Rows) + k
        BY GatherNumber
      <3> HIDE DEF q, j
      <3>4. rows[q][j].prompt = q * Rows + j
        BY <2>1, <3>2 DEF OwnInv
      <3> QED BY <3>1, <3>3, <3>4
    <2> QED BY <2>1, <2>2, <2>3, <2>4 DEF OwnInv
  <1>6. ASSUME NEW g \in Groups, Sample(g) PROVE OwnInv'
    <2>1. \A q \in Ranks : Dp(q) = g => at[q] = "sample" /\ at'[q] = "leave"
      BY <1>6 DEF Sample, Group
    <2>2. UNCHANGED <<error, result>>
      BY <1>6 DEF Sample
    <2>3. \A q \in Ranks : Dp(q) # g => at'[q] = at[q] /\ rows'[q] = rows[q]
      BY <1>6 DEF Sample
    <2>4. ASSUME NEW r \in Ranks, Dp(r) = g, NEW k \in 1..Rows
          PROVE  rows'[r][k].prompt = r * Rows + k
      <3> DEFINE j == Part(r)[k]
      <3>1. rows[r] \in [1..(TP * Rows) -> RowsOf] /\ j \in 1..(TP * Rows)
        BY <1>0, <2>1, <2>4, PartPlace DEF TypeOK, TypeRows
      <3>2. rows'[r][k] = [rows[r][j] EXCEPT !.by = By(engine[r].weights, Sampling(r))]
        BY <1>6, <2>4 DEF Sample
      <3>3. Dp(r) * (TP * Rows) + j = r * Rows + k
        BY PartNumber
      <3> HIDE DEF j
      <3>4. rows[r][j] \in RowsOf /\ rows[r][j].prompt = Dp(r) * (TP * Rows) + j
        BY <2>1, <2>4, <3>1 DEF OwnInv
      <3>5. rows'[r][k].prompt = rows[r][j].prompt
        BY <3>2, <3>4 DEF RowsOf
      <3> QED BY <3>3, <3>4, <3>5
    <2> QED BY <2>1, <2>2, <2>3, <2>4 DEF OwnInv
  <1>7. ASSUME NEW g \in Groups, SampleFails(g) PROVE OwnInv'
    <2>1. UNCHANGED <<rows, result>>
      BY <1>7 DEF SampleFails
    <2>2. \A r \in Ranks : /\ Dp(r) = g => at'[r] = "leave" /\ error'[r]
                           /\ Dp(r) # g => at'[r] = at[r] /\ error'[r] = error[r]
      BY <1>0, <1>7 DEF SampleFails
    <2> QED BY <2>1, <2>2 DEF OwnInv
  <1>8. ASSUME NEW op \in Stages, Compute(op) PROVE OwnInv'
    <2>1. \A r \in Ranks : at[r] = "compute" /\ at'[r] = "finish" /\ ~error[r]
      BY <1>0, <1>8 DEF Compute
    <2>2. UNCHANGED <<error, result>>
      BY <1>8 DEF Compute
    <2>3. ASSUME NEW r \in Ranks, NEW k \in 1..Rows
          PROVE  rows'[r][k].prompt = r * Rows + k
      <3>1. rows[r][k].prompt = r * Rows + k /\ rows[r][k] \in RowsOf
        BY <2>1 DEF OwnInv, TypeOK, TypeRows
      <3>2. rows'[r][k] = rows[r][k]
            \/ rows'[r][k] = [rows[r][k] EXCEPT !.by = By(Weights(r), "train")]
        BY <1>8 DEF Compute
      <3> QED BY <3>1, <3>2 DEF RowsOf
    <2> QED BY <2>1, <2>2, <2>3 DEF OwnInv
  <1>9. CASE UNCHANGED vars
    BY <1>9, OwnStutter DEF vars
  <1> QED BY <1>1, <1>2, <1>3, <1>4, <1>5, <1>6, <1>7, <1>8, <1>9
          DEF Next, Worker, Collective, Stopped, Leave, Finish

\* The results the driver concatenates are the answers to the rows it sent, in
\* their order (generate_sequences, preprocess_data and postprocess_data).
THEOREM AnswersAreOwn == Spec => []OwnAnswers
  <1>1. Init => OwnInv
    BY DEF Init, OwnInv
  <1>2. TypeOK /\ OwnInv => OwnAnswers
    BY DEF OwnInv, OwnAnswers, Answered, TypeOK, TypeDriver, TypeResult
  <1> QED BY <1>1, <1>2, TypeInit, TypeNext, OwnNext, PTL DEF Spec

-----------------------------------------------------------------------------
(* The batch an update uses *)

\* What a rank is doing fits its call.
PlaceInv ==
  \A r \in Ranks :
    /\ at[r] \in {"sync", "gather", "sample", "leave"} => Op(r) \in Rollouts
    /\ at[r] \in {"compute", "finish"} => Op(r) \notin Rollouts

\* A rank has yet to execute the calls after the one it returned from.  All but
\* the one the driver waits for are of a verification that has raised.
QueueInv ==
  stage # "dead" => \A r \in Ranks :
    /\ Len(calls[r]) = id - result[r].id
    /\ \A i \in 1..Len(calls[r]) :
         /\ calls[r][i].id = result[r].id + i
         /\ IF waiting /\ i = Len(calls[r]) THEN calls[r][i].op = stage
                                           ELSE calls[r][i].op \in {"replay", "fallback"}

\* An answer made with the present parameters and, as long as no generate call
\* has raised, sampled as in training.
Fit(b, r) ==
  b.weights = {version[r]} /\ (failed = 0 => b = By({version[r]}, "train"))

\* What a rank has in hand in a call: an engine that is to sample has the
\* parameters of the rank's shard, and so were its answers or its scores made.
InHand(r) ==
  /\ failed = 0 => engine[r].sampling = "train"
  /\ at[r] \in {"gather", "sample"} => engine[r].weights = {version[r]}
  /\ at[r] = "leave" /\ ~error[r] /\ Op(r) = "rollout" =>
       \A k \in 1..Rows : Fit(rows[r][k].by, r)
  /\ at[r] = "finish" /\ Op(r) = "score" =>
       \A k \in 1..Rows : rows[r][k].by = By({version[r]}, "train")

\* What a rank has returned to the call the driver waits for.
Returned(r) ==
  stage # "dead" /\ waiting /\ result[r].id = id /\ result[r].ok =>
    \A k \in 1..Rows :
      /\ stage = "rollout" => Fit(result[r].rows[k].by, r)
      /\ stage = "score" => result[r].rows[k].by = By({version[r]}, "train")

\* The shards are of one version; so are the answers and scores in hand and
\* those returned.
MadeInv ==
  /\ \A q, r \in Ranks : version[q] = version[r]
  /\ \A r \in Ranks : InHand(r) /\ Returned(r)

\* The update of this step is still to be computed; the batch is complete.
LearnDue ==
  stage = "learn" /\ (waiting => \A r \in Ranks : at[r] # "finish" /\ result[r].id # id)
BatchDue ==
  \/ stage = "score" \/ LearnDue
  \/ stage = "rollout" /\ (turn > 1 \/ (turn = 1 /\ ~waiting))

\* The batch is of the present parameters, and so are its scores.
BatchFits  == batch # {} /\ \A b \in batch, r \in Ranks : Fit(b, r)
ScoresFit  == \A r \in Ranks : scored = {By({version[r]}, "train")}

\* So it is from the end of generation, and from scoring, to the update.
BatchInv ==
  /\ BatchDue => BatchFits
  /\ LearnDue => ScoresFit
  /\ stage = "learn" /\ waiting /\ ~LearnDue =>
       \A r \in Ranks : at[r] = "finish" \/ result[r].id = id
  /\ waiting => turn > 0
  /\ stage = "dead" => OnPolicy

PolicyInv == PlaceInv /\ QueueInv /\ MadeInv /\ BatchInv

LEMMA QueueParts ==
  ASSUME NEW S, NEW q \in Seq(S), NEW e \in S
  PROVE  /\ Len(q) \in Nat /\ Len(Append(q, e)) = Len(q) + 1
         /\ \A i \in 1..Len(q) : Append(q, e)[i] = q[i]
         /\ Append(q, e)[Len(q) + 1] = e
         /\ q # <<>> => /\ Len(q) > 0 /\ Head(q) = q[1] /\ Len(Tail(q)) = Len(q) - 1
                        /\ \A i \in 1..(Len(q) - 1) : Tail(q)[i] = q[i + 1]
         /\ q = <<>> => Len(q) = 0
  BY AppendProperties, HeadTailProperties, EmptySeq

LEMMA QueueOf ==
  ASSUME TypeOK, NEW r \in Ranks
  PROVE  calls[r] \in Seq([id : Nat, op : Stages]) /\ id \in Nat /\ result[r].id \in Nat
  BY DEF TypeOK, TypeCalls, TypeDriver, TypeResult

\* The call a rank is executing.
LEMMA HeadOf ==
  ASSUME TypeOK, QueueInv, stage # "dead", NEW r \in Ranks, calls[r] # <<>>
  PROVE  /\ Head(calls[r]).id = result[r].id + 1 /\ result[r].id < id
         /\ IF waiting /\ result[r].id + 1 = id THEN Op(r) = stage
            ELSE Op(r) \in {"replay", "fallback"}
  <1> DEFINE q == calls[r]
  <1>1. /\ Len(q) \in Nat /\ Len(q) > 0 /\ Head(q) = q[1]
    <2>1. q \in Seq([id : Nat, op : Stages])
      BY QueueOf
    <2> HIDE DEF q
    <2> QED BY <2>1, HeadTailProperties DEF q
  <1>2. 1 \in 1..Len(q)
    BY <1>1
  <1>3. Len(q) = id - result[r].id /\ q[1].id = result[r].id + 1
    BY <1>2 DEF QueueInv
  <1>4. IF waiting /\ 1 = Len(q) THEN q[1].op = stage
        ELSE q[1].op \in {"replay", "fallback"}
    BY <1>2 DEF QueueInv
  <1>5. Op(r) = q[1].op
    BY <1>1 DEF Op
  <1> HIDE DEF q
  <1>6. result[r].id < id /\ (1 = Len(q) <=> result[r].id + 1 = id)
    BY <1>1, <1>3, QueueOf
  <1> QED BY <1>1, <1>3, <1>4, <1>5, <1>6 DEF q

\* No rank is ahead of the driver, and one that has its answer has no call left.
LEMMA NoneAhead ==
  ASSUME TypeOK, QueueInv, stage # "dead", NEW r \in Ranks
  PROVE  result[r].id <= id /\ (result[r].id = id <=> calls[r] = <<>>)
  <1>1. Len(calls[r]) \in Nat /\ Len(calls[r]) = id - result[r].id
    BY QueueOf DEF QueueInv
  <1>2. Len(calls[r]) = 0 <=> calls[r] = <<>>
    BY QueueOf, EmptySeq
  <1> QED BY <1>1, <1>2, QueueOf

LEMMA PlaceNext ==
  ASSUME TypeOK, PlaceInv, [Next]_vars
  PROVE  PlaceInv'
  <1>0. at \in [Ranks -> Places]
    BY DEF TypeOK, TypeCalls
  <1> USE DEF driver, shard
  <1>1. CASE Call
    <2>1. \A r \in Ranks : at'[r] = at[r] /\ (at[r] # "idle" => Op(r)' = Op(r))
      BY <1>1, OpStays DEF Call
    <2> QED BY <2>1 DEF PlaceInv
  <1>2. CASE Return \/ Raise \/ UNCHANGED vars
    BY <1>2 DEF Return, Raise, vars, PlaceInv, Op
  <1>3. ASSUME NEW r \in Ranks, Begin(r) PROVE PlaceInv'
    BY <1>0, <1>3 DEF Begin, PlaceInv, Op
  <1>4. ASSUME NEW r \in Ranks, Done(r) PROVE PlaceInv'
    BY <1>0, <1>4 DEF Done, PlaceInv, Op
  <1>5. CASE Sync
    <2>1. \A r \in Ranks : at[r] = "sync" /\ at'[r] = "gather" /\ Op(r)' = Op(r)
      BY <1>5 DEF Sync, Op
    <2> QED BY <2>1 DEF PlaceInv
  <1>6. ASSUME NEW g \in Groups, Gather(g) \/ Sample(g) \/ SampleFails(g)
        PROVE  PlaceInv'
    <2>1. \A r \in Ranks :
            /\ Op(r)' = Op(r)
            /\ \/ at'[r] = at[r]
               \/ at[r] \in {"gather", "sample"} /\ at'[r] \in {"sample", "leave"}
      BY <1>6 DEF Gather, Sample, SampleFails, Group, Op
    <2> QED BY <2>1 DEF PlaceInv
  <1>7. ASSUME NEW op \in Stages, Compute(op) PROVE PlaceInv'
    <2>1. \A r \in Ranks : at[r] = "compute" /\ at'[r] = "finish" /\ Op(r)' = Op(r)
      BY <1>7 DEF Compute, Op
    <2> QED BY <2>1 DEF PlaceInv
  <1> QED BY <1>1, <1>2, <1>3, <1>4, <1>5, <1>6, <1>7
          DEF Next, Driver, Worker, Collective, Stopped, Leave, Finish

LEMMA QueueNext ==
  ASSUME TypeOK, QueueInv, [Next]_vars
  PROVE  QueueInv'
  <1> USE DEF driver
  <1>1. CASE Call
    <2> SUFFICES ASSUME NEW r \in Ranks
                 PROVE  /\ Len(calls'[r]) = id' - result'[r].id
                        /\ \A i \in 1..Len(calls'[r]) :
                             /\ calls'[r][i].id = result'[r].id + i
                             /\ IF waiting' /\ i = Len(calls'[r])
                                THEN calls'[r][i].op = stage'
                                ELSE calls'[r][i].op \in {"replay", "fallback"}
      BY DEF QueueInv
    <2> DEFINE q == calls[r]
               e == [id |-> id', op |-> stage]
               n == Len(q)
    <2>1. /\ stage # "dead" /\ ~waiting /\ waiting' /\ stage' = stage
          /\ id' = id + 1 /\ result' = result /\ calls'[r] = Append(q, e)
      BY <1>1 DEF Call, Stages, Rollouts
    <2>2. q \in Seq([id : Nat, op : Stages]) /\ e \in [id : Nat, op : Stages]
          /\ id \in Nat /\ result[r].id \in Nat
      <3>1. q \in Seq([id : Nat, op : Stages]) /\ id \in Nat /\ result[r].id \in Nat
        BY QueueOf
      <3>2. id' \in Nat /\ stage \in Stages
        BY <2>1, <3>1, <1>1 DEF Call
      <3> QED BY <3>1, <3>2
    <2>3. /\ n = id - result[r].id
          /\ \A i \in 1..n : q[i].id = result[r].id + i /\ q[i].op \in {"replay", "fallback"}
      BY <2>1 DEF QueueInv
    <2>4. e.id = id' /\ e.op = stage
      OBVIOUS
    <2> HIDE DEF q, e
    <2>5. /\ n \in Nat /\ Len(calls'[r]) = n + 1
          /\ \A i \in 1..n : calls'[r][i] = q[i]
          /\ calls'[r][n + 1] = e
      BY <2>1, <2>2, QueueParts
    <2> HIDE DEF n
    <2>6. n + 1 = id' - result[r].id /\ id' = result[r].id + (n + 1)
      BY <2>1, <2>2, <2>3, <2>5
    <2>7. \A i \in 1..(n + 1) : (i \in 1..n /\ i # n + 1) \/ i = n + 1
      BY <2>5
    <2> QED BY <2>1, <2>3, <2>4, <2>5, <2>6, <2>7
  <1>2. CASE Return
    <2>1. waiting /\ stage # "dead" /\ Answered /\ UNCHANGED <<id, calls, result>>
      BY <1>2 DEF Return, TypeOK, TypeDriver, Stages, Rollouts
    <2>2. ASSUME NEW r \in Ranks
          PROVE  /\ Len(calls'[r]) = id' - result'[r].id
                 /\ \A i \in 1..Len(calls'[r]) : FALSE
      <3>1. result[r].id = id
        BY <2>1 DEF Answered
      <3>2. Len(calls[r]) = 0
        BY <2>1, <3>1, QueueOf DEF QueueInv
      <3> QED BY <2>1, <3>1, <3>2, QueueOf
    <2> QED BY <2>2 DEF QueueInv
  <1>3. CASE Raise
    <2>1. UNCHANGED <<id, calls, result>> /\ ~waiting'
          /\ (stage' # "dead" => stage \in {"replay", "fallback"})
      BY <1>3 DEF Raise
    <2>2. stage # "dead"
      BY <1>3 DEF Raise, TypeOK, TypeDriver, Stages, Rollouts
    <2> QED BY <2>1, <2>2 DEF QueueInv
  <1>4. ASSUME NEW r \in Ranks, stage # "dead", Done(r), UNCHANGED driver,
               calls[r] # <<>>
        PROVE  QueueInv'
    <2>1. \A p \in Ranks : p # r => calls'[p] = calls[p] /\ result'[p] = result[p]
      BY <1>4 DEF Done
    <2>2. ASSUME NEW p \in Ranks
          PROVE  /\ Len(calls'[p]) = id - result'[p].id
                 /\ \A i \in 1..Len(calls'[p]) :
                      /\ calls'[p][i].id = result'[p].id + i
                      /\ IF waiting /\ i = Len(calls'[p]) THEN calls'[p][i].op = stage
                         ELSE calls'[p][i].op \in {"replay", "fallback"}
      <3>1. CASE p # r
        BY <1>4, <2>1, <3>1 DEF QueueInv
      <3>2. CASE p = r
        <4> DEFINE q == calls[r]
                   t == Tail(q)
                   n == Len(q)
        <4>1. calls'[r] = t /\ result'[r].id = result[r].id + 1
          BY <1>4, HeadOf DEF Done, TypeOK, TypeCalls, TypeResult, Outcome
        <4>2. q \in Seq([id : Nat, op : Stages]) /\ q # <<>>
              /\ id \in Nat /\ result[r].id \in Nat
          BY <1>4, QueueOf
        <4>3. /\ n = id - result[r].id
              /\ \A i \in 1..n :
                   /\ q[i].id = result[r].id + i
                   /\ IF waiting /\ i = n THEN q[i].op = stage
                      ELSE q[i].op \in {"replay", "fallback"}
          BY <1>4 DEF QueueInv
        <4> HIDE DEF q
        <4>4. /\ n \in Nat /\ n > 0 /\ Len(t) = n - 1
              /\ \A i \in 1..(n - 1) : t[i] = q[i + 1]
          BY <4>2, HeadTailProperties
        <4> HIDE DEF n, t
        <4>5. \A i \in 1..(n - 1) : i + 1 \in 1..n /\ (i + 1 = n <=> i = n - 1)
          BY <4>4
        <4> DEFINE m == result[r].id
        <4>6. m \in Nat /\ n = id - m
          BY <4>2, <4>3
        <4>7. \A i \in 1..n : q[i].id = m + i
          BY <4>3
        <4>8. m = result[r].id
          OBVIOUS
        <4> HIDE DEF m
        <4>9. n - 1 = id - (m + 1)
              /\ \A i \in 1..(n - 1) : m + (i + 1) = (m + 1) + i
          BY <4>2, <4>4, <4>6
        <4> QED BY <3>2, <4>1, <4>3, <4>4, <4>5, <4>7, <4>8, <4>9
      <3> QED BY <3>1, <3>2
    <2> QED BY <1>4, <2>2 DEF QueueInv
  <1>5. ASSUME NEW r \in Ranks, Leave(r) \/ Finish(r) PROVE QueueInv'
    BY <1>4, <1>5 DEF Leave, Finish, TypeOK, TypeCalls
  <1>6. CASE UNCHANGED <<driver, calls, result>>
    BY <1>6 DEF QueueInv
  <1>7. CASE UNCHANGED vars \/ (\E r \in Ranks : Begin(r)) \/ Collective
    <2>1. UNCHANGED <<driver, calls, result>>
      BY <1>7 DEF vars, Begin, Collective, Sync, Gather, Sample, SampleFails, Compute
    <2> QED BY <1>6, <2>1
  <1> QED BY <1>1, <1>2, <1>3, <1>5, <1>7 DEF Next, Driver, Worker, Stopped

LEMMA MadeStutter ==
  ASSUME MadeInv, UNCHANGED <<version, failed, engine, at, rows, error, calls>>,
         ~waiting' \/ UNCHANGED <<stage, waiting, id, result>>
  PROVE  MadeInv'
  BY DEF MadeInv, InHand, Returned, Fit, Op

LEMMA MadeDone ==
  ASSUME TypeOK, PlaceInv, QueueInv, MadeInv, NEW r \in Ranks,
         Leave(r) \/ Finish(r)
  PROVE  MadeInv'
  <1> USE DEF driver, shard
  <1>1. /\ stage # "dead" /\ calls[r] # <<>> /\ at[r] \in {"leave", "finish"}
        /\ Done(r)
        /\ UNCHANGED <<stage, waiting, id, failed, version>>
    BY DEF Leave, Finish, TypeOK, TypeCalls
  <1>e. ASSUME NEW p \in Ranks
        PROVE  engine'[p].sampling = engine[p].sampling
               /\ engine'[p].weights = engine[p].weights
    <2>1. engine' = [engine EXCEPT ![r].awake = FALSE] \/ engine' = engine
      BY DEF Leave, Finish
    <2> QED BY <2>1 DEF TypeOK, TypeDevice
  <1>2. \A p \in Ranks : p # r =>
          /\ at'[p] = at[p] /\ rows'[p] = rows[p] /\ error'[p] = error[p]
          /\ calls'[p] = calls[p] /\ result'[p] = result[p]
    BY <1>1 DEF Done
  <1>3. at'[r] = "idle" /\ result'[r] = Outcome(r)
    BY <1>1 DEF Done, TypeOK, TypeCalls, TypeResult
  <1>4. ASSUME NEW p \in Ranks PROVE InHand(p)' /\ Returned(p)'
    <2>1. CASE p # r
      <3>1. /\ at'[p] = at[p] /\ rows'[p] = rows[p] /\ Op(p)' = Op(p)
            /\ result'[p] = result[p]
        BY <1>2, <2>1 DEF Op
      <3>2. error'[p] <=> error[p]
        BY <1>2, <2>1
      <3>3. InHand(p)'
        <4>1. InHand(p)
          BY DEF MadeInv
        <4>2. failed' = failed /\ version' = version
          BY <1>1
        <4> QED BY <1>e, <3>1, <3>2, <4>1, <4>2 DEF InHand, Fit
      <3>4. Returned(p)'
        <4>1. Returned(p)
          BY DEF MadeInv
        <4>2. failed' = failed /\ version' = version /\ UNCHANGED <<stage, waiting, id>>
          BY <1>1
        <4> QED BY <3>1, <4>1, <4>2 DEF Returned, Fit
      <3> QED BY <3>3, <3>4
    <2>2. CASE p = r
      <3>1. InHand(r)'
        BY <1>1, <1>3, <1>e DEF MadeInv, InHand
      <3>2. SUFFICES ASSUME waiting, result'[r].id = id, result'[r].ok,
                            NEW k \in 1..Rows
                     PROVE  /\ stage = "rollout" => Fit(result'[r].rows[k].by, r)
                            /\ stage = "score" => result'[r].rows[k].by
                                                  = By({version[r]}, "train")
        BY <1>1, <2>2, <3>1 DEF Returned, Fit
      <3>3. ~error[r] /\ result'[r].rows = rows[r]
        <4>1. Outcome(r).ok => ~error[r] /\ Outcome(r).rows = rows[r]
          BY DEF Outcome
        <4> QED BY <1>3, <3>2, <4>1
      <3>4. Op(r) = stage
        BY <1>1, <1>3, <3>2, HeadOf DEF Outcome
      <3>5. stage = "rollout" => at[r] = "leave"
        BY <1>1, <3>4 DEF PlaceInv, Rollouts
      <3>6. stage = "score" => at[r] = "finish"
        BY <1>1, <3>4 DEF PlaceInv, Rollouts
      <3> QED BY <3>3, <3>4, <3>5, <3>6 DEF MadeInv, InHand
    <2> QED BY <2>1, <2>2
  <1> QED BY <1>1, <1>4 DEF MadeInv

LEMMA MadeSample ==
  ASSUME TypeOK, MadeInv, NEW g \in Groups, Sample(g)
  PROVE  MadeInv'
  <1> USE DEF driver, shard
  <1>1. /\ UNCHANGED <<stage, waiting, id, failed, calls, error, result, version,
                       engine>>
        /\ \A r \in Ranks : Dp(r) # g => at'[r] = at[r] /\ rows'[r] = rows[r]
    BY DEF Sample
  <1>2. ASSUME NEW r \in Ranks PROVE InHand(r)' /\ Returned(r)'
    <2>1. CASE Dp(r) # g
      BY <1>1, <2>1 DEF MadeInv, InHand, Returned, Fit, Op
    <2>2. CASE Dp(r) = g
      <3>1. r \in Group(g) /\ at[r] = "sample" /\ at'[r] = "leave"
        BY <2>2 DEF Sample, Group
      <3>2. engine[r].weights = {version[r]}
            /\ (failed = 0 /\ Op(r) = "rollout" => Sampling(r) = "train")
        BY <3>1 DEF MadeInv, InHand, Sampling
      <3>3. ASSUME NEW k \in 1..Rows
            PROVE  rows'[r][k].by = By(engine[r].weights, Sampling(r))
        <4> DEFINE j == Part(r)[k]
        <4>1. rows[r] \in [1..(TP * Rows) -> RowsOf] /\ j \in 1..(TP * Rows)
          BY <3>1, <3>3, PartPlace DEF TypeOK, TypeRows
        <4>2. rows'[r][k] = [rows[r][j] EXCEPT !.by = By(engine[r].weights, Sampling(r))]
          BY <2>2, <3>3 DEF Sample
        <4> HIDE DEF j
        <4>3. rows[r][j] \in RowsOf
          BY <4>1
        <4> QED BY <4>2, <4>3 DEF RowsOf
      <3>4. InHand(r)'
        <4>1. failed' = failed /\ engine'[r] = engine[r] /\ version'[r] = version[r]
              /\ Op(r)' = Op(r)
          BY <1>1 DEF Op
        <4>2. failed = 0 => engine[r].sampling = "train"
          BY DEF MadeInv, InHand
        <4>3. ASSUME Op(r) = "rollout", NEW k \in 1..Rows
              PROVE  Fit(rows'[r][k].by, r)
          BY <3>2, <3>3, <4>3 DEF Fit, By
        <4>4. ASSUME Op(r) = "rollout", NEW k \in 1..Rows
              PROVE  Fit(rows[r][k].by, r)'
          BY <4>1, <4>3, <4>4 DEF Fit
        <4> QED BY <3>1, <4>1, <4>2, <4>4 DEF InHand
      <3>5. Returned(r)'
        BY <1>1 DEF MadeInv, Returned, Fit
      <3> QED BY <3>4, <3>5
    <2> QED BY <2>1, <2>2
  <1> QED BY <1>1, <1>2 DEF MadeInv

LEMMA MadeCompute ==
  ASSUME TypeOK, QueueInv, MadeInv, NEW op \in Stages, Compute(op)
  PROVE  MadeInv'
  <1> USE DEF driver
  <1>1. /\ stage # "dead" /\ UNCHANGED <<stage, waiting, id, failed, calls, error,
                                         result, engine>>
        /\ \A r \in Ranks : at[r] = "compute" /\ Op(r) = op /\ at'[r] = "finish"
    BY DEF Compute
  <1>2. \A q, r \in Ranks : version'[q] = version'[r]
    BY DEF Compute, MadeInv
  <1>3. ASSUME NEW r \in Ranks PROVE Returned(r)'
    BY <1>1, NoneAhead DEF Returned, TypeOK, TypeCalls
  <1>4. ASSUME NEW r \in Ranks PROVE InHand(r)'
    <2>1. SUFFICES ASSUME op = "score", NEW k \in 1..Rows
                   PROVE  rows'[r][k].by = By({version'[r]}, "train")
      BY <1>1 DEF InHand, MadeInv, Op
    <2>2. rows[r][k] \in RowsOf
      BY <1>1 DEF TypeOK, TypeRows, TypeCalls
    <2>3. rows'[r][k] = [rows[r][k] EXCEPT !.by = By(Weights(r), "train")]
          /\ version'[r] = version[r]
      BY <2>1 DEF Compute
    <2>4. Weights(r) = {version[r]}
      BY DEF Weights, MadeInv
    <2> QED BY <2>2, <2>3, <2>4 DEF RowsOf
  <1> QED BY <1>2, <1>3, <1>4 DEF MadeInv

LEMMA MadeNext ==
  ASSUME TypeOK, PlaceInv, QueueInv, MadeInv, [Next]_vars
  PROVE  MadeInv'
  <1> USE DEF driver, shard
  <1>0. at \in [Ranks -> Places]
    BY DEF TypeOK, TypeCalls
  <1>1. CASE Call
    <2>1. /\ stage # "dead" /\ id' = id + 1
          /\ UNCHANGED <<version, failed, engine, at, rows, error, result>>
      BY <1>1 DEF Call, Stages, Rollouts
    <2>2. ASSUME NEW r \in Ranks PROVE InHand(r)'
      BY <1>1, <2>1, OpStays DEF InHand, MadeInv, Fit
    <2>3. ASSUME NEW r \in Ranks PROVE Returned(r)'
      <3>1. result[r].id <= id /\ id \in Nat /\ result[r].id \in Nat
        BY <2>1, NoneAhead, QueueOf
      <3> QED BY <2>1, <3>1 DEF Returned
    <2> QED BY <2>1, <2>2, <2>3 DEF MadeInv
  <1>2. CASE Return \/ Raise \/ UNCHANGED vars
    BY <1>2, MadeStutter DEF Return, Raise, vars
  <1>3. ASSUME NEW r \in Ranks, Begin(r) PROVE MadeInv'
    <2>1. /\ UNCHANGED <<stage, waiting, id, failed, calls, error, result, version,
                         engine>>
          /\ at'[r] \in {"sync", "compute"}
          /\ \A p \in Ranks : p # r => at'[p] = at[p] /\ rows'[p] = rows[p]
      BY <1>0, <1>3 DEF Begin
    <2>2. ASSUME NEW p \in Ranks PROVE InHand(p)' /\ Returned(p)'
      BY <2>1 DEF MadeInv, InHand, Returned, Fit, Op
    <2> QED BY <2>1, <2>2 DEF MadeInv
  <1>4. CASE Sync
    <2>1. /\ UNCHANGED <<stage, waiting, id, failed, calls, error, result, version>>
          /\ \A r \in Ranks : /\ at'[r] = "gather"
                              /\ engine'[r].weights = Weights(r)
                              /\ engine'[r].sampling = engine[r].sampling
      BY <1>4 DEF Sync, TypeOK, TypeDevice
    <2>2. \A r \in Ranks : Weights(r) = {version[r]}
      BY DEF Weights, MadeInv
    <2>3. ASSUME NEW r \in Ranks PROVE InHand(r)' /\ Returned(r)'
      BY <2>1, <2>2 DEF MadeInv, InHand, Returned, Fit
    <2> QED BY <2>1, <2>3 DEF MadeInv
  <1>5. ASSUME NEW g \in Groups, Gather(g) PROVE MadeInv'
    <2>1. /\ UNCHANGED <<stage, waiting, id, failed, calls, error, result, version,
                         engine>>
          /\ \A r \in Ranks :
               IF Dp(r) = g THEN at[r] = "gather" /\ at'[r] = "sample"
               ELSE at'[r] = at[r] /\ rows'[r] = rows[r]
      BY <1>5 DEF Gather, Group
    <2>2. ASSUME NEW r \in Ranks PROVE InHand(r)' /\ Returned(r)'
      BY <2>1 DEF MadeInv, InHand, Returned, Fit, Op
    <2> QED BY <2>1, <2>2 DEF MadeInv
  <1>6. ASSUME NEW g \in Groups, SampleFails(g) PROVE MadeInv'
    <2>1. failed' # 0 /\ UNCHANGED <<stage, waiting, id, calls, result, version, rows>>
      BY <1>6 DEF SampleFails, TypeOK, TypeDriver
    <2>2. ASSUME NEW r \in Ranks PROVE Returned(r)'
      BY <2>1 DEF MadeInv, Returned, Fit
    <2>3. ASSUME NEW r \in Ranks PROVE InHand(r)'
      <3>1. CASE Dp(r) = g
        <4>1. at'[r] = "leave"
          BY <1>6, <3>1 DEF SampleFails
        <4>2. error'[r]
          BY <1>6, <3>1 DEF SampleFails
        <4> QED BY <2>1, <4>1, <4>2 DEF InHand
      <3>2. CASE Dp(r) # g
        <4>1. at'[r] = at[r] /\ engine'[r] = engine[r] /\ Op(r)' = Op(r)
          BY <1>6, <3>2 DEF SampleFails, Op
        <4>2. error'[r] <=> error[r]
          BY <1>6, <3>2 DEF SampleFails
        <4> QED BY <2>1, <4>1, <4>2 DEF MadeInv, InHand, Fit
      <3> QED BY <3>1, <3>2
    <2> QED BY <2>1, <2>2, <2>3 DEF MadeInv
  <1> QED BY <1>1, <1>2, <1>3, <1>4, <1>5, <1>6, MadeDone, MadeSample, MadeCompute
          DEF Next, Driver, Worker, Collective, Stopped

LEMMA PolicyHolds ==
  ASSUME TypeOK, QueueInv, BatchInv
  PROVE  OnPolicy
  <1>1. SUFFICES ASSUME stage # "dead", NEW r \in Ranks, at[r] = "compute",
                        Op(r) = "learn"
                 PROVE  /\ scored = {By({version[r]}, "train")}
                        /\ \A b \in batch : b.weights = {version[r]}
                        /\ failed = 0 => batch = scored
    BY DEF BatchInv, OnPolicy
  <1>2. waiting /\ stage = "learn" /\ result[r].id # id
    <2>1. calls[r] # <<>>
      BY <1>1 DEF TypeOK, TypeCalls
    <2> QED BY <1>1, <2>1, HeadOf, QueueOf
  <1>3. LearnDue
    BY <1>1, <1>2 DEF BatchInv
  <1>4. BatchFits /\ ScoresFit
    BY <1>3 DEF BatchInv, BatchDue
  <1>5. /\ scored = {By({version[r]}, "train")} /\ batch # {}
        /\ \A b \in batch : b.weights = {version[r]}
        /\ failed = 0 => \A b \in batch : b = By({version[r]}, "train")
    BY <1>4 DEF BatchFits, ScoresFit, Fit
  <1> QED BY <1>5

\* As long as the driver stays where it is, and no rank computes or returns.
LEMMA BatchStutter ==
  ASSUME BatchInv, stage # "dead",
         UNCHANGED <<stage, waiting, turn, id, batch, scored, version>>,
         failed' = failed \/ failed' # 0,
         \A r \in Ranks : /\ at'[r] = "finish" <=> at[r] = "finish"
                          /\ result'[r].id = id <=> result[r].id = id
  PROVE  BatchInv'
  <1>1. LearnDue' <=> LearnDue
    BY DEF LearnDue
  <1>2. BatchDue' <=> BatchDue
    BY <1>1 DEF BatchDue
  <1>3. (BatchFits => BatchFits') /\ (ScoresFit => ScoresFit')
    BY DEF BatchFits, ScoresFit, Fit
  <1> QED BY <1>1, <1>2, <1>3 DEF BatchInv

LEMMA BatchCall ==
  ASSUME TypeOK, PlaceInv, QueueInv, BatchInv, Call
  PROVE  BatchInv'
  <1> USE DEF driver, shard
  <1>1. /\ stage # "dead" /\ ~waiting /\ waiting' /\ id' = id + 1 /\ turn' = turn + 1
        /\ turn \in Nat /\ id \in Nat
        /\ UNCHANGED <<stage, batch, scored, version, failed, at, result>>
    BY DEF Call, Stages, Rollouts, TypeOK, TypeDriver
  <1>2. ASSUME NEW r \in Ranks PROVE at[r] # "finish" /\ result[r].id # id'
    <2>1. result[r].id # id'
      BY <1>1, NoneAhead, QueueOf
    <2>2. SUFFICES ASSUME at[r] = "finish" PROVE FALSE
      BY <2>1
    <2>3. Op(r) \in {"replay", "fallback"}
      BY <1>1, <2>2, HeadOf DEF TypeOK, TypeCalls
    <2> QED BY <2>2, <2>3 DEF PlaceInv, Rollouts
  <1>3. LearnDue' <=> LearnDue
    BY <1>1, <1>2 DEF LearnDue
  <1>4. BatchDue' => BatchDue
    BY <1>1, <1>3 DEF BatchDue
  <1>5. (BatchFits => BatchFits') /\ (ScoresFit => ScoresFit')
    BY <1>1 DEF BatchFits, ScoresFit, Fit
  <1>6. turn' > 0
    BY <1>1
  <1>7. stage' = "learn" => LearnDue'
    BY <1>1, <1>2 DEF LearnDue
  <1> QED BY <1>1, <1>3, <1>4, <1>5, <1>6, <1>7 DEF BatchInv

LEMMA FollowsOrder ==
  ASSUME NEW s \in Stages, NEW t \in Follows(s)
  PROVE  /\ t = "score" => s = "rollout"
         /\ t = "learn" => s = "score"
         /\ t # "dead"
  BY DEF Follows, Stages, Rollouts

LEMMA BatchReturn ==
  ASSUME TypeOK, MadeInv, BatchInv, Return
  PROVE  BatchInv'
  <1> USE DEF driver, shard
  <1>1. /\ waiting /\ Answered /\ ~waiting' /\ stage \in Stages /\ stage # "dead"
        /\ turn > 0 /\ turn \in Nat
        /\ batch' = IF stage # "rollout" THEN batch
                    ELSE Made \cup (IF turn = 1 THEN {} ELSE batch)
        /\ scored' = IF stage = "score" THEN Made ELSE scored
        /\ UNCHANGED <<failed, version>>
    BY DEF Return, TypeOK, TypeDriver, Stages, Rollouts, BatchInv
  <1>2. ASSUME NEW r \in Ranks, NEW k \in 1..Rows
        PROVE  /\ stage = "rollout" => Fit(result[r].rows[k].by, r)
               /\ stage = "score" => result[r].rows[k].by = By({version[r]}, "train")
    <2>1. Returned(r) /\ result[r].id = id /\ result[r].ok
      BY <1>1 DEF MadeInv, Answered
    <2> QED BY <1>1, <2>1 DEF Returned
  <1>3. 0 \in Ranks /\ 1 \in 1..Rows
    BY SizesAssumption DEF Ranks
  <1>4. result[0].rows[1].by \in Made
    BY <1>3 DEF Made
  <1>5. ASSUME stage = "rollout" PROVE BatchFits'
    <2>1. ASSUME NEW b \in Made, NEW r \in Ranks PROVE Fit(b, r)
      <3>1. PICK q \in Ranks, k \in 1..Rows : b = result[q].rows[k].by
        BY DEF Made
      <3>2. Fit(b, q) /\ version[q] = version[r]
        BY <1>2, <1>5, <3>1 DEF MadeInv
      <3> QED BY <3>2 DEF Fit
    <2>2. ASSUME turn # 1 PROVE BatchFits
      BY <1>1, <1>5, <2>2 DEF BatchInv, BatchDue
    <2>3. batch' # {}
      BY <1>1, <1>4, <1>5
    <2>4. ASSUME NEW b \in batch', NEW r \in Ranks PROVE Fit(b, r)
      BY <1>1, <1>5, <2>1, <2>2 DEF BatchFits
    <2> QED BY <1>1, <2>3, <2>4 DEF BatchFits, Fit
  <1>6. ASSUME stage = "score" PROVE BatchFits' /\ ScoresFit'
    <2>1. BatchFits'
      <3>1. BatchFits
        BY <1>6 DEF BatchInv, BatchDue
      <3> QED BY <1>1, <1>6, <3>1 DEF BatchFits, Fit
    <2>2. ASSUME NEW r \in Ranks PROVE Made = {By({version[r]}, "train")}
      <3>1. \A b \in Made : b = By({version[r]}, "train")
        <4> SUFFICES ASSUME NEW b \in Made PROVE b = By({version[r]}, "train")
          OBVIOUS
        <4>1. PICK q \in Ranks, k \in 1..Rows : b = result[q].rows[k].by
          BY DEF Made
        <4>2. b = By({version[q]}, "train") /\ version[q] = version[r]
          BY <1>2, <1>6, <4>1 DEF MadeInv
        <4> QED BY <4>2
      <3> QED BY <1>4, <3>1
    <2> QED BY <1>1, <1>6, <2>1, <2>2 DEF ScoresFit
  <1>7. CASE stage \in Rollouts /\ UNCHANGED <<stage, turn>>
    <2>1. ~LearnDue' /\ stage' \notin {"dead", "learn"}
          /\ (BatchDue' => stage = "rollout")
      BY <1>7 DEF LearnDue, BatchDue, Rollouts
    <2> QED BY <1>1, <1>5, <2>1 DEF BatchInv
  <1>8. ASSUME NEW s \in Follows(stage), Enter(s) PROVE BatchInv'
    <2>1. stage' \in {s, "done"} /\ turn' = 0
      BY <1>8 DEF Enter
    <2>2. /\ stage' = "score" => stage = "rollout"
          /\ stage' = "learn" => stage = "score"
          /\ stage' # "dead"
      BY <1>1, <1>8, <2>1, FollowsOrder
    <2>3. LearnDue' => stage = "score"
      BY <2>2 DEF LearnDue
    <2>4. BatchDue' => stage \in {"rollout", "score"}
      BY <2>1, <2>2, <2>3 DEF BatchDue
    <2> QED BY <1>1, <1>5, <1>6, <2>2, <2>3, <2>4 DEF BatchInv
  <1> QED BY <1>7, <1>8 DEF Return

LEMMA BatchRaise ==
  ASSUME TypeOK, QueueInv, BatchInv, Raise
  PROVE  BatchInv'
  <1> USE DEF driver, shard
  <1>1. ~waiting' /\ UNCHANGED <<calls, at, batch, scored, failed, version>>
    BY DEF Raise
  <1>2. CASE stage' = "dead"
    <2>1. OnPolicy'
      BY <1>1, PolicyHolds DEF OnPolicy, Op
    <2>2. ~LearnDue' /\ ~BatchDue'
      BY <1>2 DEF LearnDue, BatchDue
    <2> QED BY <1>1, <1>2, <2>1, <2>2 DEF BatchInv
  <1>3. ASSUME stage \in {"replay", "fallback"}, NEW s \in Follows(stage), Enter(s)
        PROVE  BatchInv'
    <2>1. stage' \in {s, "done"} /\ turn' = 0
      BY <1>3 DEF Enter
    <2>2. stage' \notin {"score", "learn", "dead"}
      BY <1>3, <2>1, FollowsOrder DEF Stages, Rollouts
    <2>3. ~LearnDue' /\ ~BatchDue'
      BY <2>1, <2>2 DEF LearnDue, BatchDue
    <2> QED BY <1>1, <2>2, <2>3 DEF BatchInv
  <1> QED BY <1>2, <1>3 DEF Raise

LEMMA BatchDone ==
  ASSUME TypeOK, PlaceInv, QueueInv, BatchInv, NEW r \in Ranks,
         Leave(r) \/ Finish(r)
  PROVE  BatchInv'
  <1> USE DEF driver, shard
  <1>1. /\ stage # "dead" /\ calls[r] # <<>> /\ at[r] \in {"leave", "finish"}
        /\ Done(r)
        /\ UNCHANGED <<stage, waiting, turn, id, batch, scored, failed, version>>
    BY DEF Leave, Finish, TypeOK, TypeCalls
  <1>2. /\ \A p \in Ranks : p # r => at'[p] = at[p] /\ result'[p] = result[p]
        /\ at'[r] = "idle" /\ result'[r].id = Head(calls[r]).id
    BY <1>1 DEF Done, Outcome, TypeOK, TypeCalls, TypeResult
  <1>3. /\ result'[r].id = result[r].id + 1 /\ result[r].id # id
        /\ waiting /\ result'[r].id = id => Op(r) = stage
        /\ ~(waiting /\ result'[r].id = id) => Op(r) \in Rollouts
    BY <1>1, <1>2, HeadOf, QueueOf DEF Rollouts
  <1>4. CASE stage # "learn"
    <2>1. ~LearnDue /\ ~LearnDue'
      BY <1>1, <1>4 DEF LearnDue
    <2>2. BatchDue' <=> BatchDue
      BY <1>1, <2>1 DEF BatchDue
    <2>3. BatchFits => BatchFits'
      BY <1>1 DEF BatchFits, Fit
    <2> QED BY <1>1, <1>4, <2>1, <2>2, <2>3 DEF BatchInv
  <1>5. CASE stage = "learn" /\ Op(r) \in Rollouts
    <2>1. at[r] = "leave" /\ ~(waiting /\ result'[r].id = id)
      BY <1>1, <1>3, <1>5 DEF PlaceInv, Rollouts
    <2>2. LearnDue
      BY <1>3, <1>5, <2>1 DEF BatchInv, LearnDue
    <2>3. LearnDue'
      BY <1>1, <1>2, <1>5, <2>1, <2>2 DEF LearnDue
    <2>4. BatchFits' /\ ScoresFit'
      <3>1. BatchFits /\ ScoresFit
        BY <2>2 DEF BatchInv, BatchDue
      <3> QED BY <1>1, <3>1 DEF BatchFits, ScoresFit, Fit
    <2> QED BY <1>1, <1>5, <2>3, <2>4 DEF BatchInv
  <1>6. CASE stage = "learn" /\ Op(r) \notin Rollouts
    <2>1. waiting /\ result'[r].id = id /\ at[r] = "finish"
      BY <1>1, <1>3, <1>6 DEF PlaceInv
    <2>2. ~LearnDue /\ ~LearnDue'
      BY <1>1, <2>1 DEF LearnDue
    <2>3. ASSUME NEW p \in Ranks PROVE at'[p] = "finish" \/ result'[p].id = id
      BY <1>2, <1>6, <2>1, <2>2 DEF BatchInv
    <2>4. ~BatchDue'
      BY <1>1, <1>6, <2>2 DEF BatchDue
    <2> QED BY <1>1, <1>6, <2>2, <2>3, <2>4 DEF BatchInv
  <1> QED BY <1>4, <1>5, <1>6

LEMMA BatchCompute ==
  ASSUME TypeOK, PlaceInv, QueueInv, BatchInv, NEW op \in Stages, Compute(op)
  PROVE  BatchInv'
  <1> USE DEF driver
  <1>1. /\ stage # "dead"
        /\ UNCHANGED <<stage, waiting, turn, id, batch, scored, failed, result>>
        /\ \A r \in Ranks : /\ at[r] = "compute" /\ Op(r) = op /\ at'[r] = "finish"
                            /\ op \notin {"learn", "load"} => version'[r] = version[r]
    BY DEF Compute
  <1>2. 0 \in Ranks
    BY SizesAssumption DEF Ranks
  <1>3. waiting /\ stage = op
    <2>1. calls[0] # <<>> /\ Op(0) \notin {"replay", "fallback"}
      BY <1>1, <1>2 DEF TypeOK, TypeCalls, PlaceInv, Rollouts
    <2> QED BY <1>1, <1>2, <2>1, HeadOf
  <1>4. ~LearnDue'
    BY <1>1, <1>2, <1>3 DEF LearnDue
  <1>5. BatchDue' => BatchDue /\ op \notin {"learn", "load"}
    BY <1>1, <1>3, <1>4 DEF BatchDue
  <1>6. BatchDue' => BatchFits'
    <2> SUFFICES ASSUME BatchDue' PROVE BatchFits'
      OBVIOUS
    <2>1. BatchFits /\ \A r \in Ranks : version'[r] = version[r]
      BY <1>1, <1>5 DEF BatchInv
    <2> QED BY <1>1, <2>1 DEF BatchFits, Fit
  <1> QED BY <1>1, <1>4, <1>6 DEF BatchInv

LEMMA BatchNext ==
  ASSUME TypeOK, PlaceInv, QueueInv, MadeInv, BatchInv, [Next]_vars
  PROVE  BatchInv'
  <1> USE DEF driver, shard
  <1>0. at \in [Ranks -> Places] /\ failed \in Nat
    BY DEF TypeOK, TypeCalls, TypeDriver
  <1>1. CASE UNCHANGED vars
    BY <1>1 DEF vars, BatchInv, BatchDue, LearnDue, BatchFits, ScoresFit, Fit,
                OnPolicy, Op
  <1>2. ASSUME NEW r \in Ranks, Begin(r) PROVE BatchInv'
    BY <1>0, <1>2, BatchStutter DEF Begin
  <1>3. CASE Sync
    BY <1>3, BatchStutter DEF Sync
  <1>4. ASSUME NEW g \in Groups, Gather(g) \/ Sample(g) \/ SampleFails(g)
        PROVE  BatchInv'
    <2>1. failed' = failed \/ failed' # 0
      BY <1>0, <1>4 DEF Gather, Sample, SampleFails
    <2>2. \A r \in Ranks : at'[r] = "finish" <=> at[r] = "finish"
      BY <1>4 DEF Gather, Sample, SampleFails, Group
    <2>3. stage # "dead" /\ UNCHANGED <<stage, waiting, turn, id, batch, scored,
                                        version, result>>
      BY <1>4 DEF Gather, Sample, SampleFails
    <2> QED BY <2>1, <2>2, <2>3, BatchStutter
  <1> QED BY <1>1, <1>2, <1>3, <1>4, BatchCall, BatchReturn, BatchRaise, BatchDone,
             BatchCompute
          DEF Next, Driver, Worker, Collective, Stopped

\* update_actor works on answers that were generated and scored by the very
\* parameters it updates, sampled as in training unless a generate call raised.
THEOREM UpdatesOnPolicy == Spec => []OnPolicy
  <1>1. Init => PolicyInv
    <2> SUFFICES ASSUME Init PROVE PolicyInv
      OBVIOUS
    <2>1. PlaceInv
      BY DEF Init, PlaceInv
    <2>2. QueueInv
      BY EmptySeq DEF Init, QueueInv
    <2>3. MadeInv
      BY DEF Init, MadeInv, InHand, Returned
    <2>4. BatchInv
      BY DEF Init, BatchInv, BatchDue, LearnDue, OnPolicy
    <2> QED BY <2>1, <2>2, <2>3, <2>4 DEF PolicyInv
  <1>2. TypeOK /\ PolicyInv /\ [Next]_vars => PolicyInv'
    BY PlaceNext, QueueNext, MadeNext, BatchNext DEF PolicyInv
  <1>3. TypeOK /\ PolicyInv => OnPolicy
    BY PolicyHolds DEF PolicyInv
  <1> QED BY <1>1, <1>2, <1>3, TypeInit, TypeNext, PTL DEF Spec

=============================================================================
