--------------------------- MODULE TrainerLoopProofs ---------------------------
(***************************************************************************)
(* Proofs about TrainerLoop, for every number of ranks, steps and kills:   *)
(* types and bounds first, then the checkpoints: what the tracker names is *)
(* whole at every moment, and a resumed run goes on where the checkpoint   *)
(* was taken, with a skill bank that is not behind it.                     *)
(***************************************************************************)
EXTENDS TrainerLoop, FiniteSetTheorems, TLAPS

Busy == pc \notin {"done", "down", "dead"}

\* How far the step, the tracker and the number of lives can be.
Bounds ==
  /\ life <= MaxCrashes + 1
  /\ pc = "down" => life <= MaxCrashes
  /\ Busy => step <= TotalSteps + life - 1
  /\ step <= TotalSteps + life
  /\ tracker.step <= TotalSteps + life - 1
  /\ tracker.state = "whole" => tracker.step # 0

TypeInv == TypeOK /\ Bounds

LEMMA ConstantTypes ==
  /\ TotalSteps \in Nat \ {0} /\ MaxCrashes \in Nat /\ EpochLength \in Nat \ {0}
  /\ TotalEpochs \in Nat \ {0}
  /\ UseCritic \in BOOLEAN /\ SaveInPlace \in BOOLEAN
  /\ "actor" \in Roles /\ Roles \subseteq {"actor", "critic"}
  /\ UseCritic => "critic" \in Roles
  /\ Keep \in [Roles -> Nat]
  /\ CriticWarmup \in Nat
BY LoopAssumption DEF Roles

LEMMA VersionTypes ==
  /\ Pretrained \in Version
  /\ NoFiles \in [Parts -> [Ranks -> Version \cup {Unreadable}]]
  /\ Unreadable \notin Version
BY DEF Pretrained, Version, NoFiles, Unreadable

\* A step the loop is working on is a step a checkpoint can be saved for.
LEMMA BusyStep ==
  ASSUME TypeInv, Busy
  PROVE  step \in Steps
BY ConstantTypes DEF TypeInv, TypeOK, DriverTypes, Bounds, Steps

\* Every phase of the program is a string the actions know.
LEMMA ProgramFacts ==
  /\ Len(Program) = 8
  /\ Program \in Seq(Parts \cup {"rotate", "mkdir", "barrier", "append"})
  /\ Program[1] = "rotate" /\ Program[8] = "append"
  /\ \A i \in 2..8 : Program[i] # "rotate"
  /\ \A i \in 1..7 : Program[i] # "append"
  /\ \A k \in Parts : \E i \in 1..8 : Program[i] = k
<1>1. CASE backend = "fsdp"
  BY <1>1 DEF Program, Parts
<1>2. CASE backend # "fsdp"
  BY <1>2 DEF Program, Parts
<1> QED  BY <1>1, <1>2

LEMMA TypeInit == Init => TypeInv
<1> SUFFICES ASSUME Init PROVE TypeInv
  OBVIOUS
<1> USE ConstantTypes, VersionTypes
<1>1. mem \in [Roles -> [Parts -> [Ranks -> Version]]]
  BY DEF Init
<1>2. shard \in [Roles -> [Steps -> [Parts -> [Ranks -> Version \cup {Unreadable}]]]]
  BY DEF Init
<1>3. prev \in [Roles -> [Ranks -> Seq(Nat)]]
  BY DEF Init
<1>4. taken \in [Steps -> [mem : [Roles -> [Parts -> [Ranks -> Version]]],
                           pos : 0..EpochLength]]
  BY <1>1 DEF Init
<1>5. data \in [Steps -> (0..EpochLength) \cup {NoData}]
  BY DEF Init
<1> QED  BY <1>1, <1>2, <1>3, <1>4, <1>5
     DEF Init, TypeInv, TypeOK, DriverTypes, MemTypes, SavingTypes, ShardTypes,
         FileTypes, TakenTypes, Bounds, Busy, Phases

\* The steps of the driver between two checkpoints.
LEMMA LoopType ==
  ASSUME TypeInv,
         \/ NextBatch \/ NextEpoch \/ Train \/ NoEvolution \/ Evolve
         \/ WriteBank \/ NoSave \/ EndStep
  PROVE  TypeInv'
<1> USE ConstantTypes
<1>1. DriverTypes' /\ FileTypes' /\ Bounds'
  <2>1. CASE NextBatch
    BY <2>1 DEF NextBatch, TypeInv, TypeOK, DriverTypes, FileTypes, Bounds, Busy,
                Phases, process, saving, disk
  <2>2. CASE NextEpoch
    BY <2>2 DEF NextEpoch, TypeInv, TypeOK, DriverTypes, FileTypes, Bounds, Busy,
                Phases, process, saving, disk
  <2>3. CASE Train \/ NoEvolution \/ NoSave
    BY <2>3 DEF Train, NoEvolution, NoSave, TypeInv, TypeOK, DriverTypes,
                FileTypes, Bounds, Busy, Phases, process, loop, saving, disk
  <2>4. CASE Evolve \/ WriteBank
    BY <2>4 DEF Evolve, WriteBank, TypeInv, TypeOK, DriverTypes, FileTypes,
                Bounds, Busy, Phases, process, loop, saving, disk
  <2>5. CASE EndStep
    BY <2>5 DEF EndStep, IsLastStep, TypeInv, TypeOK, DriverTypes, FileTypes,
                Bounds, Busy, Phases, process, saving, disk
  <2> QED  BY <2>1, <2>2, <2>3, <2>4, <2>5
<1>2. UNCHANGED <<saving, disk, taken>>
  BY DEF NextBatch, NextEpoch, Train, NoEvolution, Evolve, WriteBank, NoSave,
         EndStep
<1>3. SavingTypes' /\ ShardTypes' /\ TakenTypes'
  BY <1>2 DEF TypeInv, TypeOK, SavingTypes, ShardTypes, TakenTypes, saving, disk
<1>4. MemTypes'
  <2>1. CASE Train
    <3>1. [life |-> life, step |-> step, bank |-> bank] \in Version
      BY DEF TypeInv, TypeOK, DriverTypes, Version
    <3> QED  BY <2>1, <3>1 DEF Train, TypeInv, TypeOK, MemTypes
  <2>2. CASE mem' = mem
    BY <2>2 DEF TypeInv, TypeOK, MemTypes
  <2> QED  BY <2>1, <2>2 DEF NextBatch, NextEpoch, NoEvolution, Evolve,
                             WriteBank, NoSave, EndStep
<1> QED  BY <1>1, <1>3, <1>4 DEF TypeInv, TypeOK

\* The steps of the ranks.
LEMMA RankType ==
  ASSUME TypeInv, \/ Barrier
                  \/ \E r \in Ranks : Worker(r)
  PROVE  TypeInv'
<1> USE ConstantTypes
<1>1. UNCHANGED <<process, pc, loop, mem, bank, role, data, tracker, bankFile,
                  taken>>
  BY DEF Worker, Rotate, MakeDir, WriteFile, AppendPath, Barrier, disk
<1>2. DriverTypes' /\ FileTypes' /\ Bounds' /\ MemTypes' /\ TakenTypes'
  BY <1>1 DEF TypeInv, TypeOK, DriverTypes, FileTypes, Bounds, Busy, MemTypes,
              TakenTypes, process, loop
<1>3. CASE Barrier
  <2>1. at' \in [Ranks -> Nat \ {0}] /\ prev' = prev /\ shard' = shard
    BY <1>3 DEF Barrier, disk, TypeInv, TypeOK, SavingTypes
  <2> QED  BY <1>2, <2>1 DEF TypeInv, TypeOK, SavingTypes, ShardTypes
<1>4. ASSUME NEW r \in Ranks, Worker(r) PROVE TypeInv'
  <2>1. at' \in [Ranks -> Nat \ {0}]
    <3>1. Advance(r)
      BY <1>4 DEF Worker, Rotate, MakeDir, WriteFile, AppendPath
    <3>2. at \in [Ranks -> Nat \ {0}]
      BY DEF TypeInv, TypeOK, SavingTypes
    <3> QED  BY <3>1, <3>2 DEF Advance
  <2>2. prev' \in [Roles -> [Ranks -> Seq(Nat)]]
    <3>0. prev \in [Roles -> [Ranks -> Seq(Nat)]] /\ role \in Roles /\ step \in Nat
      BY DEF TypeInv, TypeOK, SavingTypes, DriverTypes
    <3>1. CASE Rotate(r)
      <4>1. prev[role][r] \in Seq(Nat)
        BY <3>0
      <4>2. Surplus(role, prev[role][r]) \in Nat
        BY <4>1, <3>0 DEF Surplus
      <4>3. SubSeq(prev[role][r], Surplus(role, prev[role][r]) + 1,
                   Len(prev[role][r])) \in Seq(Nat)
        BY <4>1, <4>2
      <4> QED  BY <3>0, <3>1, <4>3 DEF Rotate
    <3>2. CASE AppendPath(r)
      BY <3>0, <3>2 DEF AppendPath
    <3>3. CASE MakeDir(r) \/ WriteFile(r)
      BY <3>0, <3>3 DEF MakeDir, WriteFile
    <3> QED  BY <1>4, <3>1, <3>2, <3>3 DEF Worker
  <2>3. shard' \in [Roles -> [Steps -> [Parts -> [Ranks -> Version \cup {Unreadable}]]]]
    <3>0. /\ shard \in [Roles -> [Steps -> [Parts ->
                          [Ranks -> Version \cup {Unreadable}]]]]
          /\ role \in Roles
      BY DEF TypeInv, TypeOK, ShardTypes, DriverTypes
    <3>1. CASE Rotate(r)
      BY <3>0, <3>1, VersionTypes DEF Rotate
    <3>2. CASE WriteFile(r)
      <4>1. PICK k \in Parts :
              /\ shard' = IF WriterOf(k, r) = r
                          THEN [shard EXCEPT ![role][step][k][r] = mem[role][k][r]]
                          ELSE shard
              /\ Doing(r, k)
        BY <3>2 DEF WriteFile
      <4>2. mem[role][k][r] \in Version
        BY <3>0 DEF TypeInv, TypeOK, MemTypes
      <4>3. step \in Steps
        BY <4>1, BusyStep DEF Doing, Running, Busy
      <4> DEFINE part == [shard[role][step][k] EXCEPT ![r] = mem[role][k][r]]
                 files == [shard[role][step] EXCEPT ![k] = part]
                 steps == [shard[role] EXCEPT ![step] = files]
      <4>4. shard' = shard \/ shard' = [shard EXCEPT ![role] = steps]
        BY <4>1
      <4>5. part \in [Ranks -> Version \cup {Unreadable}]
        BY <3>0, <4>2, <4>3
      <4>6. files \in [Parts -> [Ranks -> Version \cup {Unreadable}]]
        <5> HIDE DEF part
        <5> QED  BY <3>0, <4>3, <4>5
      <4>7. steps \in [Steps -> [Parts -> [Ranks -> Version \cup {Unreadable}]]]
        <5> HIDE DEF files
        <5> QED  BY <3>0, <4>3, <4>6
      <4> HIDE DEF steps
      <4> QED  BY <3>0, <4>4, <4>7
    <3>3. CASE MakeDir(r) \/ AppendPath(r)
      BY <3>0, <3>3 DEF MakeDir, AppendPath, disk
    <3> QED  BY <1>4, <3>1, <3>2, <3>3 DEF Worker
  <2> QED  BY <1>2, <2>1, <2>2, <2>3 DEF TypeInv, TypeOK, SavingTypes, ShardTypes
<1> QED  BY <1>3, <1>4

\* The steps of the driver that save a checkpoint.
LEMMA SaveType ==
  ASSUME TypeInv,
         BeginSave \/ RoleSaved \/ SaveLoader \/ OpenTracker \/ WriteTracker
  PROVE  TypeInv'
<1> USE ConstantTypes
<1>1. UNCHANGED <<process, loop, mem, bank, prev, shard, bankFile>>
  BY DEF BeginSave, RoleSaved, SaveLoader, OpenTracker, WriteTracker, saving, disk
<1>2. DriverTypes'
  <2>1. pc' \in Phases /\ role' \in Roles
    BY DEF BeginSave, RoleSaved, SaveLoader, OpenTracker, WriteTracker, saving,
           Phases, TypeInv, TypeOK, DriverTypes
  <2> QED  BY <1>1, <2>1 DEF TypeInv, TypeOK, DriverTypes, process, loop
<1>3. MemTypes' /\ ShardTypes'
  BY <1>1 DEF TypeInv, TypeOK, MemTypes, ShardTypes
<1>4. SavingTypes'
  <2>1. at' = [q \in Ranks |-> 1] \/ at' = at
    BY DEF BeginSave, RoleSaved, SaveLoader, OpenTracker, WriteTracker, saving
  <2> QED  BY <1>1, <2>1 DEF TypeInv, TypeOK, SavingTypes
<1>5. FileTypes' /\ Bounds'
  <2>1. Busy /\ step \in Steps /\ step <= TotalSteps + life - 1
    BY BusyStep DEF Busy, BeginSave, RoleSaved, SaveLoader, OpenTracker,
                    WriteTracker, TypeInv, Bounds
  <2>2. CASE BeginSave \/ RoleSaved
    BY <1>1, <2>1, <2>2 DEF BeginSave, RoleSaved, disk, process, loop, Busy,
       TypeInv, TypeOK, FileTypes, Bounds
  <2>3. CASE SaveLoader
    <3>1. data' \in [Steps -> (0..EpochLength) \cup {NoData}]
      BY <2>3 DEF SaveLoader, TypeInv, TypeOK, DriverTypes, FileTypes
    <3> QED  BY <1>1, <2>1, <2>3, <3>1 DEF SaveLoader, process, loop, Busy,
                TypeInv, TypeOK, FileTypes, Bounds
  <2>4. CASE OpenTracker
    BY <1>1, <2>1, <2>4 DEF OpenTracker, process, loop, Busy, TypeInv, TypeOK,
                            FileTypes, Bounds
  <2>5. CASE WriteTracker
    BY <1>1, <2>1, <2>5 DEF WriteTracker, process, loop, Busy, TypeInv, TypeOK,
                            DriverTypes, FileTypes, Bounds
  <2> QED  BY <2>2, <2>3, <2>4, <2>5
<1>6. TakenTypes'
  <2>1. taken' = taken \/ taken' = [taken EXCEPT ![step] = [mem |-> mem, pos |-> pos]]
    BY DEF BeginSave, RoleSaved, SaveLoader, OpenTracker, WriteTracker
  <2>2. [mem |-> mem, pos |-> pos] \in
          [mem : [Roles -> [Parts -> [Ranks -> Version]]], pos : 0..EpochLength]
    BY DEF TypeInv, TypeOK, DriverTypes, MemTypes
  <2> HIDE DEF Version, Parts
  <2> QED  BY <2>1, <2>2 DEF TypeInv, TypeOK, TakenTypes
<1> QED  BY <1>2, <1>3, <1>4, <1>5, <1>6 DEF TypeInv, TypeOK

\* What a readable checkpoint holds is a version for each rank.
LEMMA LoadsType ==
  ASSUME TypeInv, NEW s \in Steps, Loadable(s), NEW o \in Roles
  PROVE  Loads(o, s) \in [Parts -> [Ranks -> Version]]
<1>1. \A k \in Parts, r \in Ranks : WriterOf(k, r) \in Ranks
  BY LeadAssumption DEF WriterOf
<1>2. \A k \in Parts, r \in Ranks :
        shard[o][s][k][WriterOf(k, r)] \in Version \cup {Unreadable}
  BY <1>1 DEF TypeInv, TypeOK, ShardTypes
<1>3. \A k \in Parts, r \in Ranks :
        shard[o][s][k][WriterOf(k, r)] # Unreadable
  BY DEF Loadable, Loads
<1> QED  BY <1>2, <1>3 DEF Loads

\* Kill and resume.
LEMMA CrashType ==
  ASSUME TypeInv, Crash
  PROVE  TypeInv'
<1> USE ConstantTypes
<1>1. DriverTypes' /\ MemTypes' /\ SavingTypes' /\ TakenTypes'
  BY DEF Crash, TypeInv, TypeOK, DriverTypes, MemTypes, SavingTypes, TakenTypes,
         Phases, process, loop, saving
<1>2. ShardTypes'
  <2>1. PICK hit \in SUBSET Ranks :
          shard' = [o \in Roles |-> [s \in Steps |-> [k \in Parts |->
                     [r \in Ranks |-> IF Torn(hit, o, s, k, r)
                        THEN Unreadable ELSE shard[o][s][k][r]]]]]
    BY DEF Crash
  <2> QED  BY <2>1 DEF TypeInv, TypeOK, ShardTypes
<1>3. data' \in [Steps -> (0..EpochLength) \cup {NoData}]
  BY DEF Crash, TypeInv, TypeOK, FileTypes
<1>4. FileTypes' /\ Bounds'
  BY <1>3 DEF Crash, TypeInv, TypeOK, DriverTypes, FileTypes, Bounds, Busy,
              process, loop
<1> QED  BY <1>1, <1>2, <1>4 DEF TypeInv, TypeOK

LEMMA RestartType ==
  ASSUME TypeInv, Restart
  PROVE  TypeInv'
<1> USE ConstantTypes
<1>1. /\ pc = "down" /\ life' = life + 1 /\ life \in Nat /\ life <= MaxCrashes
      /\ UNCHANGED <<backend, shard, data, tracker, bankFile, taken>>
  BY DEF Restart, disk, TypeInv, TypeOK, DriverTypes, Bounds
<1>0. /\ tracker.step \in Int /\ tracker.step <= TotalSteps + life - 1
      /\ tracker.state = "whole" => tracker.step # 0
  BY DEF TypeInv, TypeOK, FileTypes, Steps, Bounds
<1>2. ShardTypes' /\ FileTypes' /\ TakenTypes'
  BY <1>1 DEF TypeInv, TypeOK, ShardTypes, FileTypes, TakenTypes
<1>3. CASE pc' = "dead"
  <2>1. UNCHANGED <<loop, mem, bank, saving>>
    BY <1>3 DEF Restart
  <2>2. DriverTypes' /\ MemTypes' /\ SavingTypes'
    BY <1>1, <1>3, <2>1 DEF TypeInv, TypeOK, DriverTypes, MemTypes, SavingTypes,
                            Phases, loop, saving
  <2>3. Bounds'
    BY <1>0, <1>1, <1>3, <2>1 DEF TypeInv, TypeOK, DriverTypes, Bounds, Busy, loop
  <2> QED  BY <1>2, <2>2, <2>3 DEF TypeInv, TypeOK
<1>4. CASE pc' # "dead"
  <2>1. /\ pc' = "fetch" /\ epoch' = 0
        /\ bank' = IF SaveInPlace THEN bankFile.bank ELSE 0
        /\ role' = "actor" /\ at' = [r \in Ranks |-> 1]
        /\ prev' = [o \in Roles |-> [r \in Ranks |-> <<>>]]
        /\ tracker.state # "torn"
        /\ tracker.state = "whole" => Loadable(tracker.step)
    BY <1>4 DEF Restart
  <2>2. SavingTypes'
    BY <2>1 DEF SavingTypes
  <2>3. tracker \in [state : {"absent", "torn", "whole"}, step : Steps \cup {0}]
    BY DEF TypeInv, TypeOK, FileTypes
  <2>4. CASE tracker.state = "absent"
    <3>1. /\ step' = 1 /\ pos' = 0
          /\ mem' = [o \in Roles |-> [k \in Parts |->
                       [r \in Ranks |-> Pretrained]]]
      BY <1>4, <2>4 DEF Restart
    <3>2. MemTypes'
      BY <3>1, VersionTypes DEF MemTypes
    <3>3. DriverTypes' /\ Bounds'
      <4>1. bankFile.bank \in Nat
        BY DEF TypeInv, TypeOK, FileTypes
      <4> QED  BY <1>0, <1>1, <2>1, <3>1, <4>1
                  DEF TypeInv, TypeOK, DriverTypes, Bounds, Busy, Phases
    <3> QED  BY <1>2, <2>2, <3>2, <3>3 DEF TypeInv, TypeOK
  <2>5. CASE tracker.state = "whole"
    <3>1. /\ step' = tracker.step + 1
          /\ pos' = IF data[tracker.step] = NoData THEN 0
                    ELSE data[tracker.step]
          /\ mem' = [o \in Roles |-> Loads(o, tracker.step)]
      BY <1>4, <2>5 DEF Restart, ResumeStep
    <3>2. tracker.step \in Steps
      BY <2>3, <2>5 DEF TypeInv, Bounds
    <3>3. \A o \in Roles : Loads(o, tracker.step) \in [Parts -> [Ranks -> Version]]
      BY <2>1, <2>5, <3>2, LoadsType
    <3>4. MemTypes'
      BY <3>1, <3>3 DEF MemTypes
    <3>5. pos' \in 0..EpochLength
      BY <3>1, <3>2 DEF TypeInv, TypeOK, FileTypes
    <3>6. step' \in Nat \ {0} /\ step' <= TotalSteps + life
      BY <1>1, <3>1, <3>2 DEF Steps, TypeInv, Bounds
    <3>7. DriverTypes' /\ Bounds'
      <4>1. bankFile.bank \in Nat
        BY DEF TypeInv, TypeOK, FileTypes
      <4> QED  BY <1>0, <1>1, <2>1, <3>5, <3>6, <4>1
                  DEF TypeInv, TypeOK, DriverTypes, Bounds, Busy, Phases
    <3> QED  BY <1>2, <2>2, <3>4, <3>7 DEF TypeInv, TypeOK
  <2> QED  BY <2>1, <2>3, <2>4, <2>5
<1> QED  BY <1>3, <1>4

LEMMA TypeNext == TypeInv /\ [Next]_vars => TypeInv'
<1> SUFFICES ASSUME TypeInv, [Next]_vars PROVE TypeInv'
  OBVIOUS
<1>1. CASE UNCHANGED vars
  BY <1>1 DEF vars, process, loop, saving, disk, TypeInv, TypeOK, DriverTypes,
              MemTypes, SavingTypes, ShardTypes, FileTypes, TakenTypes, Bounds, Busy
<1>2. CASE Driver
  BY <1>2, LoopType, SaveType DEF Driver
<1> QED  BY <1>1, <1>2, RankType, CrashType, RestartType DEF Next, Stopped

\* Every variable keeps its type; in particular every checkpoint that is saved
\* or named by the tracker is of a step within the bounds of the run.
THEOREM TypeCorrect == Spec => []TypeOK
<1>1. TypeInv => TypeOK
  BY DEF TypeInv
<1> QED  BY <1>1, TypeInit, TypeNext, PTL DEF Spec

\* However often the run is killed, at its end too, it trains at most one step
\* per life beyond total_training_steps (fit, _load_checkpoint).
THEOREM TrainingIsBounded == Spec => []TrainingBounded
<1>1. TypeInv => TrainingBounded
  BY DEF TypeInv, Bounds, TrainingBounded
<1> QED  BY <1>1, TypeInit, TypeNext, PTL DEF Spec

-----------------------------------------------------------------------------
(* The invariant *)

Tracked == tracker.state = "whole"
Saving  == {"role", "data", "opentracker", "tracker"}

\* Role o has been saved and the driver went on to something else.
RoleDone(o) == pc \in Saving \ {"role"} \/ (pc = "role" /\ role = "critic" /\ o = "actor")

\* Rank r has written its file of part k of the checkpoint being saved.
Written(o, k, r) ==
  \/ RoleDone(o)
  \/ pc = "role" /\ o = role /\ \E i \in 1..8 : i < at[r] /\ Program[i] = k

\* Rank r has recorded the path of the checkpoint being saved.
Appended(o, r) == RoleDone(o) \/ (pc = "role" /\ o = role /\ at[r] > 8)

\* The step being worked on comes after the one the tracker names.
OrderInv ==
  /\ tracker.state = "absent" => tracker.step = 0
  /\ Busy /\ pc # "next" => tracker.step < step
  /\ pc = "next" => tracker.step <= step

\* Saved paths are in the order of their steps, and the last one is that of the
\* tracker until the checkpoint being saved is recorded.
PathsInv ==
  Busy => \A o \in Roles, r \in Ranks :
    /\ \A i, j \in 1..Len(prev[o][r]) : i < j => prev[o][r][i] < prev[o][r][j]
    /\ Len(prev[o][r]) > 0 =>
         prev[o][r][Len(prev[o][r])] = IF Appended(o, r) THEN step ELSE tracker.step

\* All ranks of a role hold the same parameters.
AgreeInv ==
  Busy => \A o \in Roles, k, l \in Parts, q, r \in Ranks : mem[o][k][q] = mem[o][l][r]

\* The files of the checkpoint being saved are those of the memory it is taken
\* of, as far as they are written.
SavedInv ==
  pc \in Saving =>
    /\ taken[step] = [mem |-> mem, pos |-> pos]
    /\ \A o \in Roles, k \in Parts, r \in Ranks :
         WriterOf(k, r) = r /\ Written(o, k, r) =>
           shard[o][step][k][r] = mem[o][k][r]
    /\ pc \in {"opentracker", "tracker"} => data[step] = pos

\* A file of the tracked checkpoint is as it was taken or, where one role keeps
\* one checkpoint only, possibly deleted.
WholeInv ==
  Tracked =>
    /\ \A o \in Roles, k \in Parts, r \in Ranks : WriterOf(k, r) = r =>
         \/ shard[o][tracker.step][k][r] = taken[tracker.step].mem[o][k][r]
         \/ shard[o][tracker.step][k][r] = Unreadable /\ \E u \in Roles : Keep[u] = 1
    /\ data[tracker.step] = taken[tracker.step].pos
    /\ \A o \in Roles, k, l \in Parts, q, r \in Ranks :
         taken[tracker.step].mem[o][k][q] = taken[tracker.step].mem[o][l][r]

FilesInv == OrderInv /\ PathsInv /\ AgreeInv /\ SavedInv /\ WholeInv

-----------------------------------------------------------------------------
(* Facts the steps need *)

LEMMA WriterFacts ==
  \A k \in Parts, r \in Ranks :
    WriterOf(k, r) \in Ranks /\ WriterOf(k, WriterOf(k, r)) = WriterOf(k, r)
BY LeadAssumption DEF WriterOf

\* The checkpoints a rank deletes are older than the tracked one, unless the
\* role keeps one only.
LEMMA VictimsOld ==
  ASSUME TypeInv, FilesInv, NEW r \in Ranks, Doing(r, "rotate"),
         NEW s \in Victims(role, r)
  PROVE  /\ s <= tracker.step /\ s < step
         /\ Keep[role] # 1 => s < tracker.step
<1> DEFINE q == prev[role][r]
<1>1. q \in Seq(Nat) /\ role \in Roles /\ Keep[role] \in Nat
  BY ConstantTypes DEF TypeInv, TypeOK, SavingTypes, DriverTypes
<1>2. pc = "role" /\ at[r] = 1
  <2>1. pc = "role" /\ at[r] <= 8 /\ Program[at[r]] = "rotate" /\ at[r] \in Nat \ {0}
    BY ProgramFacts DEF Doing, Running, TypeInv, TypeOK, SavingTypes
  <2> QED  BY <2>1, ProgramFacts
<1>3. ~Appended(role, r)
  BY <1>1, <1>2, ConstantTypes DEF Appended, RoleDone, Saving
<1>4. /\ \A i, j \in 1..Len(q) : i < j => q[i] < q[j]
      /\ Len(q) > 0 => q[Len(q)] = tracker.step
  BY <1>1, <1>2, <1>3 DEF FilesInv, PathsInv, Busy
<1>5. PICK i \in 1..Surplus(role, q) : s = q[i]
  BY DEF Victims
<1>9. tracker.step < step /\ tracker.step \in Nat /\ step \in Nat
  BY <1>2 DEF FilesInv, OrderInv, Busy, TypeInv, TypeOK, FileTypes, DriverTypes, Steps
<1> HIDE DEF q
<1>6. /\ Keep[role] > 0 /\ Len(q) >= Keep[role] /\ i <= Len(q) - Keep[role] + 1
      /\ i \in Nat /\ i >= 1 /\ Len(q) \in Nat
  BY <1>1, <1>5 DEF Surplus
<1>7. i \in 1..Len(q) /\ Len(q) > 0 /\ s \in Nat
  BY <1>1, <1>5, <1>6
<1>8. s <= tracker.step /\ (Keep[role] # 1 => s < tracker.step)
  <2>1. CASE i = Len(q)
    BY <1>9, <1>1, <1>4, <1>5, <1>6, <1>7, <2>1
  <2>2. CASE i < Len(q)
    <3>1. Len(q) \in 1..Len(q)
      BY <1>1, <1>7
    <3>2. q[i] < q[Len(q)]
      BY <1>4, <1>7, <2>2, <3>1
    <3> QED  BY <1>4, <1>5, <1>7, <1>9, <3>2
  <2> QED  BY <1>1, <1>7, <2>1, <2>2
<1> QED  BY <1>7, <1>8, <1>9

-----------------------------------------------------------------------------
(* The invariant holds *)

LEMMA FilesInit == Init => FilesInv
<1> SUFFICES ASSUME Init PROVE FilesInv
  OBVIOUS
<1>1. OrderInv /\ SavedInv /\ WholeInv
  BY DEF Init, OrderInv, SavedInv, WholeInv, Saving, Tracked
<1>2. PathsInv
  BY DEF Init, PathsInv
<1>3. AgreeInv
  BY DEF Init, AgreeInv
<1> QED  BY <1>1, <1>2, <1>3 DEF FilesInv

\* The steps of the driver between two checkpoints write no file.
LEMMA LoopFiles ==
  ASSUME TypeInv, FilesInv,
         \/ NextBatch \/ NextEpoch \/ Train \/ NoEvolution \/ Evolve
         \/ WriteBank \/ NoSave \/ EndStep
  PROVE  FilesInv'
<1>1. /\ UNCHANGED <<role, at, prev, shard, data, tracker, taken>>
      /\ Busy /\ pc \notin Saving /\ pc' \notin Saving
  BY DEF NextBatch, NextEpoch, Train, NoEvolution, Evolve, WriteBank, NoSave,
         EndStep, saving, disk, Saving, Busy
<1>2. SavedInv'
  BY <1>1 DEF SavedInv
<1>3. WholeInv'
  <2>1. \A k \in Parts, r \in Ranks : (WriterOf(k, r))' = WriterOf(k, r)
    BY DEF NextBatch, NextEpoch, Train, NoEvolution, Evolve, WriteBank, NoSave,
           EndStep, process, WriterOf
  <2> QED  BY <1>1, <2>1 DEF FilesInv, WholeInv, Tracked
<1>4. PathsInv'
  <2>1. \A o \in Roles, r \in Ranks : ~Appended(o, r) /\ ~(Appended(o, r))'
    BY <1>1 DEF Appended, RoleDone, Saving
  <2> QED  BY <1>1, <2>1 DEF FilesInv, PathsInv
<1>5. OrderInv'
  <2>1. step \in Nat /\ tracker.step \in Nat
    BY DEF TypeInv, TypeOK, DriverTypes, FileTypes, Steps
  <2>2. CASE EndStep
    BY <1>1, <2>1, <2>2 DEF EndStep, FilesInv, OrderInv, Busy
  <2>3. CASE ~EndStep
    <3>1. step' = step /\ pc # "next"
      BY <2>3 DEF NextBatch, NextEpoch, Train, NoEvolution, Evolve, WriteBank,
                  NoSave, loop
    <3> QED  BY <1>1, <2>1, <3>1 DEF FilesInv, OrderInv
  <2> QED  BY <2>2, <2>3
<1>6. AgreeInv'
  <2>1. CASE Train
    BY <2>1, <1>1 DEF Train, FilesInv, AgreeInv
  <2>2. CASE mem' = mem
    BY <2>2, <1>1 DEF FilesInv, AgreeInv
  <2> QED  BY <2>1, <2>2 DEF NextBatch, NextEpoch, NoEvolution, Evolve,
                             WriteBank, NoSave, EndStep
<1> QED  BY <1>2, <1>3, <1>4, <1>5, <1>6 DEF FilesInv

\* What a rank has written and recorded once it has done its next phase.
LEMMA AdvanceRank ==
  ASSUME TypeInv, NEW r \in Ranks, NEW what, Doing(r, what), Advance(r),
         UNCHANGED <<process, pc, role>>
  PROVE  /\ \A o \in Roles, q \in Ranks :
              Appended(o, q)' <=> Appended(o, q) \/ (o = role /\ q = r /\ what = "append")
         /\ \A o \in Roles, k \in Parts, q \in Ranks :
              Written(o, k, q)' => Written(o, k, q) \/ (o = role /\ q = r /\ what = k)
<1>1. /\ pc = "role" /\ at[r] <= 8 /\ at[r] \in Nat \ {0} /\ Program[at[r]] = what
      /\ \A q \in Ranks : at[q] \in Nat \ {0}
      /\ \A q \in Ranks : at'[q] = IF q = r THEN at[r] + 1 ELSE at[q]
  BY ProgramFacts DEF Doing, Running, Advance, TypeInv, TypeOK, SavingTypes
<1>2. pc' = pc /\ role' = role /\ Program' = Program
  BY DEF Program, process
<1>3. \A o \in Roles : RoleDone(o)' = RoleDone(o)
  BY <1>2 DEF RoleDone
<1>4. what = "append" <=> at[r] = 8
  BY <1>1, ProgramFacts
<1>5. \A q \in Ranks : at'[q] > 8 <=> at[q] > 8 \/ (q = r /\ what = "append")
  BY <1>1, <1>4
<1>6. \A q \in Ranks : \A i \in 1..8 :
        i < at'[q] /\ Program[i] # what => i < at[q] \/ q # r
  BY <1>1
<1>7. \A o \in Roles, q \in Ranks :
        Appended(o, q)' <=> Appended(o, q) \/ (o = role /\ q = r /\ what = "append")
  BY <1>1, <1>2, <1>3, <1>5 DEF Appended
<1>8. \A o \in Roles, k \in Parts, q \in Ranks :
        Written(o, k, q)' => Written(o, k, q) \/ (o = role /\ q = r /\ what = k)
  BY <1>1, <1>2, <1>3, <1>6 DEF Written
<1> QED  BY <1>7, <1>8

\* The same for all ranks at once, at a barrier.
LEMMA AdvanceAll ==
  ASSUME TypeInv, Barrier
  PROVE  /\ \A o \in Roles, q \in Ranks : Appended(o, q)' <=> Appended(o, q)
         /\ \A o \in Roles, k \in Parts, q \in Ranks : Written(o, k, q)' => Written(o, k, q)
<1>1. /\ pc = "role" /\ pc' = pc /\ role' = role /\ Program' = Program
      /\ \A q \in Ranks : /\ at[q] \in Nat \ {0} /\ at[q] <= 8
                          /\ Program[at[q]] = "barrier" /\ at'[q] = at[q] + 1
  BY RanksAssumption, ProgramFacts
  DEF Barrier, Doing, Running, TypeInv, TypeOK, SavingTypes, Program, process
<1>2. \A o \in Roles : RoleDone(o)' = RoleDone(o)
  BY <1>1 DEF RoleDone
<1>3. \A q \in Ranks : at[q] # 8
  BY <1>1, ProgramFacts
<1>4. \A q \in Ranks : at'[q] > 8 <=> at[q] > 8
  BY <1>1, <1>3
<1>5. \A q \in Ranks, k \in Parts : \A i \in 1..8 :
        i < at'[q] /\ Program[i] = k => i < at[q]
  BY <1>1 DEF Parts
<1>6. \A o \in Roles, q \in Ranks : Appended(o, q)' <=> Appended(o, q)
  BY <1>1, <1>2, <1>4 DEF Appended
<1>7. \A o \in Roles, k \in Parts, q \in Ranks : Written(o, k, q)' => Written(o, k, q)
  BY <1>1, <1>2, <1>5 DEF Written
<1> QED  BY <1>6, <1>7

\* The parts of the invariant no rank can disturb.
LEMMA RankFrame ==
  ASSUME TypeInv, FilesInv, Barrier \/ \E r \in Ranks : Worker(r)
  PROVE  /\ UNCHANGED <<process, pc, step, pos, mem, role, data, tracker, taken>>
         /\ pc = "role" /\ Busy /\ step \in Steps /\ tracker.step < step
         /\ \A k \in Parts, r \in Ranks : WriterOf(k, r)' = WriterOf(k, r)
         /\ OrderInv' /\ AgreeInv'
<1>1. UNCHANGED <<process, pc, step, pos, mem, role, data, tracker, taken>>
  BY DEF Worker, Rotate, MakeDir, WriteFile, AppendPath, Barrier, disk, loop
<1>2. pc = "role"
  BY RanksAssumption DEF Worker, Rotate, MakeDir, WriteFile, AppendPath, Barrier,
                         Doing, Running
<1>3. Busy /\ step \in Steps
  BY <1>2, BusyStep DEF Busy
<1>4. \A k \in Parts, r \in Ranks : WriterOf(k, r)' = WriterOf(k, r)
  BY <1>1 DEF WriterOf, process
<1>5. OrderInv' /\ AgreeInv'
  BY <1>1 DEF FilesInv, OrderInv, AgreeInv, Busy
<1> QED  BY <1>1, <1>2, <1>3, <1>4, <1>5 DEF FilesInv, OrderInv

\* What a step of a rank that writes no file has to keep.
LEMMA NoFileWritten ==
  ASSUME TypeInv, FilesInv, Barrier \/ \E r \in Ranks : Worker(r), shard' = shard,
         \A o \in Roles, k \in Parts, q \in Ranks : Written(o, k, q)' => Written(o, k, q)
  PROVE  SavedInv' /\ WholeInv'
<1>1. SavedInv'
  BY RankFrame DEF FilesInv, SavedInv
<1>2. WholeInv'
  BY RankFrame DEF FilesInv, WholeInv, Tracked
<1> QED  BY <1>1, <1>2

LEMMA BarrierFiles ==
  ASSUME TypeInv, FilesInv, Barrier
  PROVE  FilesInv'
<1>1. shard' = shard /\ prev' = prev
  BY DEF Barrier, disk
<1>2. PathsInv'
  BY <1>1, AdvanceAll, RankFrame DEF FilesInv, PathsInv, Busy
<1> QED  BY <1>1, <1>2, AdvanceAll, RankFrame, NoFileWritten DEF FilesInv

LEMMA MakeDirFiles ==
  ASSUME TypeInv, FilesInv, NEW r \in Ranks, MakeDir(r)
  PROVE  FilesInv'
<1>1. Worker(r) /\ Doing(r, "mkdir") /\ Advance(r) /\ UNCHANGED <<process, pc, role>>
  BY DEF Worker, MakeDir
<1>2. shard' = shard /\ prev' = prev
  BY DEF MakeDir, disk
<1>3. /\ \A o \in Roles, q \in Ranks : Appended(o, q)' <=> Appended(o, q)
      /\ \A o \in Roles, k \in Parts, q \in Ranks : Written(o, k, q)' => Written(o, k, q)
  BY <1>1, AdvanceRank DEF Parts
<1>4. PathsInv'
  BY <1>1, <1>2, <1>3, RankFrame DEF FilesInv, PathsInv, Busy
<1> QED  BY <1>1, <1>2, <1>3, <1>4, RankFrame, NoFileWritten DEF FilesInv

LEMMA WriteFileFiles ==
  ASSUME TypeInv, FilesInv, NEW r \in Ranks, WriteFile(r)
  PROVE  FilesInv'
<1>1. PICK k \in Parts :
        /\ Doing(r, k)
        /\ shard' = IF WriterOf(k, r) = r
                    THEN [shard EXCEPT ![role][step][k][r] = mem[role][k][r]]
                    ELSE shard
  BY DEF WriteFile
<1>2. Worker(r) /\ Advance(r) /\ UNCHANGED <<process, pc, role, prev>>
  BY DEF Worker, WriteFile
<1>3. /\ \A o \in Roles, q \in Ranks : Appended(o, q)' <=> Appended(o, q)
      /\ \A o \in Roles, l \in Parts, q \in Ranks :
           Written(o, l, q)' => Written(o, l, q) \/ (o = role /\ q = r /\ l = k)
  BY <1>1, <1>2, AdvanceRank DEF Parts
<1>4. \A o \in Roles, s \in Steps, l \in Parts, q \in Ranks :
        shard'[o][s][l][q] =
          IF WriterOf(k, r) = r /\ o = role /\ s = step /\ l = k /\ q = r
          THEN mem[role][k][r] ELSE shard[o][s][l][q]
  BY <1>1, <1>2, RankFrame DEF TypeInv, TypeOK, ShardTypes
<1>5. PathsInv'
  BY <1>2, <1>3, RankFrame DEF FilesInv, PathsInv, Busy
<1>6. SavedInv'
  <2>1. pc' = pc /\ taken'[step] = [mem |-> mem', pos |-> pos'] /\ step' = step
          /\ mem' = mem /\ role' = role /\ pc = "role" /\ step \in Steps
    BY <1>2, RankFrame DEF FilesInv, SavedInv, Saving
  <2>2. ASSUME NEW o \in Roles, NEW l \in Parts, NEW q \in Ranks,
               WriterOf(l, q)' = q, Written(o, l, q)'
        PROVE  shard'[o][step][l][q] = mem[o][l][q]
    <3>1. WriterOf(l, q) = q
      BY <1>2, <2>2, RankFrame
    <3>2. CASE o = role /\ q = r /\ l = k
      BY <1>4, <2>1, <3>1, <3>2
    <3>3. CASE Written(o, l, q) /\ ~(o = role /\ q = r /\ l = k)
      <4>1. shard[o][step][l][q] = mem[o][l][q]
        BY <2>1, <3>1, <3>3 DEF FilesInv, SavedInv, Saving
      <4> QED  BY <1>4, <2>1, <3>3, <4>1
    <3> QED  BY <1>3, <2>2, <3>2, <3>3
  <2> QED  BY <2>1, <2>2 DEF SavedInv
<1>7. WholeInv'
  <2>1. tracker' = tracker /\ taken' = taken /\ data' = data /\ tracker.step < step
    BY <1>2, RankFrame
  <2>2. tracker.step \in Nat /\ step \in Nat /\ (Tracked => tracker.step \in Steps)
    BY DEF TypeInv, TypeOK, FileTypes, DriverTypes, Steps, Bounds, Tracked
  <2>3. ASSUME Tracked, NEW o \in Roles, NEW l \in Parts, NEW q \in Ranks
        PROVE  shard'[o][tracker.step][l][q] = shard[o][tracker.step][l][q]
    BY <1>4, <2>1, <2>2, <2>3
  <2> QED  BY <1>2, <2>1, <2>3, RankFrame DEF FilesInv, WholeInv, Tracked
<1> QED  BY <1>2, <1>5, <1>6, <1>7, RankFrame DEF FilesInv

LEMMA RotateFiles ==
  ASSUME TypeInv, FilesInv, NEW r \in Ranks, Rotate(r)
  PROVE  FilesInv'
<1> DEFINE q == prev[role][r]
           n == Surplus(role, q)
<1>1. /\ Worker(r) /\ Doing(r, "rotate") /\ Advance(r)
      /\ UNCHANGED <<process, pc, role>>
      /\ prev' = [prev EXCEPT ![role][r] = SubSeq(q, n + 1, Len(q))]
      /\ shard' = [shard EXCEPT ![role] =
                    [s \in Steps |-> IF s \in Victims(role, r) THEN NoFiles ELSE @[s]]]
  BY DEF Worker, Rotate
<1>2. /\ \A o \in Roles, p \in Ranks : Appended(o, p)' <=> Appended(o, p)
      /\ \A o \in Roles, k \in Parts, p \in Ranks : Written(o, k, p)' => Written(o, k, p)
  BY <1>1, AdvanceRank DEF Parts
<1>3. role \in Roles /\ q \in Seq(Nat) /\ n \in Nat /\ n <= Len(q)
  <2>1. role \in Roles /\ q \in Seq(Nat) /\ Keep[role] \in Nat
    BY ConstantTypes DEF TypeInv, TypeOK, SavingTypes, DriverTypes
  <2> HIDE DEF q
  <2>2. n \in Nat /\ n <= Len(q)
    BY <2>1 DEF Surplus
  <2> QED  BY <2>1, <2>2
<1>4. \A o \in Roles, s \in Steps, k \in Parts, p \in Ranks :
        shard'[o][s][k][p] = IF o = role /\ s \in Victims(role, r) THEN Unreadable
                             ELSE shard[o][s][k][p]
  BY <1>1, <1>3 DEF TypeInv, TypeOK, ShardTypes, NoFiles
<1>5. PathsInv'
  <2> DEFINE t == SubSeq(q, n + 1, Len(q))
  <2>1. \A o \in Roles, p \in Ranks :
          prev'[o][p] = IF o = role /\ p = r THEN t ELSE prev[o][p]
    BY <1>1, <1>3 DEF TypeInv, TypeOK, SavingTypes
  <2>2. /\ \A i, j \in 1..Len(q) : i < j => q[i] < q[j]
        /\ Len(q) > 0 => q[Len(q)] = IF Appended(role, r) THEN step ELSE tracker.step
    BY <1>1, <1>3, RankFrame DEF FilesInv, PathsInv
  <2> HIDE DEF q, n
  <2>3. /\ t \in Seq(Nat) /\ Len(t) = Len(q) - n /\ Len(q) \in Nat
        /\ \A i \in 1..Len(t) : t[i] = q[i + n]
    BY <1>3
  <2> HIDE DEF t
  <2>4. \A i, j \in 1..Len(t) : i < j => t[i] < t[j]
    <3> TAKE i, j \in 1..Len(t)
    <3>1. i + n \in 1..Len(q) /\ j + n \in 1..Len(q)
      BY <1>3, <2>3
    <3>2. t[i] = q[i + n] /\ t[j] = q[j + n]
      BY <2>3
    <3>3. i < j => i + n < j + n
      BY <1>3, <2>3
    <3> QED  BY <2>2, <3>1, <3>2, <3>3
  <2>5. Len(t) > 0 => t[Len(t)] = q[Len(q)] /\ Len(q) > 0
    <3> HAVE Len(t) > 0
    <3>1. Len(t) \in 1..Len(t) /\ Len(t) + n = Len(q)
      BY <1>3, <2>3
    <3> QED  BY <1>3, <2>3, <3>1
  <2>6. step' = step /\ tracker' = tracker /\ Busy
    BY <1>1, RankFrame
  <2>7. ASSUME NEW o \in Roles, NEW p \in Ranks
        PROVE  /\ \A i, j \in 1..Len(prev'[o][p]) :
                    i < j => prev'[o][p][i] < prev'[o][p][j]
               /\ Len(prev'[o][p]) > 0 =>
                    prev'[o][p][Len(prev'[o][p])] =
                      IF Appended(o, p) THEN step ELSE tracker.step
    <3>1. CASE o = role /\ p = r
      BY <2>1, <2>2, <2>4, <2>5, <3>1
    <3>2. CASE ~(o = role /\ p = r)
      BY <2>1, <2>6, <3>2 DEF FilesInv, PathsInv
    <3> QED  BY <3>1, <3>2
  <2> QED  BY <1>2, <2>6, <2>7 DEF PathsInv
<1> HIDE DEF q, n
<1>6. SavedInv'
  <2>1. step \notin Victims(role, r)
    BY <1>1, VictimsOld DEF TypeInv, TypeOK, DriverTypes
  <2>2. /\ pc' = pc /\ step' = step /\ mem' = mem /\ pos' = pos /\ taken' = taken
        /\ pc = "role" /\ step \in Steps
    BY <1>1, RankFrame
  <2>3. \A o \in Roles, k \in Parts, p \in Ranks :
          shard'[o][step][k][p] = shard[o][step][k][p]
    BY <1>4, <2>1, <2>2
  <2> QED  BY <1>1, <1>2, <2>2, <2>3, RankFrame DEF FilesInv, SavedInv, Saving
<1>7. WholeInv'
  <2>1. tracker' = tracker /\ taken' = taken /\ data' = data
    BY <1>1, RankFrame
  <2>2. tracker.step \in Nat /\ (Tracked => tracker.step \in Steps)
    BY DEF TypeInv, TypeOK, FileTypes, Steps, Bounds, Tracked
  <2>3. tracker.step \in Victims(role, r) => Keep[role] = 1
    BY <1>1, <2>2, VictimsOld
  <2>4. ASSUME Tracked, NEW o \in Roles, NEW k \in Parts, NEW p \in Ranks
        PROVE  \/ shard'[o][tracker.step][k][p] = shard[o][tracker.step][k][p]
               \/ shard'[o][tracker.step][k][p] = Unreadable /\ \E u \in Roles : Keep[u] = 1
    BY <1>3, <1>4, <2>2, <2>3, <2>4
  <2>5. \A k \in Parts, p \in Ranks : WriterOf(k, p)' = WriterOf(k, p)
    BY <1>1, RankFrame
  <2>6. ASSUME Tracked, NEW o \in Roles, NEW k \in Parts, NEW p \in Ranks,
               WriterOf(k, p) = p
        PROVE  \/ shard'[o][tracker.step][k][p] = taken[tracker.step].mem[o][k][p]
               \/ /\ shard'[o][tracker.step][k][p] = Unreadable
                  /\ \E u \in Roles : Keep[u] = 1
    BY <2>4, <2>6 DEF FilesInv, WholeInv
  <2> QED  BY <2>1, <2>5, <2>6 DEF FilesInv, WholeInv, Tracked
<1> QED  BY <1>1, <1>5, <1>6, <1>7, RankFrame DEF FilesInv

LEMMA AppendFiles ==
  ASSUME TypeInv, FilesInv, NEW r \in Ranks, AppendPath(r)
  PROVE  FilesInv'
<1> DEFINE q == prev[role][r]
           t == Append(q, step)
<1>1. /\ Worker(r) /\ Doing(r, "append") /\ Advance(r)
      /\ UNCHANGED <<process, pc, role, shard>>
      /\ prev' = [prev EXCEPT ![role][r] = t]
  BY DEF Worker, AppendPath, disk
<1>2. /\ \A o \in Roles, p \in Ranks :
           Appended(o, p)' <=> Appended(o, p) \/ (o = role /\ p = r)
      /\ \A o \in Roles, k \in Parts, p \in Ranks : Written(o, k, p)' => Written(o, k, p)
  BY <1>1, AdvanceRank DEF Parts
<1>3. role \in Roles /\ q \in Seq(Nat) /\ step \in Nat /\ tracker.step \in Nat
  BY DEF TypeInv, TypeOK, SavingTypes, DriverTypes, FileTypes, Steps
<1>4. ~Appended(role, r)
  <2>1. pc = "role" /\ at[r] <= 8
    BY <1>1, ProgramFacts DEF Doing, Running
  <2> QED  BY <1>3, <2>1, ConstantTypes DEF Appended, RoleDone, Saving,
              TypeInv, TypeOK, SavingTypes
<1>5. PathsInv'
  <2>1. \A o \in Roles, p \in Ranks :
          prev'[o][p] = IF o = role /\ p = r THEN t ELSE prev[o][p]
    BY <1>1, <1>3 DEF TypeInv, TypeOK, SavingTypes
  <2>2. /\ \A i, j \in 1..Len(q) : i < j => q[i] < q[j]
        /\ Len(q) > 0 => q[Len(q)] = tracker.step
    BY <1>1, <1>3, <1>4, RankFrame DEF FilesInv, PathsInv
  <2> HIDE DEF q
  <2>3. /\ Len(q) \in Nat /\ Len(t) = Len(q) + 1 /\ t[Len(t)] = step
        /\ \A i \in 1..Len(q) : t[i] = q[i] /\ q[i] \in Nat
    BY <1>3
  <2>4. \A i \in 1..Len(q) : q[i] < step
    <3> TAKE i \in 1..Len(q)
    <3>1. i < Len(q) => q[i] < q[Len(q)]
      BY <2>2, <2>3
    <3>2. q[i] <= tracker.step
      BY <1>3, <2>2, <2>3, <3>1
    <3> QED  BY <1>1, <1>3, <2>3, <3>2, RankFrame
  <2> HIDE DEF t
  <2>5. \A i, j \in 1..Len(t) : i < j => t[i] < t[j]
    <3> TAKE i, j \in 1..Len(t)
    <3>1. CASE j \in 1..Len(q)
      BY <2>2, <2>3, <3>1
    <3>2. CASE j = Len(t)
      BY <2>3, <2>4, <3>2
    <3> QED  BY <2>3, <3>1, <3>2
  <2> QED  BY <1>1, <1>2, <2>1, <2>3, <2>5, RankFrame DEF FilesInv, PathsInv, Busy
<1> HIDE DEF q, t
<1> QED  BY <1>1, <1>2, <1>5, RankFrame, NoFileWritten DEF FilesInv

\* The driver begins a checkpoint, or has the results of all ranks.
LEMMA BeginSaveFiles ==
  ASSUME TypeInv, FilesInv, BeginSave
  PROVE  FilesInv'
<1>1. /\ pc = "save" /\ pc' = "role" /\ Busy /\ role' = "actor"
      /\ \A r \in Ranks : at'[r] = 1
      /\ taken' = [taken EXCEPT ![step] = [mem |-> mem, pos |-> pos]]
      /\ UNCHANGED <<backend, step, pos, mem, prev, shard, data, tracker>>
  BY DEF BeginSave, process, loop, disk, Busy
<1>2. step \in Steps /\ step \in Nat /\ tracker.step < step
  BY <1>1, BusyStep DEF FilesInv, OrderInv, TypeInv, TypeOK, DriverTypes
<1>3. \A s \in Steps :
        taken'[s] = IF s = step THEN [mem |-> mem, pos |-> pos] ELSE taken[s]
  BY <1>1 DEF TypeInv, TypeOK, TakenTypes
<1>4. \A o \in Roles, r \in Ranks : ~Appended(o, r) /\ ~(Appended(o, r))'
  BY <1>1 DEF Appended, RoleDone, Saving
<1>5. \A o \in Roles, k \in Parts, r \in Ranks : ~(Written(o, k, r))'
  BY <1>1 DEF Written, RoleDone, Saving
<1>6. OrderInv' /\ AgreeInv'
  BY <1>1, <1>2 DEF FilesInv, OrderInv, AgreeInv, Busy
<1>7. PathsInv'
  BY <1>1, <1>4 DEF FilesInv, PathsInv, Busy
<1>8. SavedInv'
  BY <1>1, <1>2, <1>3, <1>5 DEF SavedInv
<1>9. WholeInv'
  <2>1. Tracked => taken'[tracker.step] = taken[tracker.step]
    <3>1. Tracked => tracker.step \in Steps /\ tracker.step \in Nat
      BY DEF TypeInv, TypeOK, FileTypes, Bounds, Tracked, Steps
    <3>2. Tracked => tracker.step # step
      BY <1>2, <3>1
    <3> QED  BY <1>3, <3>1, <3>2
  <2>2. \A k \in Parts, r \in Ranks : WriterOf(k, r)' = WriterOf(k, r)
    BY <1>1 DEF WriterOf
  <2> QED  BY <1>1, <2>1, <2>2 DEF FilesInv, WholeInv, Tracked
<1> QED  BY <1>6, <1>7, <1>8, <1>9 DEF FilesInv

LEMMA RoleSavedFiles ==
  ASSUME TypeInv, FilesInv, RoleSaved
  PROVE  FilesInv'
<1>1. /\ pc = "role" /\ pc' \in {"role", "data"} /\ Busy
      /\ \A r \in Ranks : at[r] > 8
      /\ UNCHANGED <<backend, step, pos, mem, prev, shard, data, tracker, taken>>
  BY ProgramFacts DEF RoleSaved, process, loop, disk, Busy
<1>2. role \in Roles /\ Roles \subseteq {"actor", "critic"} /\ UseCritic \in BOOLEAN
      /\ (~UseCritic => Roles = {"actor"})
  BY ConstantTypes DEF TypeInv, TypeOK, DriverTypes, Roles
<1>3. \/ /\ role = "actor" /\ role' = "critic" /\ pc' = "role"
         /\ \A r \in Ranks : at'[r] = 1
      \/ /\ pc' = "data" /\ \A o \in Roles : o = role \/ RoleDone(o)
  BY <1>1, <1>2 DEF RoleSaved, RoleDone
<1>4. \A o \in Roles, r \in Ranks : Appended(o, r)' <=> Appended(o, r)
  BY <1>1, <1>2, <1>3 DEF Appended, RoleDone, Saving
<1>5. \A o \in Roles, k \in Parts, r \in Ranks : Written(o, k, r)' => Written(o, k, r)
  <2> SUFFICES ASSUME NEW o \in Roles, NEW k \in Parts, NEW r \in Ranks,
                      Written(o, k, r)'
               PROVE  Written(o, k, r)
    OBVIOUS
  <2>1. PICK i \in 1..8 : Program[i] = k
    BY ProgramFacts
  <2>2. i < at[r]
    BY <1>1, <2>1 DEF TypeInv, TypeOK, SavingTypes
  <2>3. o = role => Written(o, k, r)
    BY <1>1, <2>1, <2>2 DEF Written
  <2>4. o = role \/ RoleDone(o)
    <3>1. CASE pc' = "data"
      BY <1>3, <3>1
    <3>2. CASE pc' # "data"
      <4>1. (RoleDone(o))' => o = "actor"
        BY <1>1, <3>2 DEF RoleDone, Saving
      <4>2. o = "critic" => ~(Written(o, k, r))'
        BY <1>3, <3>2, <4>1 DEF Written
      <4> QED  BY <1>2, <1>3, <3>2, <4>2
    <3> QED  BY <3>1, <3>2
  <2> QED  BY <2>3, <2>4 DEF Written
<1>6. OrderInv' /\ AgreeInv'
  BY <1>1 DEF FilesInv, OrderInv, AgreeInv, Busy
<1>7. PathsInv'
  BY <1>1, <1>4 DEF FilesInv, PathsInv, Busy
<1>8. \A k \in Parts, r \in Ranks : WriterOf(k, r)' = WriterOf(k, r)
  BY <1>1 DEF WriterOf
<1>9. SavedInv'
  BY <1>1, <1>5, <1>8 DEF FilesInv, SavedInv, Saving
<1>10. WholeInv'
  BY <1>1, <1>8 DEF FilesInv, WholeInv, Tracked
<1> QED  BY <1>6, <1>7, <1>9, <1>10 DEF FilesInv

\* The loader's file, and the tracker file opened.
LEMMA LoaderFiles ==
  ASSUME TypeInv, FilesInv, SaveLoader \/ OpenTracker
  PROVE  FilesInv'
<1>1. /\ pc \in {"data", "opentracker"} /\ pc' \in {"opentracker", "tracker"} /\ Busy
      /\ UNCHANGED <<backend, step, pos, mem, role, at, prev, shard, taken>>
      /\ tracker'.step = tracker.step
      /\ tracker'.state \in {tracker.state, "torn"}
  BY DEF SaveLoader, OpenTracker, process, loop, saving, Busy,
         TypeInv, TypeOK, FileTypes
<1>2. step \in Steps /\ step \in Nat /\ tracker.step < step /\ tracker.step \in Nat
  BY <1>1, BusyStep DEF FilesInv, OrderInv, TypeInv, TypeOK, DriverTypes, FileTypes,
                        Steps
<1>3. \A o \in Roles : RoleDone(o) /\ (RoleDone(o))'
  BY <1>1 DEF RoleDone, Saving
<1>4. \A k \in Parts, r \in Ranks : WriterOf(k, r)' = WriterOf(k, r)
  BY <1>1 DEF WriterOf
<1>5. data'[step] = pos /\ \A s \in Steps : s # step => data'[s] = data[s]
  BY <1>1, <1>2 DEF SaveLoader, OpenTracker, FilesInv, SavedInv, Saving,
                    TypeInv, TypeOK, FileTypes
<1>6. OrderInv' /\ AgreeInv'
  BY <1>1, <1>2 DEF FilesInv, OrderInv, AgreeInv, Busy
<1>7. PathsInv'
  <2>1. \A o \in Roles, r \in Ranks : Appended(o, r) /\ (Appended(o, r))'
    BY <1>3 DEF Appended
  <2> QED  BY <1>1, <2>1 DEF FilesInv, PathsInv
<1>8. SavedInv'
  <2>1. \A o \in Roles, k \in Parts, r \in Ranks : Written(o, k, r)
    BY <1>3 DEF Written
  <2> QED  BY <1>1, <1>4, <1>5, <2>1 DEF FilesInv, SavedInv, Saving
<1>9. WholeInv'
  <2>1. Tracked' => Tracked /\ tracker.step \in Steps
    BY <1>1 DEF TypeInv, TypeOK, FileTypes, Bounds, Tracked
  <2> QED  BY <1>1, <1>2, <1>4, <1>5, <2>1 DEF FilesInv, WholeInv
<1> QED  BY <1>6, <1>7, <1>8, <1>9 DEF FilesInv

\* The tracker now names the checkpoint that was just written.
LEMMA WriteTrackerFiles ==
  ASSUME TypeInv, FilesInv, WriteTracker
  PROVE  FilesInv'
<1>1. /\ pc = "tracker" /\ pc' = "next" /\ Busy
      /\ tracker' = [state |-> "whole", step |-> step]
      /\ UNCHANGED <<backend, step, pos, mem, role, at, prev, shard, data, taken>>
  BY DEF WriteTracker, process, loop, saving, Busy
<1>2. step \in Nat \ {0}
  BY DEF TypeInv, TypeOK, DriverTypes
<1>3. \A o \in Roles : RoleDone(o) /\ ~(RoleDone(o))'
  BY <1>1 DEF RoleDone, Saving
<1>4. \A k \in Parts, r \in Ranks : WriterOf(k, r)' = WriterOf(k, r)
  BY <1>1 DEF WriterOf
<1>5. OrderInv' /\ AgreeInv' /\ SavedInv'
  BY <1>1, <1>2 DEF FilesInv, OrderInv, AgreeInv, SavedInv, Busy, Saving
<1>6. PathsInv'
  <2>1. \A o \in Roles, r \in Ranks : Appended(o, r) /\ ~(Appended(o, r))'
    BY <1>1, <1>3 DEF Appended
  <2> QED  BY <1>1, <2>1 DEF FilesInv, PathsInv
<1>7. WholeInv'
  <2>1. taken[step] = [mem |-> mem, pos |-> pos] /\ data[step] = pos
    BY <1>1 DEF FilesInv, SavedInv, Saving
  <2>2. \A o \in Roles, k \in Parts, r \in Ranks :
          WriterOf(k, r) = r => shard[o][step][k][r] = mem[o][k][r]
    BY <1>1, <1>3 DEF FilesInv, SavedInv, Saving, Written
  <2>3. \A o \in Roles, k, l \in Parts, q, r \in Ranks : mem[o][k][q] = mem[o][l][r]
    BY <1>1 DEF FilesInv, AgreeInv
  <2>4. tracker'.step = step /\ taken' = taken /\ shard' = shard /\ data' = data
    BY <1>1
  <2> QED  BY <1>4, <2>1, <2>2, <2>3, <2>4 DEF WholeInv
<1> QED  BY <1>5, <1>6, <1>7 DEF FilesInv

\* A kill tears no file of the tracked checkpoint, unless a rank was deleting it.
LEMMA CrashFiles ==
  ASSUME TypeInv, FilesInv, Crash
  PROVE  FilesInv'
<1>1. pc' = "down" /\ Busy /\ UNCHANGED <<backend, step, tracker, taken>>
  BY DEF Crash, process, loop, Busy
<1>2. OrderInv' /\ PathsInv' /\ AgreeInv' /\ SavedInv'
  BY <1>1 DEF FilesInv, OrderInv, PathsInv, AgreeInv, SavedInv, Busy, Saving
<1>3. WholeInv'
  <2> SUFFICES ASSUME Tracked PROVE WholeInv'
    BY <1>1 DEF WholeInv, Tracked
  <2> DEFINE s == tracker.step
  <2>1. s \in Steps /\ s \in Nat /\ (pc # "next" => s < step) /\ step \in Nat
    BY <1>1 DEF TypeInv, TypeOK, DriverTypes, FileTypes, Bounds, Tracked, Steps,
                FilesInv, OrderInv
  <2>2. PICK hit \in SUBSET Ranks :
          \A o \in Roles, k \in Parts, r \in Ranks :
            shard'[o][s][k][r] = IF Torn(hit, o, s, k, r) THEN Unreadable
                                 ELSE shard[o][s][k][r]
    <3>1. PICK hit \in SUBSET Ranks :
            shard' = [o \in Roles |-> [t \in Steps |-> [k \in Parts |->
                       [r \in Ranks |-> IF Torn(hit, o, t, k, r)
                          THEN Unreadable ELSE shard[o][t][k][r]]]]]
      BY DEF Crash
    <3> QED  BY <2>1, <3>1
  <2>3. ASSUME NEW o \in Roles, NEW k \in Parts, NEW r \in Ranks, Torn(hit, o, s, k, r)
        PROVE  \E u \in Roles : Keep[u] = 1
    <3>1. o = role /\ ~(Doing(r, k) /\ s = step)
      BY <2>1, <2>3 DEF Torn, Doing, Running
    <3>2. PICK q \in hit : Doing(q, "rotate") /\ s \in Victims(role, q)
      BY <2>3, <3>1 DEF Torn
    <3> QED  BY <2>1, <3>1, <3>2, VictimsOld
  <2>4. data'[s] = data[s]
    BY <2>1 DEF Crash, TypeInv, TypeOK, FileTypes
  <2>5. \A k \in Parts, r \in Ranks : WriterOf(k, r)' = WriterOf(k, r)
    BY <1>1 DEF WriterOf
  <2>6. ASSUME NEW o \in Roles, NEW k \in Parts, NEW r \in Ranks, WriterOf(k, r) = r
        PROVE  \/ shard'[o][s][k][r] = taken[s].mem[o][k][r]
               \/ shard'[o][s][k][r] = Unreadable /\ \E u \in Roles : Keep[u] = 1
    BY <2>2, <2>3, <2>6 DEF FilesInv, WholeInv
  <2> QED  BY <1>1, <2>4, <2>5, <2>6 DEF FilesInv, WholeInv
<1> QED  BY <1>2, <1>3 DEF FilesInv

\* What a resumed run loads is what the checkpoint was taken of.
LEMMA LoadsTaken ==
  ASSUME TypeInv, FilesInv, Tracked, NEW o \in Roles, NEW k \in Parts, NEW r \in Ranks,
         Loads(o, tracker.step)[k][r] # Unreadable \/ \A u \in Roles : Keep[u] # 1
  PROVE  Loads(o, tracker.step)[k][r] = taken[tracker.step].mem[o][k][r]
<1> DEFINE w == WriterOf(k, r)
<1>1. w \in Ranks /\ WriterOf(k, w) = w
  BY WriterFacts
<1>2. Loads(o, tracker.step)[k][r] = shard[o][tracker.step][k][w]
  BY DEF Loads
<1>3. Loads(o, tracker.step)[k][r] = taken[tracker.step].mem[o][k][w]
  BY <1>1, <1>2 DEF FilesInv, WholeInv
<1> QED  BY <1>1, <1>3 DEF FilesInv, WholeInv

LEMMA RestartFiles ==
  ASSUME TypeInv, FilesInv, Restart
  PROVE  FilesInv'
<1>1. pc = "down" /\ pc' \in {"fetch", "dead"}
      /\ UNCHANGED <<backend, shard, data, tracker, taken>>
  BY DEF Restart, disk
<1>2. SavedInv'
  BY <1>1 DEF SavedInv, Saving
<1>3. WholeInv'
  <2>1. \A k \in Parts, r \in Ranks : WriterOf(k, r)' = WriterOf(k, r)
    BY <1>1 DEF WriterOf
  <2> QED  BY <1>1, <2>1 DEF FilesInv, WholeInv, Tracked
<1>4. CASE pc' = "dead"
  <2>1. OrderInv' /\ PathsInv' /\ AgreeInv'
    BY <1>1, <1>4 DEF FilesInv, OrderInv, PathsInv, AgreeInv, Busy
  <2> QED  BY <1>2, <1>3, <2>1 DEF FilesInv
<1>5. CASE pc' = "fetch"
  <2>1. /\ prev' = [o \in Roles |-> [r \in Ranks |-> <<>>]]
        /\ tracker.state \in {"absent", "whole"}
        /\ tracker.state = "whole" => Loadable(tracker.step)
    BY <1>5 DEF Restart, TypeInv, TypeOK, FileTypes
  <2>2. tracker.step \in Nat
    BY DEF TypeInv, TypeOK, FileTypes, Steps
  <2>3. OrderInv'
    BY <1>1, <1>5, <2>1, <2>2 DEF Restart, ResumeStep, FilesInv, OrderInv
  <2>4. PathsInv'
    BY <1>1, <2>1 DEF PathsInv
  <2>5. AgreeInv'
    <3>1. CASE tracker.state = "absent"
      BY <1>5, <3>1 DEF Restart, AgreeInv
    <3>2. CASE Tracked
      <4>1. \A o \in Roles : mem'[o] = Loads(o, tracker.step)
        BY <1>5, <3>2 DEF Restart, Tracked
      <4>2. \A o \in Roles, k \in Parts, r \in Ranks :
              mem'[o][k][r] = taken[tracker.step].mem[o][k][r]
        BY <2>1, <3>2, <4>1, LoadsTaken DEF Loadable, Tracked
      <4> QED  BY <3>2, <4>2 DEF AgreeInv, FilesInv, WholeInv
    <3> QED  BY <2>1, <3>1, <3>2 DEF Tracked
  <2> QED  BY <1>2, <1>3, <2>3, <2>4, <2>5 DEF FilesInv
<1> QED  BY <1>1, <1>4, <1>5

LEMMA FilesNext == TypeInv /\ FilesInv /\ [Next]_vars => FilesInv'
<1> SUFFICES ASSUME TypeInv, FilesInv, [Next]_vars PROVE FilesInv'
  OBVIOUS
<1>1. CASE UNCHANGED vars
  <2>1. UNCHANGED <<backend, pc, step, pos, mem, role, at, prev, shard, data,
                    tracker, taken>>
    BY <1>1 DEF vars, process, loop, saving, disk
  <2>2. /\ \A o \in Roles, r \in Ranks : Appended(o, r)' <=> Appended(o, r)
        /\ \A o \in Roles, k \in Parts, r \in Ranks : Written(o, k, r)' <=> Written(o, k, r)
        /\ \A k \in Parts, r \in Ranks : WriterOf(k, r)' = WriterOf(k, r)
    BY <2>1 DEF Appended, Written, RoleDone, WriterOf, Program
  <2>3. OrderInv' /\ PathsInv' /\ AgreeInv'
    BY <2>1, <2>2 DEF FilesInv, OrderInv, PathsInv, AgreeInv, Busy
  <2>4. SavedInv' /\ WholeInv'
    BY <2>1, <2>2 DEF FilesInv, SavedInv, WholeInv, Tracked
  <2> QED  BY <2>3, <2>4 DEF FilesInv
<1>2. CASE Driver
  BY <1>2, LoopFiles, BeginSaveFiles, RoleSavedFiles, LoaderFiles,
     WriteTrackerFiles DEF Driver
<1>3. ASSUME NEW r \in Ranks, Worker(r) PROVE FilesInv'
  BY <1>3, RotateFiles, MakeDirFiles, WriteFileFiles, AppendFiles DEF Worker
<1> QED  BY <1>1, <1>2, <1>3, BarrierFiles, CrashFiles, RestartFiles DEF Next, Stopped

\* At every moment, whatever was killed, the checkpoint the tracker names holds
\* every file of every rank as it was when the checkpoint was begun, as long as
\* no role keeps one checkpoint only (_save_checkpoint, _load_checkpoint).
THEOREM CheckpointIsWhole == Spec => []TrackedIsWhole
<1>1. TypeInv /\ FilesInv => TrackedIsWhole
  <2> SUFFICES ASSUME TypeInv, FilesInv, \A o \in Roles : Keep[o] # 1, Tracked
               PROVE  /\ \A o \in Roles :
                            Loads(o, tracker.step) = taken[tracker.step].mem[o]
                      /\ data[tracker.step] = taken[tracker.step].pos
    BY DEF TrackedIsWhole, Tracked
  <2>1. ASSUME NEW o \in Roles
        PROVE  Loads(o, tracker.step) = taken[tracker.step].mem[o]
    <3>1. \A k \in Parts, r \in Ranks :
            Loads(o, tracker.step)[k][r] = taken[tracker.step].mem[o][k][r]
      BY LoadsTaken
    <3>2. taken[tracker.step].mem[o] \in [Parts -> [Ranks -> Version]]
      BY DEF TypeInv, TypeOK, TakenTypes, FileTypes, Bounds, Tracked
    <3>3. \A k \in Parts :
            Loads(o, tracker.step)[k] = taken[tracker.step].mem[o][k]
      BY <3>1, <3>2 DEF Loads
    <3> QED  BY <3>2, <3>3 DEF Loads
  <2> QED  BY <2>1 DEF FilesInv, WholeInv
<1> QED  BY <1>1, TypeInit, TypeNext, FilesInit, FilesNext, PTL DEF Spec

-----------------------------------------------------------------------------
(* What a resumed run goes on from *)

\* The step of the parameters role o has after n steps: the actor is not trained
\* before the critic's warm-up is over.
TrainedAt(o, n) == IF o = "actor" /\ n < CriticWarmup THEN 0 ELSE n

\* The last step whose updates memory holds, and the last one whose batch the
\* loader has yielded.
Updated == IF pc \in {"fetch", "train"} THEN step - 1 ELSE step
Yielded == IF pc = "fetch" THEN step - 1 ELSE step

\* Memory holds the parameters of the last step, and so did the checkpoint the
\* tracker names.
StepInv ==
  /\ Busy => \A o \in Roles, k \in Parts, r \in Ranks :
               mem[o][k][r].step = TrainedAt(o, Updated)
  /\ Tracked => \A o \in Roles, k \in Parts, r \in Ranks :
                  taken[tracker.step].mem[o][k][r].step = TrainedAt(o, tracker.step)

\* The loader has yielded one batch per step.
PosInv ==
  /\ Busy => pos % EpochLength = Yielded % EpochLength
  /\ Tracked => taken[tracker.step].pos % EpochLength = tracker.step % EpochLength

\* No parameters have seen a change of the bank that its file lacks.
BankInv ==
  SaveInPlace =>
    /\ Busy => \A o \in Roles, k \in Parts, r \in Ranks : mem[o][k][r].bank <= bank
    /\ pc \notin {"done", "dead"} =>
         /\ bankFile.state = "whole" => bankFile.bank = bank
         /\ Tracked => \A o \in Roles, k \in Parts, r \in Ranks :
                         taken[tracker.step].mem[o][k][r].bank <= bank

ResumeInv == StepInv /\ PosInv /\ BankInv

\* Divisions by the length of an epoch.
LEMMA Remainder ==
  ASSUME NEW n \in Nat \ {0}, NEW a \in Nat, NEW q \in Int, NEW r \in Nat,
         r < n, a = n * q + r
  PROVE  a % n = r
OBVIOUS

LEMMA Division ==
  ASSUME NEW n \in Nat \ {0}, NEW a \in Nat
  PROVE  \E q \in Int, r \in Nat : r < n /\ a = n * q + r
<1>1. a % n \in 0..(n - 1) /\ a = n * (a \div n) + (a % n) /\ a \div n \in Int
  OBVIOUS
<1> DEFINE q == a \div n
           r == a % n
<1>2. q \in Int /\ r \in Nat /\ r < n /\ a = n * q + r
  BY <1>1
<1> HIDE DEF q, r
<1> QED  BY <1>2

LEMMA NextRemainder ==
  ASSUME NEW n \in Nat \ {0}, NEW a \in Nat
  PROVE  (a + 1) % n = IF a % n = n - 1 THEN 0 ELSE (a % n) + 1
<1>1. PICK q \in Int, r \in Nat : r < n /\ a = n * q + r
  BY Division
<1>2. a % n = r
  BY <1>1, Remainder
<1> DEFINE b == a + 1
           p == q + 1
           t == r + 1
<1>3. CASE r = n - 1
  <2>1. b = n * p + 0 /\ b \in Nat /\ p \in Int /\ 0 \in Nat /\ 0 < n
    BY <1>1, <1>3
  <2> HIDE DEF b, p
  <2>2. b % n = 0
    BY Remainder, <2>1
  <2> QED  BY <1>2, <1>3, <2>2 DEF b
<1>4. CASE r # n - 1
  <2>1. b = n * q + t /\ b \in Nat /\ t \in Nat /\ t < n
    BY <1>1, <1>4
  <2> HIDE DEF b, t
  <2>2. b % n = t
    BY Remainder, <2>1
  <2> QED  BY <1>2, <1>4, <2>2 DEF b, t
<1> QED  BY <1>3, <1>4

LEMMA ResumeInit == Init => ResumeInv
<1> SUFFICES ASSUME Init PROVE ResumeInv
  OBVIOUS
<1>1. StepInv
  BY ConstantTypes DEF Init, StepInv, Busy, Tracked, TrainedAt, Updated, Pretrained
<1>2. PosInv
  BY ConstantTypes DEF Init, PosInv, Busy, Tracked, Yielded
<1>3. BankInv
  BY DEF Init, BankInv, Busy, Tracked, Pretrained
<1> QED  BY <1>1, <1>2, <1>3 DEF ResumeInv

\* Only the last write of a checkpoint changes what the tracker names.
LEMMA TrackedStays ==
  ASSUME TypeInv, FilesInv, [Next]_vars, ~WriteTracker
  PROVE  Tracked' => /\ Tracked /\ tracker'.step = tracker.step
                     /\ taken'[tracker.step] = taken[tracker.step]
<1>1. \/ tracker' = tracker
      \/ tracker' = [tracker EXCEPT !.state = "torn"]
  BY DEF Next, Driver, NextBatch, NextEpoch, Train, NoEvolution, Evolve, WriteBank,
     NoSave, BeginSave, RoleSaved, SaveLoader, OpenTracker, EndStep, Worker, Rotate,
     MakeDir, WriteFile, AppendPath, Barrier, Crash, Restart, Stopped, vars, disk
<1>2. taken' = taken \/ BeginSave
  BY DEF Next, Driver, NextBatch, NextEpoch, Train, NoEvolution, Evolve, WriteBank,
     NoSave, RoleSaved, SaveLoader, OpenTracker, EndStep, Worker, Rotate,
     MakeDir, WriteFile, AppendPath, Barrier, Crash, Restart, Stopped, vars
<1>3. tracker \in [state : {"absent", "torn", "whole"}, step : Steps \cup {0}]
  BY DEF TypeInv, TypeOK, FileTypes
<1>4. Tracked' => Tracked /\ tracker'.step = tracker.step
  BY <1>1, <1>3 DEF Tracked
<1>5. Tracked => taken'[tracker.step] = taken[tracker.step]
  <2>1. CASE BeginSave
    <3>1. Tracked => tracker.step \in Steps /\ tracker.step \in Nat
      BY DEF TypeInv, TypeOK, FileTypes, Bounds, Tracked, Steps
    <3>2. tracker.step < step /\ step \in Nat
      BY <2>1 DEF BeginSave, FilesInv, OrderInv, Busy, TypeInv, TypeOK, DriverTypes
    <3>3. Tracked => tracker.step # step
      BY <3>1, <3>2
    <3> QED  BY <2>1, <3>1, <3>3 DEF BeginSave, TypeInv, TypeOK, TakenTypes
  <2> QED  BY <1>2, <2>1
<1> QED  BY <1>4, <1>5

\* The steps that leave alone what the invariant is about.
LEMMA QuietResume ==
  ASSUME TypeInv, FilesInv, ResumeInv,
         \/ NoEvolution \/ NoSave \/ BeginSave \/ RoleSaved \/ SaveLoader
         \/ OpenTracker \/ Barrier \/ \E r \in Ranks : Worker(r)
  PROVE  ResumeInv'
<1> DEFINE Quiet == {"evolve", "save", "role", "data", "opentracker", "tracker", "next"}
<1>1. pc \in Quiet /\ pc' \in Quiet /\ ~WriteTracker
      /\ UNCHANGED <<step, pos, mem, bank, bankFile>>
  <2>1. CASE \/ NoEvolution \/ NoSave \/ BeginSave \/ RoleSaved \/ SaveLoader
             \/ OpenTracker
    BY <2>1 DEF NoEvolution, NoSave, BeginSave, RoleSaved, SaveLoader, OpenTracker,
                WriteTracker, loop
  <2>2. CASE Barrier \/ \E r \in Ranks : Worker(r)
    <3>1. pc = "role" /\ pc' = pc /\ UNCHANGED <<step, pos, mem>>
      BY <2>2, RankFrame
    <3>2. UNCHANGED <<bank, bankFile>>
      BY <2>2 DEF Worker, Rotate, MakeDir, WriteFile, AppendPath, Barrier
    <3> QED  BY <3>1, <3>2 DEF WriteTracker
  <2> QED  BY <2>1, <2>2
<1>2. Tracked' => /\ Tracked /\ tracker'.step = tracker.step
                  /\ taken'[tracker.step] = taken[tracker.step]
  BY <1>1, TrackedStays DEF Next, Driver
<1>3. Busy /\ Busy' /\ Updated = step /\ Updated' = step /\ Yielded = step
      /\ Yielded' = step /\ pc \notin {"done", "dead"}
  BY <1>1 DEF Busy, Updated, Yielded
<1>4. StepInv'
  BY <1>1, <1>2, <1>3 DEF ResumeInv, StepInv, TrainedAt
<1>5. PosInv'
  BY <1>1, <1>2, <1>3 DEF ResumeInv, PosInv
<1>6. BankInv'
  BY <1>1, <1>2, <1>3 DEF ResumeInv, BankInv
<1> QED  BY <1>4, <1>5, <1>6 DEF ResumeInv

\* The steps of the loop that train, yield a batch or change the bank.
LEMMA LoopResume ==
  ASSUME TypeInv, FilesInv, ResumeInv,
         NextBatch \/ NextEpoch \/ Train \/ Evolve \/ WriteBank \/ EndStep
  PROVE  ResumeInv'
<1> USE ConstantTypes
<1>1. /\ Busy /\ UNCHANGED <<tracker, taken>> /\ pc \notin {"done", "dead"}
      /\ Tracked' <=> Tracked
  BY DEF NextBatch, NextEpoch, Train, Evolve, WriteBank, EndStep, disk, Busy, Tracked
<1>2. step \in Nat \ {0} /\ pos \in Nat /\ bank \in Nat
  BY DEF TypeInv, TypeOK, DriverTypes
<1>3. mem \in [Roles -> [Parts -> [Ranks -> Version]]]
  BY DEF TypeInv, TypeOK, MemTypes
<1>4. StepInv'
  <2>1. ASSUME Busy', NEW o \in Roles, NEW k \in Parts, NEW r \in Ranks
        PROVE  mem'[o][k][r].step = TrainedAt(o, Updated')
    <3>1. mem[o][k][r].step = TrainedAt(o, Updated)
      BY <1>1 DEF ResumeInv, StepInv
    <3>2. CASE Train
      <4>1. Updated = step - 1 /\ Updated' = step
        BY <3>2 DEF Train, Updated, loop
      <4>2. mem'[o][k][r].step = IF o = "critic" \/ CriticWarmup <= step
                                 THEN step ELSE mem[o][k][r].step
        BY <3>2 DEF Train
      <4>3. o \in {"actor", "critic"}
        OBVIOUS
      <4> QED  BY <1>2, <3>1, <4>1, <4>2, <4>3 DEF TrainedAt
    <3>3. CASE ~Train
      <4>1. mem' = mem /\ Updated' = Updated
        BY <1>2, <2>1, <3>3 DEF NextBatch, NextEpoch, Evolve, WriteBank, EndStep, loop,
                                Updated, Busy
      <4> QED  BY <3>1, <4>1
    <3> QED  BY <3>2, <3>3
  <2> QED  BY <1>1, <2>1 DEF ResumeInv, StepInv, TrainedAt
<1>5. PosInv'
  <2>1. pos % EpochLength = Yielded % EpochLength
    BY <1>1 DEF ResumeInv, PosInv
  <2>2. ASSUME Busy' PROVE pos' % EpochLength = Yielded' % EpochLength
    <3>1. CASE NextBatch
      <4> DEFINE n == step - 1
      <4>1. /\ n \in Nat /\ Yielded = n /\ Yielded' = n + 1 /\ pos' = pos + 1
        BY <1>2, <3>1 DEF NextBatch, Yielded
      <4> HIDE DEF n
      <4> QED  BY <1>2, <2>1, <4>1, NextRemainder
    <3>2. CASE NextEpoch
      <4>1. pos = EpochLength /\ pos' = 0 /\ Yielded' = Yielded
        BY <2>2, <3>2 DEF NextEpoch, Busy, Yielded
      <4>2. EpochLength % EpochLength = 0 /\ 0 % EpochLength = 0
        OBVIOUS
      <4> QED  BY <2>1, <4>1, <4>2
    <3>3. CASE ~NextBatch /\ ~NextEpoch
      <4>1. pos' = pos /\ Yielded' = Yielded
        BY <1>2, <2>2, <3>3 DEF Train, Evolve, WriteBank, EndStep, loop, Yielded, Busy
      <4> QED  BY <2>1, <4>1
    <3> QED  BY <3>1, <3>2, <3>3
  <2> QED  BY <1>1, <2>2 DEF ResumeInv, PosInv
<1>6. BankInv'
  <2> SUFFICES ASSUME SaveInPlace PROVE BankInv'
    BY DEF BankInv
  <2>1. /\ \A o \in Roles, k \in Parts, r \in Ranks : mem[o][k][r].bank <= bank
        /\ bankFile.state = "whole" => bankFile.bank = bank
        /\ Tracked => \A o \in Roles, k \in Parts, r \in Ranks :
                        taken[tracker.step].mem[o][k][r].bank <= bank
    BY <1>1 DEF ResumeInv, BankInv
  <2>2. bank' \in Nat /\ bank <= bank'
    BY <1>2 DEF NextBatch, NextEpoch, Train, Evolve, WriteBank, EndStep
  <2>3. bankFile'.state = "whole" => bankFile'.bank = bank'
    BY <2>1 DEF NextBatch, NextEpoch, Train, Evolve, WriteBank, EndStep,
                TypeInv, TypeOK, FileTypes
  <2>4. ASSUME NEW o \in Roles, NEW k \in Parts, NEW r \in Ranks
        PROVE  mem'[o][k][r].bank <= bank'
    <3>1. mem[o][k][r].bank \in Nat
      BY <1>3 DEF Version
    <3>2. mem'[o][k][r].bank \in {mem[o][k][r].bank, bank}
      BY DEF NextBatch, NextEpoch, Train, Evolve, WriteBank, EndStep
    <3> QED  BY <1>2, <2>1, <2>2, <3>1, <3>2
  <2>5. ASSUME Tracked, NEW o \in Roles, NEW k \in Parts, NEW r \in Ranks
        PROVE  taken[tracker.step].mem[o][k][r].bank <= bank'
    <3>1. taken[tracker.step].mem[o][k][r].bank \in Nat
      BY <2>5 DEF TypeInv, TypeOK, TakenTypes, FileTypes, Bounds, Tracked, Version
    <3> QED  BY <1>2, <2>1, <2>2, <2>5, <3>1
  <2> QED  BY <1>1, <2>3, <2>4, <2>5 DEF BankInv
<1> QED  BY <1>4, <1>5, <1>6 DEF ResumeInv

\* The tracker is moved to a checkpoint of the memory of its step.
LEMMA TrackerResume ==
  ASSUME TypeInv, FilesInv, ResumeInv, WriteTracker
  PROVE  ResumeInv'
<1>1. /\ pc = "tracker" /\ pc' = "next" /\ Busy
      /\ tracker' = [state |-> "whole", step |-> step]
      /\ UNCHANGED <<step, pos, mem, bank, bankFile, taken>>
  BY DEF WriteTracker, loop, Busy
<1>2. taken[step] = [mem |-> mem, pos |-> pos]
  BY <1>1 DEF FilesInv, SavedInv, Saving
<1>3. tracker'.step = step /\ Updated = step /\ Updated' = step /\ Yielded = step
      /\ Yielded' = step
  BY <1>1 DEF Updated, Yielded
<1>4. StepInv'
  BY <1>1, <1>2, <1>3 DEF ResumeInv, StepInv, TrainedAt
<1>5. PosInv'
  BY <1>1, <1>2, <1>3 DEF ResumeInv, PosInv
<1>6. BankInv'
  BY <1>1, <1>2, <1>3 DEF ResumeInv, BankInv
<1> QED  BY <1>4, <1>5, <1>6 DEF ResumeInv

LEMMA RestartResume ==
  ASSUME TypeInv, FilesInv, ResumeInv, Restart
  PROVE  ResumeInv'
<1> USE ConstantTypes
<1>1. /\ pc = "down" /\ pc' \in {"fetch", "dead"}
      /\ UNCHANGED <<shard, data, tracker, bankFile, taken>>
      /\ Tracked' <=> Tracked
  BY DEF Restart, disk, Tracked
<1>2. CASE pc' = "dead"
  <2>1. StepInv' /\ PosInv' /\ BankInv'
    BY <1>1, <1>2 DEF ResumeInv, StepInv, PosInv, BankInv, Busy, TrainedAt
  <2> QED  BY <2>1 DEF ResumeInv
<1>3. CASE pc' = "fetch"
  <2>1. /\ tracker.state \in {"absent", "whole"}
        /\ bank' = IF SaveInPlace THEN bankFile.bank ELSE 0
        /\ SaveInPlace => bankFile.state = "whole"
        /\ bankFile.bank \in Nat
    BY <1>3 DEF Restart, TypeInv, TypeOK, FileTypes
  <2>2. SaveInPlace => bank' = bank
    BY <1>1, <2>1 DEF ResumeInv, BankInv
  <2>3. CASE tracker.state = "absent"
    <3>1. /\ step' = 1 /\ pos' = 0
          /\ \A o \in Roles, k \in Parts, r \in Ranks : mem'[o][k][r] = Pretrained
      BY <1>3, <2>3 DEF Restart
    <3>2. ~Tracked /\ Updated' = 0 /\ Yielded' = 0
      BY <1>3, <2>3, <3>1 DEF Tracked, Updated, Yielded
    <3>3. StepInv'
      BY <1>1, <3>1, <3>2 DEF StepInv, TrainedAt, Pretrained
    <3>4. PosInv'
      BY <1>1, <3>1, <3>2 DEF PosInv
    <3>5. BankInv'
      BY <1>1, <1>3, <2>1, <3>1, <3>2 DEF BankInv, Pretrained
    <3> QED  BY <3>3, <3>4, <3>5 DEF ResumeInv
  <2>4. CASE Tracked
    <3>1. /\ step' = tracker.step + 1 /\ tracker.step \in Nat
          /\ tracker.step \in Steps
          /\ pos' = IF data[tracker.step] = NoData THEN 0 ELSE data[tracker.step]
          /\ mem' = [o \in Roles |-> Loads(o, tracker.step)]
          /\ Loadable(tracker.step)
      BY <1>3, <2>4 DEF Restart, ResumeStep, Tracked, TypeInv, TypeOK, FileTypes,
                        Bounds, Steps
    <3>2. \A o \in Roles, k \in Parts, r \in Ranks :
            mem'[o][k][r] = taken[tracker.step].mem[o][k][r]
      <4>1. \A o \in Roles : mem'[o] = Loads(o, tracker.step)
        BY <3>1
      <4>2. \A o \in Roles, k \in Parts, r \in Ranks :
              Loads(o, tracker.step)[k][r] # Unreadable
        BY <3>1 DEF Loadable
      <4> QED  BY <2>4, <4>1, <4>2, LoadsTaken
    <3>3. pos' = taken[tracker.step].pos
      <4>1. data[tracker.step] = taken[tracker.step].pos
        BY <2>4 DEF FilesInv, WholeInv
      <4>2. taken[tracker.step].pos \in Nat
        BY <3>1 DEF TypeInv, TypeOK, TakenTypes
      <4> QED  BY <3>1, <4>1, <4>2 DEF NoData
    <3>4. Updated' = tracker.step /\ Yielded' = tracker.step
      BY <1>3, <3>1 DEF Updated, Yielded
    <3>5. StepInv'
      BY <1>1, <2>4, <3>2, <3>4 DEF ResumeInv, StepInv, TrainedAt
    <3>6. PosInv'
      BY <1>1, <2>4, <3>3, <3>4 DEF ResumeInv, PosInv
    <3>7. BankInv'
      <4> SUFFICES ASSUME SaveInPlace PROVE BankInv'
        BY DEF BankInv
      <4>1. /\ bank' = bank /\ bankFile' = bankFile /\ taken' = taken /\ tracker' = tracker
            /\ bankFile.state = "whole" => bankFile.bank = bank
        BY <1>1, <2>2 DEF ResumeInv, BankInv
      <4>2. \A o \in Roles, k \in Parts, r \in Ranks :
              taken[tracker.step].mem[o][k][r].bank <= bank
        BY <1>1, <2>4 DEF ResumeInv, BankInv
      <4>3. \A o \in Roles, k \in Parts, r \in Ranks : mem'[o][k][r].bank <= bank'
        <5> SUFFICES ASSUME NEW o \in Roles, NEW k \in Parts, NEW r \in Ranks
                     PROVE  mem'[o][k][r].bank <= bank'
          OBVIOUS
        <5>1. mem'[o][k][r] = taken[tracker.step].mem[o][k][r]
          BY <3>2
        <5>2. taken[tracker.step].mem[o][k][r].bank <= bank
          BY <4>2
        <5> QED  BY <4>1, <5>1, <5>2
      <4>4. \A o \in Roles, k \in Parts, r \in Ranks :
              taken'[tracker'.step].mem[o][k][r].bank <= bank'
        BY <4>1, <4>2
      <4>5. bankFile'.state = "whole" => bankFile'.bank = bank'
        BY <4>1
      <4> QED  BY <4>3, <4>4, <4>5 DEF BankInv
    <3> QED  BY <3>5, <3>6, <3>7 DEF ResumeInv
  <2> QED  BY <2>1, <2>3, <2>4 DEF Tracked
<1> QED  BY <1>1, <1>2, <1>3

LEMMA ResumeNext == TypeInv /\ FilesInv /\ ResumeInv /\ [Next]_vars => ResumeInv'
<1> SUFFICES ASSUME TypeInv, FilesInv, ResumeInv, [Next]_vars PROVE ResumeInv'
  OBVIOUS
<1>1. CASE UNCHANGED vars
  <2>1. UNCHANGED <<pc, step, pos, mem, bank, bankFile, tracker, taken>>
    BY <1>1 DEF vars, loop, disk
  <2>2. StepInv' /\ PosInv' /\ BankInv'
    BY <2>1 DEF ResumeInv, StepInv, PosInv, BankInv, Busy, Tracked, TrainedAt,
                Updated, Yielded
  <2> QED  BY <2>2 DEF ResumeInv
<1>2. CASE Crash
  <2>1. pc' = "down" /\ pc \notin {"done", "dead"}
        /\ UNCHANGED <<bank, bankFile, tracker, taken>>
    BY <1>2 DEF Crash
  <2>2. StepInv' /\ PosInv' /\ BankInv'
    BY <2>1 DEF ResumeInv, StepInv, PosInv, BankInv, Busy, Tracked, TrainedAt
  <2> QED  BY <2>2 DEF ResumeInv
<1> QED  BY <1>1, <1>2, QuietResume, LoopResume, TrackerResume, RestartResume
            DEF Next, Driver, Stopped

\* A step begins with the parameters and the batch of the step before, on every
\* rank, whatever was killed and resumed (_load_checkpoint, fit).
THEOREM ResumedInStep == Spec => []StepFollowsStep
<1>1. TypeInv /\ FilesInv /\ ResumeInv => StepFollowsStep
  <2> SUFFICES ASSUME TypeInv, FilesInv, ResumeInv, pc = "fetch"
               PROVE  StepFollowsStep
    BY DEF StepFollowsStep
  <2>1. Busy /\ Updated = step - 1 /\ Yielded = step - 1 /\ step \in Nat \ {0}
    BY DEF Busy, Updated, Yielded, TypeInv, TypeOK, DriverTypes
  <2>2. ASSUME NEW o \in Roles, NEW k \in Parts, NEW r \in Ranks
        PROVE  mem[o][k][r].step =
                 IF o = "actor" /\ step <= CriticWarmup THEN 0 ELSE step - 1
    <3>1. mem[o][k][r].step = TrainedAt(o, step - 1)
      BY <2>1 DEF ResumeInv, StepInv
    <3> QED  BY <2>1, <3>1, ConstantTypes DEF TrainedAt
  <2>3. pos % EpochLength = (step - 1) % EpochLength
    BY <2>1 DEF ResumeInv, PosInv
  <2> QED  BY <2>1, <2>2, <2>3 DEF StepFollowsStep, FilesInv, AgreeInv
<1> QED  BY <1>1, TypeInit, TypeNext, FilesInit, FilesNext, ResumeInit, ResumeNext,
            PTL DEF Spec

\* A bank saved where it is loaded from is never behind the parameters, although
\* no checkpoint contains it (_save_skills, _load_checkpoint).
THEOREM BankKeepsUp == Spec => []BankNotBehindPolicy
<1>1. ResumeInv => BankNotBehindPolicy
  BY DEF ResumeInv, BankInv, BankNotBehindPolicy, Alive, Busy
<1> QED  BY <1>1, TypeInit, TypeNext, FilesInit, FilesNext, ResumeInit, ResumeNext,
            PTL DEF Spec

-----------------------------------------------------------------------------
(* How many checkpoints there are on disk *)

Files(o)    == {s \in Steps : shard[o][s] # NoFiles}
Paths(o, r) == {prev[o][r][i] : i \in 1..Len(prev[o][r])}

\* Rank r has made room for the checkpoint being saved and not recorded it yet;
\* a rank has, and may have written files of it.
MadeRoom(o, r) == pc = "role" /\ o = role /\ at[r] \in 2..8
Current(o) == {s \in Steps : s = step /\ pc = "role" /\ o = role /\ \E r \in Ranks : at[r] > 1}

\* The checkpoints of role o on disk are some that earlier lives left and those
\* each rank has recorded, of which there are no more than are kept.
KeptInv(o, old) ==
  /\ Cardinality(old) <= Keep[o] * (life - 1)
  /\ \A r \in Ranks :
       /\ Files(o) \subseteq old \cup Paths(o, r) \cup Current(o)
       /\ Len(prev[o][r]) <= IF MadeRoom(o, r) THEN Keep[o] - 1 ELSE Keep[o]
       /\ pc = "role" /\ o = role /\ at[r] > 8 => step \in Paths(o, r)

DiskInv ==
  \A o \in Roles : Keep[o] > 0 =>
    IF Busy THEN \E old \in SUBSET Steps : KeptInv(o, old)
            ELSE Cardinality(Files(o)) <= Keep[o] * life

LEMMA StepsFinite ==
  /\ IsFiniteSet(Steps)
  /\ \A S \in SUBSET Steps : IsFiniteSet(S) /\ Cardinality(S) \in Nat
<1>1. IsFiniteSet(Steps)
  BY FS_Interval, ConstantTypes DEF Steps
<1> QED  BY <1>1, FS_Subset, FS_CardinalityType

\* A rank has recorded no more steps than there are entries in its list.
LEMMA PathsCount ==
  ASSUME NEW q \in Seq(Nat), NEW T, T = {q[i] : i \in 1..Len(q)}
  PROVE  IsFiniteSet(T) /\ Cardinality(T) \in Nat /\ Cardinality(T) <= Len(q)
<1> DEFINE n == Len(q)
           f == [i \in 1..n |-> q[i]]
<1>1. n \in Nat
  OBVIOUS
<1>2. f \in Surjection(1..n, T)
  <2>1. f \in [1..n -> T] /\ \A t \in T : \E i \in 1..n : f[i] = t
    OBVIOUS
  <2> QED  BY <2>1 DEF Surjection
<1>3. IsFiniteSet(1..n) /\ Cardinality(1..n) = n
  <2> HIDE DEF n
  <2> QED  BY <1>1, FS_Interval
<1> HIDE DEF n, f
<1>4. IsFiniteSet(T) /\ Cardinality(T) <= n
  BY <1>2, <1>3, FS_Surjection
<1> QED  BY <1>4, FS_CardinalityType DEF n

LEMMA PathsBounded ==
  ASSUME TypeInv, NEW o \in Roles, NEW r \in Ranks
  PROVE  /\ IsFiniteSet(Paths(o, r)) /\ Cardinality(Paths(o, r)) \in Nat
         /\ Cardinality(Paths(o, r)) <= Len(prev[o][r]) /\ Len(prev[o][r]) \in Nat
<1>1. prev[o][r] \in Seq(Nat)
  BY DEF TypeInv, TypeOK, SavingTypes
<1> DEFINE q == prev[o][r]
           T == Paths(o, r)
<1>2. T = {q[i] : i \in 1..Len(q)}
  BY DEF Paths
<1> HIDE DEF q, T
<1>3. IsFiniteSet(T) /\ Cardinality(T) \in Nat /\ Cardinality(T) <= Len(q)
  BY <1>1, <1>2, PathsCount DEF q
<1> QED  BY <1>1, <1>3 DEF q, T

LEMMA UnionCount ==
  ASSUME NEW S, NEW T, IsFiniteSet(S), IsFiniteSet(T)
  PROVE  /\ IsFiniteSet(S \cup T) /\ Cardinality(S \cup T) \in Nat
         /\ Cardinality(S \cup T) <= Cardinality(S) + Cardinality(T)
<1>1. IsFiniteSet(S \cup T) /\ IsFiniteSet(S \cap T)
  BY FS_Union, FS_Intersection
<1>2. /\ Cardinality(S) \in Nat /\ Cardinality(T) \in Nat
      /\ Cardinality(S \cup T) \in Nat /\ Cardinality(S \cap T) \in Nat
  BY <1>1, FS_CardinalityType
<1>3. Cardinality(S \cup T) = Cardinality(S) + Cardinality(T) - Cardinality(S \cap T)
  BY FS_Union
<1> QED  BY <1>1, <1>2, <1>3

\* A role never has more than Keep checkpoints per life on disk: a rank that has
\* made room accounts for the one being written.
LEMMA KeptBound ==
  ASSUME TypeInv, NEW o \in Roles, Keep[o] > 0, NEW old \in SUBSET Steps,
         KeptInv(o, old)
  PROVE  Cardinality(Files(o)) <= Keep[o] * life
<1>1. Keep[o] \in Nat /\ life \in Nat \ {0}
  BY ConstantTypes DEF TypeInv, TypeOK, DriverTypes
<1>2. \A S \in SUBSET Steps : IsFiniteSet(S) /\ Cardinality(S) \in Nat
  BY StepsFinite
<1>3. \E r \in Ranks : \E S :
        /\ IsFiniteSet(S) /\ Cardinality(S) \in Nat /\ Cardinality(S) <= Keep[o]
        /\ Files(o) \subseteq old \cup S
  <2>1. CASE Current(o) = {}
    <3>1. PICK r \in Ranks : TRUE
      BY RanksAssumption
    <3>2. Len(prev[o][r]) <= Keep[o]
      BY <1>1, PathsBounded DEF KeptInv
    <3>3. Files(o) \subseteq old \cup Paths(o, r)
      BY <2>1 DEF KeptInv
    <3>4. Cardinality(Paths(o, r)) <= Keep[o]
      BY <1>1, <3>2, PathsBounded
    <3> QED  BY <3>3, <3>4, PathsBounded
  <2>2. CASE Current(o) # {}
    <3>1. PICK r \in Ranks : pc = "role" /\ o = role /\ at[r] > 1
      BY <2>2 DEF Current
    <3>2. at[r] \in Nat
      BY DEF TypeInv, TypeOK, SavingTypes
    <3>3. Files(o) \subseteq old \cup Paths(o, r) \cup {step}
      BY DEF KeptInv, Current
    <3>4. CASE at[r] > 8
      <4>1. Files(o) \subseteq old \cup Paths(o, r)
        BY <3>1, <3>3, <3>4 DEF KeptInv
      <4>2. Cardinality(Paths(o, r)) <= Keep[o]
        BY <1>1, <3>4, PathsBounded DEF KeptInv, MadeRoom
      <4> QED  BY <4>1, <4>2, PathsBounded
    <3>5. CASE at[r] <= 8
      <4>1. MadeRoom(o, r)
        BY <3>1, <3>2, <3>5 DEF MadeRoom
      <4>2. Cardinality(Paths(o, r)) <= Keep[o] - 1
        BY <1>1, <4>1, PathsBounded DEF KeptInv
      <4>3. IsFiniteSet({step}) /\ Cardinality({step}) = 1
        BY FS_Singleton
      <4> DEFINE S == Paths(o, r) \cup {step}
      <4>4. IsFiniteSet(S) /\ Cardinality(S) \in Nat /\ Cardinality(S) <= Keep[o]
        <5>1. /\ IsFiniteSet(S) /\ Cardinality(S) \in Nat
              /\ Cardinality(S) <= Cardinality(Paths(o, r)) + Cardinality({step})
          BY <4>3, PathsBounded, UnionCount
        <5>2. Cardinality(Paths(o, r)) \in Nat
          BY PathsBounded
        <5> HIDE DEF S
        <5> QED  BY <1>1, <4>2, <4>3, <5>1, <5>2
      <4>5. Files(o) \subseteq old \cup S
        BY <3>3
      <4> HIDE DEF S
      <4> QED  BY <4>4, <4>5
    <3> QED  BY <3>2, <3>4, <3>5
  <2> QED  BY <2>1, <2>2
<1>4. PICK S : /\ IsFiniteSet(S) /\ Cardinality(S) \in Nat
               /\ Cardinality(S) <= Keep[o]
               /\ Files(o) \subseteq old \cup S
  BY <1>3
<1>5. /\ IsFiniteSet(old \cup S)
      /\ Cardinality(old \cup S) \in Nat
      /\ Cardinality(old \cup S) <= Cardinality(old) + Cardinality(S)
  BY <1>2, <1>4, UnionCount
<1>6. Cardinality(Files(o)) <= Cardinality(old \cup S)
  BY <1>4, <1>5, FS_Subset
<1>7. Cardinality(old) <= Keep[o] * (life - 1) /\ Cardinality(old) \in Nat
  BY <1>2 DEF KeptInv
<1>8. Cardinality(Files(o)) \in Nat
  BY <1>2 DEF Files
<1>9. Keep[o] * (life - 1) + Keep[o] = Keep[o] * life /\ Keep[o] * (life - 1) \in Int
  BY <1>1
<1> QED  BY <1>1, <1>4, <1>5, <1>6, <1>7, <1>8, <1>9

LEMMA DiskInit == Init => DiskInv
<1> SUFFICES ASSUME Init, NEW o \in Roles, Keep[o] > 0
             PROVE  Busy /\ \E old \in SUBSET Steps : KeptInv(o, old)
  BY DEF DiskInv
<1>1. Keep[o] \in Nat /\ life = 1
  BY ConstantTypes DEF Init
<1>2. Files(o) = {} /\ Cardinality({}) = 0
  BY FS_EmptySet DEF Init, Files
<1>3. KeptInv(o, {})
  BY <1>1, <1>2 DEF Init, KeptInv, MadeRoom
<1>4. Busy
  BY DEF Init, Busy
<1> QED  BY <1>3, <1>4

\* What a step that only deletes files leaves of the bound.
LEMMA FewerFiles ==
  ASSUME NEW o \in Roles, NEW n, NEW m, n \in Int, m \in Int, n <= m,
         Files(o)' \subseteq Files(o), Cardinality(Files(o)) <= n
  PROVE  Cardinality(Files(o)') <= m
<1>1. IsFiniteSet(Files(o)) /\ Cardinality(Files(o)) \in Nat
  BY StepsFinite DEF Files
<1>2. Cardinality(Files(o)') <= Cardinality(Files(o)) /\ IsFiniteSet(Files(o)')
  BY <1>1, FS_Subset
<1>3. Cardinality(Files(o)') \in Nat
  BY <1>2, FS_CardinalityType
<1> QED  BY <1>1, <1>2, <1>3

\* The steps of the driver: no file is written and no path recorded.
LEMMA DriverKeeps ==
  ASSUME TypeInv, FilesInv, Driver, NEW o \in Roles, NEW old \in SUBSET Steps,
         KeptInv(o, old), Busy
  PROVE  KeptInv(o, old)'
<1>1. UNCHANGED <<life, step, prev, shard>> \/ EndStep
  BY DEF Driver, NextBatch, NextEpoch, Train, NoEvolution, Evolve, WriteBank, NoSave,
     BeginSave, RoleSaved, SaveLoader, OpenTracker, WriteTracker, process, loop,
     saving, disk
<1>2. Keep[o] \in Nat /\ \A r \in Ranks : at[r] \in Nat /\ Len(prev[o][r]) \in Nat
  BY ConstantTypes DEF TypeInv, TypeOK, SavingTypes
<1>3. UNCHANGED <<life, prev, shard>> /\ Files(o)' = Files(o)
      /\ \A r \in Ranks : Paths(o, r)' = Paths(o, r)
  BY <1>1 DEF EndStep, process, saving, disk, Files, Paths
<1>4. Cardinality(old) <= Keep[o] * (life' - 1)
  BY <1>3 DEF KeptInv
<1>5. CASE pc # "role"
  <2>1. Current(o) = {}
    BY <1>5 DEF Current
  <2>2. ~(pc' = "role" /\ \E r \in Ranks : at'[r] > 1)
    BY <1>5 DEF Driver, NextBatch, NextEpoch, Train, NoEvolution, Evolve, WriteBank,
       NoSave, BeginSave, RoleSaved, SaveLoader, OpenTracker, WriteTracker, EndStep
  <2>3. \A r \in Ranks : Len(prev[o][r]) <= Keep[o] /\ ~(MadeRoom(o, r))'
    <3> TAKE r \in Ranks
    <3>1. ~MadeRoom(o, r)
      BY <1>5 DEF MadeRoom
    <3>2. ~(MadeRoom(o, r))'
      BY <2>2 DEF MadeRoom
    <3> QED  BY <3>1, <3>2 DEF KeptInv
  <2>4. \A r \in Ranks : ~(pc' = "role" /\ at'[r] > 8)
    <3>1. \A r \in Ranks : at'[r] \in Nat
      BY TypeNext DEF Next, TypeInv, TypeOK, SavingTypes
    <3> QED  BY <2>2, <3>1
  <2>5. \A r \in Ranks : Files(o) \subseteq old \cup Paths(o, r)
    BY <2>1 DEF KeptInv
  <2> QED  BY <1>3, <1>4, <2>3, <2>4, <2>5 DEF KeptInv
<1>6. CASE pc = "role"
  <2>1. RoleSaved
    BY <1>6 DEF Driver, NextBatch, NextEpoch, Train, NoEvolution, Evolve, WriteBank,
       NoSave, BeginSave, SaveLoader, OpenTracker, WriteTracker, EndStep
  <2>2. /\ \A r \in Ranks : at[r] > 8
        /\ \/ role' = "critic" /\ pc' = pc /\ \A r \in Ranks : at'[r] = 1
           \/ pc' = "data"
    BY <2>1, ProgramFacts DEF RoleSaved
  <2>3. \A r \in Ranks : Files(o) \subseteq old \cup Paths(o, r)
    <3> TAKE r \in Ranks
    <3>1. Current(o) # {} => step \in Paths(o, r)
      BY <1>6, <2>2 DEF KeptInv, Current
    <3>2. Files(o) \subseteq old \cup Paths(o, r) \cup {step}
      BY DEF KeptInv, Current
    <3>3. Current(o) = {} => Files(o) \subseteq old \cup Paths(o, r)
      BY DEF KeptInv
    <3> QED  BY <3>1, <3>2, <3>3
  <2>4. \A r \in Ranks : Len(prev[o][r]) <= Keep[o] /\ ~(MadeRoom(o, r))'
    BY <1>2, <2>2 DEF KeptInv, MadeRoom
  <2>5. \A r \in Ranks : ~(pc' = "role" /\ at'[r] > 8)
    BY <2>2
  <2> QED  BY <1>3, <1>4, <2>3, <2>4, <2>5 DEF KeptInv
<1> QED  BY <1>5, <1>6

\* The steps of the ranks: room is made before anything is written.
LEMMA RanksKeep ==
  ASSUME TypeInv, FilesInv, Barrier \/ \E r \in Ranks : Worker(r),
         NEW o \in Roles, Keep[o] > 0, NEW old \in SUBSET Steps, KeptInv(o, old)
  PROVE  KeptInv(o, old)'
<1>1. UNCHANGED <<life, pc, step, role>> /\ pc = "role" /\ step \in Steps
  BY RankFrame DEF process
<1>2. /\ Keep[o] \in Nat /\ step \in Nat /\ role \in Roles
      /\ \A r \in Ranks : at[r] \in Nat \ {0} /\ prev[o][r] \in Seq(Nat)
      /\ \A r \in Ranks : Len(prev[o][r]) \in Nat
  BY ConstantTypes DEF TypeInv, TypeOK, SavingTypes, DriverTypes
<1>3. Cardinality(old) <= Keep[o] * (life' - 1)
  BY <1>1 DEF KeptInv
<1>4. \A r \in Ranks : at'[r] \in Nat /\ at[r] <= at'[r]
  BY <1>2 DEF Barrier, Worker, Rotate, MakeDir, WriteFile, AppendPath, Advance,
              TypeInv, TypeOK, SavingTypes
<1>5. Current(o) \subseteq Current(o)'
  BY <1>1, <1>2, <1>4 DEF Current
<1>6. CASE Barrier \/ \E r \in Ranks : MakeDir(r)
  <2>1. UNCHANGED <<prev, shard>>
    BY <1>6 DEF Barrier, MakeDir, disk
  <2>2. Files(o)' = Files(o) /\ \A r \in Ranks : Paths(o, r)' = Paths(o, r)
    BY <2>1 DEF Files, Paths
  <2>3. \A r \in Ranks : at'[r] = at[r] \/ (at[r] \in 2..7 /\ at'[r] = at[r] + 1)
    <3>1. ASSUME NEW r \in Ranks, Doing(r, "barrier") \/ Doing(r, "mkdir")
          PROVE  at[r] \in 2..7
      <4>1. at[r] <= 8 /\ Program[at[r]] \in {"barrier", "mkdir"} /\ at[r] \in Nat \ {0}
        BY <1>2, <3>1, ProgramFacts DEF Doing, Running
      <4> QED  BY <4>1, ProgramFacts
    <3>2. CASE Barrier
      BY <3>1, <3>2 DEF Barrier
    <3>3. CASE \E r \in Ranks : MakeDir(r)
      BY <1>2, <3>1, <3>3 DEF MakeDir, Advance, TypeInv, TypeOK, SavingTypes
    <3> QED  BY <1>6, <3>2, <3>3
  <2>4. \A r \in Ranks : MadeRoom(o, r) <=> (MadeRoom(o, r))'
    BY <1>1, <1>2, <2>3 DEF MadeRoom
  <2>5. \A r \in Ranks : at'[r] > 8 <=> at[r] > 8
    BY <1>2, <2>3
  <2>6. \A r \in Ranks : Files(o) \subseteq old \cup Paths(o, r) \cup Current(o)'
    BY <1>5 DEF KeptInv
  <2> QED  BY <1>1, <1>3, <2>1, <2>2, <2>4, <2>5, <2>6 DEF KeptInv
<1>7. ASSUME NEW r \in Ranks, Rotate(r) \/ WriteFile(r) \/ AppendPath(r)
      PROVE  KeptInv(o, old)'
  <2>1. \A q \in Ranks : at'[q] = IF q = r THEN at[r] + 1 ELSE at[q]
    BY <1>7 DEF Rotate, WriteFile, AppendPath, Advance, TypeInv, TypeOK, SavingTypes
  <2>2. o = role => Current(o)' = {step}
    BY <1>1, <1>2, <2>1 DEF Current
  <2>3. CASE o # role
    <3>1. \A q \in Ranks : prev'[o][q] = prev[o][q]
      BY <1>2, <1>7, <2>3 DEF Rotate, WriteFile, AppendPath, TypeInv, TypeOK, SavingTypes
    <3>2. shard'[o] = shard[o]
      BY <1>2, <1>7, <2>3 DEF Rotate, WriteFile, AppendPath, disk, TypeInv, TypeOK,
                              ShardTypes
    <3>3. Files(o)' = Files(o) /\ \A q \in Ranks : Paths(o, q)' = Paths(o, q)
      BY <3>1, <3>2 DEF Files, Paths
    <3>4. \A q \in Ranks : ~MadeRoom(o, q) /\ ~(MadeRoom(o, q))'
      BY <1>1, <2>3 DEF MadeRoom
    <3> QED  BY <1>1, <1>3, <1>5, <2>3, <3>1, <3>3, <3>4 DEF KeptInv
  <2>4. CASE o = role /\ Rotate(r)
    <3> DEFINE q == prev[o][r]
               n == Surplus(o, q)
               t == SubSeq(q, n + 1, Len(q))
    <3>1. /\ prev' = [prev EXCEPT ![o][r] = t]
          /\ shard' = [shard EXCEPT ![o] =
                        [s \in Steps |-> IF s \in Victims(o, r) THEN NoFiles ELSE @[s]]]
      BY <2>4 DEF Rotate
    <3>2. at[r] = 1
      BY <1>2, <2>4, ProgramFacts DEF Rotate, Doing, Running
    <3>3. prev'[o][r] = t /\ \A p \in Ranks : p # r => prev'[o][p] = prev[o][p]
      BY <3>1 DEF TypeInv, TypeOK, SavingTypes
    <3>4. Files(o)' = Files(o) \ Victims(o, r)
      BY <3>1 DEF TypeInv, TypeOK, ShardTypes, Files
    <3>5. Len(q) <= Keep[o]
      BY <3>2 DEF KeptInv, MadeRoom
    <3>6. Victims(o, r) = {q[i] : i \in 1..n}
      BY DEF Victims
    <3>7. Paths(o, r) = {q[i] : i \in 1..Len(q)}
      BY DEF Paths
    <3>8. Paths(o, r)' = {t[i] : i \in 1..Len(t)}
      BY <3>3 DEF Paths
    <3>9. q \in Seq(Nat) /\ Len(q) \in Nat
      BY <1>2
    <3> HIDE DEF q
    <3>10. n \in Nat /\ n <= Len(q) /\ Len(q) - n <= Keep[o] - 1
      BY <1>2, <3>5, <3>9 DEF Surplus
    <3> HIDE DEF n
    <3>11. /\ Len(t) = Len(q) - n /\ Len(t) \in Nat
           /\ \A i \in 1..Len(t) : t[i] = q[i + n]
      BY <3>9, <3>10
    <3> HIDE DEF t
    <3>12. Paths(o, r) \subseteq Victims(o, r) \cup Paths(o, r)'
      <4> SUFFICES ASSUME NEW i \in 1..Len(q), i \notin 1..n
                   PROVE  q[i] \in Paths(o, r)'
        BY <3>6, <3>7
      <4>1. i - n \in 1..Len(t) /\ (i - n) + n = i
        BY <3>9, <3>10, <3>11
      <4>2. t[i - n] = q[i]
        BY <3>11, <4>1
      <4> QED  BY <3>8, <4>1, <4>2
    <3>13. \A p \in Ranks : Files(o)' \subseteq old \cup Paths(o, p)' \cup Current(o)'
      <4> TAKE p \in Ranks
      <4>1. Files(o) \subseteq old \cup Paths(o, p) \cup Current(o)'
        BY <1>5 DEF KeptInv
      <4>2. p # r => Paths(o, p)' = Paths(o, p)
        BY <3>3 DEF Paths
      <4> QED  BY <3>4, <3>12, <4>1, <4>2
    <3>14. \A p \in Ranks :
             Len(prev'[o][p]) <= IF MadeRoom(o, p)' THEN Keep[o] - 1 ELSE Keep[o]
      <4> TAKE p \in Ranks
      <4>1. CASE p = r
        BY <1>2, <3>3, <3>10, <3>11, <4>1
      <4>2. CASE p # r
        <5>1. MadeRoom(o, p)' <=> MadeRoom(o, p)
          BY <1>1, <2>1, <4>2 DEF MadeRoom
        <5> QED  BY <3>3, <4>2, <5>1 DEF KeptInv
      <4> QED  BY <4>1, <4>2
    <3>15. \A p \in Ranks : at'[p] > 8 => step \in Paths(o, p)'
      <4> TAKE p \in Ranks
      <4>1. p # r => Paths(o, p)' = Paths(o, p)
        BY <3>3 DEF Paths
      <4> QED  BY <1>1, <2>1, <2>4, <3>2, <4>1 DEF KeptInv
    <3> QED  BY <1>1, <1>3, <3>13, <3>14, <3>15 DEF KeptInv
  <2>5. CASE o = role /\ WriteFile(r)
    <3>1. PICK k \in Parts :
            /\ Doing(r, k) /\ prev' = prev
            /\ shard' = IF WriterOf(k, r) = r
                        THEN [shard EXCEPT ![o][step][k][r] = mem[o][k][r]]
                        ELSE shard
      BY <2>5 DEF WriteFile
    <3>2. at[r] \in 2..7
      BY <1>2, <3>1, ProgramFacts DEF Doing, Running, Parts
    <3>3. \A s \in Steps : s # step => shard'[o][s] = shard[o][s]
      BY <1>1, <3>1 DEF TypeInv, TypeOK, ShardTypes
    <3>4. Files(o)' \subseteq Files(o) \cup {step}
      BY <3>3 DEF Files
    <3>5. \A p \in Ranks : Files(o)' \subseteq old \cup Paths(o, p)' \cup Current(o)'
      <4>1. \A p \in Ranks : Paths(o, p)' = Paths(o, p)
        BY <3>1 DEF Paths
      <4> QED  BY <1>5, <2>2, <2>5, <3>4, <4>1 DEF KeptInv
    <3>6. \A p \in Ranks : MadeRoom(o, p)' <=> MadeRoom(o, p)
      BY <1>1, <1>2, <2>1, <3>2 DEF MadeRoom
    <3>7. \A p \in Ranks : at'[p] > 8 <=> at[p] > 8
      BY <1>2, <2>1, <3>2
    <3>8. \A p \in Ranks : Paths(o, p)' = Paths(o, p)
      BY <3>1 DEF Paths
    <3> QED  BY <1>1, <1>3, <3>1, <3>5, <3>6, <3>7, <3>8 DEF KeptInv
  <2>6. CASE o = role /\ AppendPath(r)
    <3> DEFINE q == prev[o][r]
               t == Append(q, step)
    <3>1. prev' = [prev EXCEPT ![o][r] = t] /\ shard' = shard
      BY <2>6 DEF AppendPath, disk
    <3>2. at[r] = 8
      BY <1>2, <2>6, ProgramFacts DEF AppendPath, Doing, Running
    <3>3. prev'[o][r] = t /\ \A p \in Ranks : p # r => prev'[o][p] = prev[o][p]
      BY <3>1 DEF TypeInv, TypeOK, SavingTypes
    <3>4. Len(q) <= Keep[o] - 1 /\ q \in Seq(Nat) /\ Len(q) \in Nat
      BY <1>1, <1>2, <2>6, <3>2 DEF KeptInv, MadeRoom
    <3>5. Paths(o, r) = {q[i] : i \in 1..Len(q)}
          /\ Paths(o, r)' = {t[i] : i \in 1..Len(t)}
      BY <3>3 DEF Paths
    <3> HIDE DEF q
    <3>6. /\ Len(t) = Len(q) + 1 /\ t[Len(t)] = step
          /\ \A i \in 1..Len(q) : t[i] = q[i]
      BY <1>2, <3>4
    <3> HIDE DEF t
    <3>7. Paths(o, r) \subseteq Paths(o, r)' /\ step \in Paths(o, r)'
      BY <3>4, <3>5, <3>6
    <3>8. \A p \in Ranks : p # r => Paths(o, p)' = Paths(o, p)
      BY <3>3 DEF Paths
    <3>9. \A p \in Ranks : Files(o)' \subseteq old \cup Paths(o, p)' \cup Current(o)'
      <4>1. Files(o)' = Files(o)
        BY <3>1 DEF Files
      <4> QED  BY <1>5, <3>7, <3>8, <4>1 DEF KeptInv
    <3>10. \A p \in Ranks :
             Len(prev'[o][p]) <= IF MadeRoom(o, p)' THEN Keep[o] - 1 ELSE Keep[o]
      <4> TAKE p \in Ranks
      <4>1. CASE p = r
        <5>1. ~(MadeRoom(o, r))'
          BY <1>1, <2>1, <3>2 DEF MadeRoom
        <5> QED  BY <1>2, <3>3, <3>4, <3>6, <4>1, <5>1
      <4>2. CASE p # r
        <5>1. MadeRoom(o, p)' <=> MadeRoom(o, p)
          BY <1>1, <2>1, <4>2 DEF MadeRoom
        <5> QED  BY <3>3, <4>2, <5>1 DEF KeptInv
      <4> QED  BY <4>1, <4>2
    <3>11. \A p \in Ranks : at'[p] > 8 => step \in Paths(o, p)'
      BY <1>1, <2>1, <2>6, <3>7, <3>8 DEF KeptInv
    <3> QED  BY <1>1, <1>3, <3>9, <3>10, <3>11 DEF KeptInv
  <2> QED  BY <1>7, <2>3, <2>4, <2>5, <2>6
<1> QED  BY <1>6, <1>7 DEF Worker

LEMMA DiskBoundNow ==
  ASSUME TypeInv, DiskInv, NEW o \in Roles, Keep[o] > 0
  PROVE  Cardinality(Files(o)) <= Keep[o] * life
BY KeptBound DEF DiskInv

\* A killed process leaves what it had, and the next one starts from there.
LEMMA LivesKeep ==
  ASSUME TypeInv, DiskInv, Crash \/ Restart, NEW o \in Roles, Keep[o] > 0
  PROVE  IF Busy' THEN \E old \in SUBSET Steps : KeptInv(o, old)'
                  ELSE Cardinality(Files(o)') <= Keep[o] * life'
<1>1. /\ Keep[o] \in Nat /\ life \in Nat \ {0}
      /\ Cardinality(Files(o)) <= Keep[o] * life
  BY ConstantTypes, DiskBoundNow DEF TypeInv, TypeOK, DriverTypes
<1>2. CASE Crash
  <2>1. PICK hit \in SUBSET Ranks :
          shard' = [u \in Roles |-> [s \in Steps |-> [k \in Parts |->
                     [r \in Ranks |-> IF Torn(hit, u, s, k, r)
                        THEN Unreadable ELSE shard[u][s][k][r]]]]]
    BY <1>2 DEF Crash
  <2>2. \A s \in Steps : shard[o][s] = NoFiles => shard'[o][s] = NoFiles
    BY <2>1 DEF NoFiles
  <2>3. Files(o)' \subseteq Files(o)
    BY <2>2 DEF Files
  <2>4. ~Busy' /\ life' = life
    BY <1>2 DEF Crash, Busy, process
  <2> DEFINE n == Keep[o] * life
  <2>5. n \in Int /\ n <= n /\ Cardinality(Files(o)) <= n
    BY <1>1
  <2> HIDE DEF n
  <2>6. Cardinality(Files(o)') <= n
    BY <2>3, <2>5, FewerFiles
  <2> QED  BY <2>4, <2>6 DEF n
<1>3. CASE Restart
  <2>1. life' = life + 1 /\ shard' = shard /\ pc' \in {"fetch", "dead"}
    BY <1>3 DEF Restart, disk
  <2>2. Files(o)' = Files(o) /\ Files(o) \in SUBSET Steps
    BY <2>1 DEF Files
  <2>3. /\ Keep[o] * (life' - 1) = Keep[o] * life
        /\ Keep[o] * life <= Keep[o] * life'
        /\ Keep[o] * life \in Int /\ Keep[o] * life' \in Int
    BY <1>1, <2>1
  <2>4. Cardinality(Files(o)') <= Keep[o] * life'
    BY <1>1, <2>2, <2>3, FewerFiles
  <2>5. Busy' => KeptInv(o, Files(o))'
    <3> HAVE Busy'
    <3>1. \A r \in Ranks : prev'[o][r] = <<>> /\ ~(MadeRoom(o, r))'
      BY <1>3, <2>1 DEF Restart, Busy, MadeRoom
    <3>2. pc' # "role"
      BY <2>1
    <3> QED  BY <1>1, <2>2, <2>3, <3>1, <3>2 DEF KeptInv
  <2> QED  BY <2>2, <2>4, <2>5
<1> QED  BY <1>2, <1>3

LEMMA DiskNext == TypeInv /\ FilesInv /\ DiskInv /\ [Next]_vars => DiskInv'
<1> SUFFICES ASSUME TypeInv, FilesInv, DiskInv, [Next]_vars,
                    NEW o \in Roles, Keep[o] > 0
             PROVE  IF Busy' THEN \E old \in SUBSET Steps : KeptInv(o, old)'
                             ELSE Cardinality(Files(o)') <= Keep[o] * life'
  BY DEF DiskInv
<1>1. CASE UNCHANGED vars
  <2>1. UNCHANGED <<pc, life, step, role, at, prev, shard>>
    BY <1>1 DEF vars, process, loop, saving, disk
  <2>2. /\ Files(o)' = Files(o) /\ Current(o)' = Current(o)
        /\ \A r \in Ranks : Paths(o, r)' = Paths(o, r) /\ MadeRoom(o, r)' = MadeRoom(o, r)
    BY <2>1 DEF Files, Paths, Current, MadeRoom
  <2>3. \A old \in SUBSET Steps : KeptInv(o, old) => KeptInv(o, old)'
    BY <2>1, <2>2 DEF KeptInv
  <2> QED  BY <2>1, <2>2, <2>3 DEF DiskInv, Busy
<1>2. CASE Driver
  <2>1. Busy
    BY <1>2 DEF Driver, NextBatch, NextEpoch, Train, NoEvolution, Evolve, WriteBank,
       NoSave, BeginSave, RoleSaved, SaveLoader, OpenTracker, WriteTracker, EndStep, Busy
  <2>2. PICK old \in SUBSET Steps : KeptInv(o, old)
    BY <2>1 DEF DiskInv
  <2>3. KeptInv(o, old)'
    BY <1>2, <2>1, <2>2, DriverKeeps
  <2>4. UNCHANGED <<life, shard>>
    BY <1>2 DEF Driver, NextBatch, NextEpoch, Train, NoEvolution, Evolve, WriteBank,
       NoSave, BeginSave, RoleSaved, SaveLoader, OpenTracker, WriteTracker, EndStep,
       process, disk
  <2>5. Files(o)' = Files(o)
    BY <2>4 DEF Files
  <2> QED  BY <2>3, <2>4, <2>5, DiskBoundNow
<1>3. CASE Barrier \/ \E r \in Ranks : Worker(r)
  <2>1. Busy /\ pc' = pc
    BY <1>3, RankFrame
  <2>2. PICK old \in SUBSET Steps : KeptInv(o, old)
    BY <2>1 DEF DiskInv
  <2>3. KeptInv(o, old)'
    BY <1>3, <2>2, RanksKeep
  <2> QED  BY <2>1, <2>3 DEF Busy
<1>4. CASE Crash \/ Restart
  BY <1>4, LivesKeep
<1> QED  BY <1>1, <1>2, <1>3, <1>4 DEF Next, Stopped

\* Each life leaves at most Keep checkpoints of a role on disk, with those a rank
\* has only begun (BaseCheckpointManager.remove_previous_save_local_path).
THEOREM DiskIsBounded == Spec => []DiskBounded
<1>1. TypeInv /\ DiskInv => DiskBounded
  BY DiskBoundNow DEF DiskBounded, Files
<1> QED  BY <1>1, TypeInit, TypeNext, FilesInit, FilesNext, DiskInit, DiskNext,
            PTL DEF Spec
=============================================================================
