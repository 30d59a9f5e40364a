------------------------- MODULE SkillEvolutionProofs -------------------------
(***************************************************************************)
(* Proofs about SkillEvolution, for every bank, task type, configuration   *)
(* and number of rounds and crashes; first, what the operations of the     *)
(* skill bank preserve: no list ever holds an id twice, and, unless its id *)
(* is evictable, no filed skill is lost.                                   *)
(***************************************************************************)
EXTENDS SkillEvolution, WellFoundedInduction, TLAPS

-----------------------------------------------------------------------------
(* Operations of the skill bank *)

\* The ids of a well-formed bank are ids.
LEMMA IdsType ==
  ASSUME NEW skills, WellFormed(skills)
  PROVE  Ids(skills) \subseteq Id
BY DEF WellFormed, Ids, Entry

\* add_skills files nothing twice, because it skips ids the bank has.
LEMMA AddSkillsWellFormed ==
  ASSUME NEW skills, WellFormed(skills), NEW ids \in SUBSET Id,
         NEW cat \in Categories, NEW version \in Nat
  PROVE  WellFormed(AddSkills(skills, ids, cat, version))
<1> DEFINE fresh == {[cat |-> cat, id |-> i, meta |-> version, text |-> NoText] :
                       i \in ids \ Ids(skills)}
<1>1. \A e \in fresh : e \in Entry /\ e.id \notin Ids(skills)
  BY DEF Entry, NoText
<1>2. \A e, f \in fresh : e.id = f.id => e = f
  OBVIOUS
<1>3. \A e \in skills : e.id \in Ids(skills)
  BY DEF Ids
<1>4. skills \cup fresh \subseteq Entry
  BY <1>1 DEF WellFormed
<1>5. \A e, f \in skills \cup fresh : e.cat = f.cat /\ e.id = f.id => e = f
  BY <1>1, <1>2, <1>3 DEF WellFormed
<1>6. AddSkills(skills, ids, cat, version) = skills \cup fresh
  BY DEF AddSkills
<1> QED  BY <1>4, <1>5, <1>6 DEF WellFormed

\* Evicting entries keeps the rest as it was.
LEMMA EvictWellFormed ==
  ASSUME NEW skills, WellFormed(skills), NEW evicted
  PROVE  WellFormed(skills \ evicted)
BY DEF WellFormed

\* update_meta_dim rewrites an entry where it is filed.
LEMMA UpdateMetaWellFormed ==
  ASSUME NEW skills, WellFormed(skills), NEW ids, NEW version \in Nat
  PROVE  WellFormed(UpdateMeta(skills, ids, version))
<1> DEFINE g(e) == IF e.id \in ids /\ e \in FindSkill(skills, e.id)
                     THEN [e EXCEPT !.meta = version] ELSE e
<1>1. \A e \in Entry : g(e) \in Entry /\ g(e).cat = e.cat /\ g(e).id = e.id
  BY DEF Entry
<1>2. UpdateMeta(skills, ids, version) = {g(e) : e \in skills}
  BY DEF UpdateMeta
<1> HIDE DEF g
<1> QED  BY <1>1, <1>2 DEF WellFormed

\* synthesize_all rewrites entries where they are filed.
LEMMA SynthesizeAllWellFormed ==
  ASSUME NEW skills, WellFormed(skills), NEW ids
  PROVE  WellFormed(SynthesizeAll(skills, ids))
<1> DEFINE g(e) == IF e.id \in ids THEN [e EXCEPT !.text = e.meta] ELSE e
<1>1. \A e \in Entry : g(e) \in Entry /\ g(e).cat = e.cat /\ g(e).id = e.id
  BY DEF Entry
<1>2. SynthesizeAll(skills, ids) = {g(e) : e \in skills}
  BY DEF SynthesizeAll
<1> HIDE DEF g
<1> QED  BY <1>1, <1>2 DEF WellFormed

\* restore_partial replaces what a list holds instead of filing it again.
LEMMA RestorePartialWellFormed ==
  ASSUME NEW skills, WellFormed(skills), NEW saved, WellFormed(saved), NEW ids
  PROVE  WellFormed(RestorePartial(skills, saved, ids))
<1> DEFINE back == SnapshotEntries(saved, ids)
           kept == {e \in skills : e.id \notin ids \/ e.id \in Ids(saved)}
           rest == {e \in kept : \A s \in back : ~(s.cat = e.cat /\ s.id = e.id)}
<1>1. back \subseteq saved
  BY DEF SnapshotEntries
<1>2. rest \subseteq skills
  OBVIOUS
<1>3. RestorePartial(skills, saved, ids) = rest \cup back
  BY DEF RestorePartial
<1>4. rest \cup back \subseteq Entry
  BY <1>1, <1>2 DEF WellFormed
<1>5. ASSUME NEW e \in rest \cup back, NEW f \in rest \cup back,
             e.cat = f.cat, e.id = f.id
      PROVE  e = f
  <2>1. CASE e \in rest /\ f \in rest
    BY <1>2, <1>5, <2>1 DEF WellFormed
  <2>2. CASE e \in back /\ f \in back
    BY <1>1, <1>5, <2>2 DEF WellFormed
  <2>3. CASE e \in rest /\ f \in back
    BY <1>5, <2>3
  <2>4. CASE e \in back /\ f \in rest
    BY <1>5, <2>4
  <2> QED  BY <2>1, <2>2, <2>3, <2>4
<1> QED  BY <1>3, <1>4, <1>5 DEF WellFormed

-----------------------------------------------------------------------------
(* No skill is lost *)

LEMMA AddSkillsKeeps ==
  ASSUME NEW skills, NEW initial, Keeps(skills, initial),
         NEW ids, NEW cat, NEW version
  PROVE  Keeps(AddSkills(skills, ids, cat, version), initial)
BY DEF Keeps, AddSkills

LEMMA EvictKeeps ==
  ASSUME NEW skills, NEW initial, Keeps(skills, initial), NEW evicted,
         \A e \in initial, f \in evicted : e.id # f.id
  PROVE  Keeps(skills \ evicted, initial)
BY DEF Keeps

LEMMA UpdateMetaKeeps ==
  ASSUME NEW skills, WellFormed(skills), NEW initial, Keeps(skills, initial),
         NEW ids, NEW version \in Nat
  PROVE  Keeps(UpdateMeta(skills, ids, version), initial)
<1> DEFINE g(e) == IF e.id \in ids /\ e \in FindSkill(skills, e.id)
                     THEN [e EXCEPT !.meta = version] ELSE e
<1>1. \A e \in Entry : g(e).cat = e.cat /\ g(e).id = e.id
  BY DEF Entry
<1>2. UpdateMeta(skills, ids, version) = {g(e) : e \in skills}
  BY DEF UpdateMeta
<1> HIDE DEF g
<1> QED  BY <1>1, <1>2 DEF Keeps, WellFormed

LEMMA SynthesizeAllKeeps ==
  ASSUME NEW skills, WellFormed(skills), NEW initial, Keeps(skills, initial), NEW ids
  PROVE  Keeps(SynthesizeAll(skills, ids), initial)
<1> DEFINE g(e) == IF e.id \in ids THEN [e EXCEPT !.text = e.meta] ELSE e
<1>1. \A e \in Entry : g(e).cat = e.cat /\ g(e).id = e.id
  BY DEF Entry
<1>2. SynthesizeAll(skills, ids) = {g(e) : e \in skills}
  BY DEF SynthesizeAll
<1> HIDE DEF g
<1> QED  BY <1>1, <1>2 DEF Keeps, WellFormed

\* Rolling back never loses a skill both the bank and the snapshot have.
LEMMA RestorePartialKeeps ==
  ASSUME NEW skills, NEW saved, NEW initial, NEW ids,
         Keeps(skills, initial), Keeps(saved, initial)
  PROVE  Keeps(RestorePartial(skills, saved, ids), initial)
<1> DEFINE back == SnapshotEntries(saved, ids)
           kept == {e \in skills : e.id \notin ids \/ e.id \in Ids(saved)}
           rest == {e \in kept : \A s \in back : ~(s.cat = e.cat /\ s.id = e.id)}
<1>1. RestorePartial(skills, saved, ids) = rest \cup back
  BY DEF RestorePartial
<1>2. SUFFICES ASSUME NEW e \in initial
               PROVE  \E f \in rest \cup back : f.cat = e.cat /\ f.id = e.id
  BY <1>1 DEF Keeps
<1>3. PICK f \in skills : f.cat = e.cat /\ f.id = e.id
  BY DEF Keeps
<1>4. e.id \in Ids(saved)
  BY DEF Keeps, Ids
<1>5. f \in kept
  BY <1>3, <1>4
<1> QED  BY <1>3, <1>5

-----------------------------------------------------------------------------
(* The initial bank *)

\* The initial bank keeps itself.
LEMMA InitBankKept == Keeps(InitBank, InitBank)
BY DEF Keeps

\* Evictable ids are not those of the initial bank.
LEMMA InitBankNotEvictable == \A e \in InitBank : ~Evictable(e.id)
BY InitBankAssumption

-----------------------------------------------------------------------------
(* Type correctness *)

LEMMA TypeInit == Init => TypeOK
<1> SUFFICES ASSUME Init PROVE TypeOK
  OBVIOUS
<1>1. WellFormed(InitBank) /\ InitBank \in SUBSET Entry
  BY InitBankAssumption DEF WellFormed
<1>2. disk \in [state : {"absent", "torn", "whole"}, bank : SUBSET Entry]
  BY <1>1 DEF Init
<1>3. \A b \in Banks : WellFormed(b)
  BY <1>1 DEF Init, Banks
<1> QED  BY <1>2, <1>3, ParameterAssumption
         DEF Init, TypeOK, NoIds, Phases, Categories

\* Leaving a round keeps the types of the round's own variables.
LEMMA LeaveRoundType ==
  ASSUME LeaveRound
  PROVE  /\ snap' = bank' /\ groups' \subseteq TaskTypes
         /\ changedBy' \in [Categories -> SUBSET Id]
         /\ pend' \subseteq Id /\ skipped' \subseteq Id
         /\ changed' \in BOOLEAN /\ rejected' \subseteq Categories
BY DEF LeaveRound, NoIds

\* The conjuncts of TypeOK about the banks.
LEMMA BanksType ==
  ASSUME TypeOK
  PROVE  /\ WellFormed(bank) /\ WellFormed(envBank) /\ WellFormed(valBank)
         /\ WellFormed(snap) /\ WellFormed(disk.bank)
BY DEF TypeOK, Banks

LEMMA TypeNext == TypeOK /\ [Next]_vars => TypeOK'
<1> SUFFICES ASSUME TypeOK, [Next]_vars PROVE TypeOK'
  OBVIOUS
<1> USE BanksType
<1>t. \A b : WellFormed(b) => b \subseteq Entry
  BY DEF WellFormed
<1>1. CASE BeginRound
  BY <1>1 DEF BeginRound, TypeOK, Banks, Phases, memory, flags
<1>2. CASE Prune
  <2>1. PICK evicted \in SUBSET {e \in bank : Evictable(e.id)} :
          /\ bank' = bank \ evicted
          /\ changedBy' = [changedBy EXCEPT ![General] = Ids(evicted)]
          /\ changed' = (evicted # {})
    BY <1>2 DEF Prune
  <2>2. WellFormed(bank')
    BY <2>1, EvictWellFormed
  <2>3. changedBy' \in [Categories -> SUBSET Id]
    <3>1. Ids(evicted) \subseteq Id
      BY IdsType DEF Ids
    <3> QED  BY <2>1, <3>1 DEF TypeOK
  <2>4. changed' \in BOOLEAN
    BY <2>1
  <2> QED  BY <1>2, <2>2, <2>3, <2>4
           DEF Prune, TypeOK, Banks, Phases, flags, history, results
<1>3. ASSUME NEW tt \in TaskTypes, UpdateType(tt) PROVE TypeOK'
  <2>1. PICK updates \in SUBSET Retrievable(envBank, tt), k \in 0..MaxNew :
          /\ NewIds(tt, k) \subseteq Id
          /\ changedBy' = [c \in Categories |->
               changedBy[c] \cup {i \in updates : CategoryOf(i) = c}
                            \cup IF c = tt THEN NewIds(tt, k) ELSE {}]
          /\ bank' = AddSkills(bank, NewIds(tt, k), tt, round)
          /\ skipped' = skipped \cup (NewIds(tt, k) \cap Ids(bank))
          /\ changed' = (changed \/ ~(NewIds(tt, k) \subseteq Ids(bank)))
          /\ pend' = pend \cup updates
    BY <1>3, Zenon DEF UpdateType
  <2>2. updates \subseteq Id
    BY IdsType DEF Retrievable, Ids
  <2>3. WellFormed(bank')
    <3>1. tt \in Categories /\ round \in Nat
      BY DEF Categories, TypeOK
    <3> QED  BY <2>1, <3>1, AddSkillsWellFormed
  <2>4. changedBy' \in [Categories -> SUBSET Id]
    BY <2>1, <2>2 DEF TypeOK
  <2>5. pend' \subseteq Id /\ skipped' \subseteq Id
    BY <2>1, <2>2 DEF TypeOK
  <2>6. changed' \in BOOLEAN
    BY <2>1 DEF TypeOK
  <2> QED  BY <1>3, <2>3, <2>4, <2>5, <2>6
           DEF UpdateType, TypeOK, Banks, flags, history, results
<1>4. CASE ApplyUpdates
  <2>1. WellFormed(bank')
    <3>1. WellFormed(UpdateMeta(bank, pend, round))
      BY UpdateMetaWellFormed DEF TypeOK
    <3> QED  BY <1>4, <3>1, SynthesizeAllWellFormed DEF ApplyUpdates
  <2> QED  BY <1>4, <2>1
           DEF ApplyUpdates, TypeOK, Banks, Phases, flags, history, results
<1>5. CASE NothingChanged
  BY <1>5, LeaveRoundType
  DEF NothingChanged, TypeOK, Banks, Phases, memory, flags, history
<1>6. CASE SkipVerify
  BY <1>6 DEF SkipVerify, TypeOK, Banks, Phases, memory, flags, history, work,
              results
<1>7. CASE StartReplay
  BY <1>7 DEF StartReplay, TypeOK, Banks, Phases, history, work, results
<1>8. CASE NoReplay
  BY <1>8 DEF NoReplay, TypeOK, Banks, Phases, memory, flags, history, work,
              results
<1>9. CASE ReplayFails
  BY <1>9 DEF ReplayFails, TypeOK, Banks, Phases, memory, history, work,
              results
<1>10. CASE ReplayReturns
  <2>1. rejected' \subseteq Categories
    BY <1>10 DEF ReplayReturns, Worse
  <2> QED  BY <1>10, <2>1
           DEF ReplayReturns, TypeOK, Banks, Phases, memory, history, work
<1>11. CASE SkipFallback
  BY <1>11 DEF SkipFallback, TypeOK, Banks, Phases, memory, flags, history,
               work, results
<1>12. CASE StartFallback
  BY <1>12 DEF StartFallback, TypeOK, Banks, Phases, history, work, results
<1>13. CASE FallbackEnds
  BY <1>13 DEF FallbackEnds, TypeOK, Banks, Phases, memory, history, work
<1>14. CASE Decide
  <2>1. WellFormed(bank')
    <3>1. WellFormed(RestorePartial(bank, snap, RejectedIds))
      BY RestorePartialWellFormed
    <3> QED  BY <1>14, <3>1 DEF Decide
  <2> QED  BY <1>14, <2>1
           DEF Decide, TypeOK, Banks, Phases, flags, history, work, results
<1>15. CASE OpenFile
  BY <1>15 DEF OpenFile, TypeOK, Banks, Phases, memory, flags, history, work,
               results
<1>16. CASE WriteFile
  BY <1>16, <1>t DEF WriteFile, TypeOK, Banks, Phases, memory, flags, history,
                     work, results
<1>17. CASE SyncSkillToEnv
  BY <1>17, LeaveRoundType
  DEF SyncSkillToEnv, TypeOK, Banks, Phases, flags, history
<1>18. CASE Crash
  BY <1>18 DEF Crash, TypeOK, Banks, Phases, memory, flags, work, results
<1>19. CASE Restart
  <2>1. CASE SaveInPlace /\ disk.state = "torn"
    BY <1>19, <2>1 DEF Restart, TypeOK, Banks, Phases, memory, flags, history,
                       work, results
  <2>2. CASE ~(SaveInPlace /\ disk.state = "torn")
    <3>1. WellFormed(bank') /\ envBank' = bank' /\ valBank' = bank'
      BY <1>19, <2>2, InitBankAssumption DEF Restart
    <3>2. LeaveRound
      BY <1>19, <2>2 DEF Restart
    <3> QED  BY <1>19, <2>2, <3>1, <3>2, LeaveRoundType, ParameterAssumption
             DEF Restart, TypeOK, Banks, Phases, history
  <2> QED  BY <2>1, <2>2
<1>20. CASE UNCHANGED vars
  BY <1>20 DEF TypeOK, Banks, vars, memory, flags, history, work, results
<1>21. CASE Stopped
  BY <1>20, <1>21 DEF Stopped
<1> QED  BY <1>1, <1>2, <1>3, <1>4, <1>5, <1>6, <1>7, <1>8, <1>9, <1>10,
            <1>11, <1>12, <1>13, <1>14, <1>15, <1>16, <1>17, <1>18, <1>19,
            <1>20, <1>21
         DEF Next, Trainer

\* Every variable keeps its type, and no operation of a round, no rollback and
\* no restart ever files an id twice in one list (add_skills, restore_partial).
THEOREM TypeCorrect == Spec => []TypeOK
<1> QED  BY TypeInit, TypeNext, PTL DEF Spec

-----------------------------------------------------------------------------
(* Skills of the initial bank are never lost *)

LEMMA StaticInit == Init => StaticProtected
BY InitBankKept DEF Init, StaticProtected, Banks

LEMMA StaticNext == TypeOK /\ StaticProtected /\ [Next]_vars => StaticProtected'
<1> SUFFICES ASSUME TypeOK, StaticProtected, [Next]_vars
             PROVE  StaticProtected'
  OBVIOUS
<1> USE BanksType
<1>k. /\ Keeps(bank, InitBank) /\ Keeps(envBank, InitBank)
      /\ Keeps(valBank, InitBank) /\ Keeps(snap, InitBank)
      /\ Keeps(disk.bank, InitBank)
  BY DEF StaticProtected, Banks
<1>1. CASE Prune
  <2>1. PICK evicted \in SUBSET {e \in bank : Evictable(e.id)} :
          bank' = bank \ evicted
    BY <1>1 DEF Prune
  <2>2. Keeps(bank', InitBank)
    BY <1>k, <2>1, InitBankNotEvictable, EvictKeeps
  <2> QED  BY <1>1, <1>k, <2>2 DEF Prune, StaticProtected, Banks
<1>2. ASSUME NEW tt \in TaskTypes, UpdateType(tt) PROVE StaticProtected'
  <2>1. PICK k \in 0..MaxNew : bank' = AddSkills(bank, NewIds(tt, k), tt, round)
    BY <1>2, Zenon DEF UpdateType
  <2>2. Keeps(bank', InitBank)
    BY <1>k, <2>1, AddSkillsKeeps
  <2> QED  BY <1>2, <1>k, <2>2 DEF UpdateType, StaticProtected, Banks
<1>3. CASE ApplyUpdates
  <2>1. /\ WellFormed(UpdateMeta(bank, pend, round))
        /\ Keeps(UpdateMeta(bank, pend, round), InitBank)
    BY <1>k, UpdateMetaWellFormed, UpdateMetaKeeps DEF TypeOK
  <2>2. Keeps(bank', InitBank)
    BY <1>3, <1>k, <2>1, SynthesizeAllKeeps DEF ApplyUpdates
  <2> QED  BY <1>3, <1>k, <2>2 DEF ApplyUpdates, StaticProtected, Banks
<1>4. CASE Decide
  <2>1. Keeps(RestorePartial(bank, snap, RejectedIds), InitBank)
    BY <1>k, RestorePartialKeeps
  <2>2. Keeps(bank', InitBank)
    BY <1>4, <1>k, <2>1 DEF Decide
  <2> QED  BY <1>4, <1>k, <2>2 DEF Decide, StaticProtected, Banks
<1>5. CASE WriteFile
  BY <1>5, <1>k DEF WriteFile, StaticProtected, Banks, memory
<1>6. CASE OpenFile
  <2>1. disk'.bank = disk.bank
    BY <1>6 DEF OpenFile, TypeOK
  <2> QED  BY <1>6, <1>k, <2>1 DEF OpenFile, StaticProtected, Banks, memory
<1>7. CASE Restart
  <2>1. CASE SaveInPlace /\ disk.state = "torn"
    BY <1>7, <1>k, <2>1 DEF Restart, StaticProtected, Banks, memory
  <2>2. CASE ~(SaveInPlace /\ disk.state = "torn")
    <3>1. Keeps(bank', InitBank) /\ envBank' = bank' /\ valBank' = bank'
      BY <1>7, <1>k, <2>2, InitBankKept DEF Restart
    <3>2. snap' = bank' /\ disk' = disk
      BY <1>7, <2>2 DEF Restart, LeaveRound
    <3> QED  BY <1>k, <3>1, <3>2 DEF StaticProtected, Banks
  <2> QED  BY <2>1, <2>2
<1>8. CASE BeginRound
  BY <1>8, <1>k DEF BeginRound, StaticProtected, Banks, memory
<1>9. CASE NothingChanged \/ SyncSkillToEnv
  BY <1>9, <1>k DEF NothingChanged, SyncSkillToEnv, LeaveRound,
                    StaticProtected, Banks, memory
<1>10. CASE StartReplay \/ StartFallback
  BY <1>10, <1>k DEF StartReplay, StartFallback, StaticProtected, Banks
<1>11. CASE UNCHANGED <<memory, disk, snap>>
  BY <1>11, <1>k DEF StaticProtected, Banks, memory
<1>12. /\ SkipVerify \/ NoReplay \/ ReplayFails \/ ReplayReturns => 
             UNCHANGED <<memory, disk, snap>>
       /\ SkipFallback \/ FallbackEnds \/ Crash \/ Stopped \/ UNCHANGED vars =>
             UNCHANGED <<memory, disk, snap>>
  BY DEF SkipVerify, NoReplay, ReplayFails, ReplayReturns, SkipFallback,
         FallbackEnds, Crash, Stopped, vars
<1> QED  BY <1>1, <1>2, <1>3, <1>4, <1>5, <1>6, <1>7, <1>8, <1>9, <1>10,
            <1>11, <1>12
         DEF Next, Trainer

\* No eviction, merge, rollback, crash or restart ever loses a skill of the
\* initial bank (skill_pruner, evict_low_utility, restore_partial, restore).
THEOREM StaticSkillsSafe == Spec => []StaticProtected
<1> QED  BY TypeInit, TypeNext, StaticInit, StaticNext, PTL DEF Spec

-----------------------------------------------------------------------------
(* Training retrieves from the decided bank *)

\* A round that changed nothing so far has not touched the trainer's bank,
\* which is then still both the snapshot and the bank of the environments; the
\* training environments are forced to the skill arm only during a replay.
RoundInv ==
  /\ pc = "idle" => envBank = bank
  /\ pc \in {"prune", "update"} /\ ~changed => bank = snap /\ envBank = bank
  /\ pc = "prune" => ~changed
  /\ pc = "idle" => ~changed
  /\ envAlways => pc \in {"replay", "down", "dead"}

\* Adding skills that are all filed already adds nothing.
LEMMA AddNothing ==
  ASSUME NEW b, NEW ids, ids \subseteq Ids(b), NEW cat, NEW version
  PROVE  AddSkills(b, ids, cat, version) = b
BY DEF AddSkills

LEMMA RoundInit == Init => RoundInv
BY DEF Init, RoundInv

LEMMA RoundNext == TypeOK /\ RoundInv /\ [Next]_vars => RoundInv'
<1> SUFFICES ASSUME TypeOK, RoundInv, [Next]_vars PROVE RoundInv'
  OBVIOUS
<1>1. CASE BeginRound
  BY <1>1 DEF BeginRound, RoundInv, memory, flags
<1>2. CASE Prune
  <2>1. PICK evicted \in SUBSET {e \in bank : Evictable(e.id)} :
          /\ bank' = bank \ evicted
          /\ changed' = (evicted # {})
    BY <1>2 DEF Prune
  <2>2. ~changed' => bank' = bank
    BY <2>1
  <2> QED  BY <1>2, <2>2 DEF Prune, RoundInv, flags
<1>3. ASSUME NEW tt \in TaskTypes, UpdateType(tt) PROVE RoundInv'
  <2>1. PICK k \in 0..MaxNew :
          /\ bank' = AddSkills(bank, NewIds(tt, k), tt, round)
          /\ changed' = (changed \/ ~(NewIds(tt, k) \subseteq Ids(bank)))
    BY <1>3, Zenon DEF UpdateType
  <2>2. ~changed' => ~changed /\ bank' = bank
    BY <2>1, AddNothing
  <2> QED  BY <1>3, <2>2 DEF UpdateType, RoundInv, flags
<1>4. CASE ApplyUpdates
  BY <1>4 DEF ApplyUpdates, RoundInv, flags
<1>5. CASE NothingChanged
  BY <1>5 DEF NothingChanged, LeaveRound, RoundInv, memory, flags
<1>6. CASE SkipVerify \/ NoReplay \/ SkipFallback
  BY <1>6 DEF SkipVerify, NoReplay, SkipFallback, RoundInv, memory, flags, work
<1>7. CASE StartReplay \/ ReplayFails \/ ReplayReturns
  BY <1>7 DEF StartReplay, ReplayFails, ReplayReturns, RoundInv
<1>8. CASE StartFallback \/ FallbackEnds \/ Decide
  BY <1>8 DEF StartFallback, FallbackEnds, Decide, RoundInv, flags
<1>9. CASE OpenFile \/ WriteFile
  BY <1>9 DEF OpenFile, WriteFile, RoundInv, flags
<1>10. CASE SyncSkillToEnv
  BY <1>10 DEF SyncSkillToEnv, LeaveRound, RoundInv, flags
<1>11. CASE Crash
  BY <1>11 DEF Crash, RoundInv
<1>12. CASE Restart
  BY <1>12 DEF Restart, LeaveRound, RoundInv, flags
<1>13. CASE UNCHANGED vars
  BY <1>13 DEF RoundInv, vars, memory, flags, work
<1>14. CASE Stopped
  BY <1>13, <1>14 DEF Stopped
<1> QED  BY <1>1, <1>2, <1>3, <1>4, <1>5, <1>6, <1>7, <1>8, <1>9, <1>10,
            <1>11, <1>12, <1>13, <1>14
         DEF Next, Trainer

\* Whatever a round did, whichever way its verification ended and wherever the
\* process was restarted, between rounds the training rollouts retrieve from
\* the trainer's own bank and run both arms (_sync_skill_to_env, and the flag
\* reset at the end of a replay).
THEOREM TrainingSeesDecided == Spec => []TrainingSeesDecidedBank
<1>1. RoundInv => TrainingSeesDecidedBank
  BY DEF RoundInv, TrainingSeesDecidedBank
<1> QED  BY <1>1, TypeInit, TypeNext, RoundInit, RoundNext, PTL DEF Spec

-----------------------------------------------------------------------------
(* The file never holds an undecided bank *)

\* When the bank is saved in place, the file is whole and is the snapshot until
\* the round opens it, and is the trainer's bank once written.
FileInv ==
  SaveInPlace =>
    /\ disk.state # "absent"
    /\ Candidate \/ pc \in {"idle", "save"} =>
         disk = [state |-> "whole", bank |-> snap]
    /\ pc = "sync" => disk = [state |-> "whole", bank |-> bank]
    /\ pc = "idle" => snap = bank

LEMMA FileInit == Init => FileInv
BY DEF Init, FileInv

LEMMA FileNext == TypeOK /\ RoundInv /\ FileInv /\ [Next]_vars => FileInv'
<1> SUFFICES ASSUME TypeOK, RoundInv, FileInv, [Next]_vars, SaveInPlace
             PROVE  FileInv'
  BY DEF FileInv
<1>1. CASE BeginRound
  BY <1>1 DEF BeginRound, FileInv, Candidate, memory
<1>2. CASE Prune \/ ApplyUpdates \/ \E tt \in TaskTypes : UpdateType(tt)
  BY <1>2 DEF Prune, UpdateType, ApplyUpdates, FileInv, Candidate
<1>3. CASE NothingChanged
  BY <1>3 DEF NothingChanged, LeaveRound, FileInv, RoundInv, Candidate, memory
<1>4. CASE SkipVerify \/ NoReplay \/ SkipFallback
  BY <1>4 DEF SkipVerify, NoReplay, SkipFallback, FileInv, Candidate
<1>5. CASE StartReplay \/ ReplayFails \/ ReplayReturns
  BY <1>5 DEF StartReplay, ReplayFails, ReplayReturns, FileInv, Candidate
<1>6. CASE StartFallback \/ FallbackEnds \/ Decide
  BY <1>6 DEF StartFallback, FallbackEnds, Decide, FileInv, Candidate
<1>7. CASE OpenFile
  <2>1. disk'.state = "torn"
    BY <1>7 DEF OpenFile, TypeOK
  <2> QED  BY <1>7, <2>1 DEF OpenFile, FileInv, Candidate
<1>8. CASE WriteFile
  BY <1>8 DEF WriteFile, FileInv, Candidate, memory
<1>9. CASE SyncSkillToEnv
  BY <1>9 DEF SyncSkillToEnv, LeaveRound, FileInv, Candidate
<1>10. CASE Crash
  BY <1>10 DEF Crash, FileInv, Candidate
<1>11. CASE Restart
  <2>1. CASE disk.state = "torn"
    BY <1>11, <2>1 DEF Restart, FileInv, Candidate
  <2>2. CASE disk.state # "torn"
    <3>1. disk = [state |-> "whole", bank |-> disk.bank]
      BY <2>2 DEF TypeOK, FileInv
    <3>2. pc' = "idle" /\ bank' = disk.bank /\ snap' = bank' /\ disk' = disk
      BY <1>11, <2>2 DEF Restart, LeaveRound
    <3> QED  BY <3>1, <3>2 DEF FileInv, Candidate
  <2> QED  BY <2>1, <2>2
<1>12. CASE UNCHANGED vars
  BY <1>12 DEF FileInv, Candidate, vars, memory
<1>13. CASE Stopped
  BY <1>12, <1>13 DEF Stopped
<1> QED  BY <1>1, <1>2, <1>3, <1>4, <1>5, <1>6, <1>7, <1>8, <1>9, <1>10,
            <1>11, <1>12, <1>13
         DEF Next, Trainer

\* A restart never resumes from a bank nobody decided on: with the bank saved
\* in place, the file holds the bank of before the round until the decision
\* (save_skills is called once, after the rollback).
THEOREM FileDecided == Spec => []FileIsDecided
<1>1. FileInv => FileIsDecided
  BY DEF FileInv, FileIsDecided
<1> QED  BY <1>1, TypeInit, TypeNext, RoundInit, RoundNext, FileInit, FileNext,
            PTL
         DEF Spec

-----------------------------------------------------------------------------
(* Every change is recorded *)

\* A set of naturals has a least element.
LEMMA LeastNatural ==
  ASSUME NEW T \in SUBSET Nat, T # {}
  PROVE  \E x \in T : \A y \in T : x <= y
<1>1. \E x \in T : \A y \in T : ~(<<y, x>> \in OpToRel(<, Nat))
  BY NatLessThanWellFounded, WFMin, Zenon
<1>2. \A x, y \in Nat : <<y, x>> \in OpToRel(<, Nat) <=> y < x
  BY DEF OpToRel
<1>3. \E x \in T : \A y \in T : ~(y < x)
  BY <1>1, <1>2, Zenon
<1> QED  BY <1>3

\* Every skill has a key in changed_by_type, also one that is in no list.
LEMMA CategoryOfType == \A i : CategoryOf(i) \in Categories
<1> TAKE i
<1> DEFINE lists == {c \in TaskTypes : \E e \in bank : e.cat = c /\ e.id = i}
<1>1. CASE lists = {}
  BY <1>1 DEF CategoryOf, Categories
<1>2. CASE lists # {}
  <2> DEFINE ranks == {Rank[c] : c \in lists}
  <2>1. ranks \in SUBSET Nat /\ ranks # {}
    BY <1>2, RankAssumption DEF Categories
  <2>2. PICK x \in ranks : \A y \in ranks : x <= y
    BY <2>1, LeastNatural
  <2>3. \E c \in lists : \A d \in lists : Rank[c] <= Rank[d]
    BY <2>2
  <2>4. (CHOOSE c \in lists : \A d \in lists : Rank[c] <= Rank[d]) \in lists
    BY <2>3
  <2> QED  BY <1>2, <2>4 DEF CategoryOf, Categories
<1> QED  BY <1>1, <1>2

\* What each operation leaves alone.
LEMMA EvictOthers ==
  ASSUME NEW b, NEW evicted, NEW i, i \notin Ids(evicted)
  PROVE  EntriesOf(b \ evicted, i) = EntriesOf(b, i)
BY DEF EntriesOf, Ids

LEMMA AddSkillsOthers ==
  ASSUME NEW b, NEW ids, NEW cat, NEW version, NEW i, i \notin ids
  PROVE  EntriesOf(AddSkills(b, ids, cat, version), i) = EntriesOf(b, i)
BY DEF EntriesOf, AddSkills

LEMMA UpdateMetaOthers ==
  ASSUME NEW b, b \subseteq Entry, NEW ids, NEW version, NEW i, i \notin ids
  PROVE  EntriesOf(UpdateMeta(b, ids, version), i) = EntriesOf(b, i)
<1> DEFINE g(e) == IF e.id \in ids /\ e \in FindSkill(b, e.id)
                     THEN [e EXCEPT !.meta = version] ELSE e
<1>1. \A e \in b : g(e).id = e.id /\ (e.id = i => g(e) = e)
  BY DEF Entry
<1>2. UpdateMeta(b, ids, version) = {g(e) : e \in b}
  BY DEF UpdateMeta
<1> HIDE DEF g
<1> QED  BY <1>1, <1>2 DEF EntriesOf

LEMMA SynthesizeAllOthers ==
  ASSUME NEW b, b \subseteq Entry, NEW ids, NEW i, i \notin ids
  PROVE  EntriesOf(SynthesizeAll(b, ids), i) = EntriesOf(b, i)
<1> DEFINE g(e) == IF e.id \in ids THEN [e EXCEPT !.text = e.meta] ELSE e
<1>1. \A e \in b : g(e).id = e.id /\ (e.id = i => g(e) = e)
  BY DEF Entry
<1>2. SynthesizeAll(b, ids) = {g(e) : e \in b}
  BY DEF SynthesizeAll
<1> HIDE DEF g
<1> QED  BY <1>1, <1>2 DEF EntriesOf

\* While the bank is a candidate, a skill that is not recorded is as the
\* snapshot has it; updates not yet applied are recorded already.
RecordInv ==
  /\ Candidate => \A i : i \notin AllChanged => EntriesOf(bank, i) = EntriesOf(snap, i)
  /\ pc = "update" => pend \subseteq AllChanged
  /\ pc \in {"idle", "prune"} => pend = {}

LEMMA RecordNext ==
  TypeOK /\ RoundInv /\ RecordInv /\ [Next]_vars => RecordInv'
<1> SUFFICES ASSUME TypeOK, RoundInv, RecordInv, [Next]_vars PROVE RecordInv'
  OBVIOUS
<1>1. CASE BeginRound
  BY <1>1 DEF BeginRound, RecordInv, Candidate, AllChanged, memory, TypeOK
<1>2. CASE Prune
  <2>1. PICK evicted \in SUBSET {e \in bank : Evictable(e.id)} :
          /\ bank' = bank \ evicted
          /\ changedBy' = [changedBy EXCEPT ![General] = Ids(evicted)]
    BY <1>2 DEF Prune
  <2>2. Ids(evicted) \subseteq AllChanged'
    BY <2>1 DEF AllChanged, Categories, TypeOK
  <2>3. bank = snap
    BY <1>2 DEF Prune, RoundInv
  <2>4. \A i : i \notin AllChanged' => EntriesOf(bank', i) = EntriesOf(snap', i)
    BY <1>2, <2>1, <2>2, <2>3, EvictOthers DEF Prune
  <2> QED  BY <1>2, <2>4 DEF Prune, RecordInv, Candidate
<1>3. ASSUME NEW tt \in TaskTypes, UpdateType(tt) PROVE RecordInv'
  <2>1. PICK updates \in SUBSET Retrievable(envBank, tt), k \in 0..MaxNew :
          /\ changedBy' = [c \in Categories |->
               changedBy[c] \cup {i \in updates : CategoryOf(i) = c}
                            \cup IF c = tt THEN NewIds(tt, k) ELSE {}]
          /\ bank' = AddSkills(bank, NewIds(tt, k), tt, round)
          /\ pend' = pend \cup updates
    BY <1>3, Zenon DEF UpdateType
  <2>2. AllChanged \subseteq AllChanged'
    BY <2>1 DEF AllChanged, TypeOK
  <2>3. updates \subseteq AllChanged'
    <3>1. ASSUME NEW i \in updates PROVE i \in changedBy'[CategoryOf(i)]
      BY <2>1, CategoryOfType
    <3> QED  BY <3>1, CategoryOfType DEF AllChanged
  <2>4. NewIds(tt, k) \subseteq AllChanged'
    <3>1. tt \in Categories
      BY DEF Categories
    <3> QED  BY <2>1, <3>1 DEF AllChanged
  <2>5. \A i : i \notin AllChanged' => EntriesOf(bank', i) = EntriesOf(snap', i)
    BY <1>3, <2>1, <2>2, <2>4, AddSkillsOthers DEF UpdateType, RecordInv, Candidate
  <2>6. pend' \subseteq AllChanged'
    BY <1>3, <2>1, <2>2, <2>3 DEF UpdateType, RecordInv
  <2> QED  BY <1>3, <2>5, <2>6 DEF UpdateType, RecordInv
<1>4. CASE ApplyUpdates
  <2>1. AllChanged' = AllChanged /\ snap' = snap
    BY <1>4 DEF ApplyUpdates, AllChanged
  <2>2. ASSUME NEW i, i \notin AllChanged
        PROVE  EntriesOf(bank', i) = EntriesOf(snap, i)
    <3> DEFINE updated == UpdateMeta(bank, pend, round)
    <3>1. i \notin pend /\ i \notin pend \cup AllChanged
      BY <1>4, <2>2 DEF ApplyUpdates, RecordInv
    <3>2. updated \subseteq Entry /\ bank \subseteq Entry
      BY BanksType, UpdateMetaWellFormed DEF WellFormed, TypeOK
    <3>3. EntriesOf(updated, i) = EntriesOf(bank, i)
      BY <3>1, <3>2, UpdateMetaOthers
    <3>4. EntriesOf(SynthesizeAll(updated, pend \cup AllChanged), i) = EntriesOf(updated, i)
      BY <3>1, <3>2, SynthesizeAllOthers
    <3>5. EntriesOf(bank, i) = EntriesOf(snap, i)
      BY <1>4, <2>2 DEF ApplyUpdates, RecordInv, Candidate
    <3> QED  BY <1>4, <3>3, <3>4, <3>5 DEF ApplyUpdates
  <2> QED  BY <1>4, <2>1, <2>2 DEF ApplyUpdates, RecordInv
<1>5. CASE NothingChanged \/ SyncSkillToEnv
  BY <1>5 DEF NothingChanged, SyncSkillToEnv, LeaveRound, RecordInv, Candidate
<1>6. CASE SkipVerify \/ NoReplay \/ SkipFallback
  BY <1>6 DEF SkipVerify, NoReplay, SkipFallback, RecordInv, Candidate,
              AllChanged, memory, work
<1>7. CASE StartReplay \/ ReplayFails \/ ReplayReturns
  BY <1>7 DEF StartReplay, ReplayFails, ReplayReturns, RecordInv, Candidate,
              AllChanged, memory, work
<1>8. CASE StartFallback \/ FallbackEnds
  BY <1>8 DEF StartFallback, FallbackEnds, RecordInv, Candidate, AllChanged,
              memory, work
<1>9. CASE Decide \/ OpenFile \/ WriteFile
  BY <1>9 DEF Decide, OpenFile, WriteFile, RecordInv, Candidate
<1>10. CASE Crash \/ Restart
  BY <1>10 DEF Crash, Restart, LeaveRound, RecordInv, Candidate
<1>11. CASE UNCHANGED vars
  BY <1>11 DEF RecordInv, Candidate, AllChanged, vars, memory, work
<1>12. CASE Stopped
  BY <1>11, <1>12 DEF Stopped
<1> QED  BY <1>1, <1>2, <1>3, <1>4, <1>5, <1>6, <1>7, <1>8, <1>9, <1>10,
            <1>11, <1>12
         DEF Next, Trainer

\* No change escapes the verdict: every skill the round evicted, added, revised
\* or re-synthesized is in changed_by_type while the change is verified.
THEOREM ChangesRecorded == Spec => []EveryChangeRecorded
<1>1. Init => RecordInv
  BY DEF Init, RecordInv, Candidate
<1>2. RecordInv => EveryChangeRecorded
  BY DEF RecordInv, EveryChangeRecorded, Touched
<1> QED  BY <1>1, <1>2, TypeInit, TypeNext, RoundInit, RoundNext, RecordNext,
            PTL
         DEF Spec

-----------------------------------------------------------------------------
(* The text of a skill is never older than its meta dimensions *)

Fresh(b) == \A e \in b : e.text \in {e.meta, NoText}

\* Rewriting meta dimensions and regenerating those texts leaves none stale.
LEMMA UpdatedAndSynthesized ==
  ASSUME NEW b, b \subseteq Entry, Fresh(b), NEW ids, NEW more,
         NEW version \in Nat
  PROVE  Fresh(SynthesizeAll(UpdateMeta(b, ids, version), ids \cup more))
<1> DEFINE g(e) == IF e.id \in ids /\ e \in FindSkill(b, e.id)
                     THEN [e EXCEPT !.meta = version] ELSE e
           h(e) == IF e.id \in ids \cup more THEN [e EXCEPT !.text = e.meta] ELSE e
<1>1. \A e \in b : /\ g(e) \in Entry /\ g(e).id = e.id
                   /\ e.id \notin ids => g(e) = e
  BY DEF Entry
<1>2. \A e \in Entry : /\ e.id \in ids \cup more => h(e).text = h(e).meta
                       /\ e.id \notin ids \cup more => h(e) = e
  BY DEF Entry
<1>3. UpdateMeta(b, ids, version) = {g(e) : e \in b}
  BY DEF UpdateMeta
<1>4. \A c : SynthesizeAll(c, ids \cup more) = {h(e) : e \in c}
  BY DEF SynthesizeAll
<1> HIDE DEF g, h
<1>5. \A e \in b : h(g(e)).text \in {h(g(e)).meta, NoText}
  <2> TAKE e \in b
  <2>1. CASE e.id \in ids \cup more
    BY <1>1, <1>2, <2>1
  <2>2. CASE e.id \notin ids \cup more
    BY <1>1, <1>2, <2>2 DEF Fresh
  <2> QED  BY <2>1, <2>2
<1> QED  BY <1>3, <1>4, <1>5 DEF Fresh

LEMMA AddSkillsFresh ==
  ASSUME NEW b, Fresh(b), NEW ids, NEW cat, NEW version
  PROVE  Fresh(AddSkills(b, ids, cat, version))
BY DEF Fresh, AddSkills

LEMMA RestorePartialFresh ==
  ASSUME NEW b, Fresh(b), NEW s, Fresh(s), NEW ids
  PROVE  Fresh(RestorePartial(b, s, ids))
BY DEF Fresh, RestorePartial, SnapshotEntries

LEMMA TextInit == Init => TextFollowsMeta
<1>1. \A e \in InitBank : e.text = e.meta
  BY InitBankAssumption
<1> QED  BY <1>1 DEF Init, TextFollowsMeta, Banks

LEMMA TextNext == TypeOK /\ TextFollowsMeta /\ [Next]_vars => TextFollowsMeta'
<1> SUFFICES ASSUME TypeOK, TextFollowsMeta, [Next]_vars
             PROVE  TextFollowsMeta'
  OBVIOUS
<1>b. bank \subseteq Entry
  BY BanksType DEF WellFormed
<1>f. Fresh(bank) /\ Fresh(envBank) /\ Fresh(valBank) /\ Fresh(snap) /\ Fresh(disk.bank)
  BY DEF TextFollowsMeta, Banks, Fresh
<1>q. Fresh(bank') /\ Fresh(envBank') /\ Fresh(valBank') /\ Fresh(snap')
        /\ Fresh(disk'.bank) => TextFollowsMeta'
  BY DEF TextFollowsMeta, Banks, Fresh
<1>1. CASE Prune
  <2>1. Fresh(bank')
    BY <1>1, <1>f DEF Prune, Fresh
  <2> QED  BY <1>1, <1>f, <1>q, <2>1 DEF Prune
<1>2. ASSUME NEW tt \in TaskTypes, UpdateType(tt) PROVE TextFollowsMeta'
  <2>1. PICK k \in 0..MaxNew : bank' = AddSkills(bank, NewIds(tt, k), tt, round)
    BY <1>2, Zenon DEF UpdateType
  <2>2. Fresh(bank')
    BY <1>f, <2>1, AddSkillsFresh
  <2> QED  BY <1>2, <1>f, <1>q, <2>2 DEF UpdateType
<1>3. CASE ApplyUpdates
  <2>1. Fresh(bank')
    BY <1>3, <1>b, <1>f, UpdatedAndSynthesized DEF ApplyUpdates, TypeOK
  <2> QED  BY <1>3, <1>f, <1>q, <2>1 DEF ApplyUpdates
<1>4. CASE Decide
  <2>1. Fresh(RestorePartial(bank, snap, RejectedIds))
    BY <1>f, RestorePartialFresh
  <2>2. Fresh(bank')
    BY <1>4, <1>f, <2>1 DEF Decide
  <2> QED  BY <1>4, <1>f, <1>q, <2>2 DEF Decide
<1>5. CASE WriteFile
  BY <1>5, <1>f, <1>q DEF WriteFile, memory
<1>6. CASE OpenFile
  <2>1. disk'.bank = disk.bank
    BY <1>6 DEF OpenFile, TypeOK
  <2> QED  BY <1>6, <1>f, <1>q, <2>1 DEF OpenFile, memory
<1>7. CASE Restart
  <2>1. CASE SaveInPlace /\ disk.state = "torn"
    BY <1>7, <1>f, <1>q, <2>1 DEF Restart, memory
  <2>2. CASE ~(SaveInPlace /\ disk.state = "torn")
    <3>1. Fresh(InitBank)
      BY InitBankAssumption DEF Fresh
    <3>2. Fresh(bank') /\ envBank' = bank' /\ valBank' = bank' /\ snap' = bank'
            /\ disk' = disk
      BY <1>7, <1>f, <2>2, <3>1 DEF Restart, LeaveRound
    <3> QED  BY <1>f, <1>q, <3>2
  <2> QED  BY <2>1, <2>2
<1>8. CASE BeginRound
  BY <1>8, <1>f, <1>q DEF BeginRound, memory
<1>9. CASE NothingChanged \/ SyncSkillToEnv
  BY <1>9, <1>f, <1>q DEF NothingChanged, SyncSkillToEnv, LeaveRound, memory
<1>10. CASE StartReplay \/ StartFallback
  BY <1>10, <1>f, <1>q DEF StartReplay, StartFallback
<1>11. CASE UNCHANGED <<memory, disk, snap>>
  BY <1>11, <1>f, <1>q DEF memory
<1>12. /\ SkipVerify \/ NoReplay \/ ReplayFails \/ ReplayReturns =>
             UNCHANGED <<memory, disk, snap>>
       /\ SkipFallback \/ FallbackEnds \/ Crash \/ Stopped \/ UNCHANGED vars =>
             UNCHANGED <<memory, disk, snap>>
  BY DEF SkipVerify, NoReplay, ReplayFails, ReplayReturns, SkipFallback,
         FallbackEnds, Crash, Stopped, vars
<1> QED  BY <1>1, <1>2, <1>3, <1>4, <1>5, <1>6, <1>7, <1>8, <1>9, <1>10,
            <1>11, <1>12
         DEF Next, Trainer

\* Whatever is updated, rolled back, published or reloaded, no skill is shown
\* with a text older than its meta dimensions (synthesize_all comes after the
\* updates and covers them; restore_partial puts back whole skills).
THEOREM TextNeverStale == Spec => []TextFollowsMeta
<1> QED  BY TypeInit, TypeNext, TextInit, TextNext, PTL DEF Spec

-----------------------------------------------------------------------------
(* New skills find a free id where they keep the prefix dyn *)

\* The next index lies above every index a dyn_ id of the bank has.
LEMMA NextDynIndexFree ==
  ASSUME NEW b, b \subseteq Entry
  PROVE  /\ NextDynIndex(b) \in Nat
         /\ \A i \in Ids(b) : i.pfx = "dyn" => i.n < NextDynIndex(b)
<1> DEFINE used == {i.n : i \in {j \in Ids(b) : j.pfx = "dyn"}}
           above == {n \in 1..(MaxIndex + 1) : \A m \in used : m < n}
<1>1. used \subseteq 1..MaxIndex
  BY DEF Ids, Entry, Id
<1>0. NextDynIndex(b) = CHOOSE x \in 1..(MaxIndex + 1) :
                          (\A m \in used : m < x) /\ (x = 1 \/ x - 1 \in used)
  BY DEF NextDynIndex
<1>u. \A i \in Ids(b) : i.pfx = "dyn" => i.n \in used
  OBVIOUS
<1> HIDE DEF used
<1>2. MaxIndex + 1 \in above /\ above \subseteq Nat
  BY <1>1, MaxIndexAssumption
<1>3. PICK n \in above : \A m \in above : n <= m
  BY <1>2, LeastNatural
<1>4. n = 1 \/ n - 1 \in used
  <2> SUFFICES ASSUME n # 1, n - 1 \notin used PROVE FALSE
    OBVIOUS
  <2>1. n - 1 \in 1..(MaxIndex + 1)
    BY MaxIndexAssumption
  <2>2. \A m \in used : m < n - 1
    BY <1>1, MaxIndexAssumption
  <2>3. n - 1 \in above
    BY <2>1, <2>2
  <2> QED  BY <1>3, <2>1, <2>3
<1>5. \E x \in 1..(MaxIndex + 1) : (\A m \in used : m < x) /\ (x = 1 \/ x - 1 \in used)
  BY <1>3, <1>4
<1>6. NextDynIndex(b) \in 1..(MaxIndex + 1) /\ \A m \in used : m < NextDynIndex(b)
  <2> DEFINE P(x) == (\A m \in used : m < x) /\ (x = 1 \/ x - 1 \in used)
  <2>1. NextDynIndex(b) = CHOOSE x \in 1..(MaxIndex + 1) : P(x)
    BY <1>0
  <2>2. \E x \in 1..(MaxIndex + 1) : P(x)
    BY <1>5
  <2> HIDE DEF P
  <2>3. P(NextDynIndex(b)) /\ NextDynIndex(b) \in 1..(MaxIndex + 1)
    BY <2>1, <2>2
  <2> QED  BY <2>3 DEF P
<1> QED  BY <1>6, <1>u, MaxIndexAssumption

\* Where no task type has a prefix, every skill the teacher invents enters the
\* bank, however many were evicted or rolled back before (next_dyn_index,
\* add_skills).  Where types have prefixes this is not so.
THEOREM NewSkillsEnter ==
  ASSUME \A t \in TaskTypes : Prefix[t] = "dyn"
  PROVE  Spec => []NewSkillsAdded
<1>1. Init => NewSkillsAdded
  BY DEF Init, NewSkillsAdded
<1>2. TypeOK /\ NewSkillsAdded /\ [Next]_vars => NewSkillsAdded'
  <2> SUFFICES ASSUME TypeOK, NewSkillsAdded, [Next]_vars PROVE NewSkillsAdded'
    OBVIOUS
  <2>1. ASSUME NEW tt \in TaskTypes, UpdateType(tt) PROVE NewSkillsAdded'
    <3>1. PICK k \in 0..MaxNew : skipped' = skipped \cup (NewIds(tt, k) \cap Ids(bank))
      BY <2>1, Zenon DEF UpdateType
    <3>2. bank \subseteq Entry
      BY BanksType DEF WellFormed
    <3>3. ASSUME NEW i \in NewIds(tt, k) PROVE i \notin Ids(bank)
      <4>1. PICK j \in 0..(k - 1) : i = [pfx |-> "dyn", n |-> NextDynIndex(bank) + j]
        BY DEF NewIds
      <4>2. i.pfx = "dyn" /\ i.n = NextDynIndex(bank) + j
        BY <4>1
      <4>3. ~(i.n < NextDynIndex(bank))
        BY <3>2, <4>1, <4>2, NextDynIndexFree
      <4> QED  BY <3>2, <4>2, <4>3, NextDynIndexFree
    <3> QED  BY <3>1, <3>3 DEF NewSkillsAdded
  <2>2. CASE \A tt \in TaskTypes : ~UpdateType(tt)
    BY <2>2 DEF Next, Trainer, Stopped, vars, work, BeginRound, Prune,
       ApplyUpdates, NothingChanged, SkipVerify, StartReplay, NoReplay,
       ReplayFails, ReplayReturns, SkipFallback, StartFallback, FallbackEnds,
       Decide, OpenFile, WriteFile, SyncSkillToEnv, Crash, Restart, LeaveRound,
       NewSkillsAdded
  <2> QED  BY <2>1, <2>2
<1> QED  BY <1>1, <1>2, TypeInit, TypeNext, PTL DEF Spec
=============================================================================
