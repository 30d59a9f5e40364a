---------------------------- MODULE RollbackProofs ----------------------------
(***************************************************************************)
(* Proofs about the decision of a round of SkillEvolution: what a rollback *)
(* restores, what it leaves alone, and that rounds implement               *)
(* AtomicEvolution.  They hold where ids are not reused, which is when     *)
(* every task type has a prefix of its own (Mapped), or where nothing is   *)
(* rolled back.                                                            *)
(***************************************************************************)
EXTENDS SkillEvolutionProofs

-----------------------------------------------------------------------------
(* restore_partial *)

\* Every id is filed in one list only.
OneList(b) == \A e, f \in b : e.id = f.id => e = f

\* Skills that are not rolled back stay as they are.
LEMMA RestoreOthers ==
  ASSUME NEW b, NEW s, NEW ids, NEW i, i \notin ids
  PROVE  EntriesOf(RestorePartial(b, s, ids), i) = EntriesOf(b, i)
BY DEF EntriesOf, RestorePartial, SnapshotEntries

\* Skills that are rolled back are as in the snapshot, when the snapshot has
\* every id in one list and the bank has it in no other.
LEMMA RestoreExact ==
  ASSUME NEW b, NEW s, s \subseteq Entry, NEW ids, NEW i \in ids,
         OneList(b), OneList(s), Keeps(b, s)
  PROVE  EntriesOf(RestorePartial(b, s, ids), i) = EntriesOf(s, i)
<1> DEFINE back == SnapshotEntries(s, ids)
           kept == {e \in b : e.id \notin ids \/ e.id \in Ids(s)}
           rest == {e \in kept : \A f \in back : ~(f.cat = e.cat /\ f.id = e.id)}
<1>1. RestorePartial(b, s, ids) = rest \cup back
  BY DEF RestorePartial
<1>2. EntriesOf(back, i) = EntriesOf(s, i)
  <2>1. \A e \in s : Rank[e.cat] <= Rank[e.cat]
    BY RankAssumption DEF Entry
  <2> QED  BY <2>1 DEF SnapshotEntries, EntriesOf, OneList
<1>3. EntriesOf(rest, i) = {}
  <2> SUFFICES ASSUME NEW e \in rest, e.id = i PROVE FALSE
    BY DEF EntriesOf
  <2>1. PICK f \in s : f.id = i
    BY DEF Ids
  <2>2. PICK g \in b : g.cat = f.cat /\ g.id = f.id
    BY DEF Keeps
  <2>3. g = e
    BY <2>1, <2>2 DEF OneList
  <2>4. f \in back
    BY <1>2, <2>1 DEF EntriesOf
  <2> QED  BY <2>1, <2>2, <2>3, <2>4
<1> HIDE DEF back, kept, rest
<1> QED  BY <1>1, <1>2, <1>3 DEF EntriesOf

LEMMA RestoreOneList ==
  ASSUME NEW b, NEW s, s \subseteq Entry, NEW ids,
         OneList(b), OneList(s), Keeps(b, s)
  PROVE  OneList(RestorePartial(b, s, ids))
<1> DEFINE r == RestorePartial(b, s, ids)
<1> SUFFICES ASSUME NEW e \in r, NEW f \in r, e.id = f.id PROVE e = f
  BY DEF OneList
<1> HIDE DEF r
<1>1. e \in EntriesOf(r, e.id) /\ f \in EntriesOf(r, e.id)
  BY DEF EntriesOf
<1>2. EntriesOf(r, e.id) = EntriesOf(s, e.id) \/ EntriesOf(r, e.id) = EntriesOf(b, e.id)
  BY RestoreExact, RestoreOthers DEF r
<1> QED  BY <1>1, <1>2 DEF EntriesOf, OneList

\* A rolled back bank still has only entries of the two banks.
LEMMA RestoreSources ==
  ASSUME NEW b, NEW s, NEW ids
  PROVE  RestorePartial(b, s, ids) \subseteq b \cup s
BY DEF RestorePartial, SnapshotEntries

-----------------------------------------------------------------------------
(* The verdict *)

\* Types are rejected only by a per-type verdict; without verification there
\* is no verdict.
VerdictInv ==
  /\ pc \in {"idle", "prune", "update", "verify", "replay", "fallback",
             "valrollout"} => rejected = {}
  /\ pc \in {"prune", "update", "verify", "replay", "fallback", "valrollout"} =>
       verdict = "none"
  /\ pc = "decide" /\ verdict # "per_type" => rejected = {}
  /\ VerifyMethod = "notverify" =>
       /\ pc \notin {"replay", "fallback", "valrollout"}
       /\ pc = "decide" => verdict = "none"

LEMMA VerdictInit == Init => VerdictInv
BY DEF Init, VerdictInv

LEMMA VerdictNext == VerdictInv /\ [Next]_vars => VerdictInv'
<1> SUFFICES ASSUME VerdictInv, [Next]_vars PROVE VerdictInv'
  OBVIOUS
<1> USE DEF VerdictInv
<1>1. CASE BeginRound \/ Prune \/ ApplyUpdates \/ \E tt \in TaskTypes : UpdateType(tt)
  BY <1>1 DEF BeginRound, Prune, ApplyUpdates, UpdateType, results
<1>2. CASE NothingChanged \/ SyncSkillToEnv
  BY <1>2 DEF NothingChanged, SyncSkillToEnv, LeaveRound
<1>3. CASE SkipVerify \/ StartReplay \/ NoReplay \/ ReplayFails \/ ReplayReturns
  BY <1>3 DEF SkipVerify, StartReplay, NoReplay, ReplayFails, ReplayReturns, results
<1>4. CASE SkipFallback \/ StartFallback \/ FallbackEnds
  BY <1>4 DEF SkipFallback, StartFallback, FallbackEnds, results
<1>5. CASE Decide \/ OpenFile \/ WriteFile \/ Crash
  BY <1>5 DEF Decide, OpenFile, WriteFile, Crash, results
<1>6. CASE Restart
  BY <1>6 DEF Restart, LeaveRound, results
<1>7. CASE Stopped \/ UNCHANGED vars
  BY <1>7 DEF Stopped, vars, results
<1> QED  BY <1>1, <1>2, <1>3, <1>4, <1>5, <1>6, <1>7 DEF Next, Trainer

-----------------------------------------------------------------------------
(* Where every id stays in its list *)

\* No id is filed twice, none may be evicted, and the prefix of a task type is
\* found in the list of that type only.
Filed(b) ==
  /\ OneList(b)
  /\ \A e \in b : ~Evictable(e.id)
  /\ \A e \in b, t \in TaskTypes : e.id.pfx = Prefix[t] => e.cat = t

\* During a round the bank only grows: it has every skill of the snapshot where
\* the snapshot has it, the environments still have the snapshot, and an id is
\* recorded as changed under the list it is filed in.
FiledInv ==
  /\ Filed(bank) /\ Filed(snap) /\ Filed(disk.bank)
  /\ pc = "idle" => envBank = bank /\ changedBy = NoIds
  /\ pc \in {"prune", "update"} => envBank = snap
  /\ Candidate => Keeps(bank, snap)
  /\ Candidate => \A c \in Categories : \A i \in changedBy[c] :
                    \E e \in bank : e.id = i /\ e.cat = c

LEMMA FiledInit ==
  ASSUME Mapped(Prefix, InitBank), Init
  PROVE  FiledInv
<1>1. Filed(InitBank)
  BY InitBankAssumption, PrefixAssumption DEF Mapped, Filed, OneList
<1> QED  BY <1>1 DEF Init, FiledInv, Candidate

\* Filing new skills of a type under it keeps every id in one list.
LEMMA AddSkillsFiled ==
  ASSUME Mapped(Prefix, InitBank),
         NEW b, Filed(b), NEW tt \in TaskTypes, NEW ids, NEW version,
         \A i \in ids : i \in Id /\ i.pfx = Prefix[tt]
  PROVE  /\ Filed(AddSkills(b, ids, tt, version))
         /\ \A i \in ids : \E e \in AddSkills(b, ids, tt, version) :
              e.id = i /\ e.cat = tt
<1> DEFINE new(i) == [cat |-> tt, id |-> i, meta |-> version, text |-> NoText]
<1>1. \A i : new(i).id = i /\ new(i).cat = tt
  OBVIOUS
<1>2. AddSkills(b, ids, tt, version) = b \cup {new(i) : i \in ids \ Ids(b)}
  BY DEF AddSkills
<1> HIDE DEF new
<1>3. \A s, t \in TaskTypes : Prefix[s] = Prefix[t] => s = t
  BY PrefixAssumption DEF Mapped
<1>4. Prefix[tt] # "dyn"
  BY PrefixAssumption DEF Mapped
<1>5. OneList(AddSkills(b, ids, tt, version))
  BY <1>1, <1>2 DEF Filed, OneList, Ids
<1>6. \A e \in AddSkills(b, ids, tt, version) : ~Evictable(e.id)
  BY <1>1, <1>2, <1>4 DEF Filed, Evictable
<1>7. \A e \in AddSkills(b, ids, tt, version), t \in TaskTypes :
        e.id.pfx = Prefix[t] => e.cat = t
  BY <1>1, <1>2, <1>3 DEF Filed
<1>8. \A i \in ids : \E e \in AddSkills(b, ids, tt, version) : e.id = i /\ e.cat = tt
  <2> TAKE i \in ids
  <2>1. CASE i \in Ids(b)
    BY <1>2, <2>1 DEF Filed, Ids
  <2>2. CASE i \notin Ids(b)
    BY <1>1, <1>2, <2>2
  <2> QED  BY <2>1, <2>2
<1> QED  BY <1>5, <1>6, <1>7, <1>8 DEF Filed

\* The key an update is recorded under is the list its skill is filed in.
LEMMA CategoryOfFiled ==
  ASSUME OneList(bank), bank \subseteq Entry, NEW e \in bank
  PROVE  CategoryOf(e.id) = e.cat
<1> DEFINE lists == {c \in TaskTypes : \E f \in bank : f.cat = c /\ f.id = e.id}
<1>1. e.cat \in Categories
  BY DEF Entry
<1>2. CASE e.cat = General
  <2>1. lists = {}
    BY <1>2, TaskTypesAssumption DEF OneList
  <2> QED  BY <1>2, <2>1 DEF CategoryOf
<1>3. CASE e.cat \in TaskTypes
  <2>1. lists = {e.cat}
    BY <1>3 DEF OneList
  <2>2. Rank[e.cat] <= Rank[e.cat]
    BY <1>1, RankAssumption
  <2>3. (CHOOSE c \in lists : \A d \in lists : Rank[c] <= Rank[d]) = e.cat
    BY <2>1, <2>2
  <2>4. lists # {}
    BY <2>1
  <2> QED  BY <2>3, <2>4 DEF CategoryOf
<1> QED  BY <1>1, <1>2, <1>3 DEF Categories

\* Rewriting entries in place keeps every id where it is.
LEMMA UpdateMetaFiled ==
  ASSUME NEW b, b \subseteq Entry, Filed(b), NEW ids, NEW version
  PROVE  /\ Filed(UpdateMeta(b, ids, version))
         /\ Keeps(UpdateMeta(b, ids, version), b)
<1> DEFINE g(e) == IF e.id \in ids /\ e \in FindSkill(b, e.id)
                     THEN [e EXCEPT !.meta = version] ELSE e
<1>1. \A e \in Entry : g(e).cat = e.cat /\ g(e).id = e.id
  BY DEF Entry
<1>2. UpdateMeta(b, ids, version) = {g(e) : e \in b}
  BY DEF UpdateMeta
<1> HIDE DEF g
<1> QED  BY <1>1, <1>2 DEF Filed, OneList, Keeps

LEMMA SynthesizeAllFiled ==
  ASSUME NEW b, b \subseteq Entry, Filed(b), NEW ids
  PROVE  Filed(SynthesizeAll(b, ids)) /\ Keeps(SynthesizeAll(b, ids), b)
<1> DEFINE g(e) == IF e.id \in ids THEN [e EXCEPT !.text = e.meta] ELSE e
<1>1. \A e \in Entry : g(e).cat = e.cat /\ g(e).id = e.id
  BY DEF Entry
<1>2. SynthesizeAll(b, ids) = {g(e) : e \in b}
  BY DEF SynthesizeAll
<1> HIDE DEF g
<1> QED  BY <1>1, <1>2 DEF Filed, OneList, Keeps

\* So does all of ApplyUpdates.
LEMMA UpdatesFiled ==
  ASSUME TypeOK, Filed(bank), ApplyUpdates
  PROVE  Filed(bank') /\ Keeps(bank', bank)
<1> DEFINE updated == UpdateMeta(bank, pend, round)
<1>1. bank \subseteq Entry
  BY BanksType DEF WellFormed
<1>2. CASE pend = {}
  BY <1>2 DEF ApplyUpdates, Keeps
<1>3. CASE pend # {}
  <2>1. Filed(updated) /\ Keeps(updated, bank)
    BY <1>1, UpdateMetaFiled
  <2>2. updated \subseteq Entry
    BY BanksType, UpdateMetaWellFormed DEF WellFormed, TypeOK
  <2>3. bank' = SynthesizeAll(updated, pend \cup AllChanged)
    BY <1>3 DEF ApplyUpdates
  <2> HIDE DEF updated
  <2>4. Filed(bank') /\ Keeps(bank', updated)
    BY <2>1, <2>2, <2>3, SynthesizeAllFiled
  <2> QED  BY <2>1, <2>4 DEF Keeps
<1> QED  BY <1>2, <1>3

LEMMA FiledUpdateType ==
  ASSUME Mapped(Prefix, InitBank), TypeOK, FiledInv,
         NEW tt \in TaskTypes, UpdateType(tt)
  PROVE  FiledInv'
<1>1. PICK updates \in SUBSET Retrievable(envBank, tt), k \in 0..MaxNew :
        /\ NewIds(tt, k) \subseteq Id
        /\ changedBy' = [c \in Categories |->
             changedBy[c] \cup {i \in updates : CategoryOf(i) = c}
                          \cup IF c = tt THEN NewIds(tt, k) ELSE {}]
        /\ bank' = AddSkills(bank, NewIds(tt, k), tt, round)
  BY Zenon DEF UpdateType
<1>2. /\ pc = "update" /\ pc' = "update"
      /\ UNCHANGED <<envBank, disk, snap>>
  BY DEF UpdateType
<1>3. /\ Filed(bank')
      /\ \A i \in NewIds(tt, k) : \E e \in bank' : e.id = i /\ e.cat = tt
  <2>1. \A i \in NewIds(tt, k) : i \in Id /\ i.pfx = Prefix[tt]
    BY <1>1 DEF NewIds
  <2> QED  BY <1>1, <2>1, AddSkillsFiled DEF FiledInv
<1>4. Keeps(bank', bank)
  BY <1>1 DEF AddSkills, Keeps
<1>5. Keeps(bank', snap)
  BY <1>2, <1>4 DEF FiledInv, Candidate, Keeps
<1>6. ASSUME NEW i \in updates
      PROVE  \E e \in bank : e.id = i /\ e.cat = CategoryOf(i)
  <2>1. PICK s \in snap : s.id = i
    BY <1>2 DEF FiledInv, Retrievable
  <2>2. PICK e \in bank : e.id = i
    BY <1>2, <2>1 DEF FiledInv, Candidate, Keeps
  <2>3. CategoryOf(i) = e.cat
    BY <2>2, BanksType, CategoryOfFiled DEF FiledInv, Filed, WellFormed
  <2> QED  BY <2>2, <2>3
<1>7. ASSUME NEW c \in Categories, NEW i \in changedBy'[c]
      PROVE  \E e \in bank' : e.id = i /\ e.cat = c
  <2>1. i \in changedBy[c] \/ (i \in updates /\ CategoryOf(i) = c)
          \/ (c = tt /\ i \in NewIds(tt, k))
    BY <1>1
  <2>2. CASE c = tt /\ i \in NewIds(tt, k)
    BY <1>3, <2>2
  <2>3. CASE i \in changedBy[c] \/ (i \in updates /\ CategoryOf(i) = c)
    <3>1. PICK e \in bank : e.id = i /\ e.cat = c
      BY <1>2, <1>6, <2>3 DEF FiledInv, Candidate
    <3> QED  BY <1>4, <3>1 DEF Keeps
  <2> QED  BY <2>1, <2>2, <2>3
<1> QED  BY <1>2, <1>3, <1>5, <1>7 DEF FiledInv

LEMMA FiledNext ==
  ASSUME Mapped(Prefix, InitBank), TypeOK, RoundInv, FiledInv, [Next]_vars
  PROVE  FiledInv'
<1>k. \A b : Keeps(b, b)
  BY DEF Keeps
<1>1. CASE BeginRound
  <2>1. /\ bank' = bank /\ envBank' = bank /\ snap' = bank /\ disk' = disk
        /\ changedBy' = NoIds /\ pc' \in {"prune", "update"}
    BY <1>1 DEF BeginRound, memory, FiledInv
  <2> QED  BY <1>k, <2>1 DEF FiledInv, NoIds
<1>2. CASE Prune
  <2>1. PICK evicted \in SUBSET {e \in bank : Evictable(e.id)} :
          /\ bank' = bank \ evicted
          /\ changedBy' = [changedBy EXCEPT ![General] = Ids(evicted)]
    BY <1>2 DEF Prune
  <2>2. evicted = {} /\ bank' = bank /\ Ids(evicted) = {}
    BY <2>1 DEF FiledInv, Filed, Ids
  <2>3. \A c \in Categories : changedBy'[c] \subseteq changedBy[c]
    BY <2>1, <2>2 DEF TypeOK
  <2> QED  BY <1>2, <2>2, <2>3 DEF Prune, FiledInv, Candidate
<1>3. ASSUME NEW tt \in TaskTypes, UpdateType(tt) PROVE FiledInv'
  BY <1>3, FiledUpdateType
<1>4. CASE ApplyUpdates
  <2>1. Filed(bank') /\ Keeps(bank', bank)
    BY <1>4, UpdatesFiled DEF FiledInv
  <2>2. pc = "update" /\ pc' = "verify" /\ UNCHANGED <<disk, snap, changedBy>>
    BY <1>4 DEF ApplyUpdates
  <2>3. Keeps(bank', snap)
    BY <2>1, <2>2 DEF FiledInv, Candidate, Keeps
  <2>4. \A c \in Categories : \A i \in changedBy[c] :
          \E e \in bank' : e.id = i /\ e.cat = c
    <3> TAKE c \in Categories
    <3> TAKE i \in changedBy[c]
    <3>1. PICK e \in bank : e.id = i /\ e.cat = c
      BY <2>2 DEF FiledInv, Candidate
    <3> QED  BY <2>1, <3>1 DEF Keeps
  <2> QED  BY <2>1, <2>2, <2>3, <2>4 DEF FiledInv
<1>5. CASE NothingChanged
  <2>1. /\ UNCHANGED <<bank, envBank, disk>> /\ snap' = bank /\ changedBy' = NoIds
        /\ pc = "update" /\ pc' = "idle" /\ envBank = bank
    BY <1>5 DEF NothingChanged, LeaveRound, memory, RoundInv
  <2> QED  BY <2>1 DEF FiledInv, Candidate
<1>6. CASE SkipVerify \/ NoReplay \/ SkipFallback
  BY <1>6 DEF SkipVerify, NoReplay, SkipFallback, FiledInv, Candidate, memory, work
<1>7. CASE StartReplay \/ ReplayFails \/ ReplayReturns
  BY <1>7 DEF StartReplay, ReplayFails, ReplayReturns, FiledInv, Candidate,
              memory, work
<1>8. CASE StartFallback \/ FallbackEnds
  BY <1>8 DEF StartFallback, FallbackEnds, FiledInv, Candidate, memory, work
<1>9. CASE Decide
  <2>1. snap \subseteq Entry
    BY BanksType DEF WellFormed
  <2>2. Filed(RestorePartial(bank, snap, RejectedIds))
    <3>1. Keeps(bank, snap)
      BY <1>9 DEF Decide, FiledInv, Candidate
    <3>2. OneList(RestorePartial(bank, snap, RejectedIds))
      BY <2>1, <3>1, RestoreOneList DEF FiledInv, Filed
    <3> QED  BY <3>2, RestoreSources DEF FiledInv, Filed
  <2>3. Filed(bank')
    BY <1>9, <2>2 DEF Decide, FiledInv
  <2> QED  BY <1>9, <2>3 DEF Decide, FiledInv, Candidate
<1>10. CASE OpenFile \/ WriteFile
  <2>1. disk'.bank \in {disk.bank, bank} /\ UNCHANGED <<bank, snap>>
    BY <1>10 DEF OpenFile, WriteFile, memory, TypeOK
  <2>2. pc' \in {"write", "sync"}
    BY <1>10 DEF OpenFile, WriteFile
  <2> QED  BY <2>1, <2>2 DEF FiledInv, Candidate
<1>11. CASE SyncSkillToEnv
  BY <1>11 DEF SyncSkillToEnv, LeaveRound, FiledInv, Candidate
<1>12. CASE Crash
  BY <1>12 DEF Crash, FiledInv, Candidate, memory
<1>13. CASE Restart
  <2>1. CASE pc' = "dead"
    BY <1>13, <2>1 DEF Restart, LeaveRound, FiledInv, Candidate, memory
  <2>2. CASE pc' # "dead"
    <3>1. /\ bank' \in {disk.bank, InitBank} /\ envBank' = bank' /\ snap' = bank'
          /\ disk' = disk /\ changedBy' = NoIds /\ pc' = "idle"
      BY <1>13, <2>2 DEF Restart, LeaveRound
    <3>2. Filed(InitBank)
      BY InitBankAssumption, PrefixAssumption DEF Mapped, Filed, OneList
    <3> QED  BY <3>1, <3>2 DEF FiledInv, Candidate
  <2> QED  BY <2>1, <2>2
<1>14. CASE UNCHANGED vars
  BY <1>14 DEF vars, memory, work, FiledInv, Candidate
<1>15. CASE Stopped
  BY <1>14, <1>15 DEF Stopped
<1> QED  BY <1>1, <1>2, <1>3, <1>4, <1>5, <1>6, <1>7, <1>8, <1>9, <1>10,
            <1>11, <1>12, <1>13, <1>14, <1>15
         DEF Next, Trainer

-----------------------------------------------------------------------------
(* The decision *)

\* What the verdict rolls back is as the snapshot has it.
LEMMA RollbackNext ==
  ASSUME TypeOK, FiledInv, RollbackRestores, [Next]_vars
  PROVE  RollbackRestores'
<1> SUFFICES ASSUME Decided', verdict' = "per_type"
             PROVE  \A i \in RejectedIds' : EntriesOf(bank', i) = EntriesOf(snap', i)
  BY DEF RollbackRestores, EntriesOf
<1>1. CASE Decide
  <2>1. RejectedIds' = RejectedIds /\ snap' = snap /\ verdict = "per_type"
    BY <1>1 DEF Decide, RejectedIds, work, results
  <2>2. bank' = RestorePartial(bank, snap, RejectedIds)
    BY <1>1, <2>1 DEF Decide
  <2>3. /\ OneList(bank) /\ OneList(snap) /\ Keeps(bank, snap) /\ snap \subseteq Entry
    BY <1>1, BanksType DEF Decide, FiledInv, Filed, Candidate, WellFormed
  <2> QED  BY <2>1, <2>2, <2>3, RestoreExact
<1>2. CASE OpenFile \/ WriteFile \/ UNCHANGED vars
  <2>1. Decided /\ UNCHANGED <<bank, snap, verdict, rejected, changedBy>>
    BY <1>2 DEF OpenFile, WriteFile, vars, memory, work, results, Decided
  <2> QED  BY <2>1 DEF RollbackRestores, RejectedIds
<1>3. Decide \/ OpenFile \/ WriteFile \/ UNCHANGED vars
  BY DEF Next, Trainer, Stopped, Decided, BeginRound, Prune, UpdateType,
         ApplyUpdates, NothingChanged, SkipVerify, StartReplay, NoReplay,
         ReplayFails, ReplayReturns, SkipFallback, StartFallback, FallbackEnds,
         SyncSkillToEnv, Crash, Restart
<1> QED  BY <1>1, <1>2, <1>3

\* A skill rolled back by a per-type verdict is exactly as the snapshot had it,
\* and a new one is gone, where every type has a prefix of its own
\* (restore_partial).
THEOREM RollbackExact ==
  ASSUME Mapped(Prefix, InitBank)
  PROVE  Spec => []RollbackRestores
<1>1. Init => FiledInv /\ RollbackRestores
  BY FiledInit DEF Init, RollbackRestores, Decided
<1>2. TypeOK /\ RoundInv /\ FiledInv /\ RollbackRestores /\ [Next]_vars =>
        FiledInv' /\ RollbackRestores'
  BY FiledNext, RollbackNext
<1> QED  BY <1>1, <1>2, TypeInit, TypeNext, RoundInit, RoundNext, PTL DEF Spec

\* A changed skill is recorded under one key, so no skill is both accepted and
\* rejected.
LEMMA OneKey ==
  ASSUME FiledInv, Candidate, rejected \subseteq Categories,
         NEW i \in AcceptedIds
  PROVE  i \notin RejectedIds
<1> SUFFICES ASSUME i \in RejectedIds PROVE FALSE
  OBVIOUS
<1>1. PICK c \in rejected : i \in changedBy[c]
  BY DEF RejectedIds
<1>2. PICK d \in Categories \ rejected : i \in changedBy[d]
  BY DEF AcceptedIds
<1>3. PICK e \in bank : e.id = i /\ e.cat = c
  BY <1>1 DEF FiledInv
<1>4. PICK f \in bank : f.id = i /\ f.cat = d
  BY <1>2 DEF FiledInv
<1> QED  BY <1>1, <1>2, <1>3, <1>4 DEF FiledInv, Filed, OneList

\* A per-type verdict that rejects some types leaves the changes of the others
\* alone (the decision of _run_skill_evolution).
THEOREM RollbackLimited ==
  ASSUME Mapped(Prefix, InitBank)
  PROVE  Spec => AcceptedKept
<1>1. Init => FiledInv
  BY FiledInit
<1>2. TypeOK /\ RoundInv /\ FiledInv /\ [Next]_vars => FiledInv'
  BY FiledNext
<1>3. TypeOK /\ FiledInv /\ [Next]_vars =>
        [pc = "decide" /\ pc' = "save" =>
           \A i \in AcceptedIds : EntriesOf(bank', i) = EntriesOf(bank, i)]_vars
  <2> SUFFICES ASSUME TypeOK, FiledInv, [Next]_vars, pc = "decide", pc' = "save",
                      NEW i \in AcceptedIds
               PROVE  EntriesOf(bank', i) = EntriesOf(bank, i)
    BY DEF EntriesOf
  <2>1. Decide
    BY DEF Next, Trainer, Stopped, vars, BeginRound, Prune, UpdateType,
           ApplyUpdates, NothingChanged, SkipVerify, StartReplay, NoReplay,
           ReplayFails, ReplayReturns, SkipFallback, StartFallback,
           FallbackEnds, OpenFile, WriteFile, SyncSkillToEnv, Crash, Restart
  <2>2. i \notin RejectedIds /\ verdict # "worse"
    BY OneKey DEF Candidate, AcceptedIds, TypeOK
  <2>3. bank' = bank \/ bank' = RestorePartial(bank, snap, RejectedIds)
    BY <2>1, <2>2 DEF Decide
  <2> QED  BY <2>2, <2>3, RestoreOthers
<1> QED  BY <1>1, <1>2, <1>3, TypeInit, TypeNext, RoundInit, RoundNext, PTL
         DEF Spec, AcceptedKept

\* What has to hold for a decision to touch accepted skills only: nothing is
\* rolled back, or ids stay in their lists.
DecisionInv ==
  /\ VerdictInv /\ RecordInv /\ OnlyAcceptedChange
  /\ VerifyMethod = "notverify" \/ FiledInv

Careful == Mapped(Prefix, InitBank) \/ VerifyMethod = "notverify"

LEMMA DecisionInit ==
  ASSUME Careful, Init
  PROVE  DecisionInv
<1>1. RecordInv /\ OnlyAcceptedChange
  BY DEF Init, RecordInv, OnlyAcceptedChange, Candidate, Decided
<1> QED  BY <1>1, VerdictInit, FiledInit DEF DecisionInv, Careful

\* The decided bank differs from the snapshot in accepted skills only.
LEMMA DecideTouches ==
  ASSUME TypeOK, DecisionInv, Decide
  PROVE  OnlyAcceptedChange'
<1>1. /\ pc = "decide" /\ Candidate
      /\ UNCHANGED <<snap, changedBy, verdict, rejected>>
  BY DEF Decide, Candidate, work, results
<1>2. SUFFICES ASSUME NEW i \in Touched' PROVE i \in AcceptedIds
  BY <1>1 DEF OnlyAcceptedChange, AcceptedIds
<1>3. EntriesOf(bank', i) # EntriesOf(snap, i)
  BY <1>1 DEF Touched, EntriesOf
<1>4. CASE verdict = "worse"
  BY <1>3, <1>4 DEF Decide
<1>5. CASE verdict \in {"none", "better"}
  <2>1. bank' = bank /\ rejected = {}
    BY <1>1, <1>5 DEF Decide, DecisionInv, VerdictInv
  <2>2. i \in AllChanged
    BY <1>1, <1>3, <2>1 DEF DecisionInv, RecordInv
  <2> QED  BY <1>5, <2>1, <2>2 DEF AcceptedIds, AllChanged
<1>6. CASE verdict = "per_type"
  <2>1. bank' = RestorePartial(bank, snap, RejectedIds) /\ FiledInv
    BY <1>1, <1>6 DEF Decide, DecisionInv, VerdictInv
  <2>2. /\ OneList(bank) /\ OneList(snap) /\ Keeps(bank, snap) /\ snap \subseteq Entry
    BY <1>1, <2>1, BanksType DEF FiledInv, Filed, WellFormed
  <2>3. i \notin RejectedIds
    BY <1>3, <2>1, <2>2, RestoreExact
  <2>4. EntriesOf(bank, i) # EntriesOf(snap, i)
    BY <1>3, <2>1, <2>3, RestoreOthers
  <2>5. i \in AllChanged
    BY <1>1, <2>4 DEF DecisionInv, RecordInv
  <2> QED  BY <1>6, <2>3, <2>5 DEF AcceptedIds, RejectedIds, AllChanged
<1> QED  BY <1>4, <1>5, <1>6 DEF TypeOK

LEMMA DecisionNext ==
  ASSUME Careful, TypeOK, RoundInv, DecisionInv, [Next]_vars
  PROVE  DecisionInv'
<1>1. VerdictInv' /\ RecordInv'
  BY VerdictNext, RecordNext DEF DecisionInv
<1>2. VerifyMethod = "notverify" \/ FiledInv'
  BY FiledNext DEF DecisionInv, Careful
<1>3. OnlyAcceptedChange'
  <2> SUFFICES ASSUME Decided' PROVE OnlyAcceptedChange'
    BY DEF OnlyAcceptedChange
  <2>1. CASE OpenFile \/ WriteFile \/ UNCHANGED vars
    <3>1. Decided /\ UNCHANGED <<bank, snap, verdict, rejected, changedBy>>
      BY <2>1 DEF OpenFile, WriteFile, vars, memory, work, results, Decided
    <3> QED  BY <3>1 DEF DecisionInv, OnlyAcceptedChange, Touched, EntriesOf,
                         AcceptedIds
  <2>2. Decide \/ OpenFile \/ WriteFile \/ UNCHANGED vars
    BY DEF Next, Trainer, Stopped, Decided, BeginRound, Prune, UpdateType,
           ApplyUpdates, NothingChanged, SkipVerify, StartReplay, NoReplay,
           ReplayFails, ReplayReturns, SkipFallback, StartFallback, FallbackEnds,
           SyncSkillToEnv, Crash, Restart
  <2> QED  BY <2>1, <2>2, DecideTouches
<1> QED  BY <1>1, <1>2, <1>3 DEF DecisionInv

\* What a round publishes differs from the bank it started from in skills whose
\* change was accepted, and in no other, where every type has a prefix of its
\* own or verification is switched off (_run_skill_evolution).
THEOREM OnlyAcceptedPublished ==
  ASSUME Careful
  PROVE  Spec => []OnlyAcceptedChange
<1>1. Init => DecisionInv
  BY DecisionInit
<1>2. TypeOK /\ RoundInv /\ DecisionInv /\ [Next]_vars => DecisionInv'
  BY DecisionNext
<1>3. DecisionInv => OnlyAcceptedChange
  BY DEF DecisionInv
<1> QED  BY <1>1, <1>2, <1>3, TypeInit, TypeNext, RoundInit, RoundNext, PTL
         DEF Spec

-----------------------------------------------------------------------------
(* The refinement of AtomicEvolution *)

\* The file is torn while it is written.
WritingInv == pc = "write" => disk.state = "torn"

LEMMA WritingNext == TypeOK /\ WritingInv /\ [Next]_vars => WritingInv'
<1> SUFFICES ASSUME TypeOK, WritingInv, [Next]_vars, pc' = "write"
             PROVE  disk'.state = "torn"
  BY DEF WritingInv
<1>1. OpenFile \/ UNCHANGED vars
  BY DEF Next, Trainer, Stopped, BeginRound, Prune, UpdateType, ApplyUpdates,
         NothingChanged, SkipVerify, StartReplay, NoReplay, ReplayFails,
         ReplayReturns, SkipFallback, StartFallback, FallbackEnds, Decide,
         WriteFile, SyncSkillToEnv, Crash, Restart
<1> QED  BY <1>1 DEF OpenFile, WritingInv, vars, TypeOK

AtomicInv == /\ TypeOK /\ RoundInv /\ StaticProtected
             /\ FileInv /\ DecisionInv /\ WritingInv

LEMMA AtomicInvInit ==
  ASSUME Careful, Init
  PROVE  AtomicInv
BY TypeInit, RoundInit, StaticInit, FileInit, DecisionInit
DEF AtomicInv, WritingInv, Init

LEMMA AtomicInvNext ==
  ASSUME Careful, AtomicInv, [Next]_vars
  PROVE  AtomicInv'
BY TypeNext, RoundNext, StaticNext, FileNext, DecisionNext, WritingNext
DEF AtomicInv

\* AtomicEvolution has the same banks.
LEMMA SameBanks ==
  /\ Atomic!Id = Id
  /\ \A b : Atomic!Ids(b) = Ids(b)
  /\ \A b : Atomic!WellFormed(b) <=> WellFormed(b)
  /\ \A b, d : Atomic!Keeps(b, d) <=> Keeps(b, d)
<1>1. Atomic!Id = Id /\ Atomic!Entry = Entry
  BY DEF Atomic!Id, Id, Atomic!Entry, Entry, Atomic!Categories, Categories,
         Atomic!General, General, Atomic!NoText, NoText
<1> QED  BY <1>1 DEF Atomic!Ids, Ids, Atomic!WellFormed, WellFormed,
                     Atomic!Keeps, Keeps

LEMMA AtomicStart == Init => Atomic!Init
BY DEF Init, Atomic!Init, Candidate

\* A step that leaves what decides about the official bank, the licence and the
\* file alone is a stuttering step.
LEMMA AtomicStutter ==
  ASSUME pc' \notin {"decide", "down", "dead"}, pc \notin {"decide", "down", "dead"},
         disk' = disk,
         (IF Candidate THEN snap ELSE bank) = (IF Candidate' THEN snap' ELSE bank')
  PROVE  UNCHANGED Atomic!avars
BY DEF Atomic!avars

\* The steps of a round up to the decision: the official bank is the snapshot,
\* and reaching the decision is taking a licence for the accepted skills.
LEMMA AtomicCandidate ==
  ASSUME AtomicInv, AtomicInv',
         Candidate, Candidate', pc # "decide", snap' = snap, disk' = disk
  PROVE  [Atomic!Next]_(Atomic!avars)
<1>1. pc \notin {"down", "dead"} /\ pc' \notin {"down", "dead"}
  BY DEF Candidate
<1>2. CASE pc' = "decide"
  <2>1. AcceptedIds' \in SUBSET Id
    BY DEF AtomicInv, TypeOK, AcceptedIds
  <2>2. Atomic!License
    BY <1>1, <1>2, <2>1, SameBanks DEF Atomic!License
  <2> QED  BY <2>2 DEF Atomic!Next
<1>3. CASE pc' # "decide"
  BY <1>1, <1>3, AtomicStutter
<1> QED  BY <1>2, <1>3

\* The decision is the one step that changes the official bank, and only in
\* the skills licensed.
LEMMA AtomicDecide ==
  ASSUME AtomicInv, AtomicInv', Decide
  PROVE  Atomic!Evolve
<1>1. /\ pc = "decide" /\ Candidate /\ pc' = "save" /\ ~Candidate'
      /\ UNCHANGED <<snap, disk, changedBy, verdict, rejected>>
  BY DEF Decide, Candidate, work, results
<1>2. WellFormed(bank') /\ Keeps(bank', InitBank)
  BY DEF AtomicInv, TypeOK, StaticProtected, Banks
<1>3. \A i \in Ids(snap) \cup Ids(bank') :
        i \notin AcceptedIds => EntriesOf(bank', i) = EntriesOf(snap, i)
  BY <1>1 DEF AtomicInv, DecisionInv, OnlyAcceptedChange, Decided, Touched,
              AcceptedIds, EntriesOf
<1> QED  BY <1>1, <1>2, <1>3, SameBanks DEF Atomic!Evolve, EntriesOf

LEMMA AtomicNext ==
  ASSUME AtomicInv, AtomicInv', [Next]_vars
  PROVE  [Atomic!Next]_(Atomic!avars)
<1>1. CASE BeginRound \/ NothingChanged \/ SyncSkillToEnv
  <2>1. /\ pc' \notin {"decide", "down", "dead"} /\ pc \notin {"decide", "down", "dead"}
        /\ disk' = disk
    BY <1>1 DEF BeginRound, NothingChanged, SyncSkillToEnv
  <2>2. (IF Candidate THEN snap ELSE bank) = (IF Candidate' THEN snap' ELSE bank')
    BY <1>1 DEF BeginRound, NothingChanged, SyncSkillToEnv, LeaveRound, Candidate,
                memory, AtomicInv, RoundInv
  <2> QED  BY <2>1, <2>2, AtomicStutter
<1>2. CASE Prune \/ ApplyUpdates \/ \E tt \in TaskTypes : UpdateType(tt)
  BY <1>2, AtomicCandidate DEF Prune, ApplyUpdates, UpdateType, Candidate
<1>3. CASE SkipVerify \/ StartReplay \/ NoReplay \/ ReplayFails \/ ReplayReturns
  BY <1>3, AtomicCandidate DEF SkipVerify, StartReplay, NoReplay, ReplayFails,
                               ReplayReturns, Candidate
<1>4. CASE SkipFallback \/ StartFallback \/ FallbackEnds
  BY <1>4, AtomicCandidate DEF SkipFallback, StartFallback, FallbackEnds, Candidate
<1>5. CASE Decide
  BY <1>5, AtomicDecide DEF Atomic!Next
<1>6. CASE OpenFile
  BY <1>6 DEF OpenFile, Candidate, memory, Atomic!Open, Atomic!Next
<1>7. CASE WriteFile
  BY <1>7 DEF WriteFile, Candidate, memory, AtomicInv, WritingInv, Atomic!Write,
              Atomic!Next
<1>8. CASE Crash
  BY <1>8 DEF Crash, Atomic!Lose, Atomic!Next
<1>9. CASE Restart
  <2>1. CASE SaveInPlace /\ disk.state = "torn"
    BY <1>9, <2>1 DEF Restart, Atomic!avars
  <2>2. CASE ~(SaveInPlace /\ disk.state = "torn")
    <3>1. SaveInPlace => disk.state = "whole"
      BY <2>2 DEF AtomicInv, FileInv, TypeOK
    <3> QED  BY <1>9, <2>2, <3>1 DEF Restart, Candidate, Atomic!Reload, Atomic!Next
  <2> QED  BY <2>1, <2>2
<1>10. CASE UNCHANGED vars
  BY <1>10 DEF vars, memory, work, results, Atomic!avars, Candidate, AcceptedIds
<1>11. CASE Stopped
  BY <1>10, <1>11 DEF Stopped
<1> QED  BY <1>1, <1>2, <1>3, <1>4, <1>5, <1>6, <1>7, <1>8, <1>9, <1>10, <1>11
         DEF Next, Trainer

\* A round of skill evolution is one atomic change of the official bank, in the
\* skills a verdict accepted; crashes, torn files and restarts included.
THEOREM RoundsAreAtomic ==
  ASSUME Careful
  PROVE  Spec => ImplementsAtomic
<1>1. Init => AtomicInv
  BY AtomicInvInit
<1>2. AtomicInv /\ [Next]_vars => AtomicInv'
  BY AtomicInvNext
<1>3. AtomicInv /\ AtomicInv' /\ [Next]_vars => [Atomic!Next]_(Atomic!avars)
  BY AtomicNext
<1> QED  BY <1>1, <1>2, <1>3, AtomicStart, PTL
         DEF Spec, ImplementsAtomic, Atomic!Spec
=============================================================================
