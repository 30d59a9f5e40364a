--------------------------- MODULE AtomicEvolution ---------------------------
(***************************************************************************)
(* What skill evolution promises, with the rounds, the LLM, the rollouts   *)
(* and the copies taken away.  There is one official bank.  It changes     *)
(* only when a decision is taken, and then only in the skills the decision *)
(* licenses; it keeps every skill of the initial bank.  The file only ever *)
(* receives an official bank.  A crash loses the official bank, and a      *)
(* restart takes it from the file or from the initial bank, never from a   *)
(* torn file and never from a bank nobody decided on.                      *)
(***************************************************************************)
EXTENDS SkillBank

CONSTANTS
  InitBank,    \* the bank the run starts from
  SaveInPlace  \* a restart reads the file the bank is saved to

VARIABLES
  running,   \* a process runs
  official,  \* the decided bank; {} while no process runs
  licence,   \* the skills the pending decision lets change
  stored     \* the file

avars == <<running, official, licence, stored>>

Init ==
  /\ running = TRUE
  /\ official = InitBank
  /\ licence = {}
  /\ stored = [state |-> IF SaveInPlace THEN "whole" ELSE "absent",
               bank |-> InitBank]

License ==
  /\ running /\ licence = {}
  /\ licence' \in SUBSET Id
  /\ UNCHANGED <<running, official, stored>>

Evolve ==
  /\ running
  /\ WellFormed(official')
  /\ \A i \in Ids(official) \cup Ids(official') :
       i \notin licence =>
         {e \in official' : e.id = i} = {e \in official : e.id = i}
  /\ Keeps(official', InitBank)
  /\ licence' = {}
  /\ UNCHANGED <<running, stored>>

\* Writing the file is not atomic.
Open ==
  /\ running
  /\ stored' = [stored EXCEPT !.state = "torn"]
  /\ UNCHANGED <<running, official, licence>>

Write ==
  /\ running /\ stored.state = "torn"
  /\ stored' = [state |-> "whole", bank |-> official]
  /\ UNCHANGED <<running, official, licence>>

Lose ==
  /\ running
  /\ running' = FALSE /\ official' = {} /\ licence' = {}
  /\ UNCHANGED stored

Reload ==
  /\ ~running
  /\ running' = TRUE
  /\ SaveInPlace => stored.state = "whole"
  /\ official' = IF SaveInPlace THEN stored.bank ELSE InitBank
  /\ UNCHANGED <<licence, stored>>

Next == License \/ Evolve \/ Open \/ Write \/ Lose \/ Reload

Spec == Init /\ [][Next]_avars
=============================================================================
