---------------------------- MODULE MCTrainerLoop ----------------------------
(***************************************************************************)
(* Two ranks of one model-parallel group, with both worker implementations *)
(* and with a critic.                                                      *)
(***************************************************************************)
EXTENDS TrainerLoop

CONSTANTS r0, r1

TwoRanks == {r0, r1}
LeadR0   == [r \in TwoRanks |-> r0]
Both     == {"fsdp", "megatron"}
KeepTwo  == [o \in Roles |-> 2]
KeepOne  == [o \in Roles |-> 1]
=============================================================================
