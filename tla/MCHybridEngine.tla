---------------------------- MODULE MCHybridEngine ----------------------------
(***************************************************************************)
(* Two groups of two ranks; parameters and optimizer are offloaded.        *)
(***************************************************************************)
EXTENDS HybridEngine

Offloading == {TRUE}
=============================================================================
