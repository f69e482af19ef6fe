----------------------------- MODULE MCTailerV2 -----------------------------
(* Small instances of TailerV2 for TLC. *)
EXTENDS TailerV2
=============================================================================
