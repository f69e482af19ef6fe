---------------------------- MODULE MCWalRestart ----------------------------
(* Small instances of WalRestart for TLC. *)
EXTENDS WalRestart
=============================================================================
