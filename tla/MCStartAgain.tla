---------------------------- MODULE MCStartAgain ----------------------------
(* A small instance of StartAgain for TLC. *)
EXTENDS StartAgain
=============================================================================
