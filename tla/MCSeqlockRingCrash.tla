------------------------- MODULE MCSeqlockRingCrash -------------------------
(* Small instances of SeqlockRingCrash for TLC. *)
EXTENDS SeqlockRingCrash

CONSTANTS r1, w1

OneReader == {r1}
OneWord == {w1}
=============================================================================
