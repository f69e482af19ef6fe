-------------------------- MODULE MCStorageTailer --------------------------
(* Small instances of StorageTailer for TLC. *)
EXTENDS StorageTailer
=============================================================================
