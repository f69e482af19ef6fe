-------------------------- MODULE MCParquetConvert --------------------------
(* Small instances of ParquetConvert for TLC. *)
EXTENDS ParquetConvert
=============================================================================
