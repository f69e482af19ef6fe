----------------------------- MODULE MCStoreV2 -----------------------------
(* Small instances of StoreV2 for TLC. *)
EXTENDS StoreV2, TLC

CONSTANTS s1, s2, r1

TwoSymbols == {s1, s2}
OneStrategy == {r1}

\* The symbols have no order and the properties name none.
SymbolSymmetry == Permutations(Symbols)
=============================================================================
