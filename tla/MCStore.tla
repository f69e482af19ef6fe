------------------------------ MODULE MCStore ------------------------------
EXTENDS Store, TLC

CONSTANTS s1, s2, s3, r1

TwoSymbols == {s1, s2}
ThreeSymbols == {s1, s2, s3}
OneStrategy == {r1}

\* The symbols have no order and the properties name none.
SymbolSymmetry == Permutations(Symbols)
=============================================================================
