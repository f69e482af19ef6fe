\* A process starts again while a strategy opens the store.
CONSTANTS
  s1 = s1
  s2 = s2
  s3 = s3
  r1 = r1
  Symbols <- TwoSymbols
  Capacity = 2
  Strategies <- OneStrategy
  MaxGens = 2
SYMMETRY SymbolSymmetry
SPECIFICATION Spec
CHECK_DEADLOCK FALSE
INVARIANT AnswersAlwaysOfSymbol
