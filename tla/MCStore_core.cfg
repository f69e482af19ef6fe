\* Three symbols for two rings, two starts of one or two processes, a strategy that
\* attaches anywhere.
CONSTANTS
  s1 = s1
  s2 = s2
  s3 = s3
  r1 = r1
  Symbols <- ThreeSymbols
  Capacity = 2
  Strategies <- OneStrategy
  MaxGens = 2
SYMMETRY SymbolSymmetry
SPECIFICATION Spec
CHECK_DEADLOCK FALSE
INVARIANTS PublishedIsComplete RingsAreSeparate AnswersAreOfSymbol DropsOnlyWhenFull
