\* Two symbols, two starts of one or two processes, a strategy that attaches anywhere.
CONSTANTS
  s1 = s1
  s2 = s2
  r1 = r1
  Symbols <- TwoSymbols
  Capacity = 2
  Strategies <- OneStrategy
  MaxGens = 2
SYMMETRY SymbolSymmetry
SPECIFICATION SpecV2
CHECK_DEADLOCK FALSE
INVARIANTS QueriesSurvive OnlyEarlyLookupsMislead MapsLeadToAssigned
