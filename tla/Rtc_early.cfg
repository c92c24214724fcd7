SPECIFICATION Spec
CONSTANTS
  NumTerms = 1
  MaxFreq = 4
  MinFreq = 2
INVARIANTS
  WaitsForOne
