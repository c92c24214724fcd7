SPECIFICATION FairSpec
CONSTANTS
  NumTerms = 2
  MaxFreq = 4
  MinFreq = 2
INVARIANTS
  TypeOK
  CountsInterrupts
  NoneHidden
PROPERTIES
  ReadReturns
