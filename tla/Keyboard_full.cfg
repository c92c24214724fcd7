SPECIFICATION Spec
CONSTANTS
  NumTerms = 2
  Size = 3
  NBytes = 3
  Letters = {"a"}
  MaxKeys = 5
  Hazards <- Overfull
INVARIANTS
  LengthWithinBuffer
