SPECIFICATION Spec
CONSTANTS
  NumTerms = 2
  MaxCodes = 1
  MaxNest = 1
  Hazards = {"fault"}
PROPERTIES
  FaultEndsProgram
