SPECIFICATION Spec
CONSTANTS
  NumTerms = 2
  MaxCodes = 2
  MaxNest = 2
  Hazards = {"fault", "early"}
INVARIANTS
  TypeOK
  EndedBeforeLeaving
  PcbsInUse
  ContextKept
PROPERTIES
  DevicesServed
