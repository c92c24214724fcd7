SPECIFICATION DriverSpec
CONSTANTS
  NumTerms = 2
  Size = 3
  NBytes = 3
  Letters = {"a"}
  MaxKeys = 5
  Hazards <- NoHazards
  ModeHazards = {}
INVARIANTS
  TypeOK
  EnterAnnounced
  ModeMatchesKeys
PROPERTIES
  RefinesLineInput
  ReadReturns
  ActsAsHeld
