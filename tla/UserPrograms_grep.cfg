SPECIFICATION Spec
CONSTANTS
  Bytes <- MCBytes
  BufLen = 8
  MaxParsed = 3
  BufSize = 3
  Worlds <- MCWorlds
  Executables <- MCExecutables
  MaxLines = 2
  Hazards = {}
INVARIANTS
  CommandTyped
  GrepPrints
PROPERTIES
  CommandEnds
