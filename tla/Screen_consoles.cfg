SPECIFICATION Spec
CONSTANTS
  NUMBER_ENTRIES = 4
  VIDEO_ADDR = 1
  NumTerms = 2
  Program = 2
  UserVideo = 3
  NUM_ROWS = 2
  NUM_COLS = 3
  TabLen = 1
  Size = 3
  Chars = {"a"}
  Blank = "blank"
  Newline = "nl"
  Tab = "tab"
  Texts <- Writes
  MaxOutputs = 3
  Hazards <- NoHazards
INVARIANTS
  TypeOK
  ReachesOwnScreen
PROPERTIES
  RefinesConsoles
