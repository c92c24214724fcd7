SPECIFICATION Spec
CONSTANTS
  MemSize = 14
  Bytes = {0, 1, 2, 3, 4, 5, 6, 7, 8, 9, 10, 11, 12, 13, 14, 200}
  Memories <- MCMemories
  Strings <- MCStrings
  MaxString = 6
  Width = 8
  Values = {0, 9, 10, 16, 127, 128, 255}
  Formats <- MCFormats
  Hazards = {}
INVARIANTS
  BlockWritten
  StringsRight
  PrintsDirectives
