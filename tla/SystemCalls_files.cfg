SPECIFICATION Spec
CONSTANTS
  NumTerms = 2
  MaxProcs = 3
  MaxFiles = 3
  BlockSize = 2
  MaxBytes = 2
  MaxCalls = 5
  dir_entries <- Directory
  inodes <- Inodes
  data_blocks <- Blocks
  Hazards <- NoHazards
INVARIANTS
  TypeOK
  DescriptorsOwned
  ReadsInOrder
  ListsDirectory
