SPECIFICATION FairSpec
CONSTANTS
  NumTerms = 3
  MaxProcs = 3
  MaxLeak = 2
  MaxKeys = 3
  Hazards <- FullTable
INVARIANTS
  TypeOK
  NoWildJump
  RunningContext
  PidsAccounted
  ContextsLive
  OwnKernelStack
  HaltReturnsToParent
  RunningContextInv
  DisplayIsolation
PROPERTIES
  RefinesJobs
  EveryTerminalRuns
