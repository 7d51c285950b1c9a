SPECIFICATION FairSpec
CONSTANTS
  a = a
  b = b
  c = c
  d = d
  e = e
  f = f
  NoPath = NoPath
  Paths <- MCPaths
  InDir <- MCInDir
  LongNames <- MCLongNames
  Volume <- MCVolume
  InitData <- MCInitData
  MaxOpens = 1
  MaxLen = 1
  PktEntries = 2
  ListEntries = 3
  Commands <- MCCommands
  MaxCmds = 1
INVARIANTS TypeOK DataKept DirectoryTrue
PROPERTIES OpenFilesSafe NearerToEnd CommandEnds
CHECK_DEADLOCK FALSE
