SPECIFICATION FairDSpec
CONSTANTS
  b1 = b1
  b2 = b2
  f1 = f1
  f2 = f2
  Names = {f1, f2}
  Blocks = {b1, b2}
  Content <- MCContent
  Offsets = {0}
  IdMax = 4
  CntMax = 2
  AnyOrder = FALSE
  NoName = NoName
  NoBlock = NoBlock
  Modes = {TRUE, FALSE}
  Patient = TRUE
  MaxRequests = 3
  MaxCancels = 2
  NoFile = NoFile
 
PROPERTY DownloadEnds
CHECK_DEADLOCK FALSE
