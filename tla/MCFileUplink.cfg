SPECIFICATION FairUSpec
CONSTANTS
  b1 = b1
  b2 = b2
  crlf = crlf
  f1 = f1
  f2 = f2
  Names = {f1, f2}
  Blocks = {b1, b2, crlf}
  Half <- MCHalf
  Size <- MCSize
  AsText <- MCAsText
  MaxLen = 1
  IdMax = 3
  CntMax = 3
  ErrMax = 1
  FinishCmds <- MCFinishCmds
  NoName = NoName
  NotReported = NotReported
  Uploads <- MCUploads
  Faults = {"lose", "dup", "swap", "quit"}
  MaxFaults = 3
INVARIANT UploadSafe
PROPERTY CleanUploadCompletes
CHECK_DEADLOCK FALSE
