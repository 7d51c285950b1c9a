SPECIFICATION Spec
CONSTANTS
  b1 = b1
  b2 = b2
  big = big
  f1 = f1
  f2 = f2
  Names = {f1, f2}
  Blocks = {b1, b2, big}
  Half <- MCHalf
  Size <- MCSize
  MaxLen = 2
  IdMax = 2
  CntMax = 1
  ErrMax = 1
  FinishCmds <- MCFinishCmds
  NoName = NoName
  NotReported = NotReported
INVARIANTS StateOK Integrity
PROPERTIES VerifiedFileIsFinal ImplementsStore
