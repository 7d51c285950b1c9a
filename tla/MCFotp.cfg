SPECIFICATION FairSpec
CONSTANTS
  b1 = b1
  b2 = b2
  f1 = f1
  f2 = f2
  Names = {f1, f2}
  Blocks = {b1, b2}
  Content <- MCContent
  Offsets = {0, 1, 2, 3}
  IdMax = 4
  CntMax = 2
  AnyOrder = FALSE
  NoName = NoName
  NoBlock = NoBlock
INVARIANTS StateOK TranscriptInOrder
PROPERTIES CountedWhenComplete TransferEnds
