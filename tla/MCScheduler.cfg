SPECIFICATION FairSpec
CONSTANTS
  SLOTS = 4
  MaxLag = 2
  MaxSlotsPerWakeup = 5
  MaxNoisy = 2
  MaxAttempts = 2
  WorstCase = 1
  PassMod = 2
  CountMod = 256
  Scenarios <- MCRunToEnd
  MaxResets = 1
INVARIANTS StateOK SlotsInOrder
PROPERTY EverySlotRuns
