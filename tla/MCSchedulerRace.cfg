SPECIFICATION Spec
CONSTANTS
  SLOTS = 4
  MaxLag = 2
  MaxSlotsPerWakeup = 5
  MaxNoisy = 2
  MaxAttempts = 12
  WorstCase = 1
  PassMod = 4
  CountMod = 256
  Scenarios <- MCPreempted
  MaxResets = 1
INVARIANT SlotInTable
