SPECIFICATION FairSpec
CONSTANTS
  m1 = m1
  m2 = m2
  big = big
  Msgs = {m1, m2, big}
  Oversized = {big}
  Entries = 3
  CntMod = 3
  NoMsg = NoMsg
INVARIANTS StateOK CountersExact
PROPERTIES ImplementsQueue Progress
