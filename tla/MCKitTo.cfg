SPECIFICATION FairSpec
CONSTANTS
  tlm = tlm
  sub = sub
  pub = pub
  a1 = a1
  a2 = a2
  Mids = {tlm, sub, pub}
  AppIds = {a1, a2}
  AppIdOf <- MCAppIdOf
  SubWrapped = sub
  PubWrapped = pub
  NoMid = noMid
  Filters = {"always", "some"}
  Pkts <- MCPkts
  Files <- MCFiles
  PipeDepth = 2
  BufLim = 1
  MaxBurst = 2
  PktCampaigns <- MCPktCampaigns
  LogFiles = {f1, f2}
  LogMax = 3
  PerPkt = 2
  EvsCounts = {3}
  Periods = {2}
  MaxStarts = 2
  NoLogFile = noFile
  PlbkCampaigns = {"whole", "any"}
INVARIANTS StateOK SentUnderOwnEntry PlaybackTrue
PROPERTIES LoopGoesOn PlaybackRuns
