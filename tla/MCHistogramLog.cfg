SPECIFICATION Spec
CONSTANTS
  MaxBins = 2
  Samples = {0, 1}
  Tables <- MCTables
  Maxima = {2}
  Entries = 2
  MaxLines = 2
  Campaigns <- MCCampaigns
INVARIANTS StateOK PlaybackFaithful FileOfOneBin
