SPECIFICATION Spec
CONSTANTS
  browser = browser
  control = control
  screen = screen
  remote = remote
  twin = twin
  window = window
  CmdTools <- MCCmdTools
  TlmTools <- MCTlmTools
  Remotes <- MCRemotes
  PortOf <- MCPortOf
  Gui = window
  Campaigns <- MCCampaigns
INVARIANTS StateOK CommandsInOrder
PROPERTIES RouterProgress
CHECK_DEADLOCK FALSE
