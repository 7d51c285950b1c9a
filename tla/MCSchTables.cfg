SPECIFICATION TblSpec
CONSTANTS
  none = none
  hk = hk
  tone = tone
  swapped = swapped
  SLOTS = 2
  ACTS = 1
  MSGS = 3
  Byte = 8
  PassMod = 4
  MsgIds <- MCIds
  NoMsg = none
  Header <- MCSwapped
  Swapped <- MCSwapped
  MaxRecords = 2
  Args = {0, 1, 4}
  MsgArgs = {0, 3}
  SchFiles <- MCSchFiles
  MsgFiles <- MCMsgFiles
  DefaultSch <- MCDefaultSch
  DefaultMsg <- MCDefaultMsg
  Campaigns <- MCCampaigns
INVARIANTS TablesOK DumpRestores
PROPERTIES LoadAllOrNothing OnSchedule
