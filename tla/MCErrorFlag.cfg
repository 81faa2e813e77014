SPECIFICATION FlagSpec
CONSTANTS
  NumLaneGroupsLog2 = 2
  NumContextsLog2 = 2
  RequestWords <- MCWords4
  Requesters = {1, 15}
  WcfgWords = {}
  UseWakeup = FALSE
INVARIANT ErrorTellsLastRequest
