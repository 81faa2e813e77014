SPECIFICATION Spec
CONSTANTS
  NumLaneGroupsLog2 = 2
  NumContextsLog2 = 1
  RequestWords <- MCNarrowWords4
  Requesters = {15}
  WcfgWords = {}
  UseWakeup = FALSE
PROPERTY DecoupleContract
