SPECIFICATION ReconfSpec
CONSTANTS
  NumLaneGroupsLog2 = 2
  NumContextsLog2 = 2
  NumLanesLog2 = 3
  BundleAlignLog2 = 1
  RequestWords <- MCWords4
  DecoderWords <- MCDecoderWords
  Requesters = {1, 15}
  WcfgWords <- MCWcfgWords4
  UseWakeup = FALSE
INVARIANTS
  TypeOK
  CurrentConfigSound
  HaltsAffectedOnly
  CommitQuiet
  CommitInv
PROPERTIES
  DecodeSound
  LanesSound
  DecoupleContract
  AtomicToSoftware

  WakeupServed
