SPECIFICATION FairSpec
CONSTANTS
  Contexts = {0, 1}
  Base = 4
  MemBytes = 8
  PreloadMax = 4
  ExpandDepth = 3
  PageSize = 4
  RecordMax = 2
  Maps <- MCMaps
  Invocations <- MCInvocations
  Transfers = {0, 1, 2, 3, 4, 20}
  Addresses = {1, 2, 3, 4}
  Unreadable = {2}
  Unwritable = {2, 4}
  MaxBreakpoints = 3
  HwIndices = {0, 1, 2}
  HwUnits = {0, 1}
  Sessions <- MCSessions
INVARIANTS
  Meant
  BlocksExact
  BreakpointsInPlace
  ProgramRestored
PROPERTIES
  BridgeEnds
  PacketsAnswered
CHECK_DEADLOCK FALSE
