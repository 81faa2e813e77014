SPECIFICATION FairSpec
CONSTANTS
  NumBlocks = 2
  Contexts = {0, 1, 2}
  Placements <- MCPlacements
  Programs <- MCPrograms
  Uncached = {2}
  Unmapped = {3}
  MinLatency = 2
INVARIANTS
  ReadsLatest
  Coherent
PROPERTY
  AccessesEnd
