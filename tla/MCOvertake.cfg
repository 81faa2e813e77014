SPECIFICATION Spec
CONSTANTS
  NumBlocks = 4
  Contexts = {0, 1}
  Placements <- MCHalves
  Programs <- MCOther
  Uncached = {5}
  Unmapped = {3}
  MinLatency = 2
INVARIANT
  ReadsLatest
