CONSTANTS
  LayerCounts = {0, 1, 3}
  Widths = {4, 8}
  Lengths = {1, 2, 4}
  OtherBlocks = {0, 16}
  Callbacks <- MCCallbacks
SPECIFICATION FairSpec
CHECK_DEADLOCK FALSE
INVARIANT ProgressAccounting
INVARIANT CompleteMeansWritten
INVARIANT MarkersDelimitSections
PROPERTY ProgressOnlyGrows
PROPERTY WriteEnds
