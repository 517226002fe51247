CONSTANTS
  LayerCounts = {0, 1, 3}
  Widths = {4, 8}
  Lengths = {1, 2, 4}
  OtherBlocks = {0, 16}
  Callbacks <- MCCallbacks
SPECIFICATION FairTripSpec
CHECK_DEADLOCK FALSE
INVARIANT ReaderKeepsItsPlace
INVARIANT ReadReturnsWhatWasWritten
PROPERTY WrittenIsRead
