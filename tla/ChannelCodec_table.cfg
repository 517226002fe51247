CONSTANTS
  MaxRun = 8
  EntryLimit = 16
  MCWidth = 4
  MCNarrow = 1
  MCCodecs = {"Rle"}
  Layers <- MCLayers32
SPECIFICATION Spec
INVARIANT NothingIsRefused
