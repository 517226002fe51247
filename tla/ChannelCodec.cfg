CONSTANTS
  MaxRun = 3
  EntryLimit = 16
  MCWidth = 8
  MCNarrow = 3
  MCCodecs = {"Rle", "Raw"}
  Layers <- MCLayers
SPECIFICATION Spec
INVARIANT RowsKeepToTheirSpan
INVARIANT ChannelsComeBack
