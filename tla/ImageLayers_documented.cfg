CONSTANTS
  Mode = "grayscale"
  Sizes <- MCSizes
  Centers <- MCCenters
  Images = {"p", "q"}
  Garbage = "garbage"
  Passed <- MCPassed
  Buffers <- MCBuffers
  Values <- MCValues
  MaxCalls = 1
SPECIFICATION ImageSpec
INVARIANT ChannelsFitTheirLayer
PROPERTY FeatherComesBack
PROPERTY EmptyLayersSettle
PROPERTY ParamsAreKept
CHECK_DEADLOCK FALSE
