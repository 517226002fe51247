CONSTANTS
  Mode = "cmyk"
  Sizes <- MCSizes
  Centers <- MCCenters
  Images = {"p", "q"}
  Garbage = "garbage"
  Passed <- MCInk
  Buffers <- MCBuffers
  Values <- MCValues
  MaxCalls = 0
SPECIFICATION ImageSpec
INVARIANT NamesMakeALayer
CHECK_DEADLOCK FALSE
