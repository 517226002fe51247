CONSTANTS
  Mode = "grayscale"
  Sizes <- MCSizes
  Centers <- MCCenters
  Images = {"p", "q"}
  Garbage = "garbage"
  Passed <- MCPassed
  Buffers <- MCBuffers
  Values <- MCValues
  MaxCalls = 2
SPECIFICATION ImageSpec
PROPERTY ImageComesBack
PROPERTY MaskComesBack
PROPERTY ReadLayersSettle
CHECK_DEADLOCK FALSE
