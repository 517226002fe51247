CONSTANTS
  In = In
  Out = Out
  Rel = Rel
  Green = Green
  Alpha = Alpha
  NoFile = NoFile
  S1 = S1
  Layers = {S1}
  Hashes = {1, 2}
  Codecs = {"ZipPrediction", "Rle"}
  DefaultCodec = "ZipPrediction"
  Paths <- MCPaths
  Absolute <- MCAbsolute
  ReadPath <- MCReadPath
  ChannelsOf <- MCChannelsOf
SPECIFICATION Spec
INVARIANT WrittenAsAsked
INVARIANT WrittenChannelsAreUpToDate
PROPERTY ReplaceShowsTheFile
