CONSTANTS
  In = In
  Out = Out
  Rel = Rel
  Green = Green
  Alpha = Alpha
  NoFile = NoFile
  S1 = S1
  S2 = S2
  Layers = {S1, S2}
  Hashes = {1, 2}
  Codecs = {"ZipPrediction"}
  DefaultCodec = "ZipPrediction"
  Paths <- MCFiles
  Absolute <- MCSamePath
  ReadPath <- MCReadPath
  ChannelsOf <- MCChannelsOf
SPECIFICATION Spec
INVARIANT CachedIsCurrent
INVARIANT WrittenIsSelfContained
INVARIANT PathsAreShared
PROPERTY LayerKeepsItsImage
