CONSTANTS
  Beyond = 1000
  Cuts = {0}
  Sections <- MCSections
  Texts <- MCTexts
  Trailer <- MCTrailer
SPECIFICATION Spec
INVARIANT OnlyTheUnreadableIsLost
INVARIANT SettingsFromTheirOwnBlocks
INVARIANT LayerComesBack
PROPERTY EveryReadAdvances
PROPERTY ReadingEnds
CHECK_DEADLOCK FALSE
