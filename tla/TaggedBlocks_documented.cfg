CONSTANTS
  Beyond = 1000
  Cuts = {0, 20}
  Sections <- MCDocumented
  Texts <- MCTexts
  Trailer <- MCTrailer
SPECIFICATION Spec
INVARIANT OnlyTheUnreadableIsLost
INVARIANT NamesAreKept
PROPERTY ReadingEnds
CHECK_DEADLOCK FALSE
