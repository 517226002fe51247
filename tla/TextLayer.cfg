CONSTANTS
  A = A
  B = B
  F = F
  G = G
  Left = Left
  Right = Right
  OpenParen = OpenParen
  CloseParen = CloseParen
  Escape = Escape
  Return = Return
  Garbled = Garbled
  Absent = Absent
  Fonts = {F, G}
  Paras = {Left, Right}
  Texts <- MCTexts
  Needles <- MCNeedles
  News <- MCNews
  Spans <- MCSpans
  MaxText = 3
  MaxRuns = 4
  MaxFonts = 2
SPECIFICATION CarefulTextSpec
INVARIANT EngineShowsTheText
INVARIANT RunsCoverTheText
INVARIANT LegacyRangesFollow
PROPERTY ImplementsStyledText
SYMMETRY Interchangeable
VIEW Layer
