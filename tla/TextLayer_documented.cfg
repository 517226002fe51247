CONSTANTS
  A = A
  B = B
  F = F
  G = G
  Left = Left
  Right = Right
  OpenParen = OpenParen
  CloseParen = CloseParen
  Escape = Escape
  Return = Return
  Garbled = Garbled
  Absent = Absent
  Fonts = {F, G}
  Paras = {Left, Right}
  Texts <- MCDocumentedTexts
  Needles <- MCNeedles
  News <- MCNews
  Spans <- MCSpans
  MaxText = 3
  MaxRuns = 4
  MaxFonts = 2
SPECIFICATION TextSpec
INVARIANT RunsCoverTheText
INVARIANT EngineShowsTheText
