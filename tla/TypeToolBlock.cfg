CONSTANTS
  KnownFourByteKeys <- MCKnown
  Units = {"#Ang", "#Rsl", "#Rlt", "#Nne", "#Prc", "#Pxl", "#Pnt", "#Mlm"}
  Doubles = 2
  Layers <- MCLayers
  Transforms <- MCTransforms
  Components = {6}
  AntiAliases = {"antiAliasSharp"}
  Styles = {"warpFlag"}
  Rotations = {"Hrzn"}
  Directions = {"Hrzn", "Vrtc"}
  Numbers = {9}
  Boxes = {"wide"}
  Texts <- MCTexts
  MaxCalls = 2
SPECIFICATION Spec
INVARIANT ViewsAgree
INVARIANT IndexesFollowTheText
PROPERTY OneEditOneChange
VIEW Layer
