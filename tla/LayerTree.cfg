CONSTANTS
  G1 = G1
  G2 = G2
  G3 = G3
  X = X
  Divider = Divider
  Root = Root
  NoLayer = NoLayer
  Layers <- MCLayers
  Groups <- MCGroups
  NameOf <- MCNames
  Paths <- MCPaths
SPECIFICATION CarefulSpec
INVARIANT Forest
PROPERTY MoveKeepsDocument
PROPERTY SiblingOrderKept
PROPERTY RemoveTakesTheSubtree
INVARIANT RecordsRebuildTheTree
