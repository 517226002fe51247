CONSTANTS
  D1 = D1
  D2 = D2
  G = G
  H = H
  X = X
  H1 = H1
  H2 = H2
  H3 = H3
  NoLayer = NoLayer
  NoDocument = NoDocument
  Docs = {D1, D2}
  Handles = {H1, H2, H3}
  Layers <- MCLayers
  Groups <- MCGroups
  NameOf <- MCNames
  Paths <- MCPaths
  Files <- MCFiles
SPECIFICATION CarefulSpec
INVARIANT UnattachedIsFree
INVARIANT OneOwner
INVARIANT HandleKnowsItsDocument
INVARIANT DrainedIsNotWrittenAgain
SYMMETRY Interchangeable
