-------------------------- MODULE MCDocumentHandles --------------------------
(* Small instances of the C API: two documents, three handles, a group in a  *)
(* group and an image.  A file holds all of them or the image alone.        *)
EXTENDS DocumentHandles

CONSTANTS D1, D2, G, H, X, H1, H2, H3

MCGroups == {G, H}
MCLayers == {G, H, X}
MCNames  == [l \in MCLayers |-> IF l = X THEN "x" ELSE "g"]
MCPaths  == {<<"g">>, <<"g", "x">>}
MCFile(top, groups) == [top |-> top, groups |-> groups @@ [g \in MCGroups |-> <<>>]]
MCFiles  == {MCFile(<<G>>, G :> <<H, X>>), MCFile(<<H>>, H :> <<G, X>>), MCFile(<<X>>, <<>>)}

Interchangeable ==
  Permutations({D1, D2}) \cup Permutations({H1, H2, H3}) \cup Permutations({G, H})
=============================================================================
