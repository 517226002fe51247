----------------------------- MODULE MCLayerTree -----------------------------
(* Small instances of the layer hierarchy: three groups, two of which share  *)
(* a name so that paths are ambiguous, and one plain layer.                 *)
EXTENDS LayerRecords

CONSTANTS G1, G2, G3, X

MCGroups == {G1, G2, G3}
MCLayers == MCGroups \cup {X}
MCNames  == (G1 :> "g") @@ (G2 :> "g") @@ (G3 :> "h") @@ (X :> "x")
MCPaths  == {<<"g">>, <<"g", "h">>, <<"g", "h", "x">>}
=============================================================================
