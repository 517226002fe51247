--------------------------- MODULE MCSmartObjects ---------------------------
(* Small instances of the smart objects: In and Out are two files of the     *)
(* same name, the second one in the directory of the written document, and   *)
(* Rel is a relative path to it.  Only the image in In has a Green channel.  *)
EXTENDS SmartObjects, TLC

CONSTANTS In, Out, Rel, Green

MCFiles      == {In, Out}
MCPaths      == MCFiles \cup {Rel}
MCAbsolute   == (In :> In) @@ (Out :> Out) @@ (Rel :> Out)
MCReadPath   == [p \in Paths |-> Out]
MCSamePath   == [p \in Paths |-> p]
MCChannelsOf == (In :> {Green}) @@ (Out :> {})
=============================================================================
