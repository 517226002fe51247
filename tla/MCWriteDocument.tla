--------------------------- MODULE MCWriteDocument ---------------------------
(* Small instances of a write: a callback is new, or was left complete by an *)
(* earlier operation on fewer or on more layers.                             *)
EXTENDS WriteDocument

MCCallbacks == {<<0, 1>>, <<1, 1>>, <<5, 5>>, <<9, 9>>}
=============================================================================
