------------------------------ MODULE LayerTree ------------------------------
(***************************************************************************)
(* The layer hierarchy of a LayeredFile and the calls that edit it.        *)
(*                                                                         *)
(* The document (Root) and every GroupLayer own a list of layers.  A layer *)
(* that was removed from the document, or was never added to it, is still  *)
(* in the client's hands, and a detached group can be filled before it is  *)
(* added.  What the calls make of the lists is in Hierarchy.               *)
(***************************************************************************)
EXTENDS Hierarchy

CONSTANTS
  Root,        \* the document itself, parent of the top-level layers
  Paths        \* the paths the client may pass, as sequences of names

ASSUME LayerTreeAssumption ==
  /\ Root \notin Layers \cup {NoLayer}
  /\ NameOf \in [Layers -> Range(NameOf)]
  /\ Paths \subseteq Seq(Range(NameOf)) \ {<<>>}

VARIABLES
  kids,        \* the list of layers of the document and of every group
  call         \* the last call that returned: its name and its arguments

vars == <<kids, call>>

Parents == Groups \cup {Root}
Calls   == {"none", "add", "group_add", "move", "remove", "group_remove"}

LayerTreeTypeOK ==
  /\ kids \in [Parents -> Seq(Layers)]
  /\ call \in [op : Calls, layer : Layers \cup {NoLayer},
               parent : Layers \cup {Root, NoLayer}]

Returned(op, l, p) == [op |-> op, layer |-> l, parent |-> p]

-----------------------------------------------------------------------------
(* One action per call.  A call that would walk a cyclic hierarchy does    *)
(* not return, so no action is enabled once there is one.                  *)

Init ==
  /\ kids = [p \in Parents |-> <<>>]
  /\ call = Returned("none", NoLayer, NoLayer)

AddLayer(l) ==
  /\ ~Cyclic(kids)
  /\ kids' = Inserted(kids, Root, Root, l)
  /\ call' = Returned("add", l, Root)

GroupAddLayer(g, l) ==
  /\ ~Cyclic(kids)
  /\ kids' = Inserted(kids, Root, g, l)
  /\ call' = Returned("group_add", l, g)

MoveLayer(l, p) ==
  /\ ~Cyclic(kids)
  /\ kids' = Relocated(kids, Root, l, p)
  /\ call' = Returned("move", l, p)

RemoveLayer(l) ==
  /\ ~Cyclic(kids)
  /\ kids' = Removed(kids, Root, l)
  /\ call' = Returned("remove", l, NoLayer)

FindLayer(path) == Found(kids, Root, path)

\* The overloads that take paths; they throw when a path is not found.
MoveLayerByPath(path, parentPath) ==
  /\ FindLayer(path) # NoLayer
  /\ FindLayer(parentPath) # NoLayer
  /\ MoveLayer(FindLayer(path), FindLayer(parentPath))

MoveLayerToRootByPath(path) ==
  FindLayer(path) # NoLayer /\ MoveLayer(FindLayer(path), NoLayer)

RemoveLayerByPath(path) ==
  FindLayer(path) # NoLayer /\ RemoveLayer(FindLayer(path))

\* GroupLayer::remove_layer by index, by pointer and by name: the first slot
\* of the group's own list that matches.
GroupRemoveIndex(g, i) ==
  /\ i \in 1..Len(kids[g])
  /\ kids' = Erased(kids, <<g, i>>)
  /\ call' = Returned("group_remove", kids[g][i], g)

GroupRemoveFirst(g, matching) ==
  LET i == SelectInSeq(kids[g], LAMBDA l : l \in matching)
  IN  i # 0 /\ GroupRemoveIndex(g, i)

GroupRemoveLayer(g, l) == GroupRemoveFirst(g, {l})
GroupRemoveName(g, n)  == GroupRemoveFirst(g, {l \in Layers : NameOf[l] = n})

Next ==
  \/ \E l \in Layers : AddLayer(l) \/ RemoveLayer(l)
  \/ \E l \in Layers, g \in Groups : GroupAddLayer(g, l) \/ GroupRemoveLayer(g, l)
  \/ \E l \in Layers, p \in Layers \cup {NoLayer} : MoveLayer(l, p)
  \/ \E g \in Groups : \E i \in 1..Len(kids[g]) : GroupRemoveIndex(g, i)
  \/ \E g \in Groups, n \in Range(NameOf) : GroupRemoveName(g, n)
  \/ \E path \in Paths : MoveLayerToRootByPath(path) \/ RemoveLayerByPath(path)
  \/ \E path, parentPath \in Paths : MoveLayerByPath(path, parentPath)

Spec == Init /\ [][Next]_vars
=============================================================================
