--------------------------- MODULE LayerTreeClient ---------------------------
(***************************************************************************)
(* Clients of the layer hierarchy.  Spec (of LayerTree) is any client;     *)
(* CarefulSpec is a client that keeps two obligations the library does not *)
(* check: a layer it adds or moves is in the document or nobody's child,   *)
(* and a group is never put under itself.  The properties below say what   *)
(* each client may rely on.                                                *)
(***************************************************************************)
EXTENDS LayerTree

Unowned(l)    == Places(kids, l) = {}
Available(l)  == InFile(kids, Root, l) \/ Unowned(l)

\* The client's obligations.
MayAdd(l)     == Available(l)
MayMove(l, p) == Available(l) /\ p \notin LayersUnder(kids, l)

CarefulAdd(l)         == MayAdd(l) /\ AddLayer(l)
CarefulGroupAdd(g, l) == MayAdd(l) /\ g \notin Below(kids, l) /\ GroupAddLayer(g, l)
CarefulMove(l, p)     == MayMove(l, p) /\ MoveLayer(l, p)

CarefulMoveByPath(path, parentPath) ==
  /\ MayMove(FindLayer(path), FindLayer(parentPath))
  /\ MoveLayerByPath(path, parentPath)

CarefulNext ==
  \/ \E l \in Layers : CarefulAdd(l) \/ RemoveLayer(l)
  \/ \E l \in Layers, g \in Groups : CarefulGroupAdd(g, l) \/ GroupRemoveLayer(g, l)
  \/ \E l \in Layers, p \in Layers \cup {NoLayer} : CarefulMove(l, p)
  \/ \E g \in Groups : \E i \in 1..Len(kids[g]) : GroupRemoveIndex(g, i)
  \/ \E g \in Groups, n \in Range(NameOf) : GroupRemoveName(g, n)
  \/ \E path \in Paths : MoveLayerToRootByPath(path) \/ RemoveLayerByPath(path)
  \/ \E path, parentPath \in Paths : CarefulMoveByPath(path, parentPath)

CarefulSpec == Init /\ [][CarefulNext]_vars

-----------------------------------------------------------------------------
(* What a careful client may rely on.                                      *)

\* The lists of the document and of all groups, detached ones included, form
\* a forest: no layer has two places (add_layer and move_layer never leave a
\* second copy behind) and no group is below itself.
Forest == IsForest(kids)

Moved(l, p) == call' = Returned("move", l, p)

\* A move within the document keeps every layer of the document, and none
\* of them is taken from under its group: removing the layer and inserting
\* it again (move_layer) never loses the layer or what is below it.
MoveKeepsDocument ==
  [][\A l \in Layers, p \in Groups \cup {NoLayer} :
       (Moved(l, p) /\ InFile(kids, Root, l) /\ (p = NoLayer \/ InFile(kids, Root, p)))
         => /\ LayersUnder(kids', Root) = LayersUnder(kids, Root)
            /\ LayersUnder(kids', l) = LayersUnder(kids, l)]_vars

\* The siblings of a layer keep their order whatever call touches them: two
\* layers that share a parent before and after a step, and are not the layer
\* the call names, are in the same order (move_layer and remove_layer erase
\* by an index counted during the walk).
SiblingOrderKept ==
  [][\A p \in Parents : \A i, j \in 1..Len(kids[p]) :
       LET a == kids[p][i]
           b == kids[p][j]
       IN  (i < j /\ a # call'.layer /\ b # call'.layer)
             => \E m, n \in 1..Len(kids'[p]) :
                  m < n /\ kids'[p][m] = a /\ kids'[p][n] = b]_vars

\* Removing a layer from the document removes it with everything below it
\* and nothing else, and leaves the removed hierarchy whole for the client
\* that still holds it.
RemoveTakesTheSubtree ==
  [][\A l \in Layers :
       call' = Returned("remove", l, NoLayer)
         => /\ LayersUnder(kids', Root) = LayersUnder(kids, Root) \ Below(kids, l)
            /\ LayersUnder(kids', l) = LayersUnder(kids, l)]_vars

-----------------------------------------------------------------------------
(* What the documentation promises to any client.                          *)

\* "If the parentLayer is found to be under the layer it will issue a
\* warning and stop the insertion": a move of a layer of the document under
\* one of its own descendants changes nothing (move_layer, LayeredFile.h).
MoveUnderDescendantStops ==
  [][\A l \in Layers, p \in Layers :
       (Moved(l, p) /\ InFile(kids, Root, l) /\ p \in LayersUnder(kids, l))
         => UNCHANGED kids]_vars

\* "Cannot insert a layer into the document twice": add_layer of the document
\* and of a group never put a second copy of a layer into the document.
NoLayerTwice ==
  \A l \in Layers :
    Cardinality({s \in Range(Slots(kids, Root)) : At(kids, s) = l}) <= 1
=============================================================================
