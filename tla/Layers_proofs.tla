---------------------------- MODULE Layers_proofs ----------------------------
(***************************************************************************)
(* What TLAPS proves of the layers of a document.                          *)
(*                                                                         *)
(* Of their hierarchy, for any layers, groups, names and paths: the types  *)
(* for any client, and for a careful client that the lists are a forest,   *)
(* that moving and removing keep what they should, and that the records    *)
(* written for a document give the same lists back.  The lemmas about the  *)
(* walks and about the calls are in Hierarchy_proofs.                      *)
(*                                                                         *)
(* Of image layers, for layers and masks of every size, at every center,   *)
(* with every image data: what a layer is after a file.  The file is a     *)
(* function of the layer that was written, as long as it is not read: that *)
(* is the invariant.  The rest is about rounding: it moves an edge by half *)
(* a pixel at most, and edges of whole pixels, which is all a reader ever  *)
(* gets, by nothing.                                                       *)
(***************************************************************************)
EXTENDS LayerRecords, ImageLayers, Hierarchy_proofs

-----------------------------------------------------------------------------
(* Types.                                                                  *)

LEMMA TreeIsHierarchy ==
  ASSUME LayerTreeTypeOK
  PROVE  /\ IsHierarchy(kids)
         /\ DOMAIN kids = Parents
         /\ Groups \subseteq Layers
         /\ Root \in Parents
         /\ Root \notin Layers
         /\ NoLayer \notin Layers
         /\ NoLayer \notin Parents
BY HierarchyAssumption, LayerTreeAssumption DEF LayerTreeTypeOK, IsHierarchy, Parents

LEMMA HierarchyHasType ==
  ASSUME NEW k, IsHierarchy(k), DOMAIN k = Parents
  PROVE  k \in [Parents -> Seq(Layers)]
BY DEF IsHierarchy

\* A path that is found leads to a layer of the document.
LEMMA PathLeadsToLayer ==
  ASSUME LayerTreeTypeOK, NEW path \in Paths, FindLayer(path) # NoLayer
  PROVE  FindLayer(path) \in Layers /\ InFile(kids, Root, FindLayer(path))
<1>1. PICK k : k = kids
  OBVIOUS
<1>2. /\ IsHierarchy(k) /\ Root \in DOMAIN k /\ NoLayer \notin DOMAIN k
  BY <1>1, TreeIsHierarchy
<1>3. path \in Seq(Range(NameOf)) /\ path # <<>>
  BY LayerTreeAssumption
<1>4. Found(k, Root, path) # NoLayer
  BY <1>1 DEF FindLayer
<1>5. InFile(k, Root, Found(k, Root, path))
  BY <1>2, <1>3, <1>4, FoundIsInFile
<1>6. Found(k, Root, path) \in Layers
  BY <1>2, <1>5, Nested DEF InFile
<1> QED BY <1>1, <1>5, <1>6 DEF FindLayer

\* Every call leaves lists of layers behind, and the order of the layers in
\* them is kept but for the layer the call names.
LEMMA CallStep ==
  ASSUME LayerTreeTypeOK, Next
  PROVE  LayerTreeTypeOK' /\ KeepsOrder(kids, kids', call'.layer)
<1>1. PICK k : k = kids
  OBVIOUS
<1>2. /\ IsHierarchy(k) /\ DOMAIN k = Parents /\ Groups \subseteq Layers
      /\ Root \in DOMAIN k /\ Root \notin Layers /\ NoLayer \notin Layers
      /\ Groups \subseteq DOMAIN k
  BY <1>1, TreeIsHierarchy DEF Parents
<1> DEFINE Fine(k2, l) == IsHierarchy(k2) /\ DOMAIN k2 = DOMAIN k /\ KeepsOrder(k, k2, l)
<1>3. ASSUME NEW op \in Calls, NEW l \in Layers, NEW p \in Layers \cup {Root, NoLayer},
             call' = Returned(op, l, p), Fine(kids', l)
      PROVE  LayerTreeTypeOK' /\ KeepsOrder(kids, kids', call'.layer)
  <2>1. kids' \in [Parents -> Seq(Layers)]
    <3>1. PICK k2 : k2 = kids'
      OBVIOUS
    <3> QED BY <1>2, <1>3, <3>1, HierarchyHasType
  <2>2. call'.layer = l /\ call' \in [op : Calls, layer : Layers \cup {NoLayer},
                                      parent : Layers \cup {Root, NoLayer}]
    BY <1>3 DEF Returned
  <2> QED BY <1>1, <1>3, <2>1, <2>2 DEF LayerTreeTypeOK
<1>4. ASSUME NEW p \in DOMAIN k, NEW l \in Layers PROVE Fine(Inserted(k, Root, p, l), l)
  <2>1. PICK k2 : k2 = Inserted(k, Root, p, l)
    OBVIOUS
  <2>2. /\ IsHierarchy(k2) /\ DOMAIN k2 = DOMAIN k
        /\ \A q \in DOMAIN k : \A i \in 1..Len(k[q]) :
             i \in 1..Len(k2[q]) /\ k2[q][i] = k[q][i]
    BY <1>2, <2>1, InsertedLists
  <2>3. KeepsOrder(k, k2, l)
    BY <2>2 DEF KeepsOrder
  <2> QED BY <2>1, <2>2, <2>3
<1>5. \A l : Fine(Removed(k, Root, l), l)
  BY <1>2, RemovedLists
<1>6. \A l \in Layers : \A p : Fine(Relocated(k, Root, l, p), l)
  BY <1>2, RelocatedLists
<1>7. ASSUME NEW g \in DOMAIN k, NEW i \in 1..Len(k[g])
      PROVE  Fine(Erased(k, <<g, i>>), k[g][i]) /\ k[g][i] \in Layers
  <2>1. PICK s : s = <<g, i>>
    OBVIOUS
  <2>2. s[1] \in DOMAIN k /\ s[2] \in 1..Len(k[s[1]]) /\ At(k, s) = k[g][i]
    BY <2>1 DEF At
  <2>3. IsHierarchy(Erased(k, s)) /\ DOMAIN Erased(k, s) = DOMAIN k
    BY <1>2, <2>2, ErasedLists
  <2>4. KeepsOrder(k, Erased(k, s), At(k, s))
    BY <1>2, <2>2, ErasedKeepsOrder
  <2>5. k[g][i] \in Layers
    BY <1>2, GroupsHaveLists
  <2> QED BY <2>1, <2>2, <2>3, <2>4, <2>5
<1> HIDE DEF Fine
<1>8. {"none", "add", "group_add", "move", "remove", "group_remove"} = Calls
  BY DEF Calls
<1>9. ASSUME NEW l \in Layers, AddLayer(l)
      PROVE  LayerTreeTypeOK' /\ KeepsOrder(kids, kids', call'.layer)
  BY <1>1, <1>2, <1>3, <1>4, <1>8, <1>9 DEF AddLayer
<1>10. ASSUME NEW l \in Layers, RemoveLayer(l)
       PROVE  LayerTreeTypeOK' /\ KeepsOrder(kids, kids', call'.layer)
  BY <1>1, <1>2, <1>3, <1>5, <1>8, <1>10 DEF RemoveLayer
<1>11. ASSUME NEW l \in Layers, NEW g \in Groups, GroupAddLayer(g, l)
       PROVE  LayerTreeTypeOK' /\ KeepsOrder(kids, kids', call'.layer)
  BY <1>1, <1>2, <1>3, <1>4, <1>8, <1>11 DEF GroupAddLayer
<1>12. ASSUME NEW l \in Layers, NEW p \in Layers \cup {NoLayer}, MoveLayer(l, p)
       PROVE  LayerTreeTypeOK' /\ KeepsOrder(kids, kids', call'.layer)
  BY <1>1, <1>2, <1>3, <1>6, <1>8, <1>12 DEF MoveLayer
<1>13. ASSUME NEW g \in Groups, NEW i, GroupRemoveIndex(g, i)
       PROVE  LayerTreeTypeOK' /\ KeepsOrder(kids, kids', call'.layer)
  BY <1>1, <1>2, <1>3, <1>7, <1>8, <1>13 DEF GroupRemoveIndex
<1>14. ASSUME NEW path \in Paths, FindLayer(path) # NoLayer
       PROVE  FindLayer(path) \in Layers
  BY <1>14, PathLeadsToLayer
<1> QED
  BY <1>9, <1>10, <1>11, <1>12, <1>13, <1>14
     DEF Next, MoveLayerToRootByPath, RemoveLayerByPath, MoveLayerByPath,
         GroupRemoveLayer, GroupRemoveName, GroupRemoveFirst

LEMMA TypesAtFirst == Init => LayerTreeTypeOK
BY HierarchyAssumption, LayerTreeAssumption
   DEF Init, LayerTreeTypeOK, Returned, Calls, Parents

LEMMA TypesStep == LayerTreeTypeOK /\ [Next]_vars => LayerTreeTypeOK'
BY CallStep DEF vars, LayerTreeTypeOK

\* A careful client makes the calls any client makes.
LEMMA CarefulIsAClient == CarefulNext => Next
BY DEF CarefulNext, Next, CarefulAdd, CarefulGroupAdd, CarefulMove, CarefulMoveByPath

\* The lists hold layers, and the last call names layers and parents, whatever
\* the client does.
THEOREM TreeTypes == Spec => []LayerTreeTypeOK
BY TypesAtFirst, TypesStep, PTL DEF Spec

\* The siblings of a layer keep their order in every call of any client,
\* careful or not: remove_layer and move_layer erase the place they counted.
THEOREM SiblingsKeepOrder == Spec => SiblingOrderKept
<1>1. ASSUME LayerTreeTypeOK, Next, NEW p \in Parents,
             NEW i \in 1..Len(kids[p]), NEW j \in 1..Len(kids[p]),
             i < j, kids[p][i] # call'.layer, kids[p][j] # call'.layer
      PROVE  \E m, n \in 1..Len(kids'[p]) :
               m < n /\ kids'[p][m] = kids[p][i] /\ kids'[p][n] = kids[p][j]
  BY <1>1, CallStep, TreeIsHierarchy DEF KeepsOrder
<1>2. LayerTreeTypeOK /\ [Next]_vars
        => [\A p \in Parents : \A i, j \in 1..Len(kids[p]) :
              LET a == kids[p][i]
                  b == kids[p][j]
              IN  (i < j /\ a # call'.layer /\ b # call'.layer)
                    => \E m, n \in 1..Len(kids'[p]) :
                         m < n /\ kids'[p][m] = a /\ kids'[p][n] = b]_vars
  BY <1>1
<1> QED BY <1>2, TreeTypes, PTL DEF Spec, SiblingOrderKept

-----------------------------------------------------------------------------
(* What a careful client may rely on.                                      *)

\* A careful client is a client.
THEOREM CarefulImplementsAnyClient == CarefulSpec => Spec
<1>1. [CarefulNext]_vars => [Next]_vars
  BY CarefulIsAClient
<1> QED BY <1>1, PTL DEF CarefulSpec, Spec

\* No walk finds the document, and none but a group's finds anything.
LEMMA RootIsOnTop ==
  ASSUME NEW k, IsHierarchy(k), DOMAIN k = Parents, NEW l \in Layers
  PROVE  /\ Root \in DOMAIN k
         /\ Root \notin Below(k, l)
         /\ NoLayer \notin LayersUnder(k, l)
         /\ l \in DOMAIN k => l \in Groups
<1>1. LayersUnder(k, l) \subseteq Layers
  BY Nested
<1> QED BY <1>1, HierarchyAssumption, LayerTreeAssumption DEF Below, Parents

\* Every call of a careful client leaves a forest behind.
LEMMA CarefulStep ==
  ASSUME LayerTreeTypeOK, Forest, CarefulNext
  PROVE  Forest'
<1>1. PICK k : k = kids
  OBVIOUS
<1>2. /\ IsHierarchy(k) /\ DOMAIN k = Parents /\ IsForest(k)
      /\ Groups \subseteq Layers /\ Groups \subseteq DOMAIN k
      /\ Root \in DOMAIN k /\ Root \notin Layers
  BY <1>1, TreeIsHierarchy DEF Forest, Parents
<1>3. \A l \in Layers : Root \notin Below(k, l) /\ NoLayer \notin LayersUnder(k, l)
  BY <1>2, RootIsOnTop
<1>4. \A l \in Layers :
        MayAdd(l) => InFile(k, Root, l) \/ Places(k, l) = {}
  BY <1>1 DEF MayAdd, Available, Unowned
<1>5. ASSUME NEW p \in DOMAIN k, NEW l \in Layers,
             InFile(k, Root, l) \/ Places(k, l) = {}, p \notin Below(k, l)
      PROVE  IsForest(Inserted(k, Root, p, l))
  BY <1>2, <1>5, InsertedForest
<1>6. ASSUME NEW l \in Layers, RemoveLayer(l) PROVE Forest'
  <2>1. IsForest(Removed(k, Root, l))
    BY <1>2, RemovedForest
  <2> QED BY <1>1, <1>6, <2>1 DEF RemoveLayer, Forest
<1>7. ASSUME NEW l \in Layers, NEW p, MoveLayer(l, p),
             InFile(k, Root, l) \/ Places(k, l) = {}, p \notin LayersUnder(k, l)
      PROVE  Forest'
  <2>1. IsForest(Relocated(k, Root, l, p))
    BY <1>2, <1>7, RelocatedForest
  <2> QED BY <1>1, <1>7, <2>1 DEF MoveLayer, Forest
<1>8. ASSUME NEW g \in Groups, NEW i, GroupRemoveIndex(g, i) PROVE Forest'
  <2>1. PICK s : s = <<g, i>>
    OBVIOUS
  <2>2. s[1] \in DOMAIN k /\ s[2] \in 1..Len(k[s[1]])
    BY <1>1, <1>2, <1>8, <2>1 DEF GroupRemoveIndex
  <2>3. IsForest(Erased(k, s))
    BY <1>2, <2>2, ErasedForest
  <2> QED BY <1>1, <1>8, <2>1, <2>3 DEF GroupRemoveIndex, Forest
<1>9. ASSUME NEW l \in Layers, CarefulAdd(l) PROVE Forest'
  <2>1. IsForest(Inserted(k, Root, Root, l))
    BY <1>2, <1>3, <1>4, <1>5, <1>9 DEF CarefulAdd
  <2> QED BY <1>1, <1>9, <2>1 DEF CarefulAdd, AddLayer, Forest
<1>10. ASSUME NEW l \in Layers, NEW g \in Groups, CarefulGroupAdd(g, l) PROVE Forest'
  <2>1. IsForest(Inserted(k, Root, g, l))
    BY <1>1, <1>2, <1>4, <1>5, <1>10 DEF CarefulGroupAdd
  <2> QED BY <1>1, <1>10, <2>1 DEF CarefulGroupAdd, GroupAddLayer, Forest
<1>11. ASSUME NEW path \in Paths, FindLayer(path) # NoLayer
       PROVE  FindLayer(path) \in Layers /\ InFile(k, Root, FindLayer(path))
  BY <1>1, <1>11, PathLeadsToLayer
<1>12. ASSUME NEW l \in Layers, NEW p \in Layers \cup {NoLayer}, CarefulMove(l, p)
       PROVE  Forest'
  BY <1>1, <1>7, <1>12 DEF CarefulMove, MayMove, Available, Unowned
<1>13. ASSUME NEW path \in Paths, MoveLayerToRootByPath(path) PROVE Forest'
  BY <1>3, <1>7, <1>11, <1>13 DEF MoveLayerToRootByPath
<1>14. ASSUME NEW path \in Paths, NEW parentPath \in Paths,
              CarefulMoveByPath(path, parentPath)
       PROVE  Forest'
  BY <1>1, <1>7, <1>11, <1>14 DEF CarefulMoveByPath, MoveLayerByPath, MayMove
<1>15. ASSUME NEW path \in Paths, RemoveLayerByPath(path) PROVE Forest'
  BY <1>6, <1>11, <1>15 DEF RemoveLayerByPath
<1> QED
  BY <1>6, <1>8, <1>9, <1>10, <1>12, <1>13, <1>14, <1>15
     DEF CarefulNext, GroupRemoveLayer, GroupRemoveName, GroupRemoveFirst

\* At first nothing has a place.
LEMMA ForestAtFirst == Init => Forest
<1> SUFFICES ASSUME Init PROVE Forest
  OBVIOUS
<1>1. PICK k : k = kids
  OBVIOUS
<1>2. IsHierarchy(k) /\ \A p \in DOMAIN k : Len(k[p]) = 0 /\ Range(k[p]) = {}
  BY <1>1, TypesAtFirst, TreeIsHierarchy DEF Init, Range
<1>3. Unique(k)
  BY <1>2 DEF Unique
<1>4. ASSUME NEW g \in Groups PROVE LayersUnder(k, g) = {}
  <2>1. g \in DOMAIN k /\ Range(k[g]) \subseteq {} /\ Closed(k, {})
    BY <1>2, GroupsHaveLists DEF Closed, IsHierarchy
  <2> QED BY <1>2, <2>1, WalkFindsOnly
<1>5. IsForest(k)
  BY <1>2, <1>3, <1>4, ForestMeans DEF Cyclic
<1> QED BY <1>1, <1>5 DEF Forest

\* The lists of the document and of all groups are a forest as long as the
\* client is careful: neither add_layer nor move_layer leaves a second copy
\* of a layer behind, and no walk of the hierarchy is endless.
THEOREM HierarchyIsForest == CarefulSpec => []Forest
<1>1. Forest /\ LayerTreeTypeOK /\ [CarefulNext]_vars => Forest'
  BY CarefulStep DEF vars, Forest
<1> QED
  BY <1>1, ForestAtFirst, TreeTypes, CarefulImplementsAnyClient, PTL DEF CarefulSpec

\* What the last call was says which step it was, and that the client was
\* careful.
LEMMA CallMeans ==
  ASSUME LayerTreeTypeOK, CarefulNext, NEW l \in Layers, NEW p \in Layers \cup {NoLayer}
  PROVE  /\ call' = Returned("remove", l, NoLayer) => kids' = Removed(kids, Root, l)
         /\ Moved(l, p) => MayMove(l, p) /\ kids' = Relocated(kids, Root, l, p)
<1>1. PICK k : k = kids
  OBVIOUS
<1>2. IsHierarchy(k) /\ DOMAIN k = Parents
  BY <1>1, TreeIsHierarchy
<1>3. ASSUME NEW path \in Paths, FindLayer(path) # NoLayer
      PROVE  /\ FindLayer(path) \in Layers
             /\ MayMove(FindLayer(path), NoLayer)
  <2>1. FindLayer(path) \in Layers /\ InFile(kids, Root, FindLayer(path))
    BY <1>3, PathLeadsToLayer
  <2>2. NoLayer \notin LayersUnder(k, FindLayer(path))
    BY <1>2, <2>1, RootIsOnTop
  <2> QED BY <1>1, <2>1, <2>2 DEF MayMove, Available
<1>4. ASSUME NEW op2, NEW l2, NEW p2, call' = Returned(op2, l2, p2)
      PROVE  /\ call' = Returned("remove", l, NoLayer) => op2 = "remove" /\ l2 = l
             /\ Moved(l, p) => op2 = "move" /\ l2 = l /\ p2 = p
  BY <1>4 DEF Returned, Moved
<1> DEFINE Means ==
      /\ call' = Returned("remove", l, NoLayer) => kids' = Removed(kids, Root, l)
      /\ Moved(l, p) => MayMove(l, p) /\ kids' = Relocated(kids, Root, l, p)
<1>5. ASSUME NEW op2 \in {"add", "group_add", "group_remove"}, NEW l2, NEW p2,
             call' = Returned(op2, l2, p2)
      PROVE  Means
  BY <1>4, <1>5
<1>6. ASSUME NEW l2, RemoveLayer(l2) PROVE Means
  BY <1>4, <1>6 DEF RemoveLayer
<1>7. ASSUME NEW l2, NEW p2, MayMove(l2, p2), MoveLayer(l2, p2) PROVE Means
  BY <1>4, <1>7 DEF MoveLayer
<1> HIDE DEF Means
<1>8. ASSUME NEW l2, AddLayer(l2) PROVE Means
  BY <1>5, <1>8 DEF AddLayer
<1>9. ASSUME NEW l2, NEW g, GroupAddLayer(g, l2) PROVE Means
  BY <1>5, <1>9 DEF GroupAddLayer
<1>10. ASSUME NEW g, NEW i, GroupRemoveIndex(g, i) PROVE Means
  BY <1>5, <1>10 DEF GroupRemoveIndex
<1>11. ASSUME NEW path \in Paths, MoveLayerToRootByPath(path) PROVE Means
  BY <1>3, <1>7, <1>11 DEF MoveLayerToRootByPath
<1>12. Means
  BY <1>6, <1>7, <1>8, <1>9, <1>10, <1>11
     DEF CarefulNext, CarefulAdd, CarefulGroupAdd, CarefulMove, CarefulMoveByPath,
         MoveLayerByPath, RemoveLayerByPath, GroupRemoveLayer, GroupRemoveName,
         GroupRemoveFirst
<1> QED BY <1>12 DEF Means

\* Removing a layer from the document takes the layer and everything below it
\* from the document, nothing else, and leaves what is below it whole.
THEOREM RemovalTakesTheSubtree == CarefulSpec => RemoveTakesTheSubtree
<1>1. ASSUME LayerTreeTypeOK, Forest, CarefulNext, NEW l \in Layers,
             call' = Returned("remove", l, NoLayer)
      PROVE  /\ LayersUnder(kids', Root) = LayersUnder(kids, Root) \ Below(kids, l)
             /\ LayersUnder(kids', l) = LayersUnder(kids, l)
  <2>1. PICK k : k = kids
    OBVIOUS
  <2>2. PICK k2 : k2 = kids'
    OBVIOUS
  <2>3. /\ IsHierarchy(k) /\ DOMAIN k = Parents /\ IsForest(k) /\ Unique(k) /\ ~ Cyclic(k)
        /\ Root \in DOMAIN k
    BY <1>1, <2>1, TreeIsHierarchy, ForestMeans DEF Forest
  <2>4. k2 = Removed(k, Root, l)
    BY <1>1, <2>1, <2>2, CallMeans
  <2>5. /\ DOMAIN k2 = DOMAIN k
        /\ \A q \in DOMAIN k : LayersUnder(k2, q) = Without(k, Root, l, q)
    BY <2>3, <2>4, RemovedForest
  <2>6. l \notin LayersUnder(k, l) /\ Root \notin Below(k, l)
    BY <2>3, NotBelowItself, RootIsOnTop
  <2>7. LayersUnder(k2, l) = LayersUnder(k, l)
    <3>1. CASE l \in DOMAIN k
      BY <2>5, <2>6, <3>1 DEF Without
    <3>2. CASE l \notin DOMAIN k
      BY <2>5, <3>2 DEF LayersUnder
    <3> QED BY <3>1, <3>2
  <2>8. LayersUnder(k2, Root) = LayersUnder(k, Root) \ Below(k, l)
    <3>1. CASE l \in LayersUnder(k, Root)
      BY <2>3, <2>5, <3>1 DEF Without
    <3>2. CASE l \notin LayersUnder(k, Root)
      <4>1. ASSUME NEW y \in LayersUnder(k, Root), y \in LayersUnder(k, l) PROVE FALSE
        <5>1. l \in DOMAIN k
          BY <4>1 DEF LayersUnder
        <5>2. Root = l \/ Root \in LayersUnder(k, l) \/ l \in LayersUnder(k, Root)
          BY <2>3, <4>1, <5>1, WalksMeet
        <5> QED BY <2>6, <3>2, <5>2 DEF Below
      <4>2. LayersUnder(k, Root) \cap Below(k, l) = {}
        BY <3>2, <4>1 DEF Below
      <4> QED BY <2>3, <2>5, <3>2, <4>2 DEF Without
    <3> QED BY <3>1, <3>2
  <2> QED BY <2>1, <2>2, <2>7, <2>8
<1>2. LayerTreeTypeOK /\ Forest /\ [CarefulNext]_vars
        => [\A l \in Layers :
              call' = Returned("remove", l, NoLayer)
                => /\ LayersUnder(kids', Root) = LayersUnder(kids, Root) \ Below(kids, l)
                   /\ LayersUnder(kids', l) = LayersUnder(kids, l)]_vars
  BY <1>1
<1> QED
  BY <1>2, HierarchyIsForest, TreeTypes, CarefulImplementsAnyClient, PTL
     DEF CarefulSpec, RemoveTakesTheSubtree

\* Moving a layer within the document keeps every layer of the document and
\* what is below the one that moved.
THEOREM MovesKeepTheDocument == CarefulSpec => MoveKeepsDocument
<1>1. ASSUME LayerTreeTypeOK, Forest, CarefulNext,
             NEW l \in Layers, NEW p \in Groups \cup {NoLayer}, Moved(l, p),
             InFile(kids, Root, l), p = NoLayer \/ InFile(kids, Root, p)
      PROVE  /\ LayersUnder(kids', Root) = LayersUnder(kids, Root)
             /\ LayersUnder(kids', l) = LayersUnder(kids, l)
  <2>1. PICK k : k = kids
    OBVIOUS
  <2>2. PICK k2 : k2 = kids'
    OBVIOUS
  <2>3. /\ IsHierarchy(k) /\ DOMAIN k = Parents /\ IsForest(k) /\ ~ Cyclic(k)
        /\ Root \in DOMAIN k /\ Groups \subseteq DOMAIN k /\ Groups \subseteq Layers
        /\ NoLayer \notin Groups
    BY <1>1, <2>1, TreeIsHierarchy, ForestMeans DEF Forest, Parents
  <2>4. k2 = Relocated(k, Root, l, p) /\ p \notin LayersUnder(k, l)
    BY <1>1, <2>1, <2>2, <2>3, CallMeans DEF MayMove
  <2>5. l \in LayersUnder(k, Root) /\ (p = NoLayer \/ p \in LayersUnder(k, Root))
    BY <1>1, <2>1 DEF InFile
  <2>6. /\ l \notin LayersUnder(k, l) /\ Root \notin Below(k, l)
        /\ Below(k, l) \subseteq LayersUnder(k, Root)
    BY <2>3, <2>5, NotBelowItself, RootIsOnTop, Nested
  <2>7. ASSUME NEW q \in DOMAIN k, q \notin Below(k, l),
               q = Root \/ q \in LayersUnder(k, Root),
               k2 = Inserted(Removed(k, Root, l), Root, q, l)
        PROVE  /\ LayersUnder(k2, Root) = LayersUnder(k, Root)
               /\ LayersUnder(k2, l) = LayersUnder(k, l)
    <3>1. /\ DOMAIN k2 = DOMAIN k
          /\ \A r \in DOMAIN k :
               LayersUnder(k2, r) =
                 Without(k, Root, l, r) \cup
                 (IF r = q \/ q \in LayersUnder(k, r) THEN Below(k, l) ELSE {})
      <4>1. InFile(k, Root, l)
        BY <2>5 DEF InFile
      <4> QED BY <2>3, <2>7, <4>1, MovedForest
    <3>2. LayersUnder(k2, Root) = LayersUnder(k, Root)
      BY <2>3, <2>5, <2>6, <2>7, <3>1 DEF Without
    <3>3. LayersUnder(k2, l) = LayersUnder(k, l)
      <4>1. CASE l \in DOMAIN k
        BY <2>6, <2>7, <3>1, <4>1 DEF Without, Below
      <4>2. CASE l \notin DOMAIN k
        BY <3>1, <4>2 DEF LayersUnder
      <4> QED BY <4>1, <4>2
    <3> QED BY <3>2, <3>3
  <2>8. CASE p = NoLayer
    BY <2>3, <2>4, <2>6, <2>7, <2>8, <2>1, <2>2 DEF Relocated
  <2>9. CASE p \in Groups /\ IsMovingToInvalidHierarchy(k, l, p)
    BY <2>1, <2>2, <2>3, <2>4, <2>9 DEF Relocated
  <2>10. CASE p \in Groups /\ ~ IsMovingToInvalidHierarchy(k, l, p)
    <3>1. p # NoLayer /\ p \in DOMAIN k /\ p \notin Below(k, l) /\ p \in LayersUnder(k, Root)
      BY <2>3, <2>4, <2>5, <2>10 DEF Below, IsMovingToInvalidHierarchy
    <3>2. k2 = Inserted(Removed(k, Root, l), Root, p, l)
      BY <2>4, <2>10, <3>1 DEF Relocated
    <3> QED BY <2>1, <2>2, <2>7, <3>1, <3>2
  <2> QED BY <2>8, <2>9, <2>10
<1>2. LayerTreeTypeOK /\ Forest /\ [CarefulNext]_vars
        => [\A l \in Layers, p \in Groups \cup {NoLayer} :
              (Moved(l, p) /\ InFile(kids, Root, l) /\ (p = NoLayer \/ InFile(kids, Root, p)))
                => /\ LayersUnder(kids', Root) = LayersUnder(kids, Root)
                   /\ LayersUnder(kids', l) = LayersUnder(kids, l)]_vars
  BY <1>1
<1> QED
  BY <1>2, HierarchyIsForest, TreeTypes, CarefulImplementsAnyClient, PTL
     DEF CarefulSpec, MoveKeepsDocument

-----------------------------------------------------------------------------
(* The flat list.                                                          *)

Marks == Layers \cup {Divider}

Flat(k, n, p) == FlattenedToDepth(k, TRUE)[n][p]

\* The flat list of p, in a piece for each of its layers, when sub has the
\* flat lists of its groups.
FlatPieces(k, n, p, sub) ==
  [i \in 1..Len(k[p]) |->
     <<k[p][i]>> \o (IF n > 0 /\ k[p][i] \in Groups
                     THEN sub[k[p][i]] \o <<Divider>> ELSE <<>>)]

LEMMA FlatPiecesType ==
  ASSUME NEW k, IsHierarchy(k), NEW n \in Nat, NEW p \in DOMAIN k,
         NEW sub, n > 0 => sub \in [DOMAIN k -> Seq(Marks)]
  PROVE  /\ FlatPieces(k, n, p, sub) \in Seq(Seq(Marks))
         /\ Len(FlatPieces(k, n, p, sub)) = Len(k[p])
         /\ FlattenSeq(FlatPieces(k, n, p, sub)) \in Seq(Marks)
<1> DEFINE ps == FlatPieces(k, n, p, sub)
<1>1. k[p] \in Seq(Layers) /\ Len(k[p]) \in Nat /\ Groups \subseteq DOMAIN k
  BY DEF IsHierarchy
<1>2. ASSUME NEW i \in 1..Len(k[p]) PROVE ps[i] \in Seq(Marks)
  <2>1. <<k[p][i]>> \in Seq(Marks)
    BY <1>1 DEF Marks
  <2>2. CASE n > 0 /\ k[p][i] \in Groups
    <3>1. sub[k[p][i]] \in Seq(Marks) /\ <<Divider>> \in Seq(Marks)
      BY <1>1, <2>2 DEF Marks
    <3>2. sub[k[p][i]] \o <<Divider>> \in Seq(Marks)
      BY <3>1
    <3>3. ps[i] = <<k[p][i]>> \o (sub[k[p][i]] \o <<Divider>>)
      BY <2>2 DEF FlatPieces
    <3> QED BY <2>1, <3>2, <3>3
  <2>3. CASE ~ (n > 0 /\ k[p][i] \in Groups)
    <3>1. ps[i] = <<k[p][i]>> \o <<>>
      BY <2>3 DEF FlatPieces
    <3> QED BY <2>1, <3>1
  <2> QED BY <2>2, <2>3
<1>3. ps = [i \in 1..Len(k[p]) |-> ps[i]]
  BY DEF FlatPieces
<1> HIDE DEF ps
<1>4. ps \in Seq(Seq(Marks)) /\ Len(ps) = Len(k[p])
  BY <1>1, <1>2, <1>3
<1>5. FlattenSeq(ps) \in Seq(Marks)
  BY <1>4, RangeOfFlattened
<1> QED BY <1>4, <1>5 DEF ps

\* The flat list to depth n is made of the flat lists to depth n - 1.
LEMMA FlatStep ==
  ASSUME NEW k, IsHierarchy(k), DOMAIN k = Parents,
         NEW n \in 0..Cardinality(Groups), NEW p \in Parents
  PROVE  LET ps == FlatPieces(k, n, p, FlattenedToDepth(k, TRUE)[n - 1])
         IN  /\ ps \in Seq(Seq(Marks))
             /\ Len(ps) = Len(k[p])
             /\ Flat(k, n, p) = FlattenSeq(ps)
             /\ Flat(k, n, p) \in Seq(Marks)
<1> DEFINE N == Cardinality(Groups)
           V == [DOMAIN k -> Seq(Marks)]
           Body(w) == [m \in 0..N |->
             [q \in Parents |->
               FlattenSeq([i \in 1..Len(k[q]) |->
                 <<k[q][i]>> \o
                 (IF m > 0 /\ k[q][i] \in Groups
                  THEN w[m - 1][k[q][i]] \o (IF TRUE THEN <<Divider>> ELSE <<>>)
                  ELSE <<>>)])]]
           w == FlattenedToDepth(k, TRUE)
<1>1. w = CHOOSE u : u = Body(u)
  BY DEF FlattenedToDepth
<1>2. \E u : u = Body(u)
  <2> DEFINE none == [q \in DOMAIN k |-> <<>>]
             a == [q \in DOMAIN k |-> FlattenSeq(FlatPieces(k, 0, q, none))]
             F == [m \in Nat |-> [s \in V |->
                     [q \in DOMAIN k |-> FlattenSeq(FlatPieces(k, m, q, s))]]]
  <2>1. a \in V
    <3>1. ASSUME NEW q \in DOMAIN k
          PROVE  FlattenSeq(FlatPieces(k, 0, q, none)) \in Seq(Marks)
      BY 0 \in Nat, ~ (0 > 0), FlatPiecesType
    <3> QED BY <3>1
  <2>2. F \in [Nat -> [V -> V]]
    BY FlatPiecesType
  <2>3. N \in Nat
    BY GroupCount
  <2>4. ASSUME NEW m \in Nat, NEW s \in V
        PROVE  F[m][s] = [q \in DOMAIN k |-> FlattenSeq(FlatPieces(k, m, q, s))]
    OBVIOUS
  <2> HIDE DEF a, F, V, N
  <2>5. PICK f : Solves(f, V, a, F, N)
    BY <2>1, <2>2, <2>3, Recursion
  <2>6. f \in [0..N -> V] /\ f[0] = a /\ \A m \in 1..N : f[m] = F[m][f[m - 1]]
    BY <2>5 DEF Solves
  <2>7. ASSUME NEW m \in 0..N PROVE f[m] = Body(f)[m]
    <3>1. CASE m = 0
      <4>1. ASSUME NEW q \in DOMAIN k
            PROVE  FlatPieces(k, 0, q, none) = [i \in 1..Len(k[q]) |->
                     <<k[q][i]>> \o
                     (IF 0 > 0 /\ k[q][i] \in Groups
                      THEN f[0 - 1][k[q][i]] \o (IF TRUE THEN <<Divider>> ELSE <<>>)
                      ELSE <<>>)]
        BY DEF FlatPieces
      <4>2. Body(f)[0] = a
        BY <4>1, <2>3 DEF a
      <4> QED BY <4>2, <3>1, <2>6
    <3>2. CASE m # 0
      <4>1. m \in 1..N /\ m - 1 \in 0..N /\ m \in Nat
        BY <3>2, <2>3
      <4>2. f[m] = [q \in DOMAIN k |-> FlattenSeq(FlatPieces(k, m, q, f[m - 1]))]
        BY <4>1, <2>4, <2>6
      <4> QED BY <4>2 DEF FlatPieces
    <3> QED BY <3>1, <3>2
  <2>8. Body(f) = [m \in 0..N |-> Body(f)[m]] /\ f = [m \in 0..N |-> f[m]]
    BY <2>6
  <2> HIDE DEF Body
  <2>9. f = Body(f)
    BY <2>7, <2>8
  <2> QED BY <2>9
<1> HIDE DEF w
<1>3. w = Body(w)
  <2> HIDE DEF Body
  <2> QED BY <1>1, <1>2
<1>4. ASSUME NEW m \in 0..N, NEW q \in DOMAIN k
      PROVE  w[m][q] = FlattenSeq(FlatPieces(k, m, q, w[m - 1]))
  <2>1. w[m] = [r \in Parents |->
               FlattenSeq([i \in 1..Len(k[r]) |->
                 <<k[r][i]>> \o
                 (IF m > 0 /\ k[r][i] \in Groups
                  THEN w[m - 1][k[r][i]] \o (IF TRUE THEN <<Divider>> ELSE <<>>)
                  ELSE <<>>)])]
    BY <1>3, Zenon
  <2> HIDE DEF Body
  <2> QED BY <2>1, SMTT(20) DEF FlatPieces
<1>5. ASSUME NEW m \in 0..N, m > 0 => w[m - 1] \in V PROVE w[m] \in V
  <2>1. m \in Nat
    OBVIOUS
  <2>2. ASSUME NEW q \in DOMAIN k PROVE w[m][q] \in Seq(Marks)
    <3>1. FlattenSeq(FlatPieces(k, m, q, w[m - 1])) \in Seq(Marks)
      BY <1>5, <2>1, FlatPiecesType
    <3> QED BY <1>4, <3>1
  <2>3. w[m] = [q \in DOMAIN k |-> w[m][q]]
    BY <1>3
  <2> QED BY <2>2, <2>3
<1> HIDE DEF Body
<1>6. \A m \in 0..N : w[m] \in V
  <2> DEFINE S == {m \in Nat : m \in 0..N => w[m] \in V}
  <2>1. 0 \in S
    BY <1>5
  <2>2. ASSUME NEW m \in Nat, m \in S PROVE m + 1 \in S
    <3> SUFFICES ASSUME m + 1 \in 0..N PROVE w[m + 1] \in V
      OBVIOUS
    <3>1. m \in 0..N /\ (m + 1) - 1 = m
      BY GroupCount
    <3> QED BY <1>5, <2>2, <3>1
  <2> HIDE DEF S
  <2>3. Nat \subseteq S
    BY <2>1, <2>2, SetInduction
  <2> QED BY <2>3, GroupCount DEF S
<1>7. n \in Nat /\ (n > 0 => n - 1 \in 0..N)
  BY GroupCount
<1>8. n > 0 => w[n - 1] \in V
  BY <1>6, <1>7
<1>9. /\ FlatPieces(k, n, p, w[n - 1]) \in Seq(Seq(Marks))
      /\ Len(FlatPieces(k, n, p, w[n - 1])) = Len(k[p])
      /\ FlattenSeq(FlatPieces(k, n, p, w[n - 1])) \in Seq(Marks)
  BY <1>7, <1>8, FlatPiecesType
<1>10. w[n][p] = FlattenSeq(FlatPieces(k, n, p, w[n - 1]))
  BY <1>4
<1> QED BY <1>9, <1>10 DEF w, Flat

-----------------------------------------------------------------------------
(* The reader of a flat list.                                              *)

\* What is read from place i, when b says what is read from later ones.
ReadFrom(recs, b, i) ==
  IF i > Len(recs) \/ recs[i] = Divider
  THEN [list |-> <<>>, at |-> i, lists |-> {}]
  ELSE LET group == recs[i] \in Groups
           inner == b[i + 1]
           rest  == b[IF group THEN inner.at + 1 ELSE i + 1]
       IN  [list  |-> <<recs[i]>> \o rest.list,
            at    |-> rest.at,
            lists |-> (IF group THEN {<<recs[i], inner.list>>} \cup inner.lists ELSE {})
                        \cup rest.lists]

Reads(recs, b) == [i \in Nat \ {0} |-> ReadFrom(recs, b, i)]

\* From any place of any list something is read, since only what lies behind
\* is asked for.
LEMMA ReaderExists ==
  ASSUME NEW recs, Len(recs) \in Nat
  PROVE  \E b : b = Reads(recs, b)
<1> DEFINE L == Len(recs)
           Ahead(b, i) == b[i].at \in Nat /\ i <= b[i].at
           From(b, j) == \A i \in Nat \ {0} :
                           i > j => b[i] = ReadFrom(recs, b, i) /\ Ahead(b, i)
           S == {m \in Nat : m <= L => \E b : From(b, L - m)}
<1>1. 0 \in S
  <2> DEFINE b == [i \in Nat \ {0} |-> [list |-> <<>>, at |-> i, lists |-> {}]]
  <2>1. ASSUME NEW i \in Nat \ {0}, i > L
        PROVE  b[i] = ReadFrom(recs, b, i) /\ Ahead(b, i)
    <3>1. b[i] = [list |-> <<>>, at |-> i, lists |-> {}]
      OBVIOUS
    <3> HIDE DEF b
    <3>2. ReadFrom(recs, b, i) = [list |-> <<>>, at |-> i, lists |-> {}]
      BY <2>1 DEF ReadFrom
    <3> QED BY <3>1, <3>2
  <2> HIDE DEF b, Ahead
  <2>2. From(b, L - 0)
    BY <2>1, L - 0 = L
  <2> QED BY <2>2
<1>2. ASSUME NEW m \in Nat, m \in S PROVE m + 1 \in S
  <2> SUFFICES ASSUME m + 1 <= L PROVE \E b : From(b, L - (m + 1))
    OBVIOUS
  <2>1. PICK q \in Nat \ {0} : q = L - m /\ q - 1 = L - (m + 1)
    OBVIOUS
  <2>2. PICK b : From(b, q)
    <3>1. \E b : From(b, L - m)
      <4> HIDE DEF From
      <4> QED BY <1>2
    <3> HIDE DEF From
    <3> QED BY <2>1, <3>1
  <2>3. \A i \in Nat \ {0} : i > q => b[i] = ReadFrom(recs, b, i) /\ Ahead(b, i)
    BY <2>2
  <2> DEFINE c == [i \in Nat \ {0} |-> IF i = q THEN ReadFrom(recs, b, q) ELSE b[i]]
  <2>4. /\ c[q] = ReadFrom(recs, b, q)
        /\ \A i \in Nat \ {0} : i > q => c[i] = b[i]
    BY SMTT(20)
  <2> HIDE DEF c
  <2>5. ASSUME NEW i \in Nat \ {0}, i >= q
        PROVE  ReadFrom(recs, c, i) = ReadFrom(recs, b, i)
    <3>1. c[i + 1] = b[i + 1] /\ Ahead(b, i + 1)
      BY <2>3, <2>4, <2>5, i + 1 \in Nat \ {0}, i + 1 > q
    <3>2. b[i + 1].at + 1 \in Nat \ {0} /\ b[i + 1].at + 1 > q
      BY <2>5, <3>1
    <3>3. c[b[i + 1].at + 1] = b[b[i + 1].at + 1]
      BY <2>4, <3>2
    <3> QED BY <3>1, <3>3 DEF ReadFrom
  <2>6. Ahead(c, q)
    <3>1. CASE q > Len(recs) \/ recs[q] = Divider
      <4>1. ReadFrom(recs, b, q).at = q
        BY <3>1 DEF ReadFrom
      <4> QED BY <2>4, <4>1
    <3>2. CASE ~ (q > Len(recs) \/ recs[q] = Divider)
      <4>1. Ahead(b, q + 1)
        BY <2>3, q + 1 \in Nat \ {0}, q + 1 > q
      <4>2. b[q + 1].at + 1 \in Nat \ {0} /\ b[q + 1].at + 1 > q
        BY <4>1
      <4>3. Ahead(b, b[q + 1].at + 1)
        BY <2>3, <4>2
      <4>4. CASE recs[q] \in Groups
        <5>1. ReadFrom(recs, b, q).at = b[b[q + 1].at + 1].at
          BY <3>2, <4>4 DEF ReadFrom
        <5> QED BY <2>4, <4>2, <4>3, <5>1
      <4>5. CASE recs[q] \notin Groups
        <5>1. ReadFrom(recs, b, q).at = b[q + 1].at
          BY <3>2, <4>5 DEF ReadFrom
        <5> QED BY <2>4, <4>1, <5>1
      <4> QED BY <4>4, <4>5
    <3> QED BY <3>1, <3>2
  <2>7. ASSUME NEW i \in Nat \ {0}, i > q - 1
        PROVE  c[i] = ReadFrom(recs, c, i) /\ Ahead(c, i)
    <3>1. CASE i = q
      BY <2>4, <2>5, <2>6, <3>1
    <3>2. CASE i > q
      <4>1. c[i] = b[i] /\ b[i] = ReadFrom(recs, b, i) /\ Ahead(b, i)
        BY <2>3, <2>4, <3>2
      <4> QED BY <2>5, <3>2, <4>1
    <3> QED BY <2>7, <3>1, <3>2
  <2>8. From(c, L - (m + 1))
    <3> HIDE DEF Ahead
    <3> QED BY <2>1, <2>7
  <2> QED BY <2>8
<1> HIDE DEF S, Ahead
<1>3. Nat \subseteq S
  BY <1>1, <1>2, SetInduction
<1>4. PICK b : From(b, 0)
  <2>1. L \in S /\ L <= L /\ L - L = 0
    BY <1>3
  <2>2. \E b : From(b, L - L)
    <3> HIDE DEF From
    <3> QED BY <2>1 DEF S
  <2> HIDE DEF From
  <2> QED BY <2>1, <2>2
<1> DEFINE c == [i \in Nat \ {0} |-> b[i]]
<1>5. ASSUME NEW i \in Nat \ {0} PROVE c[i] = ReadFrom(recs, c, i)
  <2>1. b[i] = ReadFrom(recs, b, i) /\ Ahead(b, i + 1)
    BY <1>4, i > 0, i + 1 \in Nat \ {0}, i + 1 > 0
  <2>2. b[i + 1].at + 1 \in Nat \ {0} /\ i + 1 \in Nat \ {0}
    BY <2>1, SMTT(20) DEF Ahead
  <2>3. c[i] = b[i] /\ c[i + 1] = b[i + 1] /\ c[b[i + 1].at + 1] = b[b[i + 1].at + 1]
    BY <2>2
  <2> HIDE DEF c
  <2>4. ReadFrom(recs, c, i) = ReadFrom(recs, b, i)
    BY <2>3 DEF ReadFrom
  <2> QED BY <2>1, <2>3, <2>4
<1>6. c = Reads(recs, c)
  <2>1. c = [i \in Nat \ {0} |-> c[i]]
    OBVIOUS
  <2> HIDE DEF c
  <2> QED BY <1>5, <2>1 DEF Reads
<1> QED BY <1>6

LEMMA ReversedTwice ==
  ASSUME NEW T, NEW s \in Seq(T)
  PROVE  Reverse(Reverse(s)) = s
<1>1. PICK n \in Nat : n = Len(s)
  OBVIOUS
<1> DEFINE r == [i \in 1..n |-> s[(n - i) + 1]]
<1>2. Reverse(s) = r /\ Len(r) = n
  BY <1>1 DEF Reverse
<1>3. Reverse(r) = [i \in 1..n |-> r[(n - i) + 1]]
  <2> HIDE DEF r
  <2> QED BY <1>2 DEF Reverse
<1>4. ASSUME NEW i \in 1..n PROVE r[(n - i) + 1] = s[i]
  <2>1. (n - i) + 1 \in 1..n /\ (n - ((n - i) + 1)) + 1 = i
    OBVIOUS
  <2> QED BY <2>1
<1> HIDE DEF r
<1>5. Reverse(r) = [i \in 1..n |-> s[i]]
  BY <1>3, <1>4
<1>6. s = [i \in 1..n |-> s[i]]
  BY <1>1
<1> QED BY <1>2, <1>5, <1>6

\* The records of a tree are its flat list, and what is built of them is what
\* a reader finds from the first place on.
LEMMA BuiltMeans ==
  ASSUME NEW k, Flattened(k, TRUE) \in Seq(Marks)
  PROVE  \E b : /\ b = Reads(Flattened(k, TRUE), b)
                /\ Built(Records(k)) = {<<Root, b[1].list>>} \cup b[1].lists
<1>1. PICK flat \in Seq(Marks) : flat = Flattened(k, TRUE)
  OBVIOUS
<1>2. Reverse(Reverse(flat)) = flat
  BY ReversedTwice
<1>3. Reverse(Records(k)) = flat
  BY <1>1, <1>2 DEF Records
<1> DEFINE b == CHOOSE c : c = Reads(flat, c)
<1>4. b = Reads(flat, b)
  <2>1. \E c : c = Reads(flat, c)
    BY ReaderExists
  <2> QED BY <2>1
<1>5. Built(Records(k)) = {<<Root, b[1].list>>} \cup b[1].lists
  BY <1>3 DEF Built, Reads, ReadFrom
<1> HIDE DEF b
<1> QED BY <1>1, <1>4, <1>5

-----------------------------------------------------------------------------
(* Reading the flat list of a tree.                                        *)

\* The list recs has s behind its o-th place.
Holds(recs, o, s) ==
  /\ o + Len(s) <= Len(recs)
  /\ \A t \in 1..Len(s) : recs[o + t] = s[t]

Ends(recs, i) == i > Len(recs) \/ recs[i] = Divider

\* The groups of S with their lists.
ListsOf(k, S) == {<<g, k[g]>> : g \in Groups \cap S}

\* A walk to depth n is deep enough below p.
Deep(k, n, p) == Cardinality(Groups \cap LayersUnder(k, p)) <= n

\* Wherever the flat list of a parent is, it is read as the parent's list and
\* those of the groups below it.
ReadToDepth(k, recs, b, n) ==
  \A p \in Parents, o \in Nat :
    (Deep(k, n, p) /\ Holds(recs, o, Flat(k, n, p)) /\ Ends(recs, o + Len(Flat(k, n, p)) + 1))
      => b[o + 1] = [list  |-> k[p],
                     at    |-> o + Len(Flat(k, n, p)) + 1,
                     lists |-> ListsOf(k, LayersUnder(k, p))]

\* Below a group of the list there is at least one group less.
LEMMA DeepStep ==
  ASSUME NEW k, IsHierarchy(k), ~ Cyclic(k), NEW n \in Nat, NEW p \in DOMAIN k,
         Deep(k, n, p), NEW g \in Groups, g \in Range(k[p])
  PROVE  n > 0 /\ Deep(k, n - 1, g)
<1> DEFINE G(q) == Groups \cap LayersUnder(k, q)
<1>1. g \in LayersUnder(k, p) /\ g \notin LayersUnder(k, g)
  BY WalkFindsAll DEF Cyclic
<1>2. LayersUnder(k, g) \subseteq LayersUnder(k, p)
  BY <1>1, Nested DEF Below
<1>3. /\ \A q : IsFiniteSet(G(q)) /\ Cardinality(G(q)) \in Nat
  <2>1. ASSUME NEW q PROVE IsFiniteSet(G(q)) /\ Cardinality(G(q)) \in Nat
    <3>1. G(q) \subseteq Groups
      OBVIOUS
    <3> HIDE DEF G
    <3> QED BY <3>1, GroupCount, FS_Subset, FS_CardinalityType
  <2> QED BY <2>1
<1>4. g \notin G(g) /\ G(g) \cup {g} \subseteq G(p)
  BY <1>1, <1>2
<1>5. Cardinality(G(p)) <= n
  BY DEF Deep
<1>6. Deep(k, n - 1, g) <=> Cardinality(G(g)) <= n - 1
  BY DEF Deep
<1> HIDE DEF G
<1>7. Cardinality(G(g) \cup {g}) = Cardinality(G(g)) + 1
  BY <1>3, <1>4, FS_AddElement
<1>8. Cardinality(G(g) \cup {g}) <= Cardinality(G(p))
  BY <1>3, <1>4, FS_Subset
<1>9. Cardinality(G(g)) \in Nat /\ Cardinality(G(p)) \in Nat
  BY <1>3
<1> QED BY <1>5, <1>6, <1>7, <1>8, <1>9

\* What is below p is what is in its list, and what is below that.
LEMMA BelowList ==
  ASSUME NEW k, IsHierarchy(k), NEW p \in DOMAIN k
  PROVE  LayersUnder(k, p) = UNION {Below(k, k[p][j]) : j \in 1..Len(k[p])}
<1> DEFINE U == UNION {Below(k, k[p][j]) : j \in 1..Len(k[p])}
<1>1. k[p] \in Seq(Layers) /\ Range(k[p]) = {k[p][j] : j \in 1..Len(k[p])}
  BY DEF IsHierarchy, Range
<1>2. U \subseteq LayersUnder(k, p)
  <2>1. ASSUME NEW j \in 1..Len(k[p]) PROVE Below(k, k[p][j]) \subseteq LayersUnder(k, p)
    <3>1. Range(k[p]) \subseteq LayersUnder(k, p)
      BY WalkFindsAll
    <3>2. k[p][j] \in LayersUnder(k, p)
      BY <1>1, <3>1
    <3> QED BY <3>2, Nested
  <2> QED BY <2>1
<1>3. Range(k[p]) \subseteq U
  BY <1>1 DEF Below
<1>4. Closed(k, U)
  <2> SUFFICES ASSUME NEW g \in Groups, NEW j \in 1..Len(k[p]), g \in Below(k, k[p][j])
               PROVE  Range(k[g]) \subseteq Below(k, k[p][j])
    BY DEF Closed
  <2>1. g \in DOMAIN k /\ Range(k[g]) \subseteq LayersUnder(k, g)
    BY WalkFindsAll DEF IsHierarchy
  <2>2. CASE g = k[p][j]
    BY <2>1, <2>2 DEF Below
  <2>3. CASE g \in LayersUnder(k, k[p][j])
    BY <2>1, <2>3, Nested DEF Below
  <2> QED BY <2>2, <2>3 DEF Below
<1> HIDE DEF U
<1>5. LayersUnder(k, p) \subseteq U
  BY <1>3, <1>4, WalkFindsOnly
<1> QED BY <1>2, <1>5 DEF U

\* The piece of a group: the group, its flat list and the divider.
LEMMA GroupPiece ==
  ASSUME NEW T, NEW x \in T, NEW d \in T, NEW inner \in Seq(T),
         NEW piece, piece = <<x>> \o (inner \o <<d>>)
  PROVE  /\ Len(piece) = Len(inner) + 2
         /\ piece[1] = x
         /\ \A t \in 1..Len(inner) : piece[1 + t] = inner[t]
         /\ piece[Len(inner) + 2] = d
<1>1. PICK M \in Nat : M = Len(inner)
  OBVIOUS
<1>2. PICK closed \in Seq(T) : closed = inner \o <<d>>
  <2>1. inner \o <<d>> \in Seq(T)
    OBVIOUS
  <2> QED BY <2>1
<1>3. Len(closed) = M + 1 /\ closed[M + 1] = d
  BY <1>1, <1>2
<1>4. \A t \in 1..M : closed[t] = inner[t]
  BY <1>1, <1>2
<1>5. piece = <<x>> \o closed
  BY <1>2
<1>6. Len(piece) = (M + 1) + 1 /\ piece[1] = x
  BY <1>3, <1>5
<1>7. ASSUME NEW t \in 1..(M + 1) PROVE piece[1 + t] = closed[t]
  <2>1. PICK u \in Nat : u = 1 + t /\ u - 1 = t /\ 1 < u /\ u <= (M + 1) + 1
    OBVIOUS
  <2>2. piece[u] = closed[u - 1]
    BY <1>3, <1>5, <2>1
  <2> QED BY <2>1, <2>2
<1>8. ASSUME NEW t \in 1..M PROVE piece[1 + t] = inner[t]
  <2>1. t \in 1..(M + 1)
    OBVIOUS
  <2>2. piece[1 + t] = closed[t]
    BY <1>7, <2>1
  <2> QED BY <1>4, <2>2, Zenon
<1>9. M + 1 \in 1..(M + 1) /\ 1 + (M + 1) = M + 2 /\ (M + 1) + 1 = M + 2
  OBVIOUS
<1>10. piece[M + 2] = d
  BY <1>3, <1>7, <1>9
<1> QED BY <1>1, <1>6, <1>8, <1>9, <1>10

\* No place is behind the last one.
LEMMA PlacesAscend ==
  ASSUME NEW N \in Nat, NEW off \in [1..(N + 1) -> Nat],
         \A i \in 1..N : off[i] <= off[i + 1],
         NEW i \in 1..(N + 1)
  PROVE  off[i] <= off[N + 1]
<1> DEFINE S == {m \in Nat : \A j \in 1..(N + 1) : j + m = N + 1 => off[j] <= off[N + 1]}
<1>1. 0 \in S
  <2>1. off[N + 1] <= off[N + 1]
    BY N + 1 \in 1..(N + 1)
  <2> QED BY <2>1
<1>2. ASSUME NEW m \in Nat, m \in S PROVE m + 1 \in S
  <2> SUFFICES ASSUME NEW j \in 1..(N + 1), j + (m + 1) = N + 1
               PROVE  off[j] <= off[N + 1]
    OBVIOUS
  <2>1. j \in 1..N /\ j + 1 \in 1..(N + 1) /\ (j + 1) + m = N + 1
    OBVIOUS
  <2>2. off[j] <= off[j + 1] /\ off[j + 1] <= off[N + 1]
    BY <1>2, <2>1
  <2>3. off[j] \in Nat /\ off[j + 1] \in Nat /\ off[N + 1] \in Nat
    BY <2>1, N + 1 \in 1..(N + 1)
  <2> QED BY <2>2, <2>3
<1> HIDE DEF S
<1>3. Nat \subseteq S
  BY <1>1, <1>2, SetInduction
<1>4. PICK m \in Nat : i + m = N + 1
  <2>1. (N + 1) - i \in Nat /\ i + ((N + 1) - i) = N + 1
    OBVIOUS
  <2> QED BY <2>1
<1> QED BY <1>3, <1>4 DEF S

\* If the lists of groups are read as they should, so are those that have
\* groups in them: read from its end to its start.
LEMMA LevelIsRead ==
  ASSUME NEW k, IsHierarchy(k), DOMAIN k = Parents, ~ Cyclic(k),
         NEW recs \in Seq(Marks), NEW b, b = Reads(recs, b),
         NEW n \in 0..Cardinality(Groups), n > 0 => ReadToDepth(k, recs, b, n - 1)
  PROVE  ReadToDepth(k, recs, b, n)
<1> SUFFICES ASSUME NEW p \in Parents, NEW o \in Nat, Deep(k, n, p),
                    Holds(recs, o, Flat(k, n, p)),
                    Ends(recs, o + Len(Flat(k, n, p)) + 1)
             PROVE  b[o + 1] = [list  |-> k[p],
                                at    |-> o + Len(Flat(k, n, p)) + 1,
                                lists |-> ListsOf(k, LayersUnder(k, p))]
  BY DEF ReadToDepth
<1> DEFINE sub == FlattenedToDepth(k, TRUE)[n - 1]
<1>1. PICK ps \in Seq(Seq(Marks)) : ps = FlatPieces(k, n, p, sub)
  BY FlatStep
<1>2. PICK flat \in Seq(Marks) : flat = Flat(k, n, p)
  BY FlatStep
<1>3. Len(ps) = Len(k[p]) /\ flat = FlattenSeq(ps)
  BY <1>1, <1>2, FlatStep
<1>4. PICK s \in Seq(Layers) : s = k[p]
  BY DEF IsHierarchy
<1>5. PICK N \in Nat : N = Len(s)
  OBVIOUS
<1>6. PICK off \in [1..(N + 1) -> Nat] :
        /\ off[1] = 0
        /\ off[N + 1] = Len(flat)
        /\ \A i \in 1..N :
             /\ off[i + 1] = off[i] + Len(ps[i])
             /\ \A t \in 1..Len(ps[i]) : flat[off[i] + t] = ps[i][t]
  <2>1. Len(ps) = N
    BY <1>3, <1>4, <1>5
  <2>2. \E c \in [1..(Len(ps) + 1) -> Nat] :
          /\ c[1] = 0
          /\ c[Len(ps) + 1] = Len(FlattenSeq(ps))
          /\ \A i \in 1..Len(ps) :
               /\ c[i + 1] = c[i] + Len(ps[i])
               /\ \A t \in 1..Len(ps[i]) : FlattenSeq(ps)[c[i] + t] = ps[i][t]
    BY PlacesInFlattened, ZenonT(30)
  <2> QED BY <1>3, <2>1, <2>2
<1>7. PICK e \in Nat : e = o + Len(flat) + 1
  OBVIOUS
<1> DEFINE under(i) == UNION {Below(k, s[j]) : j \in i..N}
           rest(i)  == [list |-> SubSeq(s, i, N), at |-> e, lists |-> ListsOf(k, under(i))]
           S == {m \in Nat : m <= N => b[o + off[(N + 1) - m] + 1] = rest((N + 1) - m)}
<1>8. \A i \in Nat \ {0} : b[i] = ReadFrom(recs, b, i)
  BY DEF Reads
<1>9. 0 \in S
  <2>1. /\ (N + 1) - 0 = N + 1 /\ o + off[N + 1] + 1 = e /\ e \in Nat \ {0}
        /\ Ends(recs, e)
    BY <1>2, <1>6, <1>7
  <2>2. b[e] = [list |-> <<>>, at |-> e, lists |-> {}]
    BY <1>8, <2>1 DEF ReadFrom, Ends
  <2>3. SubSeq(s, N + 1, N) = <<>>
    OBVIOUS
  <2>4. ListsOf(k, under(N + 1)) = {}
    <3>1. (N + 1)..N = {}
      OBVIOUS
    <3> QED BY <3>1 DEF ListsOf
  <2>5. rest(N + 1) = b[e]
    BY <2>2, <2>3, <2>4
  <2> HIDE DEF rest
  <2> QED BY <2>1, <2>5
<1>10. ASSUME NEW i \in 1..N, b[o + off[i + 1] + 1] = rest(i + 1)
       PROVE  b[o + off[i] + 1] = rest(i)
  <2>1. PICK c \in Nat, d \in Nat, F \in Nat, R \in Nat :
          c = off[i] /\ d = off[i + 1] /\ F = Len(flat) /\ R = Len(recs)
    <3>1. off[i] \in Nat /\ off[i + 1] \in Nat
      BY i \in 1..(N + 1), i + 1 \in 1..(N + 1)
    <3>2. Len(flat) \in Nat /\ Len(recs) \in Nat
      OBVIOUS
    <3> QED BY <3>1, <3>2, Zenon
  <2>2. PICK piece \in Seq(Marks) : piece = ps[i]
    BY <1>3, <1>4, <1>5
  <2>3. PICK x \in Layers : x = s[i]
    BY <1>5
  <2>4. PICK L \in Nat : L = Len(piece) /\ d = c + L
    BY <1>6, <2>1, <2>2, SMTT(20)
  <2>5. d <= F
    <3>1. ASSUME NEW j \in 1..N PROVE off[j] <= off[j + 1]
      <4>1. ps[j] \in Seq(Marks)
        BY <1>3, <1>4, <1>5
      <4>2. Len(ps[j]) \in Nat /\ off[j + 1] = off[j] + Len(ps[j])
        BY <1>6, <4>1, SMTT(20)
      <4>3. PICK u \in Nat, v \in Nat : u = off[j] /\ v = Len(ps[j])
        <5>1. off[j] \in Nat
          BY j \in 1..(N + 1)
        <5> QED BY <4>2, <5>1, Zenon
      <4>4. off[j + 1] = u + v
        BY <4>2, <4>3
      <4>5. u <= u + v
        OBVIOUS
      <4> QED BY <4>3, <4>4, <4>5, Zenon
    <3>2. off[i + 1] <= off[N + 1]
      BY <3>1, PlacesAscend, i + 1 \in 1..(N + 1)
    <3> QED BY <1>6, <2>1, <3>2
  <2>6. PICK q \in Nat \ {0} : q = o + c + 1
    OBVIOUS
  <2>7. /\ o + F <= R
        /\ \A t \in 1..L : recs[o + (c + t)] = piece[t]
    <3>1. o + F <= R /\ \A t \in 1..F : recs[o + t] = flat[t]
      BY <1>2, <2>1 DEF Holds
    <3>2. ASSUME NEW t \in 1..L PROVE recs[o + (c + t)] = piece[t]
      <4>1. flat[c + t] = piece[t]
        BY <1>6, <2>1, <2>2, <2>4
      <4>2. c + t \in 1..F
        BY <2>4, <2>5
      <4> QED BY <3>1, <4>1, <4>2
    <3> QED BY <3>1, <3>2
  <2>8. b[q] = ReadFrom(recs, b, q)
    BY <1>8
  <2>9. x # Divider
    BY DividerAssumption
  <2>10. SubSeq(s, i, N) = <<x>> \o SubSeq(s, i + 1, N)
    BY <1>5, <2>3
  <2>11. under(i) = Below(k, x) \cup under(i + 1)
    <3>1. i..N = {i} \cup ((i + 1)..N)
      BY SMTT(20)
    <3> QED BY <2>3, <3>1
  <2>12. b[o + d + 1] = rest(i + 1)
    BY <1>10, <2>1
  <2> HIDE DEF under, S
  <2>13. CASE x \notin Groups
    <3>1. piece = <<x>> \o <<>>
      BY <1>1, <1>4, <1>5, <2>2, <2>3, <2>13 DEF FlatPieces
    <3>2. Len(piece) = 1 /\ piece[1] = x
      BY <3>1
    <3>3. recs[q] = x /\ q <= Len(recs)
      <4>1. L = 1 /\ 1 \in 1..L /\ o + (c + 1) = q /\ q <= R
        BY <2>4, <2>5, <2>6, <2>7, <3>2
      <4> QED BY <2>1, <2>7, <3>2, <4>1
    <3>4. b[q + 1] = rest(i + 1)
      <4>1. q + 1 = o + d + 1
        BY <2>4, <2>6, <3>2
      <4> QED BY <2>12, <4>1
    <3>5. b[q] = [list |-> <<x>> \o b[q + 1].list, at |-> b[q + 1].at,
                  lists |-> {} \cup b[q + 1].lists]
      BY <2>8, <2>9, <2>13, <3>3 DEF ReadFrom
    <3>6. b[q] = [list |-> <<x>> \o SubSeq(s, i + 1, N), at |-> e,
                  lists |-> ListsOf(k, under(i + 1))]
      BY <3>4, <3>5
    <3>7. ListsOf(k, under(i)) = ListsOf(k, under(i + 1))
      <4>1. Groups \cap Below(k, x) = {}
        <5>1. x \notin DOMAIN k
          BY <2>13, LayerTreeAssumption DEF Parents
        <5> QED BY <2>13, <5>1 DEF Below, LayersUnder
      <4> QED BY <2>11, <4>1 DEF ListsOf
    <3> QED BY <2>1, <2>6, <2>10, <3>6, <3>7
  <2>14. CASE x \in Groups
    <3>1. n > 0 /\ n - 1 \in Nat /\ n - 1 \in 0..Cardinality(Groups) /\ Deep(k, n - 1, x)
      <4>1. x \in Range(k[p])
        <5>1. i \in DOMAIN k[p] /\ x = k[p][i]
          BY <1>4, <1>5, <2>3
        <5> QED BY <5>1 DEF Range
      <4>2. n \in Nat
        OBVIOUS
      <4>3. n > 0 /\ Deep(k, n - 1, x)
        BY <2>14, <4>1, <4>2, DeepStep
      <4> QED BY <4>2, <4>3, GroupCount
    <3>2. PICK inner \in Seq(Marks) : inner = Flat(k, n - 1, x)
      BY <2>14, <3>1, FlatStep, Zenon DEF Parents
    <3>3. piece = <<x>> \o (inner \o <<Divider>>)
      BY <1>1, <1>4, <1>5, <2>2, <2>3, <2>14, <3>1, <3>2, Zenon DEF FlatPieces, Flat
    <3>4. /\ Len(piece) = Len(inner) + 2
          /\ piece[1] = x
          /\ \A t \in 1..Len(inner) : piece[1 + t] = inner[t]
          /\ piece[Len(inner) + 2] = Divider
      <4>1. Divider \in Marks /\ x \in Marks
        BY DEF Marks
      <4> QED BY <3>3, <4>1, GroupPiece, SMTT(20)
    <3>5. PICK M \in Nat : M = Len(inner) /\ L = M + 2
      BY <2>4, <3>4
    <3>6. recs[q] = x /\ q <= Len(recs)
      <4>1. 1 \in 1..L /\ o + (c + 1) = q /\ q <= R
        BY <2>4, <2>5, <2>6, <2>7, <3>5, SMTT(20)
      <4> QED BY <2>1, <2>7, <3>4, <4>1
    <3>7. Holds(recs, q, inner)
      <4>1. q + M <= R
        <5>1. o + d <= R
          BY <2>5, <2>7
        <5>2. d = c + (M + 2)
          BY <2>4, <3>5
        <5>3. q + M <= o + d
          BY <2>6, <5>2
        <5> QED BY <5>1, <5>3
      <4>2. ASSUME NEW t \in 1..M PROVE recs[q + t] = inner[t]
        <5>1. 1 + t \in 1..L /\ o + (c + (1 + t)) = q + t
          BY <2>6, <3>5
        <5>2. recs[o + (c + (1 + t))] = piece[1 + t]
          BY <2>7, <5>1
        <5> QED BY <3>4, <3>5, <5>1, <5>2
      <4> QED BY <2>1, <3>5, <4>1, <4>2 DEF Holds
    <3>8. recs[q + M + 1] = Divider
      <4>1. M + 2 \in 1..L /\ o + (c + (M + 2)) = q + M + 1
        BY <2>6, <3>5
      <4>2. recs[o + (c + (M + 2))] = piece[M + 2]
        BY <2>7, <4>1
      <4> QED BY <3>4, <3>5, <4>1, <4>2
    <3>9. b[q + 1] = [list |-> k[x], at |-> q + M + 1,
                      lists |-> ListsOf(k, LayersUnder(k, x))]
      <4>1. ReadToDepth(k, recs, b, n - 1)
        BY <3>1
      <4>2. x \in Parents /\ q \in Nat
        BY <2>14 DEF Parents
      <4>3. Ends(recs, q + Len(inner) + 1)
        BY <3>5, <3>8 DEF Ends
      <4>4. b[q + 1] = [list |-> k[x], at |-> q + Len(inner) + 1,
                        lists |-> ListsOf(k, LayersUnder(k, x))]
        BY <3>1, <3>2, <3>7, <4>1, <4>2, <4>3 DEF ReadToDepth
      <4> QED BY <3>5, <4>4
    <3>10. b[(q + M + 1) + 1] = rest(i + 1)
      <4>1. (q + M + 1) + 1 = o + d + 1
        BY <2>4, <2>6, <3>5
      <4> QED BY <2>12, <4>1
    <3>11. b[q] = [list |-> <<x>> \o b[b[q + 1].at + 1].list, at |-> b[b[q + 1].at + 1].at,
                   lists |-> ({<<x, b[q + 1].list>>} \cup b[q + 1].lists)
                               \cup b[b[q + 1].at + 1].lists]
      BY <2>8, <2>9, <2>14, <3>6 DEF ReadFrom
    <3>12. b[q] = [list |-> <<x>> \o SubSeq(s, i + 1, N), at |-> e,
                   lists |-> ({<<x, k[x]>>} \cup ListsOf(k, LayersUnder(k, x)))
                               \cup ListsOf(k, under(i + 1))]
      <4>1. b[q + 1].at = q + M + 1 /\ b[q + 1].list = k[x]
            /\ b[q + 1].lists = ListsOf(k, LayersUnder(k, x))
        BY <3>9
      <4>2. b[b[q + 1].at + 1] = b[(q + M + 1) + 1]
        BY <4>1
      <4>3. b[q] = [list |-> <<x>> \o b[(q + M + 1) + 1].list, at |-> b[(q + M + 1) + 1].at,
                    lists |-> ({<<x, k[x]>>} \cup ListsOf(k, LayersUnder(k, x)))
                                \cup b[(q + M + 1) + 1].lists]
        BY <3>11, <4>1, <4>2
      <4> QED BY <3>10, <4>3
    <3>13. ListsOf(k, under(i)) = ({<<x, k[x]>>} \cup ListsOf(k, LayersUnder(k, x)))
                                    \cup ListsOf(k, under(i + 1))
      BY <2>11, <2>14 DEF ListsOf, Below
    <3> QED BY <2>1, <2>6, <2>10, <3>12, <3>13
  <2> QED BY <2>13, <2>14
<1>11. ASSUME NEW m \in Nat, m \in S PROVE m + 1 \in S
  <2> SUFFICES ASSUME m + 1 <= N
               PROVE  b[o + off[(N + 1) - (m + 1)] + 1] = rest((N + 1) - (m + 1))
    OBVIOUS
  <2>1. PICK i \in 1..N : i = (N + 1) - (m + 1) /\ i + 1 = (N + 1) - m
    OBVIOUS
  <2> HIDE DEF rest
  <2>2. b[o + off[(N + 1) - m] + 1] = rest((N + 1) - m)
    BY <1>11
  <2> QED BY <1>10, <2>1, <2>2
<1> HIDE DEF S, rest
<1>12. b[o + off[1] + 1] = rest(1)
  <2>1. Nat \subseteq S
    BY <1>9, <1>11, SetInduction
  <2>2. N \in S /\ N <= N /\ (N + 1) - N = 1
    BY <2>1
  <2> QED BY <2>2 DEF S
<1>13. SubSeq(s, 1, N) = k[p]
  BY <1>4, <1>5
<1>14. under(1) = LayersUnder(k, p)
  <2>1. p \in DOMAIN k
    OBVIOUS
  <2>2. LayersUnder(k, p) = UNION {Below(k, k[p][j]) : j \in 1..Len(k[p])}
    BY <2>1, BelowList
  <2> QED BY <1>4, <1>5, <2>2
<1>15. o + off[1] + 1 = o + 1
  BY <1>6
<1> HIDE DEF under
<1>16. b[o + 1] = [list |-> SubSeq(s, 1, N), at |-> e, lists |-> ListsOf(k, under(1))]
  BY <1>12, <1>15 DEF rest
<1> QED BY <1>2, <1>7, <1>13, <1>14, <1>16

\* So the flat list of the whole document is read as its list and those of
\* all groups in it.
LEMMA FlatListIsRead ==
  ASSUME NEW k, IsHierarchy(k), DOMAIN k = Parents, ~ Cyclic(k),
         NEW b, b = Reads(Flattened(k, TRUE), b)
  PROVE  /\ b[1].list = k[Root]
         /\ b[1].lists = ListsOf(k, LayersUnder(k, Root))
<1>1. PICK C \in Nat : C = Cardinality(Groups)
  BY GroupCount
<1>2. Root \in Parents /\ C \in 0..Cardinality(Groups)
  BY <1>1 DEF Parents
<1>3. Flattened(k, TRUE) = Flat(k, C, Root)
  BY <1>1 DEF Flattened, Flat
<1>4. PICK recs \in Seq(Marks) : recs = Flattened(k, TRUE)
  BY <1>2, <1>3, FlatStep
<1> DEFINE S == {n \in Nat : n <= C => ReadToDepth(k, recs, b, n)}
<1>5. 0 \in S
  <2>1. 0 \in 0..Cardinality(Groups) /\ ~ (0 > 0)
    BY GroupCount
  <2> QED BY <1>4, <2>1, LevelIsRead
<1>6. ASSUME NEW n \in Nat, n \in S PROVE n + 1 \in S
  <2> SUFFICES ASSUME n + 1 <= C PROVE ReadToDepth(k, recs, b, n + 1)
    OBVIOUS
  <2>1. PICK m \in 0..Cardinality(Groups) : m = n + 1 /\ m - 1 = n
    BY <1>1
  <2>2. ReadToDepth(k, recs, b, m - 1)
    BY <1>6, <2>1
  <2>3. ReadToDepth(k, recs, b, m)
    BY <1>4, <2>2, LevelIsRead
  <2> QED BY <2>1, <2>3
<1> HIDE DEF S
<1>7. ReadToDepth(k, recs, b, C)
  <2>1. Nat \subseteq S
    BY <1>5, <1>6, SetInduction
  <2> QED BY <2>1 DEF S
<1>8. Deep(k, C, Root)
  <2>1. Groups \cap LayersUnder(k, Root) \subseteq Groups
    OBVIOUS
  <2> QED BY <1>1, <2>1, GroupCount, FS_Subset DEF Deep
<1>9. recs = Flat(k, C, Root) /\ Holds(recs, 0, recs) /\ Ends(recs, 0 + Len(recs) + 1)
  <2>1. PICK F \in Nat : F = Len(recs)
    OBVIOUS
  <2>2. 0 + F <= F /\ 0 + F + 1 > F
    OBVIOUS
  <2>3. ASSUME NEW t \in 1..F PROVE recs[0 + t] = recs[t]
    BY 0 + t = t
  <2> QED BY <1>3, <1>4, <2>1, <2>2, <2>3 DEF Holds, Ends
<1>10. b[0 + 1] = [list  |-> k[Root],
                   at    |-> 0 + Len(recs) + 1,
                   lists |-> ListsOf(k, LayersUnder(k, Root))]
  BY <1>2, <1>7, <1>8, <1>9 DEF ReadToDepth
<1> QED BY <1>10

\* The records written for the document of a careful client rebuild it:
\* build_layer_hierarchy_recursive gives the document and every group in it
\* back with the lists generate_flattened_layers_recursive walked.
THEOREM RecordsRebuild == CarefulSpec => []RecordsRebuildTheTree
<1>1. LayerTreeTypeOK /\ Forest => RecordsRebuildTheTree
  <2> SUFFICES ASSUME LayerTreeTypeOK, Forest PROVE RecordsRebuildTheTree
    OBVIOUS
  <2>1. PICK k : k = kids
    OBVIOUS
  <2>2. IsHierarchy(k) /\ DOMAIN k = Parents /\ ~ Cyclic(k) /\ Root \in Parents
    BY <2>1, TreeIsHierarchy DEF Forest, IsForest
  <2>3. Flattened(k, TRUE) \in Seq(Marks)
    <3>1. Cardinality(Groups) \in 0..Cardinality(Groups)
      BY GroupCount
    <3> QED BY <2>2, <3>1, FlatStep DEF Flattened, Flat
  <2>4. PICK b : /\ b = Reads(Flattened(k, TRUE), b)
                 /\ Built(Records(k)) = {<<Root, b[1].list>>} \cup b[1].lists
    BY <2>3, BuiltMeans
  <2>5. Built(Records(k)) = {<<Root, k[Root]>>} \cup ListsOf(k, LayersUnder(k, Root))
    BY <2>2, <2>4, FlatListIsRead
  <2>6. ListsOf(k, LayersUnder(k, Root)) = {<<g, k[g]>> : g \in {h \in Groups : InFile(k, Root, h)}}
    BY DEF ListsOf, InFile
  <2>7. Built(Records(k)) = {<<p, k[p]>> : p \in {Root} \cup {g \in Groups : InFile(k, Root, g)}}
    BY <2>5, <2>6
  <2> QED BY <2>1, <2>7 DEF RecordsRebuildTheTree
<1> QED
  BY <1>1, HierarchyIsForest, TreeTypes, CarefulImplementsAnyClient, PTL

-----------------------------------------------------------------------------
(* Edges and centers.                                                       *)

\* An edge in pixels.
Edges == [left : Int, top : Int, right : Int, bottom : Int]

\* Rounding goes to a whole pixel, half a pixel away at most; whole pixels stay.
LEMMA RoundIsNear ==
  ASSUME NEW q \in Int
  PROVE  /\ Round(q) \in Int
         /\ 4 * Round(q) - q \in -2..2
         /\ q % 4 = 0 => 4 * Round(q) = q
BY DEF Round

LEMMA RoundWhole ==
  ASSUME NEW p \in Int
  PROVE  Round(4 * p) = p
BY DEF Round

\* The edges keep the size.
LEMMA ExtentsKeepSize ==
  ASSUME NEW size \in Size, NEW center \in Center
  PROVE  /\ Extents(size, center) \in Edges
         /\ SizeOf(Extents(size, center)) = size
<1> DEFINE left == Round(center.x - 2 * size.w)
           top  == Round(center.y - 2 * size.h)
<1>1. left \in Int /\ top \in Int
  BY RoundIsNear DEF Size, Center
<1> HIDE DEF left, top
<1>2. Extents(size, center)
        = [left |-> left, top |-> top, right |-> left + size.w, bottom |-> top + size.h]
  BY DEF Extents, left, top
<1> QED BY <1>1, <1>2 DEF Edges, SizeOf, Size

\* They keep the middle to half a pixel, and exactly if they are on pixels.
LEMMA ExtentsKeepCenter ==
  ASSUME NEW size \in Size, NEW center \in Center
  PROVE  /\ CenterOf(Extents(size, center)) \in Center
         /\ Near(CenterOf(Extents(size, center)), center)
         /\ OnPixels(size, center) => CenterOf(Extents(size, center)) = center
<1> DEFINE is == CenterOf(Extents(size, center))
           x == center.x - 2 * size.w
           y == center.y - 2 * size.h
           left == Round(x)
           top  == Round(y)
<1>1. x \in Int /\ y \in Int /\ size.w \in Int /\ size.h \in Int
  BY DEF Size, Center
<1>2. left \in Int /\ 4 * left - x \in -2..2 /\ (x % 4 = 0 => 4 * left = x)
  BY <1>1, RoundIsNear
<1>3. top \in Int /\ 4 * top - y \in -2..2 /\ (y % 4 = 0 => 4 * top = y)
  BY <1>1, RoundIsNear
<1>4. is = [x |-> 2 * (left + size.w + left), y |-> 2 * (top + size.h + top)]
  BY DEF Extents, CenterOf
<1>5. center = [x |-> center.x, y |-> center.y] /\ center.x \in Int /\ center.y \in Int
  BY DEF Center
<1>6. OnPixels(size, center) <=> x % 4 = 0 /\ y % 4 = 0
  BY DEF OnPixels
<1> HIDE DEF is, left, top
<1>7. is.x - center.x = 4 * left - x /\ is.y - center.y = 4 * top - y
  BY <1>1, <1>2, <1>3, <1>4, <1>5
<1>8. is \in Center
  BY <1>1, <1>2, <1>3, <1>4 DEF Center
<1>9. Near(is, center)
  BY <1>2, <1>3, <1>7 DEF Near
<1>10. OnPixels(size, center) => is = center
  <2> SUFFICES ASSUME OnPixels(size, center) PROVE is = center
    OBVIOUS
  <2>1. is.x - center.x = 0 /\ is.y - center.y = 0
    BY <1>2, <1>3, <1>6, <1>7
  <2>2. is = [x |-> is.x, y |-> is.y] /\ is.x \in Int /\ is.y \in Int
    BY <1>8 DEF Center
  <2>3. is.x = center.x /\ is.y = center.y
    BY <2>1, <2>2, <1>5
  <2> QED BY <2>2, <2>3, <1>5
<1> QED BY <1>8, <1>9, <1>10 DEF is

\* Edges that were read give themselves when they are written.
LEMMA EdgesSettle ==
  ASSUME NEW e \in Edges, SizeOf(e) \in Size
  PROVE  Extents(SizeOf(e), CenterOf(e)) = e
<1>1. e.left \in Int /\ e.right \in Int /\ e.top \in Int /\ e.bottom \in Int
      /\ e = [left |-> e.left, top |-> e.top, right |-> e.right, bottom |-> e.bottom]
  BY DEF Edges
<1>2. CenterOf(e).x - 2 * SizeOf(e).w = 4 * e.left
  BY <1>1 DEF CenterOf, SizeOf
<1>3. CenterOf(e).y - 2 * SizeOf(e).h = 4 * e.top
  BY <1>1 DEF CenterOf, SizeOf
<1>4. e.left + SizeOf(e).w = e.right /\ e.top + SizeOf(e).h = e.bottom
  BY <1>1 DEF SizeOf
<1> QED BY <1>1, <1>2, <1>3, <1>4, RoundWhole DEF Extents

-----------------------------------------------------------------------------
(* Layers keep their types.                                                 *)

\* What a client passes is made of buffers, by index and by name.
LEMMA PassedBuffers ==
  ASSUME NEW passed \in Passed, NEW data \in {passed} \cup Remapped(passed)
  PROVE  /\ data = [i \in DOMAIN data |-> data[i]]  \/ data = passed
         /\ \A i \in DOMAIN data : data[i] \in Buffers
BY ImageLayersAssumption DEF Remapped

LEMMA BufferTyped ==
  ASSUME NEW buffer \in Buffers
  PROVE  buffer.of \in Images /\ buffer.n \in Nat
BY ImageLayersAssumption

LEMMA MaskTyped ==
  ASSUME NEW size \in Size, NEW center \in Center, NEW buffer \in Buffers
  PROVE  IsMask(Mask(size, center, buffer)) /\ Mask(size, center, buffer) # <<>>
BY BufferTyped DEF IsMask, Mask, Optional

LEMMA ImageTyped ==
  ASSUME NEW data, \A i \in DOMAIN data : data[i] \in Buffers,
         NEW done \in SUBSET DOMAIN data, NEW size \in Size
  PROVE  IsImage(ImageFrom(data, done, size))
<1>1. \A i \in done : data[i].of \in Images
  BY BufferTyped
<1> QED BY <1>1 DEF IsImage, ImageFrom, Channel, Optional

LEMMA DefaultTyped == IsSettings(DefaultSettings)
BY DEF IsSettings, DefaultSettings, Optional

\* A layer one field of which is changed.
LEMMA Changed ==
  ASSUME NEW l, IsLayer(l), NEW v
  PROVE  /\ v \in Size => IsLayer([l EXCEPT !.size = v])
         /\ v \in Center => IsLayer([l EXCEPT !.center = v])
         /\ IsImage(v) => IsLayer([l EXCEPT !.image = v])
         /\ IsMask(v) => IsLayer([l EXCEPT !.mask = v])
         /\ IsSettings(v) => IsLayer([l EXCEPT !.settings = v])
<1>1. l = [size |-> l.size, center |-> l.center, image |-> l.image, mask |-> l.mask,
           settings |-> l.settings]
  BY DEF IsLayer
<1>2. v \in Size => IsLayer([l EXCEPT !.size = v])
  BY <1>1 DEF IsLayer
<1>3. v \in Center => IsLayer([l EXCEPT !.center = v])
  BY <1>1 DEF IsLayer
<1>4. IsImage(v) => IsLayer([l EXCEPT !.image = v])
  BY <1>1 DEF IsLayer
<1>5. IsMask(v) => IsLayer([l EXCEPT !.mask = v])
  BY <1>1 DEF IsLayer
<1>6. IsSettings(v) => IsLayer([l EXCEPT !.settings = v])
  BY <1>1 DEF IsLayer
<1> QED BY <1>2, <1>3, <1>4, <1>5, <1>6

-----------------------------------------------------------------------------
(* The way through a file.                                                  *)

\* No channel was moved out.
Present(l) == \A i \in DOMAIN l.image : l.image[i] # <<>>

\* What the file of a layer has.
LEMMA FileOfLayer ==
  ASSUME NEW l, IsLayer(l)
  PROVE  /\ SizeOf(FileOf(l).extents) = l.size
         /\ FileOf(l).extents \in Edges
         /\ DOMAIN FileOf(l).image = DOMAIN l.image
         /\ \A i \in DOMAIN l.image : FileOf(l).image[i] = l.image[i][1]
         /\ l.mask = <<>> <=> FileOf(l).mask = <<>>
         /\ l.mask # <<>> =>
              /\ FileOf(l).mask[1].extents = Extents(l.mask[1].size, l.mask[1].center)
              /\ FileOf(l).mask[1].extents \in Edges
              /\ SizeOf(FileOf(l).mask[1].extents) = l.mask[1].size
              /\ FileOf(l).mask[1].of = l.mask[1].of
              /\ FileOf(l).mask[1].settings = l.settings
<1>1. l.size \in Size /\ l.center \in Center
  BY DEF IsLayer
<1>2. l.mask # <<>> => l.mask[1].size \in Size /\ l.mask[1].center \in Center
  BY DEF IsLayer, IsMask, Optional
<1> QED BY <1>1, <1>2, ExtentsKeepSize DEF FileOf, MaskOf

LEMMA WithoutParams ==
  ASSUME NEW s, NEW d, NEW f,
         s = [color |-> s.color, disabled |-> s.disabled, relative |-> s.relative,
              density |-> s.density, feather |-> s.feather]
  PROVE  [s EXCEPT !.density = d, !.feather = f]
           = [color |-> s.color, disabled |-> s.disabled, relative |-> s.relative,
              density |-> d, feather |-> f]
<1> DEFINE r == [s EXCEPT !.density = d]
<1>1. r = [color |-> s.color, disabled |-> s.disabled, relative |-> s.relative,
           density |-> d, feather |-> s.feather]
  OBVIOUS
<1>2. [s EXCEPT !.density = d, !.feather = f] = [r EXCEPT !.feather = f]
  OBVIOUS
<1> HIDE DEF r
<1> QED BY <1>1, <1>2

\* Reading the settings is idempotent and keeps their type; nothing is lost but
\* the density and the feather of a mask that has a feather.
LEMMA SettingsSettle ==
  ASSUME NEW s, IsSettings(s)
  PROVE  /\ IsSettings(ReadSettings(s))
         /\ ReadSettings(ReadSettings(s)) = ReadSettings(s)
         /\ \A field \in Fields : ReadSettings(s)[field] = s[field]
                \/ (field \in {"density", "feather"} /\ s.feather # <<>>)
<1>1. s = [color |-> s.color, disabled |-> s.disabled, relative |-> s.relative,
           density |-> s.density, feather |-> s.feather]
  BY DEF IsSettings
<1>2. CASE HasMaskParams(s) /\ MaskSectionSize(s) > 28
  <2> DEFINE None == <<>>
             r    == [s EXCEPT !.density = None, !.feather = None]
  <2>1. ReadSettings(s) = r
    BY <1>2 DEF ReadSettings
  <2>2. r = [color |-> s.color, disabled |-> s.disabled, relative |-> s.relative,
             density |-> <<>>, feather |-> <<>>]
    BY <1>1, WithoutParams
  <2> HIDE DEF r
  <2>3. IsSettings(r)
    BY <2>2 DEF IsSettings, Optional
  <2>4. ReadSettings(r) = r
    <3>1. ~HasMaskParams(r)
      BY <2>2 DEF HasMaskParams
    <3> QED BY <3>1 DEF ReadSettings
  <2>5. s.feather # <<>>
    <3> SUFFICES ASSUME s.feather = <<>> PROVE FALSE
      OBVIOUS
    <3>1. Len(s.feather) = 0 /\ Len(s.density) \in 0..1
      BY DEF IsSettings, Optional
    <3> DEFINE n == Len(s.density)
    <3>2. MaskSectionSize(s) = ((4 + 18 + (1 + n + 8 * 0) + 3) \div 4) * 4
      BY <1>2, <3>1 DEF MaskSectionSize
    <3>3. n = 0 \/ n = 1
      BY <3>1
    <3> HIDE DEF n
    <3> QED BY <1>2, <3>2, <3>3
  <2>6. \A field \in Fields : r[field] = s[field] \/ field \in {"density", "feather"}
    BY <1>1, <2>2 DEF Fields, DefaultSettings
  <2> QED BY <2>1, <2>3, <2>4, <2>5, <2>6
<1>3. CASE ~(HasMaskParams(s) /\ MaskSectionSize(s) > 28)
  BY <1>3 DEF ReadSettings
<1> QED BY <1>2, <1>3

\* The edges a layer and its channels are read with.
LEMMA ReadExtents ==
  ASSUME NEW l, IsLayer(l)
  PROVE  /\ LayerExtents(FileOf(l)) \in Edges /\ SizeOf(LayerExtents(FileOf(l))) \in Size
         /\ ~EmptyWithMask(l) => LayerExtents(FileOf(l)) = Extents(l.size, l.center)
         /\ \A i \in DOMAIN l.image : SizeOf(ExtentsOf(FileOf(l), i)) \in Size
         /\ CenterOf(LayerExtents(FileOf(l))) \in Center
<1>1. l.size \in Size /\ l.center \in Center
  BY DEF IsLayer
<1>2. l.mask # <<>> => l.mask[1].size \in Size /\ l.mask[1].center \in Center
  BY DEF IsLayer, IsMask, Optional
<1>3. FileOf(l).extents = Extents(l.size, l.center)
  BY DEF FileOf
<1>4. LayerExtents(FileOf(l)) \in Edges /\ SizeOf(LayerExtents(FileOf(l))) \in Size
  BY <1>1, <1>2, FileOfLayer DEF LayerExtents
<1>5. ~EmptyWithMask(l) => LayerExtents(FileOf(l)) = Extents(l.size, l.center)
  BY <1>3, FileOfLayer DEF LayerExtents, EmptyWithMask
<1>6. \A i \in DOMAIN l.image : SizeOf(ExtentsOf(FileOf(l), i)) \in Size
  BY <1>1, <1>2, FileOfLayer DEF ExtentsOf
<1>7. CenterOf(LayerExtents(FileOf(l))) \in Center
  BY <1>4 DEF CenterOf, Edges, Center
<1> QED BY <1>4, <1>5, <1>6, <1>7

\* What is read of a mask.
LEMMA ReadMaskTyped ==
  ASSUME NEW l, IsLayer(l), l.mask # <<>>
  PROVE  /\ IsMask(ReadMask(FileOf(l).mask[1])) /\ ReadMask(FileOf(l).mask[1]) # <<>>
         /\ ReadMask(FileOf(l).mask[1])[1].size = l.mask[1].size
         /\ ReadMask(FileOf(l).mask[1])[1].of = l.mask[1].of
         /\ ReadMask(FileOf(l).mask[1])[1].center
              = CenterOf(Extents(l.mask[1].size, l.mask[1].center))
<1> DEFINE m == FileOf(l).mask[1]
<1>1. l.mask[1].size \in Size /\ l.mask[1].center \in Center /\ l.mask[1].of \in Images
  BY DEF IsLayer, IsMask, Optional
<1>2. SizeOf(m.extents) = l.mask[1].size /\ m.of = l.mask[1].of
      /\ m.extents = Extents(l.mask[1].size, l.mask[1].center)
  BY FileOfLayer
<1>3. CenterOf(m.extents) \in Center
  BY <1>1, <1>2, ExtentsKeepCenter
<1> HIDE DEF m
<1>4. ReadMask(m) = <<[kept |-> TRUE, size |-> l.mask[1].size,
                       center |-> CenterOf(m.extents), of |-> l.mask[1].of]>>
  BY <1>2 DEF ReadMask
<1>5. IsMask(ReadMask(m)) /\ ReadMask(m) # <<>>
  BY <1>1, <1>3, <1>4 DEF IsMask, Optional
<1> QED BY <1>2, <1>4, <1>5 DEF m

\* A layer that was read has all its channels, and its type.
LEMMA LayerOfTyped ==
  ASSUME NEW l, IsLayer(l), Present(l)
  PROVE  IsLayer(LayerOf(FileOf(l))) /\ Present(LayerOf(FileOf(l)))
<1> DEFINE f == FileOf(l)
           r == LayerOf(f)
<1>1. r = [size |-> r.size, center |-> r.center, image |-> r.image, mask |-> r.mask,
           settings |-> r.settings]
  BY DEF LayerOf
<1>2. r.size \in Size /\ r.center \in Center
  BY ReadExtents DEF LayerOf
<1>3. r.image = [i \in DOMAIN l.image |-> <<ReadChannel(f, i)>>]
  BY FileOfLayer DEF LayerOf
<1>4. \A i \in DOMAIN l.image :
        ReadChannel(f, i) \in [size : Size, of : Images \cup {Garbage}]
  <2> TAKE i \in DOMAIN l.image
  <2>1. f.image[i].of \in Images \cup {Garbage}
    BY FileOfLayer DEF IsLayer, IsImage, Optional, Present
  <2> QED BY <2>1, ReadExtents DEF ReadChannel
<1>5. IsImage(r.image) /\ Present(r)
  BY <1>3, <1>4 DEF IsImage, Optional, Present
<1>6. IsMask(r.mask)
  BY FileOfLayer, ReadMaskTyped DEF LayerOf, IsMask, Optional
<1>7. IsSettings(r.settings)
  BY FileOfLayer, SettingsSettle, DefaultTyped DEF LayerOf, IsLayer
<1> QED BY <1>1, <1>2, <1>5, <1>6, <1>7 DEF IsLayer

\* Written and read again, a layer that was read is the same.
LEMMA LayerOfSettles ==
  ASSUME NEW l, IsLayer(l), Present(l), ~EmptyWithMask(l)
  PROVE  LayerOf(FileOf(LayerOf(FileOf(l)))) = LayerOf(FileOf(l))
<1> DEFINE f == FileOf(l)
           r == LayerOf(f)
           g == FileOf(r)
           s == LayerOf(g)
<1>1. IsLayer(r) /\ Present(r)
  BY LayerOfTyped
<1>2. r.size = SizeOf(f.extents) /\ r.center = CenterOf(f.extents)
      /\ SizeOf(f.extents) = l.size /\ f.extents \in Edges
  BY ReadExtents, FileOfLayer DEF LayerOf, FileOf
<1>3. g.extents = f.extents
  BY <1>2, EdgesSettle DEF FileOf, IsLayer
<1>4. r.mask = <<>> <=> l.mask = <<>>
  BY FileOfLayer, ReadMaskTyped DEF LayerOf
<1>5. ~EmptyWithMask(r)
  BY <1>2, <1>4 DEF EmptyWithMask
<1>6. f.mask = <<>> <=> g.mask = <<>>
  BY <1>1, <1>4, FileOfLayer
<1>7. l.mask # <<>> => g.mask[1].extents = f.mask[1].extents
  <2> SUFFICES ASSUME l.mask # <<>> PROVE g.mask[1].extents = f.mask[1].extents
    OBVIOUS
  <2>1. r.mask = ReadMask(f.mask[1])
    BY FileOfLayer DEF LayerOf
  <2>2. r.mask[1].size = SizeOf(f.mask[1].extents)
        /\ r.mask[1].center = CenterOf(f.mask[1].extents)
    BY <2>1 DEF ReadMask
  <2>3. g.mask[1].extents = Extents(r.mask[1].size, r.mask[1].center)
    BY <1>1, <1>4, FileOfLayer
  <2>4. f.mask[1].extents \in Edges /\ SizeOf(f.mask[1].extents) \in Size
    BY FileOfLayer DEF IsLayer, IsMask, Optional
  <2> QED BY <2>2, <2>3, <2>4, EdgesSettle
<1>8. s.size = r.size /\ s.center = r.center
  <2>1. LayerExtents(g) = Extents(r.size, r.center)
    BY <1>1, <1>5, ReadExtents
  <2>2. g.extents = Extents(r.size, r.center)
    BY DEF FileOf
  <2>3. s.size = SizeOf(LayerExtents(g)) /\ s.center = CenterOf(LayerExtents(g))
    BY DEF LayerOf
  <2> HIDE DEF f, g, r, s
  <2> QED BY <1>2, <1>3, <2>1, <2>2, <2>3
<1>9. s.image = r.image
  <2>1. DOMAIN f.image = DOMAIN l.image /\ DOMAIN g.image = DOMAIN l.image
    BY <1>1, FileOfLayer DEF LayerOf
  <2>2. \A i \in DOMAIN l.image : ExtentsOf(g, i) = ExtentsOf(f, i)
    BY <1>3, <1>4, <1>6, <1>7, FileOfLayer, SMTT(20) DEF ExtentsOf
  <2>3. \A i \in DOMAIN l.image : g.image[i] = ReadChannel(f, i)
    BY <2>1 DEF LayerOf, FileOf
  <2>4. \A i \in DOMAIN l.image : ReadChannel(g, i) = ReadChannel(f, i)
    BY <2>2, <2>3 DEF ReadChannel, ReadsAsWritten
  <2>5. s.image = [i \in DOMAIN l.image |-> <<ReadChannel(g, i)>>]
        /\ r.image = [i \in DOMAIN l.image |-> <<ReadChannel(f, i)>>]
    BY <2>1 DEF LayerOf
  <2> HIDE DEF f, g, r, s
  <2> QED BY <2>4, <2>5
<1>10. s.mask = r.mask
  <2>1. CASE l.mask = <<>>
    BY <2>1, <1>4, <1>6, FileOfLayer DEF LayerOf
  <2>2. CASE l.mask # <<>>
    <3>1. r.mask = ReadMask(f.mask[1]) /\ s.mask = ReadMask(g.mask[1])
      BY <2>2, <1>6, FileOfLayer DEF LayerOf
    <3>2. g.mask[1].of = f.mask[1].of
      BY <2>2, <1>1, <1>4, <3>1, FileOfLayer, ReadMaskTyped
    <3> QED BY <2>2, <3>1, <3>2, <1>7 DEF ReadMask
  <2> QED BY <2>1, <2>2
<1>11. s.settings = r.settings
  <2>1. CASE l.mask = <<>>
    BY <2>1, <1>4, <1>6, FileOfLayer DEF LayerOf
  <2>2. CASE l.mask # <<>>
    <3>1. r.settings = ReadSettings(l.settings)
      BY <2>2, FileOfLayer DEF LayerOf
    <3>2. s.settings = ReadSettings(r.settings)
      BY <2>2, <1>1, <1>4, FileOfLayer, SMTT(20) DEF LayerOf
    <3> QED BY <3>1, <3>2, SettingsSettle DEF IsLayer
  <2> QED BY <2>1, <2>2
<1>12. s = [size |-> s.size, center |-> s.center, image |-> s.image, mask |-> s.mask,
            settings |-> s.settings]
       /\ r = [size |-> r.size, center |-> r.center, image |-> r.image, mask |-> r.mask,
               settings |-> r.settings]
  BY DEF LayerOf
<1> HIDE DEF f, g, r, s
<1>13. s = r
  BY <1>8, <1>9, <1>10, <1>11, <1>12
<1> QED BY <1>13 DEF f, g, r, s

-----------------------------------------------------------------------------
(* The invariant.                                                           *)

\* A file that was not read yet is that of the layer that was written, which
\* had all its channels.
FileIsBefore ==
  file # <<>> => /\ before # <<>> /\ Present(before[1])
                 /\ file = <<FileOf(before[1])>>

Inv == ImageLayersTypeOK /\ FileIsBefore

LEMMA InvInitially == ImageInit => Inv
BY ImageLayersAssumption DEF ImageInit, Inv, ImageLayersTypeOK, FileIsBefore, Optional

\* A call that leaves a layer of the type in place of the layer.
LEMMA CallTyped ==
  ASSUME Inv, Call, NEW l, IsLayer(l), layer' = <<l>>
  PROVE  Inv'
BY ImageLayersAssumption DEF Inv, ImageLayersTypeOK, FileIsBefore, Optional, Call

LEMMA CalledLayer ==
  ASSUME Inv, layer # <<>>
  PROVE  /\ IsLayer(layer[1]) /\ layer = <<layer[1]>>
         /\ layer[1].size \in Size /\ layer[1].center \in Center
         /\ HasMask => layer[1].mask = <<layer[1].mask[1]>>
                        /\ layer[1].mask[1] \in [kept : BOOLEAN, size : Size,
                                                 center : Center, of : Images]
BY DEF Inv, ImageLayersTypeOK, IsLayer, IsMask, Optional, HasMask

LEMMA SetParamsMaskInv == Inv /\ SetParamsMask => Inv'
BY ImageLayersAssumption DEF SetParamsMask, Inv, ImageLayersTypeOK, FileIsBefore, Optional

LEMMA NewLayerInv == Inv /\ NewLayer => Inv'
<1> SUFFICES ASSUME Inv,
                    NEW passed \in Passed, NEW size \in Sizes, NEW center \in Centers,
                    NEW data \in {passed} \cup Remapped(passed),
                    Construct(data, size, center)
             PROVE  Inv'
  BY DEF NewLayer
<1> DEFINE mask  == IF MaskIndex \in DOMAIN data THEN <<data[MaskIndex]>> ELSE given
           image == [i \in DOMAIN data \ {MaskIndex} |-> data[i]]
           l     == [size |-> size, center |-> center,
                     image |-> ImageFrom(image, DOMAIN image, size),
                     mask |-> IF mask = <<>> THEN <<>> ELSE Mask(size, center, mask[1]),
                     settings |-> DefaultSettings]
<1>1. size \in Size /\ center \in Center
  BY ImageLayersAssumption
<1>2. \A i \in DOMAIN data : data[i] \in Buffers
  BY PassedBuffers
<1>3. Optional(mask, Buffers)
  BY <1>2 DEF Inv, ImageLayersTypeOK, Optional
<1>4. IsImage(ImageFrom(image, DOMAIN image, size))
  BY <1>1, <1>2, ImageTyped
<1>5. IsMask(l.mask)
  BY <1>1, <1>3, MaskTyped DEF IsMask, Optional
<1>6. IsLayer(l)
  BY <1>1, <1>4, <1>5, DefaultTyped DEF IsLayer
<1>7. layer' = <<>> \/ layer' = <<l>>
  BY DEF Construct
<1>8. given' = given \/ given' = mask
  BY DEF Construct
<1>9. UNCHANGED <<file, before, calls>>
  BY DEF Construct
<1> HIDE DEF l, mask
<1> QED BY <1>3, <1>6, <1>7, <1>8, <1>9 DEF Inv, ImageLayersTypeOK, FileIsBefore, Optional

LEMMA SetImageDataInv ==
  ASSUME NEW data \in Passed, NEW size \in Size
  PROVE  Inv /\ SetImageData(data, size) => Inv'
<1> SUFFICES ASSUME Inv, Call, NEW done \in SetSome(data, size),
               layer' = <<[layer[1] EXCEPT
                             !.image = ImageFrom(data, done, size),
                             !.mask  = IF MaskIndex \in done
                                       THEN Mask(size, layer[1].center, data[MaskIndex])
                                       ELSE @]>>
             PROVE  Inv'
  BY DEF SetImageData
<1> DEFINE image == ImageFrom(data, done, size)
           mask  == IF MaskIndex \in done
                    THEN Mask(size, layer[1].center, data[MaskIndex]) ELSE layer[1].mask
           l     == [layer[1] EXCEPT !.image = image]
<1>1. done \in SUBSET DOMAIN data
  BY DEF SetSome, Fitting
<1>2. \A i \in DOMAIN data : data[i] \in Buffers
  BY ImageLayersAssumption
<1>3. IsLayer(layer[1]) /\ layer[1].center \in Center
  BY CalledLayer DEF Call
<1>4. IsImage(image)
  BY <1>1, <1>2, ImageTyped
<1>5. IsMask(mask)
  BY <1>1, <1>2, <1>3, MaskTyped DEF IsLayer
<1> HIDE DEF image, mask
<1>6. IsLayer(l)
  BY <1>3, <1>4, Changed
<1>7. layer' = <<[l EXCEPT !.mask = mask]>>
  BY <1>3 DEF image, mask, IsLayer
<1> HIDE DEF l
<1>8. IsLayer([l EXCEPT !.mask = mask])
  BY <1>5, <1>6, Changed
<1> QED BY <1>7, <1>8, CallTyped

LEMMA SetChannelInv ==
  ASSUME NEW data \in Passed, NEW i \in DOMAIN data
  PROVE  Inv /\ SetChannel(i, data[i]) => Inv'
<1> SUFFICES ASSUME Inv, SetChannel(i, data[i]) PROVE Inv'
  OBVIOUS
<1>1. data[i] \in Buffers
  BY ImageLayersAssumption
<1>2. Call /\ IsLayer(layer[1]) /\ layer[1].size \in Size /\ layer[1].center \in Center
  BY CalledLayer DEF SetChannel, Call
<1>3. CASE i = MaskIndex
  <2> DEFINE mask == Mask(layer[1].size, layer[1].center, data[i])
  <2>1. IsMask(mask)
    BY <1>1, <1>2, MaskTyped
  <2>2. layer' = <<[layer[1] EXCEPT !.mask = mask]>>
    BY <1>3 DEF SetChannel
  <2> HIDE DEF mask
  <2>3. IsLayer([layer[1] EXCEPT !.mask = mask])
    BY <1>2, <2>1, Changed
  <2> QED BY <1>2, <2>2, <2>3, CallTyped
<1>4. CASE i # MaskIndex
  <2> DEFINE old   == layer[1].image
             image == [j \in DOMAIN old \cup {i} |->
                         IF j = i THEN <<Channel(layer[1].size, data[i])>> ELSE old[j]]
  <2>1. IsImage(old)
    BY <1>2 DEF IsLayer
  <2>2. Optional(<<Channel(layer[1].size, data[i])>>, [size : Size, of : Images \cup {Garbage}])
    BY <1>1, <1>2, BufferTyped DEF Channel, Optional
  <2>3. IsImage(image)
    BY <2>1, <2>2 DEF IsImage
  <2>4. layer' = <<[layer[1] EXCEPT !.image = image]>>
    BY <1>4 DEF SetChannel
  <2> HIDE DEF image
  <2>5. IsLayer([layer[1] EXCEPT !.image = image])
    BY <1>2, <2>3, Changed
  <2> QED BY <1>2, <2>4, <2>5, CallTyped
<1> QED BY <1>3, <1>4

LEMMA MaskCallsInv ==
  ASSUME NEW size \in Sizes, NEW otherwise \in Center, NEW buffer \in Buffers
  PROVE  Inv /\ SetMask(size, otherwise, buffer) => Inv'
<1> SUFFICES ASSUME Inv, SetMask(size, otherwise, buffer) PROVE Inv'
  OBVIOUS
<1> DEFINE mask == Replaced(size, otherwise, buffer)
<1>1. Call /\ IsLayer(layer[1]) /\ size \in Size
  BY CalledLayer, ImageLayersAssumption DEF SetMask, Call
<1>2. HasMask => layer[1].mask[1].center \in Center
  BY <1>1, CalledLayer DEF Call
<1>3. IsMask(mask)
  BY <1>1, <1>2, MaskTyped DEF Replaced
<1>4. layer' = <<[layer[1] EXCEPT !.mask = mask]>>
  BY DEF SetMask
<1> HIDE DEF mask
<1>5. IsLayer([layer[1] EXCEPT !.mask = mask])
  BY <1>1, <1>3, Changed
<1> QED BY <1>1, <1>4, <1>5, CallTyped

\* A change of the mask's one record is a change of the mask.
LEMMA MaskChanged ==
  ASSUME Inv, Call, HasMask, NEW m,
         m \in [kept : BOOLEAN, size : Size, center : Center, of : Images],
         layer' = <<[layer[1] EXCEPT !.mask = <<m>>]>>
  PROVE  Inv'
<1> DEFINE mask == <<m>>
<1>1. IsLayer(layer[1])
  BY CalledLayer DEF Call
<1>2. IsMask(mask)
  BY DEF IsMask, Optional
<1> HIDE DEF mask
<1>3. IsLayer([layer[1] EXCEPT !.mask = mask])
  BY <1>1, <1>2, Changed
<1> QED BY <1>3, CallTyped DEF mask

LEMMA ExtractMaskInv == Inv /\ ExtractMask => Inv'
<1> SUFFICES ASSUME Inv, ExtractMask PROVE Inv'
  OBVIOUS
<1> DEFINE old  == layer[1].mask
           m    == [old[1] EXCEPT !.kept = FALSE]
           mask == [old EXCEPT ![1] = m]
<1>1. Call /\ HasMask
  BY DEF ExtractMask
<1>2. old = <<old[1]>>
      /\ old[1] \in [kept : BOOLEAN, size : Size, center : Center, of : Images]
  BY <1>1, CalledLayer DEF Call
<1>3. m \in [kept : BOOLEAN, size : Size, center : Center, of : Images]
  BY <1>2
<1> HIDE DEF m
<1>4. mask = <<m>>
  BY <1>2
<1>5. layer' = <<[layer[1] EXCEPT !.mask = mask]>>
  BY DEF ExtractMask, m
<1> HIDE DEF mask
<1> QED BY <1>1, <1>3, <1>4, <1>5, MaskChanged

LEMMA MaskPositionInv ==
  ASSUME NEW center \in Center
  PROVE  Inv /\ MaskPosition(center) => Inv'
<1> SUFFICES ASSUME Inv, MaskPosition(center) PROVE Inv'
  OBVIOUS
<1> DEFINE old  == layer[1].mask
           m    == [old[1] EXCEPT !.center = center]
           mask == [old EXCEPT ![1] = m]
<1>1. Call /\ HasMask
  BY DEF MaskPosition
<1>2. old = <<old[1]>>
      /\ old[1] \in [kept : BOOLEAN, size : Size, center : Center, of : Images]
  BY <1>1, CalledLayer DEF Call
<1>3. m \in [kept : BOOLEAN, size : Size, center : Center, of : Images]
  BY <1>2
<1>4. mask = <<m>>
  BY <1>2
<1>5. layer' = <<[layer[1] EXCEPT !.mask = mask]>>
  BY DEF MaskPosition
<1> HIDE DEF mask, m
<1> QED BY <1>1, <1>3, <1>4, <1>5, MaskChanged

\* A value for one of the settings.
LEMMA SettingChanged ==
  ASSUME NEW s, IsSettings(s), NEW field \in Fields, NEW value \in Values[field]
  PROVE  IsSettings([s EXCEPT ![field] = value])
<1> DEFINE r == [s EXCEPT ![field] = value]
<1>1. s = [color |-> s.color, disabled |-> s.disabled, relative |-> s.relative,
           density |-> s.density, feather |-> s.feather]
  BY DEF IsSettings
<1>2. field \in {"color", "disabled", "relative", "density", "feather"}
  BY DEF Fields, DefaultSettings
<1>3. r = [color |-> r.color, disabled |-> r.disabled, relative |-> r.relative,
           density |-> r.density, feather |-> r.feather]
  <2>1. r = [k \in {"color", "disabled", "relative", "density", "feather"} |-> r[k]]
    BY <1>1
  <2> HIDE DEF r
  <2> QED BY <2>1
<1>4. \A k \in {"color", "disabled", "relative", "density", "feather"} :
        r[k] = IF k = field THEN value ELSE s[k]
  BY <1>1
<1> HIDE DEF r
<1>5. r.color \in Nat
  BY <1>4, ImageLayersAssumption DEF IsSettings
<1>6. r.disabled \in BOOLEAN /\ r.relative \in BOOLEAN
  BY <1>4, ImageLayersAssumption DEF IsSettings
<1>7. Optional(r.density, Nat)
  BY <1>4, ImageLayersAssumption DEF IsSettings
<1>8. Optional(r.feather, Nat)
  BY <1>4, ImageLayersAssumption DEF IsSettings
<1>9. IsSettings(r)
  BY <1>3, <1>5, <1>6, <1>7, <1>8 DEF IsSettings
<1> QED BY <1>9 DEF r

LEMMA MaskSettingInv ==
  ASSUME NEW field \in Fields, NEW value \in Values[field]
  PROVE  Inv /\ MaskSetting(field, value) => Inv'
<1> SUFFICES ASSUME Inv, MaskSetting(field, value) PROVE Inv'
  OBVIOUS
<1> DEFINE settings == [layer[1].settings EXCEPT ![field] = value]
<1>1. Call /\ IsLayer(layer[1])
  BY CalledLayer DEF MaskSetting, Call
<1>2. IsSettings(settings)
  BY <1>1, SettingChanged DEF IsLayer
<1>3. layer' = <<[layer[1] EXCEPT !.settings = settings]>>
  BY DEF MaskSetting
<1> HIDE DEF settings
<1>4. IsLayer([layer[1] EXCEPT !.settings = settings])
  BY <1>1, <1>2, Changed
<1> QED BY <1>1, <1>3, <1>4, CallTyped

LEMMA ResizeInv ==
  ASSUME NEW size \in Sizes
  PROVE  Inv /\ Resize(size) => Inv'
<1> SUFFICES ASSUME Inv, Resize(size) PROVE Inv'
  OBVIOUS
<1>1. Call /\ IsLayer(layer[1]) /\ size \in Size
  BY CalledLayer, ImageLayersAssumption DEF Resize, Call
<1>2. IsLayer([layer[1] EXCEPT !.size = size])
  BY <1>1, Changed
<1> QED BY <1>1, <1>2, CallTyped DEF Resize

LEMMA MoveInv ==
  ASSUME NEW center \in Center
  PROVE  Inv /\ Move(center) => Inv'
<1> SUFFICES ASSUME Inv, Move(center) PROVE Inv'
  OBVIOUS
<1>1. Call /\ IsLayer(layer[1])
  BY CalledLayer DEF Move, Call
<1>2. IsLayer([layer[1] EXCEPT !.center = center])
  BY <1>1, Changed
<1> QED BY <1>1, <1>2, CallTyped DEF Move

LEMMA WriteInv == Inv /\ Write => Inv'
<1> SUFFICES ASSUME Inv, Write PROVE Inv'
  OBVIOUS
<1> DEFINE image == [i \in DOMAIN layer[1].image |-> <<>>]
           none  == <<>>
           l     == [layer[1] EXCEPT !.image = image]
<1>1. layer # <<>> /\ IsLayer(layer[1]) /\ layer = <<layer[1]>>
  BY CalledLayer DEF Write
<1>2. IsImage(image)
  BY DEF IsImage, Optional
<1>3. IsMask(none)
  BY DEF IsMask, Optional
<1>4. layer' = <<[[layer[1] EXCEPT !.image = image] EXCEPT !.mask = none]>>
  BY DEF Write
<1> HIDE DEF image, none
<1>5. IsLayer(l)
  BY <1>1, <1>2, Changed
<1> HIDE DEF l
<1>6. IsLayer([l EXCEPT !.mask = none])
  BY <1>3, <1>5, Changed
<1>7. layer' = <<[l EXCEPT !.mask = none]>>
  BY <1>4 DEF l
<1>8. ImageLayersTypeOK'
  BY <1>1, <1>6, <1>7 DEF Write, Inv, ImageLayersTypeOK
<1>9. FileIsBefore'
  BY <1>1 DEF Write, FileIsBefore, Present
<1> QED BY <1>8, <1>9 DEF Inv

LEMMA ReadInv == Inv /\ Read => Inv'
<1> SUFFICES ASSUME Inv, Read PROVE Inv'
  OBVIOUS
<1>1. file[1] = FileOf(before[1]) /\ IsLayer(before[1]) /\ Present(before[1])
  BY DEF Read, Inv, ImageLayersTypeOK, FileIsBefore
<1>2. IsLayer(LayerOf(file[1])) /\ layer' = <<LayerOf(file[1])>>
  BY <1>1, LayerOfTyped DEF Read
<1> QED BY <1>2 DEF Read, Inv, ImageLayersTypeOK, FileIsBefore

LEMMA RefuseInv == Inv /\ Refuse => Inv'
BY DEF Refuse, Inv, ImageLayersTypeOK, FileIsBefore

\* The middle a mask gets by default is a center.
LEMMA MiddleTyped ==
  ASSUME NEW size \in Size
  PROVE  Middle(size) \in Center
BY DEF Middle, Size, Center

LEMMA InvStep == Inv /\ [ImageNext]_imageVars => Inv'
<1> SUFFICES ASSUME Inv, [ImageNext]_imageVars PROVE Inv'
  OBVIOUS
<1>1. CASE SetParamsMask
  BY <1>1, SetParamsMaskInv
<1>2. CASE NewLayer
  BY <1>2, NewLayerInv
<1>3. CASE /\ layer # <<>>
           /\ \E data \in Passed, size \in Sizes \cup {layer[1].size} :
                SetImageData(data, size)
  <2>1. \A size \in Sizes \cup {layer[1].size} : size \in Size
    BY <1>3, CalledLayer, ImageLayersAssumption
  <2> QED BY <1>3, <2>1, SetImageDataInv
<1>4. CASE \E data \in Passed : \E i \in DOMAIN data : SetChannel(i, data[i])
  BY <1>4, SetChannelInv
<1>5. CASE \E size \in Sizes, buffer \in Buffers, center \in Centers :
             SetMask(size, Middle(size), buffer) \/ SetMask(size, center, buffer)
  <2>1. \A size \in Sizes : Middle(size) \in Center
    BY MiddleTyped, ImageLayersAssumption
  <2> QED BY <1>5, <2>1, MaskCallsInv, ImageLayersAssumption
<1>6. CASE ExtractMask
  BY <1>6, ExtractMaskInv
<1>7. CASE \E center \in Centers : MaskPosition(center) \/ Move(center)
  BY <1>7, MaskPositionInv, MoveInv, ImageLayersAssumption
<1>8. CASE \E field \in Fields : \E value \in Values[field] : MaskSetting(field, value)
  BY <1>8, MaskSettingInv
<1>9. CASE \E size \in Sizes : Resize(size)
  BY <1>9, ResizeInv
<1>10. CASE Write
  BY <1>10, WriteInv
<1>11. CASE Read
  BY <1>11, ReadInv
<1>12. CASE Refuse
  BY <1>12, RefuseInv
<1>13. CASE UNCHANGED imageVars
  BY <1>13 DEF imageVars, Inv, ImageLayersTypeOK, FileIsBefore
<1> QED BY <1>1, <1>2, <1>3, <1>4, <1>5, <1>6, <1>7, <1>8, <1>9, <1>10, <1>11, <1>12,
           <1>13 DEF ImageNext

\* Layers, masks and settings keep their types, and the file of a layer is what
\* was written of it until it is read.
THEOREM ImageLayersTypes == ImageSpec => [](ImageLayersTypeOK /\ FileIsBefore)
BY InvInitially, InvStep, PTL DEF ImageSpec, Inv

-----------------------------------------------------------------------------
(* What comes back.                                                         *)

\* A file that is read or refused is that of the layer `before'.
LEMMA ReadIsOfBefore ==
  ASSUME Inv, Read \/ Refuse
  PROVE  /\ IsLayer(before[1]) /\ Present(before[1])
         /\ file[1] = FileOf(before[1])
         /\ Read => layer'[1] = LayerOf(FileOf(before[1]))
BY DEF Inv, ImageLayersTypeOK, FileIsBefore, Read, Refuse

\* The channels of a layer that has their size are read as they were written.
LEMMA ImageReads ==
  ASSUME NEW l, IsLayer(l), Present(l), Fits(l), RealMaskAgrees(l)
  PROVE  /\ \A i \in DOMAIN l.image : ReadsAsWritten(FileOf(l), i)
         /\ LayerOf(FileOf(l)).image = l.image
<1> DEFINE f == FileOf(l)
<1>1. \A i \in DOMAIN l.image :
        /\ l.image[i] = <<l.image[i][1]>>
        /\ l.image[i][1] \in [size : Size, of : Images \cup {Garbage}]
        /\ l.image[i][1].size = l.size
  BY DEF IsLayer, IsImage, Optional, Present, Fits
<1>2. \A i \in DOMAIN l.image : SizeOf(ExtentsOf(f, i)) = l.size
  BY FileOfLayer DEF ExtentsOf, RealMaskAgrees
<1>3. \A i \in DOMAIN l.image : ReadsAsWritten(f, i)
  BY <1>1, <1>2, FileOfLayer DEF ReadsAsWritten
<1>4. \A i \in DOMAIN l.image : ReadChannel(f, i) = l.image[i][1]
  BY <1>1, <1>2, <1>3, FileOfLayer DEF ReadChannel
<1>5. LayerOf(f).image = [i \in DOMAIN l.image |-> <<ReadChannel(f, i)>>]
  BY FileOfLayer DEF LayerOf
<1>6. l.image = [i \in DOMAIN l.image |-> l.image[i]]
  BY DEF IsLayer, IsImage
<1> HIDE DEF f
<1>7. LayerOf(f).image = l.image
  BY <1>1, <1>4, <1>5, <1>6
<1> QED BY <1>3, <1>7 DEF f

LEMMA ImageReturnsStep == Inv /\ [ImageNext]_imageVars => [ImageReturns]_imageVars
<1> DEFINE was == before[1]
<1> SUFFICES ASSUME Inv, ImageNext, before # <<>>, Fits(was), RealMaskAgrees(was),
                    ~EmptyWithMask(was)
             PROVE  /\ Refuse => was.settings.color \notin {0, 255}
                    /\ Read =>
                         /\ layer'[1].size = was.size
                         /\ layer'[1].image = was.image
                         /\ Near(layer'[1].center, was.center)
                         /\ OnPixels(was.size, was.center) => layer'[1].center = was.center
  BY DEF ImageReturns
<1>1. ASSUME Refuse PROVE was.settings.color \notin {0, 255}
  <2>1. IsLayer(was) /\ Present(was) /\ file[1] = FileOf(was)
    BY <1>1, ReadIsOfBefore
  <2>2. \A i \in DOMAIN file[1].image : ReadsAsWritten(file[1], i)
    BY <2>1, ImageReads, FileOfLayer
  <2>3. ~ColorIsRead(file[1])
    BY <1>1, <2>2 DEF Refuse
  <2> QED BY <2>1, <2>3, FileOfLayer DEF ColorIsRead
<1>2. ASSUME Read
      PROVE  /\ layer'[1].size = was.size /\ layer'[1].image = was.image
             /\ layer'[1].center = CenterOf(Extents(was.size, was.center))
             /\ was.size \in Size /\ was.center \in Center
  <2>1. IsLayer(was) /\ Present(was) /\ layer'[1] = LayerOf(FileOf(was))
    BY <1>2, ReadIsOfBefore
  <2>2. was.size \in Size /\ was.center \in Center
    BY <2>1 DEF IsLayer
  <2>3. LayerExtents(FileOf(was)) = Extents(was.size, was.center)
    BY <2>1, ReadExtents
  <2>4. SizeOf(Extents(was.size, was.center)) = was.size
    BY <2>2, ExtentsKeepSize
  <2>5. LayerOf(FileOf(was)).size = was.size
        /\ LayerOf(FileOf(was)).center = CenterOf(Extents(was.size, was.center))
    BY <2>3, <2>4 DEF LayerOf
  <2> QED BY <2>1, <2>2, <2>5, ImageReads
<1> QED BY <1>1, <1>2, ExtentsKeepCenter

LEMMA MaskReturnsStep == Inv /\ [ImageNext]_imageVars => [Read => MaskReturns]_imageVars
<1> DEFINE l   == before[1]
           was == l.mask
           is  == layer'[1].mask
<1> SUFFICES ASSUME Inv, Read PROVE MaskReturns
  OBVIOUS
<1>1. IsLayer(l) /\ Present(l) /\ layer'[1] = LayerOf(FileOf(l))
  BY ReadIsOfBefore
<1>2. CASE was = <<>>
  <2>1. is = <<>>
    BY <1>1, <1>2, FileOfLayer DEF LayerOf
  <2> QED BY <1>2, <2>1 DEF MaskReturns
<1>3. CASE was # <<>>
  <2>1. is = ReadMask(FileOf(l).mask[1])
        /\ layer'[1].settings = ReadSettings(FileOf(l).mask[1].settings)
    BY <1>1, <1>3, FileOfLayer DEF LayerOf
  <2>2. is # <<>> /\ is[1].size = was[1].size /\ is[1].of = was[1].of
        /\ is[1].center = CenterOf(Extents(was[1].size, was[1].center))
    BY <1>1, <1>3, <2>1, ReadMaskTyped
  <2>3. was[1].size \in Size /\ was[1].center \in Center
    BY <1>1, <1>3 DEF IsLayer, IsMask, Optional
  <2>4. Near(is[1].center, was[1].center)
        /\ (OnPixels(was[1].size, was[1].center) => is[1].center = was[1].center)
    BY <2>2, <2>3, ExtentsKeepCenter
  <2>5. layer'[1].settings = ReadSettings(l.settings) /\ IsSettings(l.settings)
    BY <1>1, <1>3, <2>1, FileOfLayer DEF IsLayer
  <2>6. \A field \in Fields : SettingReturns(field)
    BY <2>5, SettingsSettle DEF SettingReturns
  <2> QED BY <1>3, <2>2, <2>4, <2>6 DEF MaskReturns
<1> QED BY <1>2, <1>3

LEMMA SettlesStep ==
  Inv /\ [ImageNext]_imageVars
    => [Read /\ ~EmptyWithMask(before[1]) => Again(layer'[1]) = layer'[1]]_imageVars
<1> SUFFICES ASSUME Inv, Read, ~EmptyWithMask(before[1])
             PROVE  Again(layer'[1]) = layer'[1]
  OBVIOUS
<1> QED BY ReadIsOfBefore, LayerOfSettles DEF Again

\* A layer of any size at any center, whose channels have its size, is refused
\* for nothing but the color of its mask, and comes back with its size and its
\* pixels, half a pixel away at most.
THEOREM ImagesComeBack == ImageSpec => ImageComesBack
BY InvInitially, InvStep, ImageReturnsStep, PTL DEF ImageSpec, ImageComesBack

\* Masks of any size anywhere come back with their pixels and settings, but for
\* the parameters of one that has a feather.
THEOREM MasksComeBack == ImageSpec => MaskComesBack
BY InvInitially, InvStep, MaskReturnsStep, PTL DEF ImageSpec, MaskComesBack

\* A layer that was read is not changed by another way through a file, unless
\* it was empty and had a mask.
THEOREM LayersSettle == ImageSpec => ReadLayersSettle
BY InvInitially, InvStep, SettlesStep, PTL DEF ImageSpec, ReadLayersSettle
=============================================================================
