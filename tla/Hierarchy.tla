------------------------------ MODULE Hierarchy ------------------------------
(***************************************************************************)
(* The lists of layers of documents and groups, and what the calls that    *)
(* edit them make of them.                                                 *)
(*                                                                         *)
(* A hierarchy k maps every document and every GroupLayer to the layers it *)
(* owns, in order (LayeredFile::m_Layers, GroupLayer::m_Layers).  Layers   *)
(* are shared pointers, so a group that was removed, or was never added,   *)
(* has a list as well.  Every recursive walk of the code is a depth-first, *)
(* parent-before-children walk; it is modelled once, by the sequence of    *)
(* slots it visits.                                                        *)
(***************************************************************************)
EXTENDS Naturals, Sequences, FiniteSets, SequencesExt

CONSTANTS
  Layers,      \* every layer object
  Groups,      \* the layers that are GroupLayers
  NoLayer,     \* a null shared_ptr
  NameOf       \* the name of each layer; two layers may share one

ASSUME HierarchyAssumption ==
  /\ IsFiniteSet(Layers)
  /\ Groups \subseteq Layers
  /\ NoLayer \notin Layers

-----------------------------------------------------------------------------
(* Walks.  A slot <<p, i>> is the i-th place of p's list.                  *)

\* The slots below every parent in visiting order, to a nesting depth of n.
SlotsToDepth(k) ==
  LET walk[n \in 0..Cardinality(Groups)] ==
        [p \in DOMAIN k |->
           FlattenSeq([i \in 1..Len(k[p]) |->
             <<<<p, i>>>> \o
             (IF n > 0 /\ k[p][i] \in Groups THEN walk[n - 1][k[p][i]] ELSE <<>>)])]
  IN  walk

Slots(k, p) == SlotsToDepth(k)[Cardinality(Groups)][p]

At(k, s) == k[s[1]][s[2]]

\* layer_in_document_recursive: the layers found by a walk that starts below p.
LayersUnder(k, p) ==
  IF p \in DOMAIN k THEN {At(k, s) : s \in Range(Slots(k, p))} ELSE {}

Below(k, l) == {l} \cup LayersUnder(k, l)

\* is_layer_in_file of the document root.
InFile(k, root, l) == l \in LayersUnder(k, root)

\* The group that is below itself makes every walk that enters it endless.
Cyclic(k) == \E g \in Groups : g \in LayersUnder(k, g)

Places(k, l) == {s \in UNION {{p} \X (1..Len(k[p])) : p \in DOMAIN k} : At(k, s) = l}

\* No layer has two places and no group is below itself.
IsForest(k) ==
  /\ \A l \in Layers : \A s, t \in Places(k, l) : s = t
  /\ ~Cyclic(k)

-----------------------------------------------------------------------------
(* What the calls make of the lists.                                       *)

\* Slip: no test for a layer that is already in the document.
InsertedUnchecked(k, root, p, l) == [k EXCEPT ![p] = Append(@, l)]

\* add_layer of the document (p = root) and of a group: the only test is
\* whether the layer itself is already in the document.
Inserted(k, root, p, l) ==
  IF InFile(k, root, l) THEN k ELSE [k EXCEPT ![p] = Append(@, l)]

\* Slip: the last layer takes the place of the erased one.
ErasedBySwap(k, s) ==
  LET list == k[s[1]]
  IN  [k EXCEPT ![s[1]] = Front([list EXCEPT ![s[2]] = Last(list)])]

Erased(k, s) == [k EXCEPT ![s[1]] = RemoveAt(@, s[2])]

\* Slip: the groups are not searched.
RemovedFromTop(k, root, l) ==
  LET i == SelectInSeq(k[root], LAMBDA x : x = l)
  IN  IF i = 0 THEN k ELSE Erased(k, <<root, i>>)

\* LayeredFile::remove_layer: the first slot of the walk that holds l.
Removed(k, root, l) ==
  LET slots == Slots(k, root)
      i     == SelectInSeq(slots, LAMBDA s : At(k, s) = l)
  IN  IF i = 0 THEN k ELSE Erased(k, slots[i])

\* Slip: a layer may be moved under itself.
IsMovingUpOnly(k, l, p) == l \in LayersUnder(k, p)

\* is_moving_to_invalid_hierarchy, with the arguments in the code's order.
IsMovingToInvalidHierarchy(k, l, p) == l \in LayersUnder(k, p) \/ l = p

\* move_layer: to the document without a parent; not at all to an invalid
\* one; and to a parent that is no group the layer is only removed.
Relocated(k, root, l, p) ==
  IF p = NoLayer THEN Inserted(Removed(k, root, l), root, root, l)
  ELSE IF IsMovingToInvalidHierarchy(k, l, p) THEN k
  ELSE IF p \in Groups THEN Inserted(Removed(k, root, l), root, p, l)
  ELSE Removed(k, root, l)

\* The first layer of p's list that has the name.
Named(k, p, name) ==
  LET i == IF p \in DOMAIN k
           THEN SelectInSeq(k[p], LAMBDA l : NameOf[l] = name)
           ELSE 0
  IN  IF i = 0 THEN NoLayer ELSE k[p][i]

\* find_layer: on every level the first layer of that name, without coming
\* back to a later layer of the same name.
Found(k, root, path) ==
  LET step[n \in 0..Len(path)] ==
        IF n = 0 THEN root ELSE Named(k, step[n - 1], path[n])
  IN  step[Len(path)]
=============================================================================
