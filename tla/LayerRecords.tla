----------------------------- MODULE LayerRecords -----------------------------
(***************************************************************************)
(* The flat form of the hierarchy.  On write the hierarchy becomes a list  *)
(* of layer records, back to front, with a section divider that closes     *)
(* every group; on read the list is turned into a hierarchy again.  The    *)
(* module also has the flat list of layers without dividers, which         *)
(* flat_layers() gives to clients and clear_unused_linked_layers walks.    *)
(***************************************************************************)
EXTENDS LayerTreeClient

CONSTANT Divider       \* a SectionDividerLayer

ASSUME DividerAssumption == Divider \notin Layers \cup {Root, NoLayer}

\* generate_flattened_layers_recursive, for every parent, to a depth of n.
FlattenedToDepth(k, insertSectionDivider) ==
  LET flat[n \in 0..Cardinality(Groups)] ==
        [p \in Parents |->
           FlattenSeq([i \in 1..Len(k[p]) |->
             <<k[p][i]>> \o
             (IF n > 0 /\ k[p][i] \in Groups
              THEN flat[n - 1][k[p][i]] \o
                   (IF insertSectionDivider THEN <<Divider>> ELSE <<>>)
              ELSE <<>>)])]
  IN  flat

Flattened(k, insertSectionDivider) ==
  FlattenedToDepth(k, insertSectionDivider)[Cardinality(Groups)][Root]

\* Slip: the records are in the order of the tree.
RecordsInTreeOrder(k) == Flattened(k, TRUE)

\* generate_layerinfo: the records are written in reverse.
Records(k) == Reverse(Flattened(k, TRUE))

\* build_layer_hierarchy_recursive over the reversed records: every parent
\* with the layers it gets.  From place i it reads the layers of one list, up
\* to the divider or the end (`at'), and fills the lists of the groups it
\* meets (`lists').  An unclosed group leads it behind the end.
Built(records) ==
  LET recs == Reverse(records)
      build[i \in Nat \ {0}] ==
        IF i > Len(recs) \/ recs[i] = Divider
        THEN [list |-> <<>>, at |-> i, lists |-> {}]
        ELSE LET group == recs[i] \in Groups
                 inner == build[i + 1]
                 rest  == build[IF group THEN inner.at + 1 ELSE i + 1]
             IN  [list  |-> <<recs[i]>> \o rest.list,
                  at    |-> rest.at,
                  lists |-> (IF group THEN {<<recs[i], inner.list>>} \cup inner.lists ELSE {})
                              \cup rest.lists]
  IN  {<<Root, build[1].list>>} \cup build[1].lists

-----------------------------------------------------------------------------
\* The records written for a document rebuild it: reading them gives the
\* document and every group in it the list it had, order included, once, and
\* no other group.
RecordsRebuildTheTree ==
  Built(Records(kids)) =
    {<<p, kids[p]>> : p \in {Root} \cup {g \in Groups : InFile(kids, Root, g)}}
=============================================================================
