--------------------------- MODULE DocumentHandles ---------------------------
(***************************************************************************)
(* The handles of the C API (PhotoshopAPI.C) and the documents behind      *)
(* them.  A layer handle shares its layer with the document, remembers the *)
(* document with a weak pointer and keeps a flag, attached; the documents  *)
(* edit one Hierarchy, over the same layers, each as its root.             *)
(*                                                                         *)
(* Only calls that succeed are actions: a call that is refused changes     *)
(* nothing but the text of last_error.  Documents and layers have 8 bits   *)
(* per channel, which the calls that create and add layers ask for.  What  *)
(* nothing points to any longer is freed, and its identifier may stand for *)
(* a new object later.                                                     *)
(***************************************************************************)
EXTENDS Hierarchy

CONSTANTS
  Docs,        \* the document handles a client may have at a time
  Handles,     \* the layer handles a client may have at a time
  NoDocument,  \* a weak_ptr that does not lock
  Paths,       \* the paths the client may pass to find_layer
  Files        \* what may be read: the lists of a document ("top") and of
               \* every group

\* The hierarchy of a file that is read into document d.
ListsOf(file, d) ==
  [p \in Groups \cup {d} |-> IF p = d THEN file.top ELSE file.groups[p]]

\* build_layer_hierarchy makes a tree: every layer has one place, and a group
\* that is not in the file is none of its groups.
ASSUME DocumentHandlesAssumption ==
  /\ Docs \cap Layers = {}
  /\ NoLayer \notin Docs
  /\ NoDocument \notin Docs
  /\ Files \subseteq [top : Seq(Layers), groups : [Groups -> Seq(Layers)]]
  /\ \A d \in Docs, file \in Files :
       /\ IsForest(ListsOf(file, d))
       /\ \A g \in Groups :
            file.groups[g] # <<>> => InFile(ListsOf(file, d), d, g)
  /\ Paths \subseteq Seq(Range(NameOf)) \ {<<>>}

VARIABLES
  kids,        \* the list of layers of every document and every group
  status,      \* of each document: none, usable or consumed by a write
  handle,      \* the state of each layer handle
  drained      \* the layers whose channels a write moved out

vars == <<kids, status, handle, drained>>

Owners == Docs \cup Groups

NoHandle == [layer |-> NoLayer, document |-> NoDocument, attached |-> FALSE]

TypeOK ==
  /\ kids \in [Owners -> Seq(Layers)]
  /\ status \in [Docs -> {"none", "usable", "consumed"}]
  /\ handle \in [Handles -> [layer : Layers \cup {NoLayer},
                             document : Docs \cup {NoDocument},
                             attached : BOOLEAN]]
  /\ drained \subseteq Layers
  /\ \A h \in Handles :
       handle[h].document # NoDocument => status[handle[h].document] # "none"

-----------------------------------------------------------------------------
(* What is reachable.                                                      *)

Holds(d, l)  == InFile(kids, d, l)
Open         == {h \in Handles : handle[h].layer # NoLayer}
Usable(d)    == status[d] = "usable"

\* The layers something still points to, when the handles are hs and the
\* hierarchies are k.
Shared(k, hs) ==
  UNION ({LayersUnder(k, d) : d \in Docs}
    \cup {Below(k, hs[h].layer) : h \in {x \in Handles : hs[x].layer # NoLayer}})

\* References were dropped: what nothing points to is freed.
Release(k, hs, gone) ==
  LET alive == Shared(k, hs)
  IN  /\ kids' = [p \in Owners |-> IF p \in Docs \cup alive THEN k[p] ELSE <<>>]
      /\ handle' = hs
      /\ drained' = gone \cap alive

Free == Layers \ Shared(kids, handle)

\* make_layer_handle, in a handle the client has free.
MakeHandle(h, l, d, attached) ==
  /\ h \notin Open
  /\ handle' = [handle EXCEPT ![h] = [layer |-> l, document |-> d, attached |-> attached]]

-----------------------------------------------------------------------------
(* The tests of the calls that add a layer.                                *)

\* Slip: the flag is not tested.
MayAttachAgain(h, d) == handle[h].document \in {NoDocument, d}

\* Slip: the document the layer came from is not asked for.
MayAttachAnywhere(h, d) == ~handle[h].attached

MayAttach(h, d) == ~handle[h].attached /\ handle[h].document \in {NoDocument, d}

Attached(h, d) == [handle EXCEPT ![h].document = d, ![h].attached = TRUE]

\* Slip: a child of a group that has lost its document counts as unattached.
ChildAttachedIfOwned(g) == handle[g].document # NoDocument

\* get_child: the flag of the handle of a child.
ChildAttached(g) == TRUE

-----------------------------------------------------------------------------
(* Documents.                                                              *)

Init ==
  /\ kids = [p \in Owners |-> <<>>]
  /\ status = [d \in Docs |-> "none"]
  /\ handle = [h \in Handles |-> NoHandle]
  /\ drained = {}

CreateDocument(d) ==
  /\ status[d] = "none"
  /\ status' = [status EXCEPT ![d] = "usable"]
  /\ UNCHANGED <<kids, handle, drained>>

\* A file brings layers of its own.
ReadDocument(d, file) ==
  LET lists == ListsOf(file, d)
      read  == UNION {Range(lists[p]) : p \in DOMAIN lists}
  IN  /\ status[d] = "none"
      /\ read \subseteq Free
      /\ status' = [status EXCEPT ![d] = "usable"]
      /\ kids' = [p \in Owners |->
                    IF p = d \/ p \in read THEN lists[p] ELSE kids[p]]
      /\ UNCHANGED <<handle, drained>>

\* The weak pointers of the layer handles expire.
DestroyDocument(d) ==
  /\ status[d] # "none"
  /\ status' = [status EXCEPT ![d] = "none"]
  /\ Release([kids EXCEPT ![d] = <<>>],
             [h \in Handles |->
                [handle[h] EXCEPT !.document = IF @ = d THEN NoDocument ELSE @]],
             drained)

\* document_write_ex: the document is consumed before anything can fail, and
\* the native document is gone afterwards.  The layers are converted from the
\* last of the walk to the first; n of them gave their channels away when the
\* write ended or failed.
Write(d, n) ==
  LET slots == Reverse(Slots(kids, d))
  IN  /\ Usable(d)
      /\ n \in 0..Len(slots)
      /\ status' = [status EXCEPT ![d] = "consumed"]
      /\ Release([kids EXCEPT ![d] = <<>>], handle,
                 drained \cup {At(kids, slots[i]) : i \in 1..n})
    
-----------------------------------------------------------------------------
(* Layer handles.                                                          *)

\* group_layer_create and image_layer_create.
CreateLayer(h, l) ==
  /\ MakeHandle(h, l, NoDocument, FALSE)
  /\ l \in Free
  /\ UNCHANGED <<kids, status, drained>>

DestroyLayer(h) ==
  /\ h \in Open
  /\ Release(kids, [handle EXCEPT ![h] = NoHandle], drained)
  /\ UNCHANGED status

GetRootLayer(h, d, i) ==
  /\ Usable(d)
  /\ i \in 1..Len(kids[d])
  /\ MakeHandle(h, kids[d][i], d, TRUE)
  /\ UNCHANGED <<kids, status, drained>>

FindLayer(h, d, path) ==
  LET l == Found(kids, d, path)
  IN  /\ Usable(d)
      /\ l # NoLayer
      /\ MakeHandle(h, l, d, TRUE)
      /\ UNCHANGED <<kids, status, drained>>

\* The parent need not be in a document, nor its document be usable.
GetChild(h, g, i) ==
  /\ handle[g].layer \in Groups
  /\ i \in 1..Len(kids[handle[g].layer])
  /\ MakeHandle(h, kids[handle[g].layer][i], handle[g].document, ChildAttached(g))
  /\ UNCHANGED <<kids, status, drained>>

DocumentAddLayer(d, h) ==
  /\ h \in Open
  /\ Usable(d)
  /\ MayAttach(h, d)
  /\ ~Cyclic(kids)
  /\ kids' = Inserted(kids, d, d, handle[h].layer)
  /\ handle' = Attached(h, d)
  /\ UNCHANGED <<status, drained>>

\* The group has to know a usable document, whether it is attached or not.
GroupAddLayer(d, g, h) ==
  /\ h \in Open
  /\ handle[g].layer \in Groups
  /\ handle[g].document = d
  /\ Usable(d)
  /\ MayAttach(h, d)
  /\ ~Cyclic(kids)
  /\ kids' = Inserted(kids, d, handle[g].layer, handle[h].layer)
  /\ handle' = Attached(h, d)
  /\ UNCHANGED <<status, drained>>

\* remove_layer clears the flag of this handle only, in the document or not.
RemoveLayer(d, h) ==
  /\ h \in Open
  /\ Usable(d)
  /\ ~Cyclic(kids)
  /\ kids' = Removed(kids, d, handle[h].layer)
  /\ handle' = [handle EXCEPT ![h].attached = FALSE]
  /\ UNCHANGED <<status, drained>>

\* move_layer sets the flag and leaves the handle's document as it was.
MoveLayer(d, h, p) ==
  /\ h \in Open
  /\ Usable(d)
  /\ ~Cyclic(kids)
  /\ kids' = Relocated(kids, d, handle[h].layer, p)
  /\ handle' = [handle EXCEPT ![h].attached = TRUE]
  /\ UNCHANGED <<status, drained>>

-----------------------------------------------------------------------------
(* The client's obligations, which the calls do not check: it removes and  *)
(* moves a layer with the document that holds it and that the handle came  *)
(* from, and never puts a group below itself.                              *)

MayEdit(d, h) == handle[h].document = d /\ Holds(d, handle[h].layer)

CarefulRemove(d, h) == MayEdit(d, h) /\ RemoveLayer(d, h)

CarefulMove(d, h, p) ==
  /\ MayEdit(d, h)
  /\ p = NoLayer \/ Holds(d, p)
  /\ p \notin LayersUnder(kids, handle[h].layer)
  /\ MoveLayer(d, h, p)

CarefulGroupAdd(d, g, h) ==
  /\ h \in Open
  /\ handle[g].layer \notin Below(kids, handle[h].layer)
  /\ GroupAddLayer(d, g, h)

Parents == {handle[h].layer : h \in Handles}

CarefulNext ==
  \/ \E d \in Docs : CreateDocument(d) \/ DestroyDocument(d)
  \/ \E d \in Docs, file \in Files : ReadDocument(d, file)
  \/ \E d \in Docs, n \in 0..Cardinality(Layers) : Write(d, n)
  \/ \E h \in Handles, l \in Layers : CreateLayer(h, l)
  \/ \E h \in Handles : DestroyLayer(h)
  \/ \E h \in Handles, d \in Docs, i \in 1..Cardinality(Layers) : GetRootLayer(h, d, i)
  \/ \E h \in Handles, d \in Docs, path \in Paths : FindLayer(h, d, path)
  \/ \E h, g \in Handles, i \in 1..Cardinality(Layers) : GetChild(h, g, i)
  \/ \E d \in Docs, h \in Handles : DocumentAddLayer(d, h) \/ CarefulRemove(d, h)
  \/ \E d \in Docs, g, h \in Handles : CarefulGroupAdd(d, g, h)
  \/ \E d \in Docs, h \in Handles, p \in Parents \cup {NoLayer} : CarefulMove(d, h, p)

CarefulSpec == Init /\ [][CarefulNext]_vars

-----------------------------------------------------------------------------
(* What a careful client may rely on.                                      *)

\* A layer whose handle says it is not attached has no place in any document
\* or group: the flag that guards add_layer is never too low, whichever of
\* the layer's handles the calls were made with.
UnattachedIsFree ==
  \A h \in Open : ~handle[h].attached => Places(kids, handle[h].layer) = {}

\* Over all documents and all groups, detached and written ones included, a
\* layer has one place at most and no group is below itself: separate
\* documents share no layer ("Separate documents may be used concurrently",
\* ABI.md).
OneOwner == IsForest(kids)

\* The document a handle remembers, while it exists, is the one that holds
\* the layer, if any does: add_layer asks for a layer's document, and a group
\* for its own to add a child, on true information, although remove_layer and
\* move_layer leave the pointer as it was and the other handles of the layer
\* are never told.
HandleKnowsItsDocument ==
  \A h \in Open, d \in Docs :
    (handle[h].document # NoDocument /\ Holds(d, handle[h].layer))
      => d = handle[h].document

\* No document that can still be written holds a layer whose channels went
\* into an earlier write, complete or failed: "Writing consumes the
\* document's layered-file value" (ABI.md), and a second conversion of such a
\* layer would read channels that are gone.
DrainedIsNotWrittenAgain ==
  \A d \in Docs : Usable(d) => LayersUnder(kids, d) \cap drained = {}
=============================================================================
