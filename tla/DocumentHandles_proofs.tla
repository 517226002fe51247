------------------------ MODULE DocumentHandles_proofs ------------------------
(***************************************************************************)
(* What TLAPS proves of the handles of the C API, for any documents,       *)
(* handles, layers and files: what a careful client may rely on.           *)
(*                                                                         *)
(* The four properties are not inductive one by one.  A handle that is     *)
(* attached to a document brings the layers below its own along, so the    *)
(* invariant also says what the other handles below an unattached layer    *)
(* remember, that those layers have their channels, and that what nothing  *)
(* points to has no lists.                                                 *)
(***************************************************************************)
EXTENDS DocumentHandles, Hierarchy_proofs

-----------------------------------------------------------------------------
(* The inductive invariant, of the lists k, the documents' states st, the  *)
(* handles hs and the drained layers dr.                                   *)

OpenIn(hs) == {h \in Handles : hs[h].layer # NoLayer}

Trees(k) == IsHierarchy(k) /\ DOMAIN k = Owners /\ IsForest(k)

States == [Docs -> {"none", "usable", "consumed"}]

HandleStates ==
  [Handles -> [layer : Layers \cup {NoLayer}, document : Docs \cup {NoDocument},
               attached : BOOLEAN]]

\* A handle remembers a document that exists.
DocumentsExist(st, hs) ==
  \A h \in Handles : hs[h].document # NoDocument => st[hs[h].document] # "none"

\* What nothing points to has no list and no drained layers.
Owned(k, hs, dr) ==
  /\ \A g \in Groups : Range(k[g]) # {} => g \in Shared(k, hs)
  /\ dr \subseteq Shared(k, hs)

OnlyUsableHold(k, st) == \A d \in Docs : st[d] # "usable" => Range(k[d]) = {}

\* The layer of a handle that is not attached is in no list.
FlagIsTrue(k, hs) ==
  \A h \in OpenIn(hs) :
    ~ hs[h].attached => \A p \in DOMAIN k : hs[h].layer \notin Range(k[p])

\* A layer has one handle that is not attached.
OneUnattached(hs) ==
  \A a, b \in OpenIn(hs) :
    (~ hs[a].attached /\ ~ hs[b].attached /\ hs[a].layer = hs[b].layer) => a = b

DocumentIsTrue(k, hs) ==
  \A h \in OpenIn(hs) : \A d \in Docs :
    (hs[h].document # NoDocument /\ hs[h].layer \in LayersUnder(k, d))
      => d = hs[h].document

\* The handles of one tree that remember a document remember the same one.
TreeAgrees(k, hs) ==
  \A r \in Layers : \A a, b \in OpenIn(hs) :
    (/\ hs[a].layer \in Below(k, r) /\ hs[a].document # NoDocument
     /\ hs[b].layer \in Below(k, r) /\ hs[b].document # NoDocument)
      => hs[a].document = hs[b].document

\* Below an unattached layer of no document nobody remembers one.
NoneBelow(k, hs) ==
  \A a, b \in OpenIn(hs) :
    (/\ ~ hs[a].attached /\ hs[a].document = NoDocument
     /\ hs[b].layer \in Below(k, hs[a].layer))
      => hs[b].document = NoDocument

\* Below an unattached layer all have their channels.
NotDrained(k, hs, dr) ==
  \A h \in OpenIn(hs) : ~ hs[h].attached => Below(k, hs[h].layer) \cap dr = {}

Writable(k, st, dr) ==
  \A d \in Docs : st[d] = "usable" => LayersUnder(k, d) \cap dr = {}

Types(k, st, hs, dr) ==
  /\ Trees(k)
  /\ st \in States
  /\ hs \in HandleStates
  /\ dr \subseteq Layers
  /\ DocumentsExist(st, hs)

\* What the handles say.
Handled(k, hs) ==
  /\ FlagIsTrue(k, hs)
  /\ OneUnattached(hs)
  /\ DocumentIsTrue(k, hs)
  /\ TreeAgrees(k, hs)
  /\ NoneBelow(k, hs)

HandlesInvariant(k, st, hs, dr) ==
  /\ Types(k, st, hs, dr)
  /\ Owned(k, hs, dr)
  /\ OnlyUsableHold(k, st)
  /\ Handled(k, hs)
  /\ NotDrained(k, hs, dr)
  /\ Writable(k, st, dr)

-----------------------------------------------------------------------------
(* Trees of documents and layers.                                          *)

LEMMA TreesMean ==
  ASSUME NEW k, Trees(k)
  PROVE  /\ IsHierarchy(k) /\ DOMAIN k = Owners /\ IsForest(k)
         /\ Unique(k) /\ ~ Cyclic(k)
         /\ Groups \subseteq Layers /\ NoLayer \notin Layers
         /\ \A d \in Docs : d \in DOMAIN k /\ d \notin Layers /\ d # NoDocument /\ d # NoLayer
         /\ \A g \in Groups : g \in DOMAIN k
         /\ \A q \in DOMAIN k : q \in Docs \/ q \in Groups
         /\ \A q : LayersUnder(k, q) \subseteq Layers
         /\ \A q \in DOMAIN k : Range(k[q]) \subseteq LayersUnder(k, q)
<1>1. IsHierarchy(k) /\ DOMAIN k = Owners /\ IsForest(k)
  BY DEF Trees
<1>2. Unique(k) /\ ~ Cyclic(k)
  BY <1>1, ForestMeans
<1>3. \A q : LayersUnder(k, q) \subseteq Layers
  BY <1>1, Nested
<1>4. \A q \in DOMAIN k : Range(k[q]) \subseteq LayersUnder(k, q)
  BY <1>1, WalkFindsAll
<1> QED
  BY <1>1, <1>2, <1>3, <1>4, HierarchyAssumption, DocumentHandlesAssumption DEF Owners

\* A tree that holds a layer of a document is in the document itself.
LEMMA TreeInDocument ==
  ASSUME NEW k, Trees(k), NEW d \in Docs, NEW l \in LayersUnder(k, d),
         NEW r \in Layers, l \in Below(k, r)
  PROVE  r \in LayersUnder(k, d) /\ Below(k, r) \subseteq LayersUnder(k, d)
<1>1. /\ IsHierarchy(k) /\ Unique(k) /\ d \in DOMAIN k /\ d \notin Layers
      /\ LayersUnder(k, r) \subseteq Layers
  BY TreesMean
<1>2. r \in LayersUnder(k, d)
  <2>1. CASE l = r
    BY <2>1
  <2>2. CASE l \in LayersUnder(k, r)
    <3>1. r \in DOMAIN k
      BY <2>2 DEF LayersUnder
    <3>2. r = d \/ r \in LayersUnder(k, d) \/ d \in LayersUnder(k, r)
      BY <1>1, <2>2, <3>1, WalksMeet
    <3> QED BY <1>1, <3>2
  <2> QED BY <2>1, <2>2 DEF Below
<1> QED BY <1>1, <1>2, Nested

\* Documents share no layer.
LEMMA DocumentsAreApart ==
  ASSUME NEW k, Trees(k), NEW d \in Docs, NEW e \in Docs,
         NEW l \in LayersUnder(k, d), l \in LayersUnder(k, e)
  PROVE  d = e
<1>1. /\ IsHierarchy(k) /\ Unique(k) /\ d \in DOMAIN k /\ d \notin Layers
      /\ e \in DOMAIN k /\ e \notin Layers
      /\ LayersUnder(k, d) \subseteq Layers /\ LayersUnder(k, e) \subseteq Layers
  BY TreesMean
<1>2. d = e \/ d \in LayersUnder(k, e) \/ e \in LayersUnder(k, d)
  BY <1>1, WalksMeet
<1> QED BY <1>1, <1>2

\* A layer that is in no list is below itself only.
LEMMA TopOfItsTree ==
  ASSUME NEW k, IsHierarchy(k), NEW l, \A p \in DOMAIN k : l \notin Range(k[p])
  PROVE  /\ \A q : l \notin LayersUnder(k, q)
         /\ \A r : l \in Below(k, r) => r = l
<1>1. ASSUME NEW q, l \in LayersUnder(k, q) PROVE FALSE
  <2>1. q \in DOMAIN k
    BY <1>1 DEF LayersUnder
  <2>2. \E p \in DOMAIN k : l \in Range(k[p])
    BY <1>1, <2>1, HasParent
  <2> QED BY <2>2
<1> QED BY <1>1 DEF Below

\* Whoever holds a child holds its parent.
LEMMA ParentIsHeldToo ==
  ASSUME NEW k, Trees(k), NEW g \in Groups, NEW c \in Range(k[g]), NEW q,
         c \in LayersUnder(k, q)
  PROVE  g = q \/ g \in LayersUnder(k, q)
<1>1. IsHierarchy(k) /\ Unique(k) /\ g \in DOMAIN k /\ q \in DOMAIN k
  BY TreesMean DEF LayersUnder
<1> QED BY <1>1, OneParent

-----------------------------------------------------------------------------
(* What something points to.                                               *)

LEMMA SharedMeans ==
  ASSUME NEW k, NEW hs, NEW y
  PROVE  y \in Shared(k, hs)
           <=> \/ \E d \in Docs : y \in LayersUnder(k, d)
               \/ \E h \in OpenIn(hs) : y \in Below(k, hs[h].layer)
BY DEF Shared, OpenIn

LEMMA SharedIsClosed ==
  ASSUME NEW k, Trees(k), NEW hs, NEW x \in Shared(k, hs)
  PROVE  Below(k, x) \subseteq Shared(k, hs)
<1>1. ASSUME NEW q, x \in LayersUnder(k, q) PROVE Below(k, x) \subseteq LayersUnder(k, q)
  BY <1>1, TreesMean, Nested
<1>2. ASSUME NEW r, x \in Below(k, r) PROVE Below(k, x) \subseteq Below(k, r)
  BY <1>1, <1>2 DEF Below
<1> QED BY <1>1, <1>2, SharedMeans

LEMMA HandleIsShared ==
  ASSUME NEW k, NEW hs, NEW h \in OpenIn(hs)
  PROVE  hs[h].layer \in Shared(k, hs)
BY SharedMeans DEF Below

\* What is in a list is pointed to, since the list is.
LEMMA PlacedIsShared ==
  ASSUME NEW k, Trees(k), NEW hs, NEW dr, Owned(k, hs, dr),
         NEW p \in DOMAIN k, NEW x \in Range(k[p])
  PROVE  x \in Shared(k, hs)
<1>1. x \in LayersUnder(k, p)
  BY TreesMean
<1>2. CASE p \in Docs
  BY <1>1, <1>2, SharedMeans
<1>3. CASE p \in Groups
  <2>1. p \in Shared(k, hs)
    BY <1>3 DEF Owned
  <2> QED BY <1>1, <2>1, SharedIsClosed DEF Below
<1> QED BY <1>2, <1>3, TreesMean

-----------------------------------------------------------------------------
(* Dropped references.                                                     *)

Emptied(k, k2) ==
  /\ k2 = [p \in Owners |-> k2[p]]
  /\ \A p \in Owners : k2[p] = k[p] \/ k2[p] = <<>>

\* The lists of k2 are no larger than those of k.
Smaller(k, k2) ==
  /\ \A p \in Owners : Range(k2[p]) \subseteq Range(k[p])
  /\ \A q : LayersUnder(k2, q) \subseteq LayersUnder(k, q)

LEMMA SmallerLists ==
  ASSUME NEW k, Trees(k), NEW k2, IsHierarchy(k2), DOMAIN k2 = Owners,
         \A p \in Owners : Range(k2[p]) \subseteq Range(k[p])
  PROVE  Smaller(k, k2)
<1>1. IsHierarchy(k) /\ DOMAIN k = DOMAIN k2
  BY TreesMean
<1>2. ASSUME NEW q PROVE LayersUnder(k2, q) \subseteq LayersUnder(k, q)
  BY <1>1, LongerLists
<1> QED BY <1>2 DEF Smaller

LEMMA EmptiedTrees ==
  ASSUME NEW k, Trees(k), NEW k2, Emptied(k, k2)
  PROVE  Trees(k2) /\ Smaller(k, k2)
<1>1. /\ IsHierarchy(k) /\ DOMAIN k = Owners /\ Unique(k) /\ ~ Cyclic(k)
      /\ DOMAIN k2 = Owners
  BY TreesMean DEF Emptied
<1>2. Range(<<>>) = {} /\ Len(<<>>) = 0
  BY DEF Range
<1>3. \A p \in Owners : Range(k2[p]) \subseteq Range(k[p])
  BY <1>2 DEF Emptied
<1>4. IsHierarchy(k2)
  <2>1. \A p \in Owners : k[p] \in Seq(Layers)
    BY <1>1, GroupsHaveLists
  <2>2. ASSUME NEW p \in Owners PROVE k2[p] \in Seq(Layers)
    <3>1. k2[p] = k[p] \/ k2[p] = <<>>
      BY DEF Emptied
    <3>2. CASE k2[p] = k[p]
      BY <2>1, <3>2
    <3>3. <<>> \in Seq(Layers)
      OBVIOUS
    <3>4. CASE k2[p] = <<>>
      BY ONLY <3>3, <3>4
    <3> QED BY <3>1, <3>2, <3>4
  <2>3. k2 = [p \in Owners |-> k2[p]]
    BY DEF Emptied
  <2>4. k2 \in [Owners -> Seq(Layers)]
    BY <2>2, <2>3
  <2>5. Owners \cap Layers = Groups
    BY <1>1 DEF IsHierarchy
  <2> QED BY <1>1, <2>4, <2>5 DEF IsHierarchy
<1>5. Smaller(k, k2)
  BY <1>1, <1>3, <1>4, SmallerLists
<1>6. Unique(k2)
  <2> SUFFICES ASSUME NEW p \in Owners, NEW q \in Owners,
                      NEW i \in 1..Len(k2[p]), NEW j \in 1..Len(k2[q]), k2[p][i] = k2[q][j]
               PROVE  p = q /\ i = j
    BY <1>1 DEF Unique
  <2>1. k2[p] = k[p] /\ k2[q] = k[q]
    BY <1>2 DEF Emptied
  <2> QED BY <1>1, <2>1 DEF Unique
<1>7. ~ Cyclic(k2)
  BY <1>1, <1>5 DEF Cyclic, Smaller
<1> QED BY <1>1, <1>4, <1>5, <1>6, <1>7, ForestMeans DEF Trees

\* The lists that are left when the handles are hs.
Kept(k, hs) == [p \in Owners |-> IF p \in Docs \cup Shared(k, hs) THEN k[p] ELSE <<>>]

\* Freeing what nothing points to takes nothing from what is pointed to.
LEMMA KeptIsShared ==
  ASSUME NEW k, Trees(k), NEW hs
  PROVE  /\ Trees(Kept(k, hs))
         /\ Smaller(k, Kept(k, hs))
         /\ Shared(Kept(k, hs), hs) = Shared(k, hs)
         /\ \A g \in Groups : Range(Kept(k, hs)[g]) # {} => g \in Shared(k, hs)
<1> DEFINE k2 == Kept(k, hs)
<1>1. Emptied(k, k2)
  BY DEF Emptied, Kept
<1>2. \A p \in Owners : p \in Docs \cup Shared(k, hs) => k2[p] = k[p]
  BY DEF Kept
<1>3. \A p \in Owners : p \notin Docs \cup Shared(k, hs) => Range(k2[p]) = {}
  BY DEF Kept, Range
<1> HIDE DEF k2
<1>4. Trees(k2) /\ Smaller(k, k2)
  BY <1>1, EmptiedTrees
<1>5. ASSUME NEW p, p \in Docs \/ p \in Shared(k, hs)
      PROVE  LayersUnder(k2, p) = LayersUnder(k, p)
  <2>1. CASE p \in Owners
    <3>1. LayersUnder(k, p) \subseteq Shared(k, hs)
      BY <1>5, SharedMeans, SharedIsClosed DEF Below
    <3>2. k2[p] = k[p] /\ \A g \in Groups : g \in LayersUnder(k, p) => k2[g] = k[g]
      BY <1>2, <1>5, <2>1, <3>1 DEF Owners
    <3> QED BY <1>4, <2>1, <3>2, TreesMean, SameLists
  <2>2. CASE p \notin Owners
    BY <1>4, <2>2, TreesMean DEF LayersUnder
  <2> QED BY <2>1, <2>2
<1>6. ASSUME NEW y PROVE y \in Shared(k2, hs) <=> y \in Shared(k, hs)
  <2>1. \A d \in Docs : LayersUnder(k2, d) = LayersUnder(k, d)
    BY <1>5
  <2>2. \A h \in OpenIn(hs) : Below(k2, hs[h].layer) = Below(k, hs[h].layer)
    BY <1>5, HandleIsShared DEF Below
  <2> QED BY <2>1, <2>2, SharedMeans
<1>7. \A g \in Groups : Range(k2[g]) # {} => g \in Shared(k, hs)
  BY <1>3, TreesMean
<1> QED BY <1>4, <1>6, <1>7 DEF k2

\* The handles of hs2 are handles of hs, whose documents in gone expired.
Lowered(hs, hs2, gone) ==
  \A h \in OpenIn(hs2) :
    /\ h \in OpenIn(hs)
    /\ hs2[h].layer = hs[h].layer
    /\ hs2[h].attached = hs[h].attached
    /\ hs2[h].document = IF hs[h].document \in gone THEN NoDocument ELSE hs[h].document

LEMMA LoweredHandles ==
  ASSUME NEW k, Trees(k), NEW k2, Trees(k2), Smaller(k, k2),
         NEW hs, hs \in HandleStates, Handled(k, hs),
         NEW hs2, NEW gone, Lowered(hs, hs2, gone)
  PROVE  Handled(k2, hs2)
<1>1. \A r : Below(k2, r) \subseteq Below(k, r)
  BY DEF Below, Smaller
<1>2. \A h \in OpenIn(hs) : hs[h].layer \in Layers
  BY DEF OpenIn, HandleStates
<1>3. DOMAIN k2 = Owners /\ DOMAIN k = Owners
  BY TreesMean
<1>4. FlagIsTrue(k2, hs2)
  BY <1>3 DEF FlagIsTrue, Handled, Lowered, Smaller
<1>5. OneUnattached(hs2)
  BY DEF OneUnattached, Handled, Lowered
<1>6. DocumentIsTrue(k2, hs2)
  BY DEF DocumentIsTrue, Handled, Lowered, Smaller
<1>7. TreeAgrees(k2, hs2)
  BY <1>1 DEF TreeAgrees, Handled, Lowered
<1>8. NoneBelow(k2, hs2)
  <2> SUFFICES ASSUME NEW a \in OpenIn(hs2), NEW b \in OpenIn(hs2),
                      ~ hs2[a].attached, hs2[a].document = NoDocument,
                      hs2[b].layer \in Below(k2, hs2[a].layer)
               PROVE  hs2[b].document = NoDocument
    BY DEF NoneBelow
  <2>1. /\ a \in OpenIn(hs) /\ b \in OpenIn(hs)
        /\ ~ hs[a].attached
        /\ hs[b].layer \in Below(k, hs[a].layer) /\ hs[a].layer \in Below(k, hs[a].layer)
        /\ hs[a].document = NoDocument \/ hs[a].document \in gone
    BY <1>1 DEF Lowered, Below
  <2>2. hs[b].document = NoDocument \/ hs[b].document = hs[a].document
    BY <1>2, <2>1 DEF Handled, NoneBelow, TreeAgrees
  <2> QED BY <2>1, <2>2 DEF Lowered
<1> QED BY <1>4, <1>5, <1>6, <1>7, <1>8 DEF Handled

\* Releasing references keeps the invariant: the lists that are emptied, the
\* handles that are closed or lose their document, and the layers of a
\* document that is written and gone.
LEMMA ReleaseKeepsInvariant ==
  ASSUME NEW k, NEW st, NEW hs, NEW dr, HandlesInvariant(k, st, hs, dr),
         NEW k1, Emptied(k, k1),
         NEW hs2, hs2 \in HandleStates, NEW gone, Lowered(hs, hs2, gone),
         NEW st2, st2 \in States, DocumentsExist(st2, hs2), OnlyUsableHold(k1, st2),
         \A d \in Docs : st2[d] = "usable" => st[d] = "usable",
         NEW dr2, dr2 \subseteq Layers,
         \A y \in dr2 : \/ y \in dr
                        \/ \E d \in Docs : st2[d] # "usable" /\ y \in LayersUnder(k, d)
  PROVE  HandlesInvariant(Kept(k1, hs2), st2, hs2, dr2 \cap Shared(k1, hs2))
<1>1. Trees(k) /\ hs \in HandleStates /\ Handled(k, hs)
  BY DEF HandlesInvariant, Types
<1>2. Trees(k1) /\ Smaller(k, k1)
  BY <1>1, EmptiedTrees
<1>3. PICK k2 : k2 = Kept(k1, hs2)
  OBVIOUS
<1>4. /\ Trees(k2) /\ Smaller(k1, k2)
      /\ Shared(k2, hs2) = Shared(k1, hs2)
      /\ \A g \in Groups : Range(k2[g]) # {} => g \in Shared(k1, hs2)
  BY <1>2, <1>3, KeptIsShared
<1>5. Smaller(k, k2)
  BY <1>2, <1>4 DEF Smaller
<1>6. PICK dr3 : dr3 = dr2 \cap Shared(k1, hs2)
  OBVIOUS
<1>7. Owned(k2, hs2, dr3)
  BY <1>4, <1>6 DEF Owned
<1>8. Handled(k2, hs2)
  BY <1>1, <1>4, <1>5, LoweredHandles
<1>9. OnlyUsableHold(k2, st2)
  BY <1>4, TreesMean DEF OnlyUsableHold, Smaller
<1>10. \A d \in Docs : LayersUnder(k2, d) \subseteq LayersUnder(k, d)
  BY <1>5 DEF Smaller
<1>11. Writable(k2, st2, dr3)
  <2> SUFFICES ASSUME NEW d \in Docs, st2[d] = "usable", NEW y \in LayersUnder(k2, d), y \in dr3
               PROVE  FALSE
    BY DEF Writable
  <2>1. y \in LayersUnder(k, d) /\ y \in dr2 /\ st[d] = "usable"
    BY <1>6, <1>10
  <2>2. CASE y \in dr
    BY <2>1, <2>2 DEF HandlesInvariant, Writable
  <2>3. CASE y \notin dr
    <3>1. PICK e \in Docs : st2[e] # "usable" /\ y \in LayersUnder(k, e)
      BY <2>1, <2>3
    <3>2. d = e
      BY <1>1, <2>1, <3>1, DocumentsAreApart
    <3> QED BY <3>1, <3>2
  <2> QED BY <2>2, <2>3
<1>12. NotDrained(k2, hs2, dr3)
  <2> SUFFICES ASSUME NEW h \in OpenIn(hs2), ~ hs2[h].attached,
                      NEW y \in Below(k2, hs2[h].layer), y \in dr3
               PROVE  FALSE
    BY DEF NotDrained
  <2>1. /\ h \in OpenIn(hs) /\ ~ hs[h].attached /\ hs[h].layer \in Layers
        /\ y \in Below(k, hs[h].layer) /\ y \in dr2
    BY <1>1, <1>5, <1>6 DEF Lowered, Below, Smaller, OpenIn, HandleStates
  <2>2. CASE y \in dr
    BY <2>1, <2>2 DEF HandlesInvariant, NotDrained
  <2>3. CASE y \notin dr
    <3>1. PICK e \in Docs : st2[e] # "usable" /\ y \in LayersUnder(k, e)
      BY <2>1, <2>3
    <3>2. hs[h].layer \in LayersUnder(k, e)
      BY <1>1, <2>1, <3>1, TreeInDocument
    <3>3. \A p \in DOMAIN k : hs[h].layer \notin Range(k[p])
      BY <1>1, <2>1 DEF Handled, FlagIsTrue
    <3> QED BY <1>1, <3>2, <3>3, TopOfItsTree, TreesMean
  <2> QED BY <2>2, <2>3
<1>13. Types(k2, st2, hs2, dr3)
  BY <1>4, <1>6 DEF Types
<1>14. HandlesInvariant(k2, st2, hs2, dr3)
  BY <1>7, <1>8, <1>9, <1>11, <1>12, <1>13 DEF HandlesInvariant
<1> QED BY <1>3, <1>6, <1>14

-----------------------------------------------------------------------------
(* Handles that are opened.                                                *)

Opened(hs, h, l, d, attached) ==
  [hs EXCEPT ![h] = [layer |-> l, document |-> d, attached |-> attached]]

LEMMA OpenedMeans ==
  ASSUME NEW hs, hs \in HandleStates, NEW h \in Handles, h \notin OpenIn(hs),
         NEW l \in Layers, NEW d \in Docs \cup {NoDocument}, NEW flag \in BOOLEAN
  PROVE  /\ Opened(hs, h, l, d, flag) \in HandleStates
         /\ OpenIn(Opened(hs, h, l, d, flag)) = OpenIn(hs) \cup {h}
         /\ Opened(hs, h, l, d, flag)[h] = [layer |-> l, document |-> d, attached |-> flag]
         /\ \A a \in Handles : a # h => Opened(hs, h, l, d, flag)[a] = hs[a]
<1> DEFINE hs2 == Opened(hs, h, l, d, flag)
<1>1. hs2 \in HandleStates
  BY DEF Opened, HandleStates
<1>2. /\ hs2[h] = [layer |-> l, document |-> d, attached |-> flag]
      /\ \A a \in Handles : a # h => hs2[a] = hs[a]
  BY DEF Opened, HandleStates
<1>3. l # NoLayer
  BY HierarchyAssumption
<1> HIDE DEF hs2
<1>4. OpenIn(hs2) = OpenIn(hs) \cup {h}
  BY <1>2, <1>3 DEF OpenIn
<1> QED BY <1>1, <1>2, <1>4 DEF hs2

\* More is pointed to.
LEMMA OpenedShared ==
  ASSUME NEW k, NEW hs, NEW hs2, OpenIn(hs) \subseteq OpenIn(hs2),
         \A a \in OpenIn(hs) : hs2[a].layer = hs[a].layer
  PROVE  Shared(k, hs) \subseteq Shared(k, hs2)
<1>1. ASSUME NEW y \in Shared(k, hs) PROVE y \in Shared(k, hs2)
  BY SharedMeans
<1> QED BY <1>1

\* A new handle that is attached keeps the invariant if it remembers what the
\* others of its layer's tree do, and the document that holds the layer.
LEMMA OpenedHandle ==
  ASSUME NEW k, NEW st, NEW hs, NEW dr, HandlesInvariant(k, st, hs, dr),
         NEW h \in Handles, h \notin OpenIn(hs), NEW l \in Layers,
         NEW d \in Docs \cup {NoDocument}, d # NoDocument => st[d] # "none",
         d # NoDocument => \A e \in Docs : l \in LayersUnder(k, e) => e = d,
         \A r \in Layers : \A b \in OpenIn(hs) :
           (/\ l \in Below(k, r) /\ d # NoDocument
            /\ hs[b].layer \in Below(k, r) /\ hs[b].document # NoDocument)
             => hs[b].document = d,
         \A a \in OpenIn(hs) :
           (/\ ~ hs[a].attached /\ hs[a].document = NoDocument
            /\ l \in Below(k, hs[a].layer))
             => d = NoDocument
  PROVE  HandlesInvariant(k, st, Opened(hs, h, l, d, TRUE), dr)
<1>1. Trees(k) /\ hs \in HandleStates /\ Handled(k, hs)
  BY DEF HandlesInvariant, Types
<1>2. PICK hs2 : hs2 = Opened(hs, h, l, d, TRUE)
  OBVIOUS
<1>3. /\ hs2 \in HandleStates
      /\ OpenIn(hs2) = OpenIn(hs) \cup {h}
      /\ hs2[h].layer = l /\ hs2[h].document = d /\ hs2[h].attached
      /\ \A a \in Handles : a # h => hs2[a] = hs[a]
  <2>1. PICK flag \in BOOLEAN : flag = TRUE
    OBVIOUS
  <2>2. hs2 = Opened(hs, h, l, d, flag)
    BY <1>2, <2>1
  <2>3. /\ hs2 \in HandleStates
        /\ OpenIn(hs2) = OpenIn(hs) \cup {h}
        /\ hs2[h] = [layer |-> l, document |-> d, attached |-> flag]
        /\ \A a \in Handles : a # h => hs2[a] = hs[a]
    BY <1>1, <2>2, OpenedMeans
  <2> QED BY <2>1, <2>3
<1>4. OpenIn(hs) \subseteq Handles /\ h \notin OpenIn(hs)
  BY DEF OpenIn
<1>5. \A a \in OpenIn(hs) : hs2[a] = hs[a] /\ a # h
  BY <1>3, <1>4
<1>6. FlagIsTrue(k, hs2)
  BY <1>1, <1>3, <1>5 DEF Handled, FlagIsTrue
<1>7. OneUnattached(hs2)
  BY <1>1, <1>3, <1>5 DEF Handled, OneUnattached
<1>8. DocumentIsTrue(k, hs2)
  BY <1>1, <1>3, <1>5 DEF Handled, DocumentIsTrue
<1>9. TreeAgrees(k, hs2)
  BY <1>1, <1>3, <1>5 DEF Handled, TreeAgrees
<1>10. NoneBelow(k, hs2)
  BY <1>1, <1>3, <1>5 DEF Handled, NoneBelow
<1>11. NotDrained(k, hs2, dr)
  BY <1>3, <1>5 DEF HandlesInvariant, NotDrained
<1>12. Owned(k, hs2, dr)
  BY <1>3, <1>5, OpenedShared DEF HandlesInvariant, Owned
<1>13. Types(k, st, hs2, dr)
  BY <1>3 DEF HandlesInvariant, Types, DocumentsExist
<1> QED
  BY <1>2, <1>6, <1>7, <1>8, <1>9, <1>10, <1>11, <1>12, <1>13
     DEF HandlesInvariant, Handled

\* get_root_layer and find_layer: a layer of a usable document.
LEMMA OpenedInDocument ==
  ASSUME NEW k, NEW st, NEW hs, NEW dr, HandlesInvariant(k, st, hs, dr),
         NEW h \in Handles, h \notin OpenIn(hs),
         NEW d \in Docs, st[d] = "usable", NEW l \in LayersUnder(k, d)
  PROVE  HandlesInvariant(k, st, Opened(hs, h, l, d, TRUE), dr)
<1>1. Trees(k) /\ hs \in HandleStates /\ Handled(k, hs)
  BY DEF HandlesInvariant, Types
<1>2. /\ l \in Layers /\ d # NoDocument /\ st[d] # "none"
      /\ \A a \in OpenIn(hs) : hs[a].layer \in Layers
  BY <1>1, TreesMean DEF OpenIn, HandleStates
<1>3. \A e \in Docs : l \in LayersUnder(k, e) => e = d
  BY <1>1, DocumentsAreApart
<1>4. ASSUME NEW r \in Layers, NEW b \in OpenIn(hs), l \in Below(k, r),
             hs[b].layer \in Below(k, r), hs[b].document # NoDocument
      PROVE  hs[b].document = d
  <2>1. hs[b].layer \in LayersUnder(k, d)
    BY <1>1, <1>4, TreeInDocument
  <2> QED BY <1>1, <1>4, <2>1 DEF Handled, DocumentIsTrue
<1>5. ASSUME NEW a \in OpenIn(hs), ~ hs[a].attached, l \in Below(k, hs[a].layer)
      PROVE  FALSE
  <2>1. hs[a].layer \in LayersUnder(k, d)
    BY <1>1, <1>2, <1>5, TreeInDocument
  <2>2. \A p \in DOMAIN k : hs[a].layer \notin Range(k[p])
    BY <1>1, <1>5 DEF Handled, FlagIsTrue
  <2> QED BY <1>1, <2>1, <2>2, TopOfItsTree, TreesMean
<1> QED BY <1>2, <1>3, <1>4, <1>5, OpenedHandle

\* get_child: a child of a group, with the document of the group's handle.
LEMMA OpenedChild ==
  ASSUME NEW k, NEW st, NEW hs, NEW dr, HandlesInvariant(k, st, hs, dr),
         NEW h \in Handles, h \notin OpenIn(hs),
         NEW g \in OpenIn(hs), hs[g].layer \in Groups, NEW c \in Range(k[hs[g].layer])
  PROVE  HandlesInvariant(k, st, Opened(hs, h, c, hs[g].document, TRUE), dr)
<1>1. Trees(k) /\ hs \in HandleStates /\ Handled(k, hs) /\ DocumentsExist(st, hs)
  BY DEF HandlesInvariant, Types
<1>2. PICK p \in Groups : p = hs[g].layer
  OBVIOUS
<1>3. PICK d \in Docs \cup {NoDocument} : d = hs[g].document
  BY <1>1 DEF OpenIn, HandleStates
<1>4. /\ IsHierarchy(k) /\ p \in DOMAIN k /\ p \in Layers
      /\ c \in LayersUnder(k, p) /\ c \in Layers
      /\ \A e \in Docs : e \notin Layers
  BY <1>1, <1>2, TreesMean
<1>5. /\ d # NoDocument => st[d] # "none"
      /\ \A a \in OpenIn(hs) : hs[a].layer \in Layers
  BY <1>1, <1>3 DEF DocumentsExist, OpenIn, HandleStates
<1>6. ASSUME NEW q, c \in LayersUnder(k, q) PROVE p = q \/ p \in LayersUnder(k, q)
  BY <1>1, <1>2, <1>6, ParentIsHeldToo
<1>7. d # NoDocument => \A e \in Docs : c \in LayersUnder(k, e) => e = d
  BY <1>1, <1>2, <1>3, <1>4, <1>6 DEF Handled, DocumentIsTrue
<1>8. ASSUME NEW r \in Layers, NEW b \in OpenIn(hs), c \in Below(k, r), d # NoDocument,
             hs[b].layer \in Below(k, r), hs[b].document # NoDocument
      PROVE  hs[b].document = d
  <2>1. CASE c = r
    <3>1. Below(k, c) \subseteq LayersUnder(k, p)
      BY <1>4, Nested
    <3>2. hs[b].layer \in Below(k, p) /\ p \in Below(k, p)
      BY <1>8, <2>1, <3>1 DEF Below
    <3> QED BY <1>1, <1>2, <1>3, <1>4, <1>8, <3>2 DEF Handled, TreeAgrees
  <2>2. CASE c \in LayersUnder(k, r)
    <3>1. p \in Below(k, r)
      BY <1>6, <2>2 DEF Below
    <3> QED BY <1>1, <1>2, <1>3, <1>8, <3>1 DEF Handled, TreeAgrees
  <2> QED BY <1>8, <2>1, <2>2 DEF Below
<1>9. ASSUME NEW a \in OpenIn(hs), ~ hs[a].attached, hs[a].document = NoDocument,
             c \in Below(k, hs[a].layer)
      PROVE  d = NoDocument
  <2>1. c # hs[a].layer
    BY <1>1, <1>2, <1>4, <1>9 DEF Handled, FlagIsTrue
  <2>2. p \in Below(k, hs[a].layer)
    BY <1>6, <1>9, <2>1 DEF Below
  <2> QED BY <1>1, <1>2, <1>3, <1>9, <2>2 DEF Handled, NoneBelow
<1>10. HandlesInvariant(k, st, Opened(hs, h, c, d, TRUE), dr)
  BY <1>4, <1>5, <1>7, <1>8, <1>9, OpenedHandle
<1> QED BY <1>3, <1>10

LEMMA EmptyList ==
  ASSUME NEW k, Trees(k), NEW p \in DOMAIN k, Range(k[p]) = {}
  PROVE  LayersUnder(k, p) = {}
<1>1. IsHierarchy(k) /\ Range(k[p]) \subseteq {} /\ Closed(k, {})
  BY TreesMean DEF Closed
<1> QED BY <1>1, WalkFindsOnly

\* group_layer_create and image_layer_create: a layer nothing points to.
LEMMA OpenedNew ==
  ASSUME NEW k, NEW st, NEW hs, NEW dr, HandlesInvariant(k, st, hs, dr),
         NEW h \in Handles, h \notin OpenIn(hs), NEW l \in Layers, l \notin Shared(k, hs)
  PROVE  HandlesInvariant(k, st, Opened(hs, h, l, NoDocument, FALSE), dr)
<1>1. Trees(k) /\ hs \in HandleStates /\ Handled(k, hs) /\ Owned(k, hs, dr)
  BY DEF HandlesInvariant, Types
<1>2. PICK hs2 : hs2 = Opened(hs, h, l, NoDocument, FALSE)
  OBVIOUS
<1>3. /\ hs2 \in HandleStates
      /\ OpenIn(hs2) = OpenIn(hs) \cup {h}
      /\ hs2[h].layer = l /\ hs2[h].document = NoDocument /\ ~ hs2[h].attached
      /\ \A a \in Handles : a # h => hs2[a] = hs[a]
  <2>1. PICK flag \in BOOLEAN : flag = FALSE
    OBVIOUS
  <2>2. PICK d \in Docs \cup {NoDocument} : d = NoDocument
    OBVIOUS
  <2>3. hs2 = Opened(hs, h, l, d, flag)
    BY <1>2, <2>1, <2>2
  <2>4. /\ hs2 \in HandleStates
        /\ OpenIn(hs2) = OpenIn(hs) \cup {h}
        /\ hs2[h] = [layer |-> l, document |-> d, attached |-> flag]
        /\ \A a \in Handles : a # h => hs2[a] = hs[a]
    BY <1>1, <2>3, OpenedMeans
  <2> QED BY <2>1, <2>2, <2>4
<1>4. \A a \in OpenIn(hs) : hs2[a] = hs[a] /\ a # h /\ hs[a].layer # l
  BY <1>3, HandleIsShared DEF OpenIn
<1>5. \A p \in DOMAIN k : l \notin Range(k[p])
  BY <1>1, PlacedIsShared
<1>6. Below(k, l) = {l}
  <2>1. CASE l \in Groups
    BY <1>1, <2>1, EmptyList, TreesMean DEF Owned, Below
  <2>2. CASE l \notin Groups
    BY <1>1, <2>2, TreesMean DEF IsHierarchy, Below, LayersUnder
  <2> QED BY <2>1, <2>2
<1>7. FlagIsTrue(k, hs2)
  BY <1>1, <1>3, <1>4, <1>5 DEF Handled, FlagIsTrue
<1>8. OneUnattached(hs2)
  BY <1>1, <1>3, <1>4 DEF Handled, OneUnattached
<1>9. DocumentIsTrue(k, hs2)
  BY <1>1, <1>3, <1>4 DEF Handled, DocumentIsTrue
<1>10. TreeAgrees(k, hs2)
  BY <1>1, <1>3, <1>4 DEF Handled, TreeAgrees
<1>11. NoneBelow(k, hs2)
  BY <1>1, <1>3, <1>4, <1>6 DEF Handled, NoneBelow
<1>12. NotDrained(k, hs2, dr)
  BY <1>1, <1>3, <1>4, <1>6 DEF HandlesInvariant, NotDrained, Owned
<1>13. Owned(k, hs2, dr)
  BY <1>1, <1>3, <1>4, OpenedShared DEF Owned
<1>14. Types(k, st, hs2, dr)
  BY <1>3 DEF HandlesInvariant, Types, DocumentsExist
<1> QED
  BY <1>2, <1>7, <1>8, <1>9, <1>10, <1>11, <1>12, <1>13, <1>14
     DEF HandlesInvariant, Handled

-----------------------------------------------------------------------------
(* Layers that are added.                                                  *)

Joined(hs, h, d) == [hs EXCEPT ![h].document = d, ![h].attached = TRUE]

LEMMA JoinedMeans ==
  ASSUME NEW hs, hs \in HandleStates, NEW h \in OpenIn(hs), NEW d \in Docs
  PROVE  /\ Joined(hs, h, d) \in HandleStates
         /\ OpenIn(Joined(hs, h, d)) = OpenIn(hs)
         /\ \A a \in OpenIn(hs) : Joined(hs, h, d)[a].layer = hs[a].layer
         /\ Joined(hs, h, d)[h].document = d /\ Joined(hs, h, d)[h].attached
         /\ \A a \in Handles : a # h => Joined(hs, h, d)[a] = hs[a]
<1>1. h \in Handles /\ hs[h].layer # NoLayer /\ OpenIn(hs) \subseteq Handles
  BY DEF OpenIn
<1>2. PICK hs2 : hs2 = Joined(hs, h, d)
  OBVIOUS
<1>3. /\ hs2[h] = [layer |-> hs[h].layer, document |-> d, attached |-> TRUE]
      /\ \A a \in Handles : a # h => hs2[a] = hs[a]
      /\ hs2 \in HandleStates
  BY <1>1, <1>2 DEF Joined, HandleStates
<1>4. OpenIn(hs2) = OpenIn(hs)
  BY <1>1, <1>3 DEF OpenIn
<1>5. \A a \in OpenIn(hs) : hs2[a].layer = hs[a].layer
  BY <1>1, <1>3
<1> QED BY <1>2, <1>3, <1>4, <1>5

\* The list a layer is added to: of the document, or of a group whose handle
\* remembers the document.
IsListOf(hs, d, p) ==
  \/ p = d
  \/ \E g \in OpenIn(hs) : hs[g].layer = p /\ p \in Groups /\ hs[g].document = d

\* What a walk from q finds after a layer of no list was added to p.
Grown(k, p, l, q) ==
  LayersUnder(k, q) \cup
  (IF q = p \/ p \in LayersUnder(k, q) THEN Below(k, l) ELSE {})

LEMMA AddedLists ==
  ASSUME NEW k, Trees(k), NEW d \in Docs, NEW p \in Owners, NEW l \in Layers,
         \A q \in DOMAIN k : l \notin Range(k[q]), p \notin Below(k, l)
  PROVE  /\ Trees(Inserted(k, d, p, l))
         /\ \A q \in Owners : Range(k[q]) \subseteq Range(Inserted(k, d, p, l)[q])
         /\ \A q \in Owners : q # p => Inserted(k, d, p, l)[q] = k[q]
         /\ Range(Inserted(k, d, p, l)[p]) = Range(k[p]) \cup {l}
         /\ \A q : LayersUnder(Inserted(k, d, p, l), q) = Grown(k, p, l, q)
<1>1. /\ IsHierarchy(k) /\ DOMAIN k = Owners /\ IsForest(k)
      /\ d \in DOMAIN k /\ p \in DOMAIN k
  BY TreesMean
<1>2. l \notin LayersUnder(k, d) /\ Places(k, l) = {}
  BY <1>1, TopOfItsTree, NoPlace
<1>3. PICK k2 : k2 = Inserted(k, d, p, l)
  OBVIOUS
<1>4. k2 = Appended(k, p, l)
  BY <1>2, <1>3 DEF Inserted, InFile, Appended
<1>5. /\ IsHierarchy(k2) /\ DOMAIN k2 = DOMAIN k
      /\ \A q \in DOMAIN k : q # p => k2[q] = k[q]
      /\ \A q \in DOMAIN k : Range(k[q]) \subseteq Range(k2[q])
      /\ Range(k2[p]) = Range(k[p]) \cup {l}
  BY <1>1, <1>4, AppendedLists
<1>6. /\ IsForest(k2)
      /\ \A q \in DOMAIN k : LayersUnder(k2, q) = With(k, p, l, q)
  BY <1>1, <1>2, <1>4, AppendedForest
<1>7. ASSUME NEW q PROVE LayersUnder(k2, q) = Grown(k, p, l, q)
  <2>1. CASE q \in DOMAIN k
    BY <1>6, <2>1 DEF With, Grown
  <2>2. CASE q \notin DOMAIN k
    BY <1>1, <1>5, <2>2 DEF LayersUnder, Grown
  <2> QED BY <2>1, <2>2
<1>8. Trees(k2)
  BY <1>1, <1>5, <1>6 DEF Trees
<1> QED BY <1>1, <1>3, <1>5, <1>7, <1>8

\* add_layer of the document and of a group keep the invariant.
LEMMA AddingKeepsInvariant ==
  ASSUME NEW k, NEW st, NEW hs, NEW dr, HandlesInvariant(k, st, hs, dr),
         NEW d \in Docs, st[d] = "usable", NEW h \in OpenIn(hs),
         ~ hs[h].attached, hs[h].document \in {NoDocument, d},
         NEW p, IsListOf(hs, d, p), p \notin Below(k, hs[h].layer)
  PROVE  HandlesInvariant(Inserted(k, d, p, hs[h].layer), st, Joined(hs, h, d), dr)
<1>1. Trees(k) /\ hs \in HandleStates /\ Handled(k, hs) /\ Owned(k, hs, dr)
  BY DEF HandlesInvariant, Types
<1>2. PICK l \in Layers : l = hs[h].layer
  BY <1>1 DEF HandleStates, OpenIn
<1>3. PICK hs2 : hs2 = Joined(hs, h, d)
  OBVIOUS
<1>4. /\ hs2 \in HandleStates
      /\ OpenIn(hs2) = OpenIn(hs)
      /\ \A a \in OpenIn(hs) : hs2[a].layer = hs[a].layer
      /\ hs2[h].document = d /\ hs2[h].attached
      /\ \A a \in Handles : a # h => hs2[a] = hs[a]
      /\ OpenIn(hs) \subseteq Handles
  BY <1>1, <1>3, JoinedMeans DEF OpenIn
<1>5. PICK k2 : k2 = Inserted(k, d, p, l)
  OBVIOUS
<1>6. \A q \in DOMAIN k : l \notin Range(k[q])
  BY <1>1, <1>2 DEF Handled, FlagIsTrue
<1>7. /\ \A q : l \notin LayersUnder(k, q)
      /\ \A r : l \in Below(k, r) => r = l
      /\ IsHierarchy(k) /\ DOMAIN k = Owners
      /\ \A q : LayersUnder(k, q) \subseteq Layers
      /\ \A e \in Docs : e \notin Layers /\ e # NoDocument
      /\ Groups \subseteq Layers
      /\ \A a \in OpenIn(hs) : hs[a].layer \in Layers
  BY <1>1, <1>6, TreesMean, TopOfItsTree DEF OpenIn, HandleStates
<1>8. p \in Owners
  BY DEF IsListOf, Owners
<1>9. /\ Trees(k2)
      /\ \A q \in Owners : Range(k[q]) \subseteq Range(k2[q])
      /\ \A q \in Owners : Range(k2[q]) \subseteq Range(k[q]) \cup (IF q = p THEN {l} ELSE {})
      /\ \A q : LayersUnder(k2, q) =
           LayersUnder(k, q) \cup
           (IF q = p \/ p \in LayersUnder(k, q) THEN Below(k, l) ELSE {})
  <2>1. p \notin Below(k, l)
    BY <1>2
  <2>2. /\ Trees(k2)
        /\ \A q \in Owners : Range(k[q]) \subseteq Range(k2[q])
        /\ \A q \in Owners : q # p => k2[q] = k[q]
        /\ Range(k2[p]) = Range(k[p]) \cup {l}
        /\ \A q : LayersUnder(k2, q) = Grown(k, p, l, q)
    BY <1>1, <1>5, <1>6, <1>8, <2>1, AddedLists
  <2> QED BY <2>2 DEF Grown
<1>10. ASSUME NEW b \in OpenIn(hs), hs[b].layer \in Below(k, l)
       PROVE  hs[b].document \in {NoDocument, d}
  <2>1. CASE hs[h].document = NoDocument
    BY <1>1, <1>2, <1>10, <2>1 DEF Handled, NoneBelow
  <2>2. CASE hs[h].document = d
    BY <1>1, <1>2, <1>7, <1>10, <2>2 DEF Handled, TreeAgrees, Below
  <2> QED BY <2>1, <2>2
<1>11. ASSUME NEW r \in Layers, p \in Below(k, r), NEW b \in OpenIn(hs),
              hs[b].layer \in Below(k, r)
       PROVE  hs[b].document \in {NoDocument, d}
  <2>1. p # d
    BY <1>7, <1>11 DEF Below
  <2> QED BY <1>1, <1>7, <1>11, <2>1 DEF Handled, TreeAgrees, IsListOf
<1>12. ASSUME NEW e \in Docs, e = p \/ p \in LayersUnder(k, e) PROVE e = d
  <2>1. CASE p = d
    BY <1>7, <1>12, <2>1
  <2>2. CASE p # d
    BY <1>1, <1>7, <1>12, <2>2 DEF IsListOf, Handled, DocumentIsTrue
  <2> QED BY <2>1, <2>2
<1>13. ASSUME NEW a \in OpenIn(hs), ~ hs2[a].attached
       PROVE  a # h /\ hs2[a] = hs[a] /\ ~ hs[a].attached /\ hs[a].layer # l
  BY <1>1, <1>2, <1>4, <1>13 DEF Handled, OneUnattached
<1>14. \A r : Below(k2, r) = Below(k, r) \cup
                (IF p \in Below(k, r) THEN Below(k, l) ELSE {})
  BY <1>9 DEF Below
<1>15. FlagIsTrue(k2, hs2)
  <2> SUFFICES ASSUME NEW a \in OpenIn(hs), ~ hs2[a].attached, NEW q \in Owners
               PROVE  hs2[a].layer \notin Range(k2[q])
    BY <1>4, <1>9, TreesMean DEF FlagIsTrue
  <2>1. hs2[a].layer \notin Range(k[q]) /\ hs2[a].layer # l
    BY <1>1, <1>7, <1>13 DEF Handled, FlagIsTrue
  <2> QED BY <1>9, <2>1
<1>16. OneUnattached(hs2)
  BY <1>1, <1>4, <1>13 DEF Handled, OneUnattached
<1>17. DocumentIsTrue(k2, hs2)
  <2> SUFFICES ASSUME NEW b \in OpenIn(hs), NEW e \in Docs,
                      hs2[b].document # NoDocument, hs2[b].layer \in LayersUnder(k2, e)
               PROVE  e = hs2[b].document
    BY <1>4 DEF DocumentIsTrue
  <2>1. CASE e = p \/ p \in LayersUnder(k, e)
    <3>1. e = d
      BY <1>12, <2>1
    <3>2. b # h => hs[b].layer \in LayersUnder(k, e) \/ hs[b].layer \in Below(k, l)
      BY <1>4, <1>9
    <3> QED BY <1>1, <1>4, <1>10, <3>1, <3>2 DEF Handled, DocumentIsTrue
  <2>2. CASE ~ (e = p \/ p \in LayersUnder(k, e))
    <3>1. hs[b].layer \in LayersUnder(k, e)
      BY <1>4, <1>9, <2>2
    <3>2. b # h
      BY <1>2, <1>7, <3>1
    <3> QED BY <1>1, <1>4, <3>1, <3>2 DEF Handled, DocumentIsTrue
  <2> QED BY <2>1, <2>2
<1>18. TreeAgrees(k2, hs2)
  <2> SUFFICES ASSUME NEW r \in Layers, NEW a \in OpenIn(hs), NEW b \in OpenIn(hs),
                      hs2[a].layer \in Below(k2, r), hs2[a].document # NoDocument,
                      hs2[b].layer \in Below(k2, r), hs2[b].document # NoDocument
               PROVE  hs2[a].document = hs2[b].document
    BY <1>4 DEF TreeAgrees
  <2>1. CASE p \in Below(k, r)
    <3>1. ASSUME NEW c \in OpenIn(hs), hs2[c].layer \in Below(k2, r),
                 hs2[c].document # NoDocument
          PROVE  hs2[c].document = d
      <4>1. hs[c].layer \in Below(k, r) \/ hs[c].layer \in Below(k, l)
        BY <1>4, <1>14, <3>1
      <4>2. hs[c].document \in {NoDocument, d}
        BY <1>10, <1>11, <2>1, <4>1
      <4> QED BY <1>4, <3>1, <4>2
    <3> QED BY <3>1
  <2>2. CASE p \notin Below(k, r) /\ r = l
    <3>1. ASSUME NEW c \in OpenIn(hs), hs2[c].layer \in Below(k2, r),
                 hs2[c].document # NoDocument
          PROVE  hs2[c].document = d
      <4>1. hs[c].layer \in Below(k, l)
        BY <1>4, <1>14, <2>2, <3>1
      <4> QED BY <1>4, <1>10, <3>1, <4>1
    <3> QED BY <3>1
  <2>3. CASE p \notin Below(k, r) /\ r # l
    <3>1. hs[a].layer \in Below(k, r) /\ hs[b].layer \in Below(k, r)
      BY <1>4, <1>14, <2>3
    <3>2. a # h /\ b # h
      BY <1>2, <1>7, <2>3, <3>1
    <3> QED BY <1>1, <1>4, <3>1, <3>2 DEF Handled, TreeAgrees
  <2> QED BY <2>1, <2>2, <2>3
<1>19. NoneBelow(k2, hs2)
  <2> SUFFICES ASSUME NEW a \in OpenIn(hs), NEW b \in OpenIn(hs),
                      ~ hs2[a].attached, hs2[a].document = NoDocument,
                      hs2[b].layer \in Below(k2, hs2[a].layer)
               PROVE  hs2[b].document = NoDocument
    BY <1>4 DEF NoneBelow
  <2>1. /\ ~ hs[a].attached /\ hs[a].document = NoDocument /\ hs[a].layer # l
        /\ hs[b].layer \in Below(k2, hs[a].layer)
    BY <1>4, <1>13
  <2>2. p \notin Below(k, hs[a].layer)
    <3> SUFFICES ASSUME p \in Below(k, hs[a].layer) PROVE FALSE
      OBVIOUS
    <3>1. p # d
      BY <1>7 DEF Below
    <3> QED BY <1>1, <1>7, <2>1, <3>1 DEF IsListOf, Handled, NoneBelow
  <2>3. hs[b].layer \in Below(k, hs[a].layer)
    BY <1>14, <2>1, <2>2
  <2>4. b # h
    BY <1>2, <1>7, <2>1, <2>3
  <2> QED BY <1>1, <1>4, <2>1, <2>3, <2>4 DEF Handled, NoneBelow
<1>20. Below(k, l) \cap dr = {}
  BY <1>2 DEF HandlesInvariant, NotDrained
<1>21. NotDrained(k2, hs2, dr)
  <2> SUFFICES ASSUME NEW a \in OpenIn(hs), ~ hs2[a].attached
               PROVE  Below(k2, hs2[a].layer) \cap dr = {}
    BY <1>4 DEF NotDrained
  <2>1. Below(k, hs[a].layer) \cap dr = {} /\ hs2[a] = hs[a]
    BY <1>13 DEF HandlesInvariant, NotDrained
  <2> QED BY <1>14, <1>20, <2>1
<1>22. Writable(k2, st, dr)
  BY <1>9, <1>20 DEF HandlesInvariant, Writable
<1>23. OnlyUsableHold(k2, st)
  <2> SUFFICES ASSUME NEW e \in Docs, st[e] # "usable" PROVE Range(k2[e]) = {}
    BY DEF OnlyUsableHold
  <2>1. e # p
    BY <1>7 DEF IsListOf
  <2> QED BY <1>9, <2>1 DEF HandlesInvariant, OnlyUsableHold, Owners
<1>24. \A y : y \in Shared(k, hs) => y \in Shared(k2, hs2)
  BY <1>4, <1>9, <1>14, SharedMeans
<1>25. Owned(k2, hs2, dr)
  <2>1. ASSUME NEW g \in Groups, Range(k2[g]) # {} PROVE g \in Shared(k, hs)
    <3>1. CASE g = p
      BY <1>7, <3>1, HandleIsShared DEF IsListOf
    <3>2. CASE g # p
      BY <1>1, <1>9, <2>1, <3>2 DEF Owned, Owners
    <3> QED BY <3>1, <3>2
  <2> QED BY <1>1, <1>24, <2>1 DEF Owned
<1>26. Types(k2, st, hs2, dr)
  BY <1>4, <1>9 DEF HandlesInvariant, Types, DocumentsExist
<1> QED
  BY <1>2, <1>3, <1>5, <1>15, <1>16, <1>17, <1>18, <1>19, <1>21, <1>22, <1>23, <1>25, <1>26
     DEF HandlesInvariant, Handled

-----------------------------------------------------------------------------
(* Layers that are removed and moved.                                      *)

\* What removing and moving layer l of document d do to the walks: nothing
\* that was not in the document comes to it, no other tree gets larger, and
\* what is below l stays there.
Edited(k, k2, d, l) ==
  /\ Trees(k2)
  /\ \A q \in Owners : q # d /\ q \notin LayersUnder(k, d) => Range(k2[q]) \subseteq Range(k[q])
  /\ \A e \in Docs : LayersUnder(k2, e) \subseteq LayersUnder(k, e)
  /\ \A r \in Layers : IF r \in LayersUnder(k, d)
                       THEN Below(k2, r) \subseteq LayersUnder(k, d)
                       ELSE Below(k2, r) \subseteq Below(k, r)
  /\ Below(k, l) \subseteq Below(k2, l)
  /\ \A q : LayersUnder(k, q) \ Below(k, l) \subseteq LayersUnder(k2, q)

LEMMA RemovedIsEdited ==
  ASSUME NEW k, Trees(k), NEW d \in Docs, NEW l \in LayersUnder(k, d)
  PROVE  /\ Edited(k, Removed(k, d, l), d, l)
         /\ \A p \in Owners : l \notin Range(Removed(k, d, l)[p])
<1>1. /\ IsHierarchy(k) /\ DOMAIN k = Owners /\ IsForest(k) /\ ~ Cyclic(k)
      /\ d \in DOMAIN k /\ l \in Layers
  BY TreesMean
<1>2. PICK k2 : k2 = Removed(k, d, l)
  OBVIOUS
<1>3. /\ IsHierarchy(k2) /\ DOMAIN k2 = DOMAIN k /\ IsForest(k2)
      /\ InFile(k, d, l) => Places(k2, l) = {}
      /\ \A q \in DOMAIN k : LayersUnder(k2, q) = Without(k, d, l, q)
  BY <1>1, <1>2, RemovedForest
<1>4. \A p \in Owners : l \notin Range(k2[p])
  BY <1>1, <1>3, NoPlace DEF InFile
<1>5. \A q : LayersUnder(k2, q) \subseteq LayersUnder(k, q)
  BY <1>1, <1>3 DEF Without, LayersUnder
<1>6. \A q : LayersUnder(k, q) \ Below(k, l) \subseteq LayersUnder(k2, q)
  <2>1. ASSUME NEW q PROVE LayersUnder(k, q) \ Below(k, l) \subseteq LayersUnder(k2, q)
    <3>1. CASE q \in DOMAIN k
      BY <1>3, <3>1 DEF Without
    <3>2. CASE q \notin DOMAIN k
      BY <3>2 DEF LayersUnder
    <3> QED BY <3>1, <3>2
  <2> QED BY <2>1
<1>7. Below(k, l) \subseteq Below(k2, l)
  <2>1. l \notin LayersUnder(k, l)
    BY <1>1, NotBelowItself
  <2>2. CASE l \in DOMAIN k
    BY <1>3, <2>1, <2>2 DEF Without, Below
  <2>3. CASE l \notin DOMAIN k
    BY <2>3 DEF Below, LayersUnder
  <2> QED BY <2>2, <2>3
<1>8. \A r \in LayersUnder(k, d) : Below(k, r) \subseteq LayersUnder(k, d)
  BY <1>1, Nested
<1>9. \A q \in DOMAIN k : Range(k2[q]) \subseteq Range(k[q])
  <2>1. CASE ~ InFile(k, d, l)
    BY <2>1 DEF InFile
  <2>2. PICK s : /\ s[1] \in DOMAIN k
                 /\ s[2] \in 1..Len(k[s[1]])
                 /\ At(k, s) = l
                 /\ k2 = Erased(k, s)
    BY <1>1, <1>2, RemovedMeans DEF InFile
  <2> QED BY <1>1, <2>2, ErasedLists
<1>10. Trees(k2)
  BY <1>1, <1>3 DEF Trees
<1>11. \A r : Below(k2, r) \subseteq Below(k, r)
  BY <1>5 DEF Below
<1>12. Edited(k, k2, d, l)
  BY <1>1, <1>5, <1>6, <1>7, <1>8, <1>9, <1>10, <1>11 DEF Edited
<1> QED BY <1>2, <1>4, <1>12

LEMMA ReinsertedIsEdited ==
  ASSUME NEW k, Trees(k), NEW d \in Docs, NEW l \in LayersUnder(k, d),
         NEW p, p = d \/ (p \in Groups /\ p \in LayersUnder(k, d)), p \notin Below(k, l)
  PROVE  Edited(k, Inserted(Removed(k, d, l), d, p, l), d, l)
<1>1. /\ IsHierarchy(k) /\ DOMAIN k = Owners /\ IsForest(k) /\ ~ Cyclic(k)
      /\ d \in DOMAIN k /\ l \in Layers /\ p \in DOMAIN k /\ d \notin Layers
      /\ \A q : LayersUnder(k, q) \subseteq Layers
      /\ \A e \in Docs : e \notin Layers
  BY TreesMean
<1>2. PICK k1 : k1 = Removed(k, d, l)
  OBVIOUS
<1>3. PICK k2 : k2 = Inserted(k1, d, p, l)
  OBVIOUS
<1>4. /\ Edited(k, k1, d, l)
      /\ \A q \in Owners : l \notin Range(k1[q])
  BY <1>2, RemovedIsEdited
<1>5. /\ IsHierarchy(k2) /\ DOMAIN k2 = DOMAIN k /\ IsForest(k2)
      /\ \A q \in DOMAIN k :
           LayersUnder(k2, q) =
             Without(k, d, l, q) \cup
             (IF q = p \/ p \in LayersUnder(k, q) THEN Below(k, l) ELSE {})
  <2>1. InFile(k, d, l)
    BY DEF InFile
  <2> QED BY <1>1, <1>2, <1>3, <2>1, MovedForest
<1>6. /\ \A q \in Owners : q # p => k2[q] = k1[q]
  BY <1>3, <1>4 DEF Inserted, Edited, Trees, IsHierarchy
<1>7. Below(k, l) \subseteq LayersUnder(k, d) /\ l \notin LayersUnder(k, l)
  BY <1>1, Nested, NotBelowItself
<1>8. ASSUME NEW r, p \in LayersUnder(k, r), r \in Layers \/ r \in Docs
      PROVE  r = d \/ r \in LayersUnder(k, d)
  <2>1. p \in LayersUnder(k, d)
    BY <1>1, <1>8
  <2>2. CASE r \in Layers
    BY <1>8, <2>1, <2>2, TreeInDocument DEF Below
  <2>3. CASE r \in Docs
    BY <1>8, <2>1, <2>3, DocumentsAreApart
  <2> QED BY <1>8, <2>2, <2>3
<1>9. ASSUME NEW q, q \in Layers \/ q \in Docs, q # d, q \notin LayersUnder(k, d)
      PROVE  LayersUnder(k2, q) \subseteq LayersUnder(k, q)
  <2>1. CASE q \in DOMAIN k
    <3>1. ~ (q = p \/ p \in LayersUnder(k, q))
      BY <1>8, <1>9
    <3> QED BY <1>5, <2>1, <3>1 DEF Without
  <2>2. CASE q \notin DOMAIN k
    BY <1>5, <2>2 DEF LayersUnder
  <2> QED BY <2>1, <2>2
<1>10. ASSUME NEW q, q = d \/ q \in LayersUnder(k, d)
       PROVE  LayersUnder(k2, q) \subseteq LayersUnder(k, d)
  <2>1. LayersUnder(k, q) \subseteq LayersUnder(k, d)
    BY <1>1, <1>10, Nested DEF Below
  <2>2. CASE q \in DOMAIN k
    BY <1>5, <1>7, <2>1, <2>2 DEF Without
  <2>3. CASE q \notin DOMAIN k
    BY <1>5, <2>3 DEF LayersUnder
  <2> QED BY <2>2, <2>3
<1>11. \A q : LayersUnder(k, q) \ Below(k, l) \subseteq LayersUnder(k2, q)
  <2>1. ASSUME NEW q PROVE LayersUnder(k, q) \ Below(k, l) \subseteq LayersUnder(k2, q)
    <3>1. CASE q \in DOMAIN k
      BY <1>5, <3>1 DEF Without
    <3>2. CASE q \notin DOMAIN k
      BY <3>2 DEF LayersUnder
    <3> QED BY <3>1, <3>2
  <2> QED BY <2>1
<1>12. Below(k, l) \subseteq Below(k2, l)
  <2>1. CASE l \in DOMAIN k
    BY <1>5, <1>7, <2>1 DEF Without, Below
  <2>2. CASE l \notin DOMAIN k
    BY <2>2 DEF Below, LayersUnder
  <2> QED BY <2>1, <2>2
<1>13. Trees(k2)
  BY <1>1, <1>5 DEF Trees
<1>14. \A q \in Owners : q # d /\ q \notin LayersUnder(k, d) => Range(k2[q]) \subseteq Range(k[q])
  BY <1>4, <1>6 DEF Edited
<1>15. \A e \in Docs : LayersUnder(k2, e) \subseteq LayersUnder(k, e)
  BY <1>1, <1>9, <1>10
<1>16. ASSUME NEW r \in Layers
       PROVE  IF r \in LayersUnder(k, d)
              THEN Below(k2, r) \subseteq LayersUnder(k, d)
              ELSE Below(k2, r) \subseteq Below(k, r)
  BY <1>1, <1>9, <1>10 DEF Below
<1> QED BY <1>2, <1>3, <1>11, <1>12, <1>13, <1>14, <1>15, <1>16 DEF Edited

\* move_layer, whatever the parent.
LEMMA RelocatedIsEdited ==
  ASSUME NEW k, Trees(k), NEW d \in Docs, NEW l \in LayersUnder(k, d),
         NEW p, p = NoLayer \/ p \in LayersUnder(k, d), p \notin LayersUnder(k, l)
  PROVE  Edited(k, Relocated(k, d, l, p), d, l)
<1>1. /\ IsHierarchy(k) /\ d \notin Layers /\ l \in Layers
      /\ \A q : LayersUnder(k, q) \subseteq Layers
      /\ NoLayer \notin Layers /\ Groups \subseteq Layers
  BY TreesMean
<1>2. CASE p = NoLayer
  <2>1. d \notin Below(k, l)
    BY <1>1 DEF Below
  <2> QED BY <1>2, <2>1, ReinsertedIsEdited DEF Relocated
<1>3. CASE p # NoLayer /\ IsMovingToInvalidHierarchy(k, l, p)
  <2>1. \A r \in LayersUnder(k, d) : Below(k, r) \subseteq LayersUnder(k, d)
    BY <1>1, Nested
  <2>2. Edited(k, k, d, l)
    BY <2>1 DEF Edited
  <2> QED BY <1>3, <2>2 DEF Relocated
<1>4. CASE p # NoLayer /\ ~ IsMovingToInvalidHierarchy(k, l, p) /\ p \in Groups
  <2>1. p \notin Below(k, l)
    BY <1>4 DEF Below, IsMovingToInvalidHierarchy
  <2>2. Edited(k, Inserted(Removed(k, d, l), d, p, l), d, l)
    BY <1>4, <2>1, ReinsertedIsEdited
  <2> QED BY <1>4, <2>2 DEF Relocated
<1>5. CASE p # NoLayer /\ ~ IsMovingToInvalidHierarchy(k, l, p) /\ p \notin Groups
  BY <1>5, RemovedIsEdited DEF Relocated
<1> QED BY <1>2, <1>3, <1>4, <1>5

Flagged(hs, h, flag) == [hs EXCEPT ![h].attached = flag]

LEMMA FlaggedMeans ==
  ASSUME NEW hs, hs \in HandleStates, NEW h \in OpenIn(hs), NEW flag \in BOOLEAN
  PROVE  /\ Flagged(hs, h, flag) \in HandleStates
         /\ OpenIn(Flagged(hs, h, flag)) = OpenIn(hs)
         /\ \A a \in Handles : /\ Flagged(hs, h, flag)[a].layer = hs[a].layer
                               /\ Flagged(hs, h, flag)[a].document = hs[a].document
         /\ Flagged(hs, h, flag)[h].attached = flag
         /\ \A a \in Handles : a # h => Flagged(hs, h, flag)[a] = hs[a]
<1>1. h \in Handles /\ hs[h].layer # NoLayer
  BY DEF OpenIn
<1>2. PICK hs2 : hs2 = Flagged(hs, h, flag)
  OBVIOUS
<1>3. /\ hs2[h] = [layer |-> hs[h].layer, document |-> hs[h].document, attached |-> flag]
      /\ \A a \in Handles : a # h => hs2[a] = hs[a]
      /\ hs2 \in HandleStates
  BY <1>1, <1>2 DEF Flagged, HandleStates
<1>4. OpenIn(hs2) = OpenIn(hs)
  BY <1>1, <1>3 DEF OpenIn
<1>5. \A a \in Handles : hs2[a].layer = hs[a].layer /\ hs2[a].document = hs[a].document
  BY <1>1, <1>3
<1>6. hs2[h].attached = flag
  BY <1>3
<1> QED BY <1>2, <1>3, <1>4, <1>5, <1>6

\* remove_layer and move_layer keep the invariant when the handle's document
\* holds its layer; a flag that is cleared means the layer is in no list.
LEMMA EditKeepsInvariant ==
  ASSUME NEW k, NEW st, NEW hs, NEW dr, HandlesInvariant(k, st, hs, dr),
         NEW h \in OpenIn(hs), NEW d \in Docs, st[d] = "usable", hs[h].document = d,
         hs[h].layer \in LayersUnder(k, d),
         NEW k2, Edited(k, k2, d, hs[h].layer),
         NEW flag \in BOOLEAN,
         ~ flag => \A p \in Owners : hs[h].layer \notin Range(k2[p])
  PROVE  HandlesInvariant(k2, st, Flagged(hs, h, flag), dr)
<1>1. Trees(k) /\ hs \in HandleStates /\ Handled(k, hs) /\ Owned(k, hs, dr)
  BY DEF HandlesInvariant, Types
<1>2. PICK l \in LayersUnder(k, d) : l = hs[h].layer
  OBVIOUS
<1>3. PICK hs2 : hs2 = Flagged(hs, h, flag)
  OBVIOUS
<1>4. /\ hs2 \in HandleStates
      /\ OpenIn(hs2) = OpenIn(hs)
      /\ \A a \in Handles : hs2[a].layer = hs[a].layer /\ hs2[a].document = hs[a].document
      /\ hs2[h].attached = flag
      /\ \A a \in Handles : a # h => hs2[a] = hs[a]
      /\ OpenIn(hs) \subseteq Handles
  BY <1>1, <1>3, FlaggedMeans DEF OpenIn
<1>5. /\ Trees(k2)
      /\ \A q \in Owners :
           q # d /\ q \notin LayersUnder(k, d) => Range(k2[q]) \subseteq Range(k[q])
      /\ \A e \in Docs : LayersUnder(k2, e) \subseteq LayersUnder(k, e)
      /\ \A r \in LayersUnder(k, d) : Below(k2, r) \subseteq LayersUnder(k, d)
      /\ \A r \in Layers : r \notin LayersUnder(k, d) => Below(k2, r) \subseteq Below(k, r)
      /\ Below(k, l) \subseteq Below(k2, l)
      /\ \A q : LayersUnder(k, q) \ Below(k, l) \subseteq LayersUnder(k2, q)
  BY <1>1, <1>2, TreesMean DEF Edited
<1>6. /\ IsHierarchy(k) /\ DOMAIN k = Owners /\ d # NoDocument /\ DOMAIN k2 = Owners
      /\ d \notin Layers /\ Groups \subseteq Layers
      /\ \A e \in Docs : e \notin Layers
      /\ \A a \in OpenIn(hs) : hs[a].layer \in Layers
  BY <1>1, <1>5, TreesMean DEF OpenIn, HandleStates
<1>7. ASSUME NEW a \in OpenIn(hs), ~ hs[a].attached
      PROVE  /\ hs[a].layer \notin LayersUnder(k, d)
             /\ \A p \in Owners : hs[a].layer \notin Range(k[p])
  <2>1. \A p \in DOMAIN k : hs[a].layer \notin Range(k[p])
    BY <1>1, <1>7 DEF Handled, FlagIsTrue
  <2> QED BY <1>6, <2>1, TopOfItsTree
<1>8. ASSUME NEW a \in OpenIn(hs), ~ hs2[a].attached, a # h
      PROVE  ~ hs[a].attached /\ hs[a].layer # l /\ hs[a].layer \notin LayersUnder(k, d)
  BY <1>2, <1>4, <1>7, <1>8
<1>9. FlagIsTrue(k2, hs2)
  <2> SUFFICES ASSUME NEW a \in OpenIn(hs), ~ hs2[a].attached, NEW p \in Owners
               PROVE  hs[a].layer \notin Range(k2[p])
    BY <1>4, <1>6 DEF FlagIsTrue
  <2>1. CASE a = h
    BY <1>4, <2>1
  <2>2. CASE a # h
    <3>1. hs[a].layer \notin LayersUnder(k, d) /\ hs[a].layer \notin Range(k[p])
      BY <1>7, <1>8, <2>2
    <3>2. CASE p # d /\ p \notin LayersUnder(k, d)
      BY <1>5, <3>1, <3>2
    <3>3. CASE p = d
      <4>1. Range(k2[p]) \subseteq LayersUnder(k, d)
        BY <1>5, <1>6, <3>3, TreesMean
      <4> QED BY <3>1, <4>1
    <3>4. CASE p \in LayersUnder(k, d)
      <4>1. Range(k2[p]) \subseteq LayersUnder(k, d)
        BY <1>5, <1>6, <3>4, TreesMean DEF Below
      <4> QED BY <3>1, <4>1
    <3> QED BY <3>2, <3>3, <3>4
  <2> QED BY <2>1, <2>2
<1>10. OneUnattached(hs2)
  BY <1>1, <1>2, <1>4, <1>8 DEF Handled, OneUnattached
<1>11. DocumentIsTrue(k2, hs2)
  BY <1>1, <1>4, <1>5 DEF Handled, DocumentIsTrue
<1>12. TreeAgrees(k2, hs2)
  <2> SUFFICES ASSUME NEW r \in Layers, NEW a \in OpenIn(hs), NEW b \in OpenIn(hs),
                      hs[a].layer \in Below(k2, r), hs[a].document # NoDocument,
                      hs[b].layer \in Below(k2, r), hs[b].document # NoDocument
               PROVE  hs[a].document = hs[b].document
    BY <1>4 DEF TreeAgrees
  <2>1. CASE r \in LayersUnder(k, d)
    <3>1. hs[a].layer \in LayersUnder(k, d) /\ hs[b].layer \in LayersUnder(k, d)
      BY <1>5, <2>1
    <3> QED BY <1>1, <3>1 DEF Handled, DocumentIsTrue
  <2>2. CASE r \notin LayersUnder(k, d)
    <3>1. hs[a].layer \in Below(k, r) /\ hs[b].layer \in Below(k, r)
      BY <1>5, <2>2
    <3> QED BY <1>1, <3>1 DEF Handled, TreeAgrees
  <2> QED BY <2>1, <2>2
<1>13. NoneBelow(k2, hs2)
  <2> SUFFICES ASSUME NEW a \in OpenIn(hs), NEW b \in OpenIn(hs),
                      ~ hs2[a].attached, hs[a].document = NoDocument,
                      hs[b].layer \in Below(k2, hs[a].layer)
               PROVE  hs[b].document = NoDocument
    BY <1>4 DEF NoneBelow
  <2>1. a # h /\ ~ hs[a].attached /\ hs[b].layer \in Below(k, hs[a].layer)
    BY <1>5, <1>6, <1>8
  <2> QED BY <1>1, <2>1 DEF Handled, NoneBelow
<1>14. Writable(k2, st, dr)
  BY <1>5 DEF HandlesInvariant, Writable
<1>15. NotDrained(k2, hs2, dr)
  <2> SUFFICES ASSUME NEW a \in OpenIn(hs), ~ hs2[a].attached
               PROVE  Below(k2, hs[a].layer) \cap dr = {}
    BY <1>4 DEF NotDrained
  <2>1. CASE a = h
    BY <1>2, <1>5, <2>1 DEF HandlesInvariant, Writable
  <2>2. CASE a # h
    BY <1>5, <1>6, <1>8, <2>2 DEF HandlesInvariant, NotDrained
  <2> QED BY <2>1, <2>2
<1>16. OnlyUsableHold(k2, st)
  <2> SUFFICES ASSUME NEW e \in Docs, st[e] # "usable" PROVE Range(k2[e]) = {}
    BY DEF OnlyUsableHold
  <2>1. e # d /\ e \notin LayersUnder(k, d)
    BY <1>1, <1>6, TreesMean
  <2> QED BY <1>5, <2>1 DEF HandlesInvariant, OnlyUsableHold, Owners
<1>17. ASSUME NEW y, y \in Shared(k, hs) PROVE y \in Shared(k2, hs2)
  <2>1. CASE y \in Below(k, l)
    BY <1>2, <1>4, <1>5, <2>1, SharedMeans
  <2>2. CASE y \notin Below(k, l)
    <3>1. \A q : y \in LayersUnder(k, q) => y \in LayersUnder(k2, q)
      BY <1>5, <2>2
    <3>2. \A r : y \in Below(k, r) => y \in Below(k2, r)
      BY <3>1 DEF Below
    <3> QED BY <1>4, <1>17, <3>1, <3>2, SharedMeans
  <2> QED BY <2>1, <2>2
<1>18. Owned(k2, hs2, dr)
  <2>1. ASSUME NEW g \in Groups, Range(k2[g]) # {} PROVE g \in Shared(k, hs)
    <3>1. CASE g \in LayersUnder(k, d)
      BY <3>1, SharedMeans
    <3>2. CASE g \notin LayersUnder(k, d)
      BY <1>1, <1>5, <1>6, <2>1, <3>2 DEF Owned, Owners
    <3> QED BY <3>1, <3>2
  <2> QED BY <1>1, <1>17, <2>1 DEF Owned
<1>19. Types(k2, st, hs2, dr)
  BY <1>4, <1>5 DEF HandlesInvariant, Types, DocumentsExist
<1> QED
  BY <1>3, <1>9, <1>10, <1>11, <1>12, <1>13, <1>14, <1>15, <1>16, <1>18, <1>19
     DEF HandlesInvariant, Handled

-----------------------------------------------------------------------------
(* Documents that are created and read.                                    *)

InTheFile(lists) == UNION {Range(lists[p]) : p \in DOMAIN lists}

WithFile(k, d, lists) ==
  [p \in Owners |-> IF p = d \/ p \in InTheFile(lists) THEN lists[p] ELSE k[p]]

\* What a file brings is not pointed to: the walks of the document find what
\* they find in the file, all others what they found before.
LEMMA ReadLists ==
  ASSUME NEW k, Trees(k), NEW hs, NEW dr, Owned(k, hs, dr),
         NEW d \in Docs, Range(k[d]) = {}, NEW file \in Files,
         NEW lists, lists = ListsOf(file, d), InTheFile(lists) \cap Shared(k, hs) = {}
  PROVE  /\ Trees(WithFile(k, d, lists))
         /\ LayersUnder(WithFile(k, d, lists), d) \subseteq InTheFile(lists)
         /\ \A g \in Groups : g \in InTheFile(lists) =>
              /\ LayersUnder(WithFile(k, d, lists), g) \subseteq InTheFile(lists)
              /\ Range(WithFile(k, d, lists)[g]) # {}
                   => g \in LayersUnder(WithFile(k, d, lists), d)
         /\ \A q \in Owners : q # d /\ q \notin InTheFile(lists) =>
              /\ LayersUnder(WithFile(k, d, lists), q) = LayersUnder(k, q)
              /\ WithFile(k, d, lists)[q] = k[q]
<1>1. PICK read : read = InTheFile(lists)
  OBVIOUS
<1>2. PICK k2 : k2 = WithFile(k, d, lists)
  OBVIOUS
<1>3. /\ IsHierarchy(k) /\ DOMAIN k = Owners /\ Unique(k) /\ ~ Cyclic(k)
      /\ Groups \subseteq Layers /\ d \notin Layers
      /\ \A e \in Docs : e \notin Layers
  BY TreesMean
<1>4. /\ lists \in [Groups \cup {d} -> Seq(Layers)]
      /\ lists[d] = file.top
      /\ \A g \in Groups : lists[g] = file.groups[g]
  BY <1>3, DocumentHandlesAssumption DEF ListsOf
<1>5. IsHierarchy(lists) /\ DOMAIN lists = Groups \cup {d}
  BY <1>3, <1>4 DEF IsHierarchy
<1>6. /\ IsForest(lists)
      /\ \A g \in Groups : lists[g] # <<>> => g \in LayersUnder(lists, d)
  BY <1>4, DocumentHandlesAssumption DEF InFile
<1>7. Unique(lists) /\ ~ Cyclic(lists)
  BY <1>5, <1>6, ForestMeans
<1>8. \A p \in Groups \cup {d} : Range(lists[p]) \subseteq read
  BY <1>1, <1>5 DEF InTheFile
<1>9. read \subseteq Layers
  <2>1. \A p \in DOMAIN lists : Range(lists[p]) \subseteq Layers
    BY <1>5, GroupsHaveLists
  <2> QED BY <1>1, <2>1 DEF InTheFile
<1>10. /\ DOMAIN k2 = Owners
       /\ \A p \in Owners : p = d \/ p \in read => k2[p] = lists[p]
       /\ \A p \in Owners : p # d /\ p \notin read => k2[p] = k[p]
  BY <1>1, <1>2 DEF WithFile
<1>11. Owners = Docs \cup Groups
  BY DEF Owners
<1>12. ASSUME NEW p \in Owners, p = d \/ p \in read PROVE p \in DOMAIN lists
  BY <1>3, <1>5, <1>9, <1>11, <1>12
<1>13. IsHierarchy(k2)
  <2>1. ASSUME NEW p \in Owners PROVE k2[p] \in Seq(Layers)
    <3>1. CASE p = d \/ p \in read
      BY <1>5, <1>10, <1>12, <3>1, GroupsHaveLists
    <3>2. CASE ~ (p = d \/ p \in read)
      BY <1>3, <1>10, <3>2, GroupsHaveLists
    <3> QED BY <3>1, <3>2
  <2>2. k2 \in [Owners -> Seq(Layers)]
    <3>1. k2 = [p \in Owners |-> k2[p]]
      BY <1>2 DEF WithFile
    <3> QED BY <2>1, <3>1
  <2>3. Owners \cap Layers = Groups
    BY <1>3, <1>11
  <2> QED BY <1>10, <2>2, <2>3 DEF IsHierarchy
<1>14. ASSUME NEW q \in DOMAIN lists PROVE LayersUnder(lists, q) \subseteq read
  <2>1. Closed(lists, read) /\ Range(lists[q]) \subseteq read
    BY <1>5, <1>8 DEF Closed
  <2> QED BY <1>5, <2>1, WalkFindsOnly
<1>15. ASSUME NEW q \in Owners, q = d \/ q \in read
       PROVE  LayersUnder(k2, q) = LayersUnder(lists, q)
  <2>1. k2[q] = lists[q] /\ \A g \in Groups : g \in LayersUnder(lists, q) => k2[g] = lists[g]
    BY <1>10, <1>11, <1>12, <1>14, <1>15
  <2> QED BY <1>5, <1>10, <1>12, <1>13, <1>15, <2>1, SameLists
<1>16. ASSUME NEW q \in Owners, q # d, q \notin read
       PROVE  LayersUnder(k2, q) = LayersUnder(k, q)
  <2>1. LayersUnder(k, q) \subseteq Shared(k, hs)
    <3>1. CASE q \in Docs
      BY <3>1, SharedMeans
    <3>2. CASE q \in Groups /\ Range(k[q]) # {}
      BY <3>2, SharedIsClosed DEF Owned, Below
    <3>3. CASE Range(k[q]) = {}
      BY <1>3, <3>3, EmptyList
    <3> QED BY <1>11, <3>1, <3>2, <3>3
  <2>2. k2[q] = k[q] /\ \A g \in Groups : g \in LayersUnder(k, q) => k2[g] = k[g]
    BY <1>1, <1>3, <1>10, <1>11, <1>16, <2>1
  <2> QED BY <1>3, <1>10, <1>13, <2>2, SameLists
<1>17. ASSUME NEW p \in Owners, NEW i \in 1..Len(k2[p])
       PROVE  (p = d \/ p \in read) <=> k2[p][i] \in read
  <2>1. k2[p][i] \in Range(k2[p])
    BY <1>10, <1>13, GroupsHaveLists
  <2>2. CASE p = d \/ p \in read
    BY <1>5, <1>8, <1>10, <1>12, <2>1, <2>2
  <2>3. CASE ~ (p = d \/ p \in read)
    <3>1. k2[p][i] \in Shared(k, hs)
      BY <1>3, <1>10, <2>1, <2>3, PlacedIsShared
    <3> QED BY <1>1, <2>3, <3>1
  <2> QED BY <2>2, <2>3
<1>18. Unique(k2)
  <2> SUFFICES ASSUME NEW p \in Owners, NEW q \in Owners,
                      NEW i \in 1..Len(k2[p]), NEW j \in 1..Len(k2[q]), k2[p][i] = k2[q][j]
               PROVE  p = q /\ i = j
    BY <1>10 DEF Unique
  <2>1. (p = d \/ p \in read) <=> (q = d \/ q \in read)
    BY <1>17
  <2>2. CASE p = d \/ p \in read
    BY <1>7, <1>10, <1>12, <2>1, <2>2 DEF Unique
  <2>3. CASE ~ (p = d \/ p \in read)
    BY <1>3, <1>10, <2>1, <2>3 DEF Unique
  <2> QED BY <2>2, <2>3
<1>19. ~ Cyclic(k2)
  BY <1>3, <1>7, <1>11, <1>15, <1>16 DEF Cyclic
<1>20. Trees(k2)
  BY <1>10, <1>13, <1>18, <1>19, ForestMeans DEF Trees
<1>21. LayersUnder(k2, d) \subseteq read
  BY <1>5, <1>11, <1>14, <1>15
<1>22. ASSUME NEW g \in Groups, g \in read
       PROVE  /\ LayersUnder(k2, g) \subseteq read
              /\ Range(k2[g]) # {} => g \in LayersUnder(k2, d)
  <2>1. LayersUnder(k2, g) \subseteq read /\ k2[g] = lists[g]
    BY <1>5, <1>10, <1>11, <1>14, <1>15, <1>22
  <2>2. Range(<<>>) = {}
    BY DEF Range
  <2> QED BY <1>6, <1>11, <1>15, <2>1, <2>2
<1> QED BY <1>1, <1>2, <1>10, <1>16, <1>20, <1>21, <1>22

LEMMA ReadKeepsInvariant ==
  ASSUME NEW k, NEW st, NEW hs, NEW dr, HandlesInvariant(k, st, hs, dr),
         NEW d \in Docs, st[d] = "none", NEW file \in Files,
         NEW lists, lists = ListsOf(file, d), InTheFile(lists) \cap Shared(k, hs) = {}
  PROVE  HandlesInvariant(WithFile(k, d, lists), [st EXCEPT ![d] = "usable"], hs, dr)
<1>1. Trees(k) /\ hs \in HandleStates /\ Handled(k, hs) /\ Owned(k, hs, dr) /\ st \in States
  BY DEF HandlesInvariant, Types
<1>2. PICK read : read = InTheFile(lists)
  OBVIOUS
<1>3. PICK k2 : k2 = WithFile(k, d, lists)
  OBVIOUS
<1>4. Range(k[d]) = {}
  BY DEF HandlesInvariant, OnlyUsableHold
<1>5. /\ Trees(k2)
      /\ LayersUnder(k2, d) \subseteq read
      /\ \A g \in Groups : g \in read =>
           /\ LayersUnder(k2, g) \subseteq read
           /\ Range(k2[g]) # {} => g \in LayersUnder(k2, d)
      /\ \A q \in Owners : q # d /\ q \notin read =>
           /\ LayersUnder(k2, q) = LayersUnder(k, q)
           /\ k2[q] = k[q]
  BY <1>1, <1>2, <1>3, <1>4, ReadLists
<1>6. /\ IsHierarchy(k) /\ DOMAIN k = Owners /\ DOMAIN k2 = Owners /\ d \notin Layers
      /\ \A e \in Docs : e \notin Layers
      /\ LayersUnder(k, d) = {}
      /\ Groups \subseteq Layers
      /\ Owners = Docs \cup Groups
      /\ Owners \cap Layers = Groups
  BY <1>1, <1>4, <1>5, EmptyList, TreesMean DEF Owners
<1>7. read \subseteq Layers /\ read \cap Shared(k, hs) = {}
  <2>1. DOMAIN lists = Groups \cup {d} /\ IsHierarchy(lists)
    BY <1>6, DocumentHandlesAssumption DEF ListsOf, IsHierarchy
  <2> QED BY <1>2, <2>1, GroupsHaveLists DEF InTheFile
<1>8. \A a \in OpenIn(hs) : hs[a].layer \in Layers /\ hs[a].layer \notin read
  BY <1>1, <1>7, HandleIsShared DEF OpenIn, HandleStates
<1>9. ASSUME NEW r \in Layers, r \notin read PROVE Below(k2, r) = Below(k, r)
  <2>1. CASE r \in Owners
    BY <1>5, <1>6, <1>9, <2>1 DEF Below
  <2>2. CASE r \notin Owners
    BY <1>6, <2>2 DEF Below, LayersUnder
  <2> QED BY <2>1, <2>2
<1>10. ASSUME NEW r \in read PROVE Below(k2, r) \subseteq read
  <2>1. CASE r \in Groups
    BY <1>5, <2>1 DEF Below
  <2>2. CASE r \notin Groups
    BY <1>6, <1>7, <2>2 DEF Below, LayersUnder
  <2> QED BY <2>1, <2>2
<1>11. \A e \in Docs : LayersUnder(k2, e) \subseteq LayersUnder(k, e) \cup (IF e = d THEN read ELSE {})
  BY <1>5, <1>6, <1>7
<1>12. FlagIsTrue(k2, hs)
  <2> SUFFICES ASSUME NEW a \in OpenIn(hs), ~ hs[a].attached, NEW p \in Owners
               PROVE  hs[a].layer \notin Range(k2[p])
    BY <1>6 DEF FlagIsTrue
  <2>1. CASE p = d \/ p \in read
    <3>1. Range(k2[p]) \subseteq read
      BY <1>5, <1>6, <1>7, <2>1, TreesMean
    <3> QED BY <1>8, <3>1
  <2>2. CASE ~ (p = d \/ p \in read)
    BY <1>1, <1>5, <1>6, <2>2 DEF Handled, FlagIsTrue
  <2> QED BY <2>1, <2>2
<1>13. OneUnattached(hs)
  BY <1>1 DEF Handled
<1>14. DocumentIsTrue(k2, hs)
  BY <1>1, <1>8, <1>11 DEF Handled, DocumentIsTrue
<1>15. TreeAgrees(k2, hs)
  <2> SUFFICES ASSUME NEW r \in Layers, NEW a \in OpenIn(hs), NEW b \in OpenIn(hs),
                      hs[a].layer \in Below(k2, r), hs[a].document # NoDocument,
                      hs[b].layer \in Below(k2, r), hs[b].document # NoDocument
               PROVE  hs[a].document = hs[b].document
    BY DEF TreeAgrees
  <2>1. r \notin read
    BY <1>8, <1>10
  <2>2. Below(k2, r) = Below(k, r)
    BY <1>9, <2>1
  <2> QED BY <1>1, <2>2 DEF Handled, TreeAgrees
<1>16. \A a \in OpenIn(hs) : Below(k2, hs[a].layer) = Below(k, hs[a].layer)
  BY <1>8, <1>9
<1>17. NoneBelow(k2, hs)
  BY <1>1, <1>16 DEF Handled, NoneBelow
<1>18. NotDrained(k2, hs, dr)
  BY <1>16 DEF HandlesInvariant, NotDrained
<1>19. PICK st2 \in States : st2 = [st EXCEPT ![d] = "usable"]
  BY <1>1 DEF States
<1>20. st2[d] = "usable" /\ \A e \in Docs : e # d => st2[e] = st[e]
  BY <1>1, <1>19 DEF States
<1>21. Writable(k2, st2, dr)
  <2> SUFFICES ASSUME NEW e \in Docs, st2[e] = "usable" PROVE LayersUnder(k2, e) \cap dr = {}
    BY DEF Writable
  <2>1. CASE e = d
    BY <1>1, <1>5, <1>7, <2>1 DEF Owned
  <2>2. CASE e # d
    BY <1>11, <1>20, <2>2 DEF HandlesInvariant, Writable
  <2> QED BY <2>1, <2>2
<1>22. OnlyUsableHold(k2, st2)
  <2> SUFFICES ASSUME NEW e \in Docs, st2[e] # "usable" PROVE Range(k2[e]) = {}
    BY DEF OnlyUsableHold
  <2>1. e # d /\ k2[e] = k[e]
    BY <1>5, <1>6, <1>7, <1>20
  <2> QED BY <1>20, <2>1 DEF HandlesInvariant, OnlyUsableHold
<1>23. ASSUME NEW y, y \in Shared(k, hs) PROVE y \in Shared(k2, hs)
  <2>1. \A e \in Docs : LayersUnder(k, e) \subseteq LayersUnder(k2, e)
    BY <1>5, <1>6, <1>7
  <2> QED BY <1>16, <1>23, <2>1, SharedMeans
<1>24. Owned(k2, hs, dr)
  <2>1. ASSUME NEW g \in Groups, Range(k2[g]) # {} PROVE g \in Shared(k2, hs)
    <3>1. CASE g \in read
      BY <1>5, <2>1, <3>1, SharedMeans
    <3>2. CASE g \notin read
      <4>1. k2[g] = k[g]
        BY <1>5, <1>6, <3>2
      <4> QED BY <1>1, <1>23, <2>1, <4>1 DEF Owned
    <3> QED BY <3>1, <3>2
  <2> QED BY <1>1, <1>23, <2>1 DEF Owned
<1>25. DocumentsExist(st2, hs)
  <2>1. \A a \in Handles : hs[a].document # NoDocument => hs[a].document \in Docs
    BY <1>1 DEF HandleStates
  <2> QED BY <1>20, <2>1 DEF HandlesInvariant, Types, DocumentsExist
<1>26. Types(k2, st2, hs, dr)
  BY <1>1, <1>5, <1>25 DEF HandlesInvariant, Types
<1> QED
  BY <1>3, <1>12, <1>13, <1>14, <1>15, <1>17, <1>18, <1>19, <1>21, <1>22, <1>24, <1>26
     DEF HandlesInvariant, Handled

LEMMA CreateKeepsInvariant ==
  ASSUME NEW k, NEW st, NEW hs, NEW dr, HandlesInvariant(k, st, hs, dr),
         NEW d \in Docs, st[d] = "none"
  PROVE  HandlesInvariant(k, [st EXCEPT ![d] = "usable"], hs, dr)
<1>1. Trees(k) /\ hs \in HandleStates /\ st \in States /\ Range(k[d]) = {}
  BY DEF HandlesInvariant, Types, OnlyUsableHold
<1>2. PICK st2 \in States : st2 = [st EXCEPT ![d] = "usable"]
  BY <1>1 DEF States
<1>3. st2[d] = "usable" /\ \A e \in Docs : e # d => st2[e] = st[e]
  BY <1>1, <1>2 DEF States
<1>4. LayersUnder(k, d) = {}
  BY <1>1, EmptyList, TreesMean
<1>5. Writable(k, st2, dr)
  BY <1>3, <1>4 DEF HandlesInvariant, Writable
<1>6. OnlyUsableHold(k, st2)
  BY <1>3 DEF HandlesInvariant, OnlyUsableHold
<1>7. DocumentsExist(st2, hs)
  <2>1. \A a \in Handles : hs[a].document # NoDocument => hs[a].document \in Docs
    BY <1>1 DEF HandleStates
  <2> QED BY <1>3, <2>1 DEF HandlesInvariant, Types, DocumentsExist
<1>8. Types(k, st2, hs, dr)
  BY <1>7 DEF HandlesInvariant, Types
<1> QED BY <1>2, <1>5, <1>6, <1>8 DEF HandlesInvariant

-----------------------------------------------------------------------------
(* The steps of a careful client.                                          *)

IInv == HandlesInvariant(kids, status, handle, drained)

LEMMA OpenMeans == Open = OpenIn(handle)
BY DEF Open, OpenIn

LEMMA ReleaseMeans ==
  ASSUME NEW k, NEW hs, NEW gone, Release(k, hs, gone)
  PROVE  kids' = Kept(k, hs) /\ handle' = hs /\ drained' = gone \cap Shared(k, hs)
BY DEF Release, Kept

LEMMA EmptiedDocument ==
  ASSUME NEW k, Trees(k), NEW d \in Docs
  PROVE  Emptied(k, [k EXCEPT ![d] = <<>>])
<1>1. k = [p \in Owners |-> k[p]] /\ d \in Owners
  BY TreesMean DEF IsHierarchy, Owners
<1>2. PICK k1 : k1 = [k EXCEPT ![d] = <<>>]
  OBVIOUS
<1>3. k1 = [p \in Owners |-> k1[p]] /\ \A p \in Owners : k1[p] = IF p = d THEN <<>> ELSE k[p]
  BY <1>1, <1>2
<1> QED BY <1>2, <1>3 DEF Emptied

LEMMA DestroyDocumentStep ==
  ASSUME IInv, NEW d \in Docs, DestroyDocument(d)
  PROVE  IInv'
<1>1. PICK k, st, hs, dr : k = kids /\ st = status /\ hs = handle /\ dr = drained
  OBVIOUS
<1>2. HandlesInvariant(k, st, hs, dr)
  BY <1>1 DEF IInv
<1>3. /\ Trees(k) /\ st \in States /\ hs \in HandleStates /\ dr \subseteq Layers
      /\ DocumentsExist(st, hs) /\ OnlyUsableHold(k, st)
  BY <1>2 DEF HandlesInvariant, Types
<1>4. PICK k1 : k1 = [k EXCEPT ![d] = <<>>]
  OBVIOUS
<1>5. PICK hs2 : hs2 = [h \in Handles |->
                          [hs[h] EXCEPT !.document = IF @ = d THEN NoDocument ELSE @]]
  OBVIOUS
<1>6. PICK st2 : st2 = [st EXCEPT ![d] = "none"]
  OBVIOUS
<1>7. /\ kids' = Kept(k1, hs2) /\ handle' = hs2 /\ drained' = dr \cap Shared(k1, hs2)
      /\ status' = st2
  BY <1>1, <1>4, <1>5, <1>6, ReleaseMeans DEF DestroyDocument
<1>8. Emptied(k, k1)
  BY <1>3, <1>4, EmptiedDocument
<1>9. ASSUME NEW h \in Handles
      PROVE  /\ hs2[h] \in [layer : Layers \cup {NoLayer}, document : Docs \cup {NoDocument},
                            attached : BOOLEAN]
             /\ hs[h].document \in Docs \cup {NoDocument}
             /\ hs2[h].layer = hs[h].layer
             /\ hs2[h].attached = hs[h].attached
             /\ hs[h].document = d => hs2[h].document = NoDocument
             /\ hs[h].document # d => hs2[h].document = hs[h].document
  <2>1. PICK c : c = IF hs[h].document = d THEN NoDocument ELSE hs[h].document
    OBVIOUS
  <2>2. /\ hs[h].layer \in Layers \cup {NoLayer}
        /\ hs[h].document \in Docs \cup {NoDocument}
        /\ hs[h].attached \in BOOLEAN
        /\ hs[h] = [layer |-> hs[h].layer, document |-> hs[h].document,
                    attached |-> hs[h].attached]
    BY <1>3 DEF HandleStates
  <2>3. hs2[h] = [hs[h] EXCEPT !.document = c]
    BY <1>5, <2>1
  <2>4. hs2[h] = [layer |-> hs[h].layer, document |-> c, attached |-> hs[h].attached]
    BY <2>2, <2>3
  <2>5. c \in Docs \cup {NoDocument}
    BY <2>1, <2>2
  <2> QED BY <2>1, <2>2, <2>4, <2>5
<1>10. hs2 \in HandleStates /\ Lowered(hs, hs2, {d})
  <2>1. hs2 = [h \in Handles |-> hs2[h]]
    BY <1>5
  <2>2. \A h \in Handles :
          hs2[h] \in [layer : Layers \cup {NoLayer}, document : Docs \cup {NoDocument},
                      attached : BOOLEAN]
    BY <1>9
  <2>3. hs2 \in HandleStates
    BY <2>1, <2>2 DEF HandleStates
  <2>4. Lowered(hs, hs2, {d})
    BY <1>9 DEF Lowered, OpenIn
  <2> QED BY <2>3, <2>4
<1>11. st2 \in States /\ st2[d] = "none" /\ \A e \in Docs : e # d => st2[e] = st[e]
  BY <1>3, <1>6 DEF States
<1>12. DocumentsExist(st2, hs2)
  <2> SUFFICES ASSUME NEW h \in Handles, hs2[h].document # NoDocument
               PROVE  st2[hs2[h].document] # "none"
    BY DEF DocumentsExist
  <2>1. hs2[h].document = hs[h].document /\ hs[h].document # d /\ hs[h].document \in Docs
    BY <1>3, <1>9 DEF HandleStates
  <2> QED BY <1>3, <1>11, <2>1 DEF DocumentsExist
<1>13. OnlyUsableHold(k1, st2)
  <2>1. Range(<<>>) = {}
    BY DEF Range
  <2>2. \A e \in Docs : e \in DOMAIN k
    BY <1>3, TreesMean
  <2> QED BY <1>3, <1>4, <1>11, <2>1, <2>2 DEF OnlyUsableHold
<1>14. \A e \in Docs : st2[e] = "usable" => st[e] = "usable"
  BY <1>11
<1>15. HandlesInvariant(Kept(k1, hs2), st2, hs2, dr \cap Shared(k1, hs2))
  BY <1>2, <1>3, <1>8, <1>10, <1>11, <1>12, <1>13, <1>14, ReleaseKeepsInvariant
<1> QED BY <1>7, <1>15 DEF IInv

LEMMA WriteStep ==
  ASSUME IInv, NEW d \in Docs, NEW n, Write(d, n)
  PROVE  IInv'
<1>1. PICK k, st, hs, dr : k = kids /\ st = status /\ hs = handle /\ dr = drained
  OBVIOUS
<1>2. HandlesInvariant(k, st, hs, dr)
  BY <1>1 DEF IInv
<1>3. /\ Trees(k) /\ st \in States /\ hs \in HandleStates /\ dr \subseteq Layers
      /\ DocumentsExist(st, hs) /\ OnlyUsableHold(k, st)
  BY <1>2 DEF HandlesInvariant, Types
<1>4. PICK k1 : k1 = [k EXCEPT ![d] = <<>>]
  OBVIOUS
<1>5. PICK slots : slots = Reverse(Slots(k, d))
  OBVIOUS
<1>6. PICK dr2 : dr2 = dr \cup {At(k, slots[i]) : i \in 1..n}
  OBVIOUS
<1>7. PICK st2 : st2 = [st EXCEPT ![d] = "consumed"]
  OBVIOUS
<1>8. /\ n \in 0..Len(slots)
      /\ kids' = Kept(k1, hs) /\ handle' = hs /\ drained' = dr2 \cap Shared(k1, hs)
      /\ status' = st2
  <2>1. Release([kids EXCEPT ![d] = <<>>], handle,
                drained \cup {At(kids, Reverse(Slots(kids, d))[i]) : i \in 1..n})
    BY DEF Write
  <2>2. Release(k1, hs, dr2)
    BY <1>1, <1>4, <1>5, <1>6, <2>1
  <2>3. kids' = Kept(k1, hs) /\ handle' = hs /\ drained' = dr2 \cap Shared(k1, hs)
    BY <2>2, ReleaseMeans
  <2>4. n \in 0..Len(slots) /\ status' = st2
    BY <1>1, <1>5, <1>7 DEF Write
  <2> QED BY <2>3, <2>4
<1>9. Emptied(k, k1)
  BY <1>3, <1>4, EmptiedDocument
<1>10. Lowered(hs, hs, {})
  BY DEF Lowered
<1>11. st2 \in States /\ st2[d] = "consumed" /\ \A e \in Docs : e # d => st2[e] = st[e]
  BY <1>3, <1>7 DEF States
<1>12. DocumentsExist(st2, hs)
  <2>1. \A h \in Handles : hs[h].document # NoDocument => hs[h].document \in Docs
    BY <1>3 DEF HandleStates
  <2> QED BY <1>3, <1>11, <2>1 DEF DocumentsExist
<1>13. OnlyUsableHold(k1, st2)
  <2>1. Range(<<>>) = {}
    BY DEF Range
  <2>2. \A e \in Docs : e \in DOMAIN k
    BY <1>3, TreesMean
  <2> QED BY <1>3, <1>4, <1>11, <2>1, <2>2 DEF OnlyUsableHold
<1>14. \A e \in Docs : st2[e] = "usable" => st[e] = "usable"
  BY <1>11
<1>15. ASSUME NEW i \in 1..n PROVE At(k, slots[i]) \in LayersUnder(k, d)
  <2>1. /\ Slots(k, d) \in Seq(SlotsOf(k)) /\ Len(Slots(k, d)) \in Nat
        /\ Range(Slots(k, d)) = {Slots(k, d)[j] : j \in 1..Len(Slots(k, d))}
    BY <1>3, SlotsAreValid, TreesMean DEF Range
  <2>2. /\ Len(slots) = Len(Slots(k, d))
        /\ \A j \in 1..Len(slots) : slots[j] = Slots(k, d)[(Len(Slots(k, d)) - j) + 1]
    BY <1>5, <2>1 DEF Reverse
  <2>3. i \in 1..Len(slots)
    BY <1>8, <2>1, <2>2
  <2>4. slots[i] \in Range(Slots(k, d))
    BY <2>1, <2>2, <2>3
  <2>5. d \in DOMAIN k
    BY <1>3, TreesMean
  <2> QED BY <2>4, <2>5 DEF LayersUnder
<1>16. /\ dr2 \subseteq Layers
       /\ \A y \in dr2 : \/ y \in dr
                         \/ \E e \in Docs : st2[e] # "usable" /\ y \in LayersUnder(k, e)
  BY <1>3, <1>6, <1>11, <1>15, TreesMean
<1>17. HandlesInvariant(Kept(k1, hs), st2, hs, dr2 \cap Shared(k1, hs))
  BY <1>2, <1>3, <1>9, <1>10, <1>11, <1>12, <1>13, <1>14, <1>16, ReleaseKeepsInvariant
<1> QED BY <1>8, <1>17 DEF IInv

LEMMA DestroyLayerStep ==
  ASSUME IInv, NEW h \in Handles, DestroyLayer(h)
  PROVE  IInv'
<1>1. PICK k, st, hs, dr : k = kids /\ st = status /\ hs = handle /\ dr = drained
  OBVIOUS
<1>2. HandlesInvariant(k, st, hs, dr)
  BY <1>1 DEF IInv
<1>3. /\ Trees(k) /\ st \in States /\ hs \in HandleStates /\ dr \subseteq Layers
      /\ DocumentsExist(st, hs) /\ OnlyUsableHold(k, st)
  BY <1>2 DEF HandlesInvariant, Types
<1>4. PICK hs2 : hs2 = [hs EXCEPT ![h] = NoHandle]
  OBVIOUS
<1>5. /\ kids' = Kept(k, hs2) /\ handle' = hs2 /\ drained' = dr \cap Shared(k, hs2)
      /\ status' = st
  BY <1>1, <1>4, ReleaseMeans DEF DestroyLayer
<1>6. Emptied(k, k)
  BY <1>3, TreesMean DEF Emptied, IsHierarchy
<1>7. /\ hs2 \in HandleStates
      /\ hs2[h].layer = NoLayer /\ hs2[h].document = NoDocument
      /\ \A a \in Handles : a # h => hs2[a] = hs[a]
  BY <1>3, <1>4 DEF HandleStates, NoHandle
<1>8. Lowered(hs, hs2, {})
  BY <1>7 DEF Lowered, OpenIn
<1>9. DocumentsExist(st, hs2)
  BY <1>3, <1>7 DEF DocumentsExist
<1>10. HandlesInvariant(Kept(k, hs2), st, hs2, dr \cap Shared(k, hs2))
  BY <1>2, <1>3, <1>6, <1>7, <1>8, <1>9, ReleaseKeepsInvariant
<1> QED BY <1>5, <1>10 DEF IInv

LEMMA DocumentSteps ==
  ASSUME IInv, NEW d \in Docs
  PROVE  /\ CreateDocument(d) => IInv'
         /\ \A file \in Files : ReadDocument(d, file) => IInv'
<1>1. PICK k, st, hs, dr : k = kids /\ st = status /\ hs = handle /\ dr = drained
  OBVIOUS
<1>2. HandlesInvariant(k, st, hs, dr)
  BY <1>1 DEF IInv
<1>3. ASSUME CreateDocument(d) PROVE IInv'
  <2>1. /\ st[d] = "none"
        /\ kids' = k /\ status' = [st EXCEPT ![d] = "usable"] /\ handle' = hs /\ drained' = dr
    BY <1>1, <1>3 DEF CreateDocument
  <2>2. HandlesInvariant(k, [st EXCEPT ![d] = "usable"], hs, dr)
    BY <1>2, <2>1, CreateKeepsInvariant
  <2> QED BY <2>1, <2>2 DEF IInv
<1>4. ASSUME NEW file \in Files, ReadDocument(d, file) PROVE IInv'
  <2>1. PICK lists : lists = ListsOf(file, d)
    OBVIOUS
  <2>2. /\ st[d] = "none"
        /\ status' = [st EXCEPT ![d] = "usable"] /\ handle' = hs /\ drained' = dr
    BY <1>1, <1>4 DEF ReadDocument
  <2>3. kids' = WithFile(k, d, lists)
    BY <1>1, <1>4, <2>1 DEF ReadDocument, WithFile, InTheFile
  <2>4. InTheFile(lists) \cap Shared(k, hs) = {}
    BY <1>1, <1>4, <2>1 DEF ReadDocument, InTheFile, Free
  <2>5. HandlesInvariant(WithFile(k, d, lists), [st EXCEPT ![d] = "usable"], hs, dr)
    BY <1>2, <2>1, <2>2, <2>4, ReadKeepsInvariant
  <2> QED BY <2>2, <2>3, <2>5 DEF IInv
<1> QED BY <1>3, <1>4

LEMMA NewHandleSteps ==
  ASSUME IInv, NEW h \in Handles
  PROVE  /\ \A l \in Layers : CreateLayer(h, l) => IInv'
         /\ \A d \in Docs : \A i : GetRootLayer(h, d, i) => IInv'
         /\ \A d \in Docs : \A path \in Paths : FindLayer(h, d, path) => IInv'
         /\ \A g \in Handles : \A i : GetChild(h, g, i) => IInv'
<1>1. PICK k, st, hs, dr : k = kids /\ st = status /\ hs = handle /\ dr = drained
  OBVIOUS
<1>2. HandlesInvariant(k, st, hs, dr) /\ OpenIn(hs) = Open
  BY <1>1, OpenMeans DEF IInv
<1>3. Trees(k) /\ hs \in HandleStates
  BY <1>2 DEF HandlesInvariant, Types
<1>4. ASSUME NEW l, NEW d, NEW flag, MakeHandle(h, l, d, flag)
      PROVE  h \notin OpenIn(hs) /\ handle' = Opened(hs, h, l, d, flag)
  BY <1>1, <1>2, <1>4 DEF MakeHandle, Opened
<1>5. ASSUME NEW l \in Layers, CreateLayer(h, l) PROVE IInv'
  <2>1. h \notin OpenIn(hs) /\ handle' = Opened(hs, h, l, NoDocument, FALSE)
    BY <1>4, <1>5 DEF CreateLayer
  <2>2. l \notin Shared(k, hs) /\ kids' = k /\ status' = st /\ drained' = dr
    BY <1>1, <1>5 DEF CreateLayer, Free
  <2>3. HandlesInvariant(k, st, Opened(hs, h, l, NoDocument, FALSE), dr)
    BY <1>2, <2>1, <2>2, OpenedNew
  <2> QED BY <2>1, <2>2, <2>3 DEF IInv
<1>6. ASSUME NEW d \in Docs, NEW l \in LayersUnder(k, d), Usable(d), MakeHandle(h, l, d, TRUE),
             UNCHANGED <<kids, status, drained>>
      PROVE  IInv'
  <2>1. h \notin OpenIn(hs) /\ handle' = Opened(hs, h, l, d, TRUE) /\ st[d] = "usable"
    BY <1>1, <1>4, <1>6 DEF Usable
  <2>2. HandlesInvariant(k, st, Opened(hs, h, l, d, TRUE), dr)
    BY <1>2, <2>1, OpenedInDocument
  <2> QED BY <1>1, <1>6, <2>1, <2>2 DEF IInv
<1>7. ASSUME NEW d \in Docs, NEW i, GetRootLayer(h, d, i) PROVE IInv'
  <2>1. i \in 1..Len(k[d]) /\ d \in DOMAIN k
    BY <1>1, <1>3, <1>7, TreesMean DEF GetRootLayer
  <2>2. k[d][i] \in LayersUnder(k, d)
    BY <1>3, <2>1, TreesMean, GroupsHaveLists
  <2> QED BY <1>1, <1>6, <1>7, <2>2 DEF GetRootLayer
<1>8. ASSUME NEW d \in Docs, NEW path \in Paths, FindLayer(h, d, path) PROVE IInv'
  <2>1. PICK l : l = Found(k, d, path)
    OBVIOUS
  <2>2. /\ Usable(d) /\ l # NoLayer /\ MakeHandle(h, l, d, TRUE)
        /\ UNCHANGED <<kids, status, drained>>
    BY <1>1, <1>8, <2>1 DEF FindLayer
  <2>3. path \in Seq(Range(NameOf)) /\ path # <<>> /\ NoLayer \notin DOMAIN k /\ d \in DOMAIN k
    BY <1>3, DocumentHandlesAssumption, TreesMean DEF Owners
  <2>4. l \in LayersUnder(k, d)
    BY <1>3, <2>1, <2>2, <2>3, FoundIsInFile, TreesMean DEF InFile
  <2> QED BY <1>6, <2>2, <2>4
<1>9. ASSUME NEW g \in Handles, NEW i, GetChild(h, g, i) PROVE IInv'
  <2>1. /\ hs[g].layer \in Groups /\ i \in 1..Len(k[hs[g].layer])
        /\ MakeHandle(h, k[hs[g].layer][i], hs[g].document, TRUE)
        /\ kids' = k /\ status' = st /\ drained' = dr
    BY <1>1, <1>9 DEF GetChild, ChildAttached
  <2>2. PICK c : c = k[hs[g].layer][i]
    OBVIOUS
  <2>3. c \in Range(k[hs[g].layer]) /\ g \in OpenIn(hs)
    BY <1>3, <2>1, <2>2, TreesMean, GroupsHaveLists DEF OpenIn
  <2>4. h \notin OpenIn(hs) /\ handle' = Opened(hs, h, c, hs[g].document, TRUE)
    BY <1>4, <2>1, <2>2
  <2>5. HandlesInvariant(k, st, Opened(hs, h, c, hs[g].document, TRUE), dr)
    BY <1>2, <2>1, <2>3, <2>4, OpenedChild
  <2> QED BY <2>1, <2>4, <2>5 DEF IInv
<1> QED BY <1>5, <1>7, <1>8, <1>9

LEMMA AddSteps ==
  ASSUME IInv, NEW h \in Handles, NEW d \in Docs
  PROVE  /\ DocumentAddLayer(d, h) => IInv'
         /\ \A g \in Handles : CarefulGroupAdd(d, g, h) => IInv'
<1>1. PICK k, st, hs, dr : k = kids /\ st = status /\ hs = handle /\ dr = drained
  OBVIOUS
<1>2. HandlesInvariant(k, st, hs, dr) /\ OpenIn(hs) = Open
  BY <1>1, OpenMeans DEF IInv
<1>3. Trees(k) /\ hs \in HandleStates
  BY <1>2 DEF HandlesInvariant, Types
<1>4. ASSUME NEW p, IsListOf(hs, d, p), h \in Open, p \notin Below(k, hs[h].layer),
             Usable(d), MayAttach(h, d), kids' = Inserted(kids, d, p, handle[h].layer),
             handle' = Attached(h, d), UNCHANGED <<status, drained>>
      PROVE  IInv'
  <2>1. /\ st[d] = "usable" /\ h \in OpenIn(hs)
        /\ ~ hs[h].attached /\ hs[h].document \in {NoDocument, d}
    BY <1>1, <1>2, <1>4 DEF Usable, MayAttach
  <2>2. HandlesInvariant(Inserted(k, d, p, hs[h].layer), st, Joined(hs, h, d), dr)
    BY <1>2, <1>4, <2>1, AddingKeepsInvariant
  <2>3. /\ kids' = Inserted(k, d, p, hs[h].layer) /\ handle' = Joined(hs, h, d)
        /\ status' = st /\ drained' = dr
    BY <1>1, <1>4 DEF Attached, Joined
  <2> QED BY <2>2, <2>3 DEF IInv
<1>5. ASSUME DocumentAddLayer(d, h) PROVE IInv'
  <2>1. IsListOf(hs, d, d)
    BY DEF IsListOf
  <2>2. h \in OpenIn(hs)
    BY <1>2, <1>5 DEF DocumentAddLayer
  <2>3. d \notin Below(k, hs[h].layer)
    BY <1>3, <2>2, TreesMean DEF Below, OpenIn, HandleStates
  <2> QED BY <1>4, <1>5, <2>1, <2>3 DEF DocumentAddLayer
<1>6. ASSUME NEW g \in Handles, CarefulGroupAdd(d, g, h) PROVE IInv'
  <2>1. g \in OpenIn(hs) /\ hs[g].layer \in Groups /\ hs[g].document = d
    BY <1>1, <1>3, <1>6, TreesMean DEF CarefulGroupAdd, GroupAddLayer, OpenIn
  <2>2. IsListOf(hs, d, hs[g].layer)
    BY <2>1 DEF IsListOf
  <2> QED BY <1>1, <1>4, <1>6, <2>2 DEF CarefulGroupAdd, GroupAddLayer
<1> QED BY <1>5, <1>6

LEMMA EditSteps ==
  ASSUME IInv, NEW h \in Handles, NEW d \in Docs
  PROVE  /\ CarefulRemove(d, h) => IInv'
         /\ \A p : CarefulMove(d, h, p) => IInv'
<1>1. PICK k, st, hs, dr : k = kids /\ st = status /\ hs = handle /\ dr = drained
  OBVIOUS
<1>2. HandlesInvariant(k, st, hs, dr) /\ OpenIn(hs) = Open
  BY <1>1, OpenMeans DEF IInv
<1>3. Trees(k) /\ hs \in HandleStates
  BY <1>2 DEF HandlesInvariant, Types
<1>4. PICK l : l = hs[h].layer
  OBVIOUS
<1>5. ASSUME MayEdit(d, h), h \in Open, Usable(d)
      PROVE  /\ h \in OpenIn(hs) /\ st[d] = "usable" /\ hs[h].document = d
             /\ l \in LayersUnder(k, d)
  BY <1>1, <1>2, <1>4, <1>5 DEF MayEdit, Holds, InFile, Usable
<1>6. ASSUME CarefulRemove(d, h) PROVE IInv'
  <2>1. MayEdit(d, h) /\ h \in Open /\ Usable(d)
    BY <1>6 DEF CarefulRemove, RemoveLayer
  <2>2. PICK k2 : k2 = Removed(k, d, l)
    OBVIOUS
  <2>3. /\ Edited(k, k2, d, hs[h].layer)
        /\ \A p \in Owners : hs[h].layer \notin Range(k2[p])
    BY <1>3, <1>4, <1>5, <2>1, <2>2, RemovedIsEdited
  <2>4. PICK flag \in BOOLEAN : flag = FALSE
    OBVIOUS
  <2>5. HandlesInvariant(k2, st, Flagged(hs, h, flag), dr)
    BY <1>2, <1>4, <1>5, <2>1, <2>3, EditKeepsInvariant
  <2>6. kids' = k2 /\ handle' = Flagged(hs, h, flag) /\ status' = st /\ drained' = dr
    BY <1>1, <1>4, <1>6, <2>2, <2>4 DEF CarefulRemove, RemoveLayer, Flagged
  <2> QED BY <2>5, <2>6 DEF IInv
<1>7. ASSUME NEW p, CarefulMove(d, h, p) PROVE IInv'
  <2>1. MayEdit(d, h) /\ h \in Open /\ Usable(d)
    BY <1>7 DEF CarefulMove, MoveLayer
  <2>2. PICK k2 : k2 = Relocated(k, d, l, p)
    OBVIOUS
  <2>3. (p = NoLayer \/ p \in LayersUnder(k, d)) /\ p \notin LayersUnder(k, l)
    BY <1>1, <1>4, <1>7 DEF CarefulMove, Holds, InFile
  <2>4. Edited(k, k2, d, hs[h].layer)
    BY <1>3, <1>4, <1>5, <2>1, <2>2, <2>3, RelocatedIsEdited
  <2>5. PICK flag \in BOOLEAN : flag = TRUE
    OBVIOUS
  <2>6. HandlesInvariant(k2, st, Flagged(hs, h, flag), dr)
    BY <1>2, <1>4, <1>5, <2>1, <2>4, <2>5, EditKeepsInvariant
  <2>7. kids' = k2 /\ handle' = Flagged(hs, h, flag) /\ status' = st /\ drained' = dr
    BY <1>1, <1>4, <1>7, <2>2, <2>5 DEF CarefulMove, MoveLayer, Flagged
  <2> QED BY <2>6, <2>7 DEF IInv
<1> QED BY <1>6, <1>7

LEMMA InvariantAtFirst == Init => IInv
<1> SUFFICES ASSUME Init PROVE IInv
  OBVIOUS
<1>1. PICK k, st, hs, dr : k = kids /\ st = status /\ hs = handle /\ dr = drained
  OBVIOUS
<1>2. /\ k = [p \in Owners |-> <<>>] /\ st = [d \in Docs |-> "none"]
      /\ hs = [h \in Handles |-> NoHandle] /\ dr = {}
  BY <1>1 DEF Init
<1>3. DOMAIN k = Owners /\ \A p \in Owners : Len(k[p]) = 0 /\ Range(k[p]) = {}
  BY <1>2 DEF Range
<1>4. IsHierarchy(k)
  <2>1. Owners \cap Layers = Groups
    BY HierarchyAssumption, DocumentHandlesAssumption DEF Owners
  <2>2. k \in [Owners -> Seq(Layers)]
    BY <1>2
  <2> QED BY <1>3, <2>1, <2>2 DEF IsHierarchy
<1>5. Unique(k)
  BY <1>3 DEF Unique
<1>6. ASSUME NEW p \in Owners PROVE LayersUnder(k, p) = {}
  <2>1. Range(k[p]) \subseteq {} /\ Closed(k, {})
    BY <1>3 DEF Closed
  <2> QED BY <1>3, <1>4, <2>1, WalkFindsOnly
<1>7. Trees(k)
  BY <1>3, <1>4, <1>5, <1>6, ForestMeans DEF Trees, Cyclic, Owners
<1>8. \A h \in Handles : hs[h].layer = NoLayer /\ hs[h].document = NoDocument
  BY <1>2 DEF NoHandle
<1>9. OpenIn(hs) = {}
  BY <1>8 DEF OpenIn
<1>10. Types(k, st, hs, dr)
  <2>1. hs \in HandleStates
    BY <1>2 DEF HandleStates, NoHandle
  <2>2. st \in States
    BY <1>2 DEF States
  <2> QED BY <1>2, <1>7, <1>8, <2>1, <2>2 DEF Types, DocumentsExist
<1>11. Handled(k, hs) /\ NotDrained(k, hs, dr)
  BY <1>9
     DEF Handled, FlagIsTrue, OneUnattached, DocumentIsTrue, TreeAgrees, NoneBelow, NotDrained
<1>12. Owned(k, hs, dr) /\ OnlyUsableHold(k, st) /\ Writable(k, st, dr)
  BY <1>2, <1>3 DEF Owned, OnlyUsableHold, Writable, Owners
<1> QED BY <1>1, <1>10, <1>11, <1>12 DEF IInv, HandlesInvariant

LEMMA InvariantStep == IInv /\ [CarefulNext]_vars => IInv'
<1> SUFFICES ASSUME IInv, [CarefulNext]_vars PROVE IInv'
  OBVIOUS
<1>1. CASE CarefulNext
  BY <1>1, DocumentSteps, NewHandleSteps, AddSteps, EditSteps, DestroyDocumentStep,
     WriteStep, DestroyLayerStep DEF CarefulNext
<1>2. CASE UNCHANGED vars
  BY <1>2 DEF vars, IInv
<1> QED BY <1>1, <1>2

\* Every call of a careful client, whatever handle it is made with, keeps all
\* parts of the invariant.
THEOREM HandlesKeepTheInvariant == CarefulSpec => []IInv
BY InvariantAtFirst, InvariantStep, PTL DEF CarefulSpec

-----------------------------------------------------------------------------
(* What a careful client may rely on.                                      *)

\* The parts of the invariant, as the properties of the runs state them.
LEMMA InvariantMeans ==
  ASSUME IInv
  PROVE  TypeOK /\ UnattachedIsFree /\ OneOwner /\ HandleKnowsItsDocument
         /\ DrainedIsNotWrittenAgain
<1>1. PICK k, st, hs, dr : k = kids /\ st = status /\ hs = handle /\ dr = drained
  OBVIOUS
<1>2. HandlesInvariant(k, st, hs, dr) /\ OpenIn(hs) = Open
  BY <1>1, OpenMeans DEF IInv
<1>3. Trees(k) /\ hs \in HandleStates /\ Handled(k, hs)
  BY <1>2 DEF HandlesInvariant, Types
<1>4. TypeOK
  BY <1>1, <1>2, TreesMean
     DEF HandlesInvariant, Types, States, HandleStates, DocumentsExist, TypeOK, IsHierarchy
<1>5. UnattachedIsFree
  BY <1>1, <1>2, <1>3, NoPlace, TreesMean DEF Handled, FlagIsTrue, UnattachedIsFree
<1>6. OneOwner
  BY <1>1, <1>3 DEF Trees, OneOwner
<1>7. HandleKnowsItsDocument
  BY <1>1, <1>2, <1>3 DEF Handled, DocumentIsTrue, HandleKnowsItsDocument, Holds, InFile
<1>8. DrainedIsNotWrittenAgain
  BY <1>1, <1>2 DEF HandlesInvariant, Writable, DrainedIsNotWrittenAgain, Usable
<1> QED BY <1>4, <1>5, <1>6, <1>7, <1>8

\* Lists, statuses and handles have their types, and a handle remembers a
\* document that exists.
THEOREM HandleTypes == CarefulSpec => []TypeOK
BY HandlesKeepTheInvariant, InvariantMeans, PTL

\* A layer whose handle is not attached is in no list of any document or
\* group, whichever of its handles the calls were made with.
THEOREM UnattachedLayersAreFree == CarefulSpec => []UnattachedIsFree
BY HandlesKeepTheInvariant, InvariantMeans, PTL

\* Documents and groups, detached and written ones included, never share a
\* layer and never hold one twice.
THEOREM EveryLayerHasOneOwner == CarefulSpec => []OneOwner
BY HandlesKeepTheInvariant, InvariantMeans, PTL

\* The document a handle remembers is the one that holds its layer, if one
\* does.
THEOREM HandlesKnowTheirDocuments == CarefulSpec => []HandleKnowsItsDocument
BY HandlesKeepTheInvariant, InvariantMeans, PTL

\* A layer whose channels were moved out by a write is in no document that
\* can still be written.
THEOREM DrainedLayersStayOut == CarefulSpec => []DrainedIsNotWrittenAgain
BY HandlesKeepTheInvariant, InvariantMeans, PTL

=============================================================================
