----------------------- MODULE LayerContents_proofs ------------------------
(***************************************************************************)
(* What TLAPS proves of what layers contain.                               *)
(*                                                                         *)
(* Of smart objects, for any number of layers, images, paths and channels: *)
(* the types, that the cache never vouches for an outdated channel, that   *)
(* every layer finds its image, that a written file is self-contained,     *)
(* that paths are shared, and that a layer keeps its image.                *)
(*                                                                         *)
(* Of texts, for any texts, ranges, fonts and properties: that the two     *)
(* texts of a layer, its runs and the indexes of old files stay together   *)
(* through every edit of a careful client, and that the runs implement a   *)
(* text whose units carry their own styles.  A layer between two calls is  *)
(* that of the invariant: a literal without an escape, runs that cover the *)
(* text and its return, indexes that are boundaries of runs.  The lemmas   *)
(* say where the code moves a place of the text: places keep their order,  *)
(* and the ends of the text stay its ends.                                 *)
(*                                                                         *)
(* The refinement is about what a layer shows, the style at every unit.  A *)
(* run that is split or set is followed to the units it covers; an edit is *)
(* followed from every unit of the new text to the one whose styles it     *)
(* takes: kept units move with the gap between two replacements they are   *)
(* in, new ones come from the unit they replace.                           *)
(***************************************************************************)
EXTENDS SmartObjects, TextLayer, FiniteSetTheorems, WellFoundedInduction, TLAPS

-----------------------------------------------------------------------------
(* The operators on one layer.                                             *)

\* The cached channels of one layer are there and fresh.
Current(s) == \A c \in s.valid : c \in DOMAIN s.image /\ s.image[c].fresh

\* Forgetting the cached channels leaves a layer that caches nothing.
LEMMA EvaluateTransformsKeeps ==
  ASSUME NEW s, IsLayer(s)
  PROVE  /\ IsLayer(EvaluateTransforms(s))
         /\ EvaluateTransforms(s).hash = s.hash
         /\ EvaluateTransforms(s).image = s.image
         /\ EvaluateTransforms(s).valid = {}
BY DEF EvaluateTransforms, IsLayer

\* Making the channels old keeps the layer's image and the entries it has.
LEMMA OutdatedKeeps ==
  ASSUME NEW s, IsLayer(s)
  PROVE  IsLayer(Outdated(s)) /\ Outdated(s).hash = s.hash
<1> DEFINE old == [c \in DOMAIN s.image |-> [s.image[c] EXCEPT !.fresh = FALSE]]
<1>1. Outdated(s) = [hash |-> s.hash, image |-> old, valid |-> s.valid]
  <2>1. Outdated(s) = [s EXCEPT !.image = old]
    BY DEF Outdated
  <2> HIDE DEF old
  <2> QED BY <2>1 DEF IsLayer
<1>2. IsMap(old, Channels, Evaluated)
  BY DEF IsLayer, IsMap, Evaluated
<1> QED BY <1>1, <1>2 DEF IsLayer

\* Evaluating channels keeps the layer's image and leaves an honest cache.
LEMMA EvaluateKeeps ==
  ASSUME NEW s, IsLayer(s), NEW C \in SUBSET Channels
  PROVE  /\ IsLayer(Evaluate(s, C))
         /\ Evaluate(s, C).hash = s.hash
         /\ Current(s) => Current(Evaluate(s, C))
<1> DEFINE missing == C \ s.valid
           codec(c) == IF c \in DOMAIN s.image THEN s.image[c].codec ELSE DefaultCodec
           image == [c \in DOMAIN s.image \cup missing |->
                       IF c \in missing
                       THEN [fresh |-> TRUE, codec |-> codec(c)]
                       ELSE s.image[c]]
<1>1. Evaluate(s, C) = [hash |-> s.hash, image |-> image, valid |-> s.valid \cup C]
  <2>1. Evaluate(s, C) = [s EXCEPT !.valid = s.valid \cup C, !.image = image]
    BY DEF Evaluate
  <2> HIDE DEF image
  <2> QED BY <2>1 DEF IsLayer
<1>2. \A c \in Channels : codec(c) \in Codecs
  BY SmartObjectsAssumption DEF IsLayer, IsMap, Evaluated
<1>3. IsMap(image, Channels, Evaluated)
  <2>1. DOMAIN image \subseteq Channels
    BY DEF IsLayer, IsMap
  <2>2. ASSUME NEW c \in DOMAIN image
        PROVE  image[c] \in Evaluated
    BY <1>2, <2>1 DEF IsLayer, IsMap, Evaluated
  <2> QED BY <2>1, <2>2 DEF IsMap
<1>4. ASSUME Current(s), NEW c \in s.valid \cup C
      PROVE  c \in DOMAIN image /\ image[c].fresh
  BY <1>4 DEF Current
<1> HIDE DEF image
<1> QED BY <1>1, <1>3, <1>4 DEF IsLayer, Current

\* What can be evaluated is a channel of some file.
LEMMA AvailableAreChannels ==
  ASSUME SmartObjectsTypeOK, NEW s, s.hash \in DOMAIN store
  PROVE  AvailableChannels(s) \in SUBSET Channels
<1>1. store[s.hash].image \in DOMAIN ChannelsOf
  BY DEF SmartObjectsTypeOK, IsMap, LinkedLayerData, Files
<1> QED BY <1>1 DEF AvailableChannels, Channels, Range

-----------------------------------------------------------------------------
(* Layers find their images.                                               *)

\* An open document has all images its layers name, and no file; once it is
\* written, the file has the images of the store and the layers of the
\* document, each under its hash.
ImagesAreFound ==
  /\ Open => /\ file = NoFile
             /\ \A l \in DOMAIN layer : layer[l].hash \in DOMAIN store
  /\ ~Open => /\ file.links = store
              /\ DOMAIN file.layers = document
              /\ DOMAIN store = {layer[l].hash : l \in document}
              /\ \A l \in document :
                   /\ file.layers[l].hash = layer[l].hash
                   /\ IsMap(file.layers[l].image, Channels, Evaluated)

\* The inductive invariant of the smart objects.
SmartObjectsInv ==
  /\ SmartObjectsTypeOK
  /\ ImagesAreFound
  /\ CachedIsCurrent

\* insert returns a hash under which the path's image is in the store, and
\* disturbs no other image.
LEMMA InsertKeeps ==
  ASSUME SmartObjectsTypeOK, NEW path \in Paths, Absolute[path] \in Files,
         NEW type \in LinkedLayerType, NEW h \in Hashes, Insert(path, type, h)
  PROVE  /\ IsMap(store', Hashes, LinkedLayerData)
         /\ h \in DOMAIN store'
         /\ \A i \in DOMAIN store : i \in DOMAIN store' /\ store'[i] = store[i]
<1>1. CASE h \in HashesOf(path) /\ UNCHANGED store
  BY <1>1 DEF HashesOf, SmartObjectsTypeOK
<1>2. CASE /\ DOMAIN store # Hashes
           /\ h = CHOOSE new \in Hashes : new \notin DOMAIN store
           /\ store' = With(store, h, Loaded(path, type))
  <2>1. h \notin DOMAIN store
    BY <1>2 DEF SmartObjectsTypeOK, IsMap
  <2>2. Loaded(path, type) \in LinkedLayerData
    BY DEF Loaded, LinkedLayerData
  <2> QED BY <1>2, <2>1, <2>2 DEF With, SmartObjectsTypeOK, IsMap
<1> QED BY <1>1, <1>2 DEF Insert

\* Replacing one layer by a layer keeps the types of the layers.
LEMMA OneLayerChanges ==
  ASSUME SmartObjectsTypeOK, NEW l \in DOMAIN layer, NEW s, IsLayer(s),
         layer' = [layer EXCEPT ![l] = s]
  PROVE  /\ DOMAIN layer' = DOMAIN layer
         /\ layer' = [k \in DOMAIN layer' |-> layer'[k]]
         /\ layer'[l] = s
         /\ \A k \in DOMAIN layer \ {l} : layer'[k] = layer[k]
         /\ \A k \in DOMAIN layer' : IsLayer(layer'[k])
BY DEF SmartObjectsTypeOK

-----------------------------------------------------------------------------
(* The invariant is inductive.                                             *)

\* A path made absolute is a path, and names a file whether or not it is made
\* absolute again.
LEMMA AbsoluteIsFile ==
  ASSUME NEW path \in Paths
  PROVE  Absolute[path] \in Paths /\ Absolute[path] \in Files
         /\ Absolute[Absolute[path]] \in Files
BY SmartObjectsAssumption DEF Files

\* A new document has no layers, no images and no file.
LEMMA InvInitially == Init => SmartObjectsInv
BY DEF Init, SmartObjectsInv, SmartObjectsTypeOK, ImagesAreFound, CachedIsCurrent,
       IsMap, Open

\* A call that changes one layer of an open document, and at most adds images
\* to the store, keeps the invariant if it leaves that layer with an image of
\* the store and an honest cache.
LEMMA OneLayerKeepsInv ==
  ASSUME SmartObjectsInv, Open, NEW l \in DOMAIN layer,
         NEW s, IsLayer(s), Current(s), s.hash \in DOMAIN store',
         layer' = [layer EXCEPT ![l] = s],
         IsMap(store', Hashes, LinkedLayerData),
         DOMAIN store \subseteq DOMAIN store',
         asked' \in [DOMAIN layer -> Codecs],
         UNCHANGED <<document, file, session>>
  PROVE  SmartObjectsInv'
<1>1. /\ DOMAIN layer' = DOMAIN layer
      /\ layer' = [k \in DOMAIN layer' |-> layer'[k]]
      /\ layer'[l] = s
      /\ \A k \in DOMAIN layer \ {l} : layer'[k] = layer[k]
      /\ \A k \in DOMAIN layer' : IsLayer(layer'[k])
  BY OneLayerChanges DEF SmartObjectsInv
<1>2. file' = NoFile /\ Open'
  BY DEF SmartObjectsInv, ImagesAreFound, Open
<1>3. SmartObjectsTypeOK'
  BY <1>1, <1>2 DEF SmartObjectsInv, SmartObjectsTypeOK, IsLayer
<1>4. ImagesAreFound'
  BY <1>1, <1>2 DEF SmartObjectsInv, ImagesAreFound
<1>5. CachedIsCurrent'
  BY <1>1 DEF SmartObjectsInv, CachedIsCurrent, Current
<1> QED BY <1>3, <1>4, <1>5 DEF SmartObjectsInv

\* Each action, in the order of the specification.
LEMMA InvStep == SmartObjectsInv /\ [Next]_vars => SmartObjectsInv'
<1> SUFFICES ASSUME SmartObjectsInv, [Next]_vars
             PROVE  SmartObjectsInv'
  OBVIOUS
<1> USE DEF SmartObjectsInv
<1>1. ASSUME NEW l \in Layers, NEW p \in Paths, NEW t \in LinkedLayerType,
             Create(l, p, t)
      PROVE  SmartObjectsInv'
  <2>1. PICK h \in Hashes :
          /\ Insert(Absolute[p], t, h)
          /\ layer' = With(layer, l, [hash |-> h, image |-> <<>>, valid |-> {}])
    BY <1>1 DEF Create
  <2> DEFINE new == [hash |-> h, image |-> <<>>, valid |-> {}]
  <2>2. /\ IsMap(store', Hashes, LinkedLayerData)
        /\ h \in DOMAIN store'
        /\ \A i \in DOMAIN store : i \in DOMAIN store' /\ store'[i] = store[i]
    BY <2>1, AbsoluteIsFile, InsertKeeps
  <2>3. IsLayer(new) /\ Current(new)
    BY DEF IsLayer, Current, IsMap
  <2>4. l \notin DOMAIN layer /\ Open /\ UNCHANGED <<document, file, session>>
    BY <1>1 DEF Create
  <2> HIDE DEF new
  <2>5. /\ DOMAIN layer' = DOMAIN layer \cup {l}
        /\ layer' = [k \in DOMAIN layer' |-> layer'[k]]
        /\ layer'[l] = new
        /\ \A k \in DOMAIN layer : layer'[k] = layer[k]
    BY <2>1, <2>4 DEF With, new
  <2>6. asked' \in [DOMAIN layer' -> Codecs]
    BY <1>1, <2>5, SmartObjectsAssumption DEF Create, With, SmartObjectsTypeOK
  <2>7. Open' /\ file' = NoFile
    BY <2>4 DEF Open, ImagesAreFound
  <2>8. SmartObjectsTypeOK'
    BY <2>2, <2>3, <2>4, <2>5, <2>6, <2>7 DEF SmartObjectsTypeOK
  <2>9. new.hash = h
    BY DEF new
  <2>10. ImagesAreFound'
    BY <2>2, <2>4, <2>5, <2>7, <2>9 DEF ImagesAreFound
  <2>11. CachedIsCurrent'
    BY <2>3, <2>5 DEF CachedIsCurrent, Current
  <2> QED BY <2>8, <2>10, <2>11
<1>2. ASSUME NEW l \in Layers, NEW p \in Paths, NEW t \in LinkedLayerType,
             Replace(l, p, t)
      PROVE  SmartObjectsInv'
  <2>1. PICK h \in Hashes :
          /\ Insert(p, t, h)
          /\ layer' = [layer EXCEPT ![l] =
                         EvaluateTransforms(Outdated([layer[l] EXCEPT !.hash = h]))]
    BY <1>2 DEF Replace
  <2> DEFINE linked == [layer[l] EXCEPT !.hash = h]
             s      == EvaluateTransforms(Outdated(linked))
  <2>2. l \in DOMAIN layer /\ Open
    BY <1>2 DEF Replace
  <2>3. IsLayer(linked) /\ linked.hash = h
    BY <2>2 DEF SmartObjectsTypeOK, IsLayer
  <2> HIDE DEF linked
  <2>4. IsLayer(s) /\ s.hash = h /\ s.valid = {}
    BY <2>3, OutdatedKeeps, EvaluateTransformsKeeps
  <2>5. layer' = [layer EXCEPT ![l] = s]
    BY <2>1 DEF linked
  <2> HIDE DEF s
  <2>6. Current(s)
    BY <2>4 DEF Current
  <2>7. /\ IsMap(store', Hashes, LinkedLayerData)
        /\ h \in DOMAIN store'
        /\ DOMAIN store \subseteq DOMAIN store'
    BY <2>1, AbsoluteIsFile, InsertKeeps
  <2>8. asked' \in [DOMAIN layer -> Codecs] /\ UNCHANGED <<document, file, session>>
    BY <1>2 DEF Replace, SmartObjectsTypeOK
  <2> QED BY <2>2, <2>4, <2>5, <2>6, <2>7, <2>8, OneLayerKeepsInv
<1>3. ASSUME NEW l \in Layers, Transform(l)
      PROVE  SmartObjectsInv'
  <2> DEFINE s == EvaluateTransforms(Outdated(layer[l]))
  <2>1. l \in DOMAIN layer /\ Open /\ IsLayer(layer[l])
    BY <1>3 DEF Transform, SmartObjectsTypeOK
  <2>2. IsLayer(s) /\ s.hash = layer[l].hash /\ s.valid = {}
    BY <2>1, OutdatedKeeps, EvaluateTransformsKeeps
  <2>3. layer' = [layer EXCEPT ![l] = s]
    BY <1>3 DEF Transform
  <2> HIDE DEF s
  <2>4. Current(s)
    BY <2>2 DEF Current
  <2>5. /\ UNCHANGED <<store, document, file, session>>
        /\ asked' \in [DOMAIN layer -> Codecs]
        /\ IsMap(store', Hashes, LinkedLayerData)
        /\ s.hash \in DOMAIN store'
    BY <1>3, <2>1, <2>2 DEF Transform, SmartObjectsTypeOK, ImagesAreFound
  <2> QED BY <2>1, <2>2, <2>3, <2>4, <2>5, OneLayerKeepsInv
<1>4. ASSUME NEW l, NEW C \in SUBSET Channels, GetChannels(l, C)
      PROVE  SmartObjectsInv'
  <2> DEFINE s == Evaluate(layer[l], C)
  <2>1. l \in DOMAIN layer /\ Open /\ IsLayer(layer[l]) /\ Current(layer[l])
    BY <1>4 DEF GetChannels, SmartObjectsTypeOK, CachedIsCurrent, Current
  <2>2. IsLayer(s) /\ s.hash = layer[l].hash /\ Current(s)
    BY <2>1, EvaluateKeeps
  <2>3. layer' = [layer EXCEPT ![l] = s]
    BY <1>4 DEF GetChannels
  <2> HIDE DEF s
  <2>4. /\ UNCHANGED <<store, document, file, session>>
        /\ asked' \in [DOMAIN layer -> Codecs]
        /\ IsMap(store', Hashes, LinkedLayerData)
        /\ s.hash \in DOMAIN store'
    BY <1>4, <2>1, <2>2 DEF GetChannels, SmartObjectsTypeOK, ImagesAreFound
  <2> QED BY <2>1, <2>2, <2>3, <2>4, OneLayerKeepsInv
<1>5. ASSUME NEW l \in Layers, GetImageData(l)
      PROVE  SmartObjectsInv'
  <2>1. l \in DOMAIN layer /\ GetChannels(l, AvailableChannels(layer[l]))
    BY <1>5 DEF GetImageData
  <2>2. AvailableChannels(layer[l]) \in SUBSET Channels
    BY <2>1, AvailableAreChannels DEF GetChannels, ImagesAreFound
  <2> QED BY <2>1, <2>2, <1>4
<1>6. ASSUME NEW l \in Layers, NEW c \in Channels, GetChannel(l, c)
      PROVE  SmartObjectsInv'
  BY <1>6, <1>4 DEF GetChannel
<1>7. ASSUME NEW l \in Layers, NEW codec \in Codecs, SetWriteCompression(l, codec)
      PROVE  SmartObjectsInv'
  <2> DEFINE old   == layer[l]
             image == [c \in DOMAIN old.image |-> [old.image[c] EXCEPT !.codec = codec]]
             s     == [hash |-> old.hash, image |-> image, valid |-> old.valid]
  <2>1. l \in DOMAIN layer /\ Open /\ IsLayer(old) /\ Current(old)
    BY <1>7 DEF SetWriteCompression, SmartObjectsTypeOK, CachedIsCurrent, Current
  <2>2. IsMap(image, Channels, Evaluated)
    BY <2>1 DEF IsLayer, IsMap, Evaluated
  <2>3. \A c \in DOMAIN old.image : image[c].fresh = old.image[c].fresh
    BY <2>1 DEF IsLayer, IsMap, Evaluated
  <2>4. layer' = [layer EXCEPT ![l].image = image]
    BY <1>7 DEF SetWriteCompression
  <2>5. DOMAIN image = DOMAIN old.image
    OBVIOUS
  <2> HIDE DEF image
  <2>6. IsLayer(s) /\ Current(s)
    BY <2>1, <2>2, <2>3, <2>5 DEF IsLayer, Current
  <2>7. layer' = [layer EXCEPT ![l] = s]
    <3>1. [old EXCEPT !.image = image] = s
      BY <2>1 DEF IsLayer
    <3>2. layer' = [layer EXCEPT ![l] = [old EXCEPT !.image = image]]
      BY <2>4
    <3> HIDE DEF s, old
    <3> QED BY <3>1, <3>2
  <2>8. /\ UNCHANGED <<store, document, file, session>>
        /\ asked' \in [DOMAIN layer -> Codecs]
        /\ IsMap(store', Hashes, LinkedLayerData)
        /\ s.hash \in DOMAIN store'
    BY <1>7, <2>1 DEF SetWriteCompression, SmartObjectsTypeOK, ImagesAreFound
  <2> HIDE DEF s
  <2> QED BY <2>1, <2>6, <2>7, <2>8, OneLayerKeepsInv
<1>8. ASSUME NEW l \in Layers, NEW t \in LinkedLayerType, SetLinkage(l, t)
      PROVE  SmartObjectsInv'
  <2>1. /\ l \in DOMAIN layer /\ Open /\ Open' /\ file' = NoFile
        /\ UNCHANGED <<layer, document, asked, file, session>>
    BY <1>8 DEF SetLinkage, ImagesAreFound, Open
  <2>2. IsMap(store', Hashes, LinkedLayerData) /\ DOMAIN store' = DOMAIN store
    BY <1>8, <2>1 DEF SetLinkage, SmartObjectsTypeOK, IsMap, LinkedLayerData
  <2> QED BY <2>1, <2>2 DEF SmartObjectsTypeOK, ImagesAreFound, CachedIsCurrent
<1>9. ASSUME NEW l \in Layers, AddToDocument(l) \/ RemoveFromDocument(l)
      PROVE  SmartObjectsInv'
  BY <1>9 DEF AddToDocument, RemoveFromDocument, Open,
              SmartObjectsTypeOK, ImagesAreFound, CachedIsCurrent
<1>10. ASSUME Write
       PROVE  SmartObjectsInv'
  <2>1. /\ Open /\ ~Open' /\ session' = "written"
        /\ UNCHANGED <<layer, document, asked>>
    BY <1>10 DEF Write, Open
  <2>2. \A l \in document : l \in DOMAIN layer /\ layer[l].hash \in DOMAIN store
    BY <2>1 DEF SmartObjectsTypeOK, ImagesAreFound
  <2>3. UsedHashes \subseteq DOMAIN store
    BY <2>2 DEF UsedHashes
  <2>4. store' = [h \in UsedHashes |-> store[h]] /\ file'.links = store'
    BY <1>10, <2>3 DEF Write, Cleared, Restrict
  <2>5. IsMap(store', Hashes, LinkedLayerData)
    BY <2>3, <2>4 DEF SmartObjectsTypeOK, IsMap
  <2>6. file'.layers = [l \in document |-> ToPhotoshop(layer[l])]
    BY <1>10 DEF Write
  <2>7. ASSUME NEW l \in document
        PROVE  /\ ToPhotoshop(layer[l]).hash = layer[l].hash
               /\ IsMap(ToPhotoshop(layer[l]).image, Channels, Evaluated)
    <3> DEFINE s == EvaluateTransforms(layer[l])
               C == AvailableChannels(layer[l])
    <3>1. IsLayer(s) /\ s.hash = layer[l].hash
      BY <2>2, EvaluateTransformsKeeps DEF SmartObjectsTypeOK
    <3> HIDE DEF s
    <3>2. C \in SUBSET Channels
      BY <2>2, <3>1, AvailableAreChannels
    <3> HIDE DEF C
    <3>3. IsLayer(Evaluate(s, C)) /\ Evaluate(s, C).hash = s.hash
      BY <3>1, <3>2, EvaluateKeeps
    <3> QED BY <3>1, <3>3 DEF ToPhotoshop, IsLayer, s, C
  <2>8. /\ DOMAIN file'.layers = document
        /\ \A l \in document : /\ file'.layers[l].hash = layer[l].hash
                               /\ IsMap(file'.layers[l].image, Channels, Evaluated)
    BY <2>6, <2>7
  <2>9. SmartObjectsTypeOK'
    BY <2>1, <2>2, <2>4, <2>5, <2>8 DEF SmartObjectsTypeOK
  <2>10. ImagesAreFound'
    BY <2>1, <2>4, <2>8 DEF ImagesAreFound, UsedHashes
  <2>11. CachedIsCurrent'
    BY <2>1 DEF CachedIsCurrent
  <2> QED BY <2>9, <2>10, <2>11
<1>11. ASSUME Read
       PROVE  SmartObjectsInv'
  <2>1. ~Open /\ Open' /\ session' = "read" /\ file' = NoFile
    BY <1>11 DEF Read, Open
  <2>2. /\ file.links = store /\ DOMAIN file.layers = document
        /\ \A l \in document : /\ file.layers[l].hash = layer[l].hash
                               /\ l \in DOMAIN layer /\ layer[l].hash \in DOMAIN store
    BY <2>1 DEF ImagesAreFound, SmartObjectsTypeOK
  <2>3. IsMap(store', Hashes, LinkedLayerData) /\ DOMAIN store' = DOMAIN store
    <3>1. store' = [h \in DOMAIN store |-> IF store[h].type = "data"
                     THEN [store[h] EXCEPT !.path = ReadPath[store[h].path]]
                     ELSE store[h]]
      BY <1>11, <2>2 DEF Read
    <3>2. ASSUME NEW h \in DOMAIN store
          PROVE  [store[h] EXCEPT !.path = ReadPath[store[h].path]] \in LinkedLayerData
      BY SmartObjectsAssumption DEF SmartObjectsTypeOK, IsMap, LinkedLayerData
    <3> QED BY <3>1, <3>2 DEF SmartObjectsTypeOK, IsMap
  <2>4. layer' = [l \in document |->
                    [hash |-> layer[l].hash, image |-> <<>>, valid |-> {}]]
    BY <1>11, <2>2 DEF Read
  <2>5. document' = document /\ asked' = [l \in document |-> DefaultCodec]
    BY <1>11, <2>2 DEF Read
  <2>6. ASSUME NEW l \in document
        PROVE  IsLayer([hash |-> layer[l].hash, image |-> <<>>, valid |-> {}])
    BY <2>2 DEF IsLayer, IsMap, SmartObjectsTypeOK
  <2>7. SmartObjectsTypeOK'
    <3>1. \A l \in DOMAIN layer' : IsLayer(layer'[l])
      BY <2>4, <2>6
    <3>2. asked' \in [DOMAIN layer' -> Codecs]
      BY <2>4, <2>5, SmartObjectsAssumption
    <3>3. /\ layer' = [l \in DOMAIN layer' |-> layer'[l]]
          /\ DOMAIN layer' \subseteq Layers /\ document' \subseteq DOMAIN layer'
      BY <2>4, <2>5 DEF SmartObjectsTypeOK
    <3> QED BY <2>1, <2>3, <3>1, <3>2, <3>3 DEF SmartObjectsTypeOK
  <2>8. ImagesAreFound'
    BY <2>1, <2>2, <2>3, <2>4 DEF ImagesAreFound
  <2>9. CachedIsCurrent'
    BY <2>4 DEF CachedIsCurrent
  <2> QED BY <2>7, <2>8, <2>9
<1>12. CASE UNCHANGED vars
  BY <1>12 DEF vars, Open, SmartObjectsTypeOK, ImagesAreFound, CachedIsCurrent
<1> QED
  BY <1>1, <1>2, <1>3, <1>5, <1>6, <1>7, <1>8, <1>9, <1>10, <1>11, <1>12 DEF Next

-----------------------------------------------------------------------------
(* The theorems.                                                           *)

\* The invariant holds throughout.
LEMMA SmartObjectsInvariant == Spec => []SmartObjectsInv
BY InvInitially, InvStep, PTL DEF Spec

\* Every layer, image and evaluated channel keeps its type.
THEOREM SmartObjectsTypes == Spec => []SmartObjectsTypeOK
<1>1. SmartObjectsInv => SmartObjectsTypeOK
  BY DEF SmartObjectsInv
<1> QED BY <1>1, SmartObjectsInvariant, PTL

\* The cache of a layer never vouches for an outdated channel.
THEOREM CacheIsCurrent == Spec => []CachedIsCurrent
<1>1. SmartObjectsInv => CachedIsCurrent
  BY DEF SmartObjectsInv
<1> QED BY <1>1, SmartObjectsInvariant, PTL

\* A written file has exactly the images its layers use.
THEOREM FileIsSelfContained == Spec => []WrittenIsSelfContained
<1>1. SmartObjectsInv => WrittenIsSelfContained
  BY DEF SmartObjectsInv, ImagesAreFound, WrittenIsSelfContained
<1> QED BY <1>1, SmartObjectsInvariant, PTL

\* Before the document is written no path is in the store twice.
THEOREM PathsShared == Spec => []PathsAreShared
<1>1. Init => PathsAreShared
  BY DEF Init, PathsAreShared
<1>2. ASSUME NEW path, NEW type, NEW h \in Hashes, Insert(path, type, h),
             session = "new", PathsAreShared
      PROVE  \A i, j \in DOMAIN store' : store'[i].path = store'[j].path => i = j
  BY <1>2 DEF Insert, HashesOf, With, Loaded, PathsAreShared
<1>3. SmartObjectsInv /\ PathsAreShared /\ [Next]_vars => PathsAreShared'
  <2> SUFFICES ASSUME SmartObjectsInv, PathsAreShared, [Next]_vars, session' = "new"
               PROVE  \A i, j \in DOMAIN store' : store'[i].path = store'[j].path => i = j
    BY DEF PathsAreShared
  <2>1. ASSUME NEW l \in Layers, NEW p \in Paths, NEW t \in LinkedLayerType,
               Create(l, p, t) \/ Replace(l, p, t)
        PROVE  \A i, j \in DOMAIN store' : store'[i].path = store'[j].path => i = j
    BY <2>1, <1>2 DEF Create, Replace
  <2>2. ASSUME NEW l \in Layers, NEW t \in LinkedLayerType, SetLinkage(l, t)
        PROVE  \A i, j \in DOMAIN store' : store'[i].path = store'[j].path => i = j
    <3>1. session = "new" /\ layer[l].hash \in DOMAIN store
      BY <2>2 DEF SetLinkage, SmartObjectsInv, ImagesAreFound
    <3>2. DOMAIN store' = DOMAIN store
      BY <2>2 DEF SetLinkage
    <3>3. \A i \in DOMAIN store : store'[i].path = store[i].path
      BY <2>2, <3>1 DEF SetLinkage, SmartObjectsInv, SmartObjectsTypeOK, IsMap,
                        LinkedLayerData
    <3> QED BY <3>1, <3>2, <3>3 DEF PathsAreShared
  <2>3. ASSUME NEW l \in Layers,
               Transform(l) \/ GetImageData(l) \/ AddToDocument(l) \/ RemoveFromDocument(l)
        PROVE  UNCHANGED <<store, session>>
    BY <2>3 DEF Transform, GetImageData, GetChannels, AddToDocument, RemoveFromDocument
  <2>4. ASSUME NEW l \in Layers, NEW c \in Channels, GetChannel(l, c)
        PROVE  UNCHANGED <<store, session>>
    BY <2>4 DEF GetChannel, GetChannels
  <2>5. ASSUME NEW l \in Layers, NEW codec \in Codecs, SetWriteCompression(l, codec)
        PROVE  UNCHANGED <<store, session>>
    BY <2>5 DEF SetWriteCompression
  <2>6. ~Write /\ ~Read
    BY DEF Write, Read
  <2>7. UNCHANGED <<store, session>>
          => \A i, j \in DOMAIN store' : store'[i].path = store'[j].path => i = j
    BY DEF PathsAreShared
  <2> QED BY <2>1, <2>2, <2>3, <2>4, <2>5, <2>6, <2>7 DEF Next, vars
<1> QED BY <1>1, <1>3, SmartObjectsInvariant, PTL DEF Spec

\* Only replacing a layer changes the image it shows.
THEOREM ImagesKept == Spec => LayerKeepsItsImage
<1> DEFINE Kept(l) == \/ \E p \in Paths, t \in LinkedLayerType : Replace(l, p, t)
                      \/ ImageOf(l)' = ImageOf(l)
<1>1. ASSUME SmartObjectsInv, [Next]_vars, NEW l \in document \cap document'
      PROVE  Kept(l)
  <2> USE <1>1 DEF SmartObjectsInv
  <2> DEFINE hash == layer[l].hash
             Same == layer'[l].hash = hash /\ store'[hash].image = store[hash].image
  <2>1. l \in DOMAIN layer /\ IsLayer(layer[l])
    BY DEF SmartObjectsTypeOK
  <2>2. Same => Kept(l)
    BY DEF ImageOf
  <2>3. hash \in DOMAIN store
    BY <2>1 DEF ImagesAreFound
  <2> HIDE DEF Kept
  <2>4. ASSUME NEW m \in Layers, NEW p \in Paths, NEW t \in LinkedLayerType,
               Create(m, p, t)
        PROVE  Same
    <3>1. \E h \in Hashes : Insert(Absolute[p], t, h)
      BY <2>4 DEF Create
    <3>2. store'[hash] = store[hash]
      BY <2>3, <3>1, AbsoluteIsFile, InsertKeeps
    <3>3. layer'[l] = layer[l]
      BY <2>1, <2>4 DEF Create, With
    <3> QED BY <3>2, <3>3
  <2>5. ASSUME NEW m \in Layers, NEW p \in Paths, NEW t \in LinkedLayerType,
               Replace(m, p, t)
        PROVE  Same \/ Kept(l)
    <3>1. CASE m = l
      BY <2>5, <3>1 DEF Kept
    <3>2. CASE m # l
      <4>1. \E h \in Hashes : Insert(p, t, h)
        BY <2>5 DEF Replace
      <4>2. store'[hash] = store[hash]
        BY <2>3, <4>1, AbsoluteIsFile, InsertKeeps
      <4>3. layer'[l] = layer[l]
        BY <2>1, <2>5, <3>2 DEF Replace
      <4> QED BY <4>2, <4>3
    <3> QED BY <3>1, <3>2
  <2>6. ASSUME NEW m \in Layers, Transform(m)
        PROVE  Same
    <3>1. store' = store
      BY <2>6 DEF Transform
    <3>2. CASE m = l
      <4>1. layer'[l] = EvaluateTransforms(Outdated(layer[l]))
        BY <2>1, <2>6, <3>2 DEF Transform
      <4>2. EvaluateTransforms(Outdated(layer[l])).hash = hash
        BY <2>1, OutdatedKeeps, EvaluateTransformsKeeps
      <4> QED BY <3>1, <4>1, <4>2
    <3>3. CASE m # l
      BY <2>1, <2>6, <3>1, <3>3 DEF Transform
    <3> QED BY <3>2, <3>3
  <2>7. ASSUME NEW m, NEW C \in SUBSET Channels, GetChannels(m, C)
        PROVE  Same
    <3>1. store' = store
      BY <2>7 DEF GetChannels
    <3>2. CASE m = l
      <4>1. layer'[l] = Evaluate(layer[l], C)
        BY <2>1, <2>7, <3>2 DEF GetChannels
      <4>2. Evaluate(layer[l], C).hash = hash
        BY <2>1, EvaluateKeeps
      <4> QED BY <3>1, <4>1, <4>2
    <3>3. CASE m # l
      BY <2>1, <2>7, <3>1, <3>3 DEF GetChannels
    <3> QED BY <3>2, <3>3
  <2>8. ASSUME NEW m \in Layers, GetImageData(m)
        PROVE  Same
    <3>1. m \in DOMAIN layer /\ GetChannels(m, AvailableChannels(layer[m]))
      BY <2>8 DEF GetImageData
    <3>2. AvailableChannels(layer[m]) \in SUBSET Channels
      BY <3>1, AvailableAreChannels DEF GetChannels, ImagesAreFound
    <3> QED BY <3>1, <3>2, <2>7
  <2>9. ASSUME NEW m \in Layers, NEW c \in Channels, GetChannel(m, c)
        PROVE  Same
    BY <2>9, <2>7 DEF GetChannel
  <2>10. ASSUME NEW m \in Layers, NEW codec \in Codecs, SetWriteCompression(m, codec)
         PROVE  Same
    BY <2>1, <2>10 DEF SetWriteCompression, IsLayer
  <2>11. ASSUME NEW m \in Layers, NEW t \in LinkedLayerType, SetLinkage(m, t)
         PROVE  Same
    BY <2>1, <2>3, <2>11 DEF SetLinkage, SmartObjectsTypeOK, IsMap, LinkedLayerData
  <2>12. ASSUME NEW m \in Layers, AddToDocument(m) \/ RemoveFromDocument(m)
         PROVE  Same
    BY <2>12 DEF AddToDocument, RemoveFromDocument
  <2>13. ASSUME Write PROVE Same
    BY <2>3, <2>13 DEF Write, Cleared, Restrict, UsedHashes
  <2>14. ASSUME Read PROVE Same
    <3>1. /\ file.links = store /\ DOMAIN file.layers = document
          /\ file.layers[l].hash = hash
      BY <2>14 DEF Read, Open, ImagesAreFound
    <3>2. layer'[l].hash = hash
      BY <2>14, <3>1 DEF Read
    <3>3. store'[hash] = IF store[hash].type = "data"
                         THEN [store[hash] EXCEPT !.path = ReadPath[store[hash].path]]
                         ELSE store[hash]
      BY <2>3, <2>14, <3>1 DEF Read
    <3>4. store[hash] \in LinkedLayerData
      BY <2>3 DEF SmartObjectsTypeOK, IsMap
    <3> QED BY <3>2, <3>3, <3>4 DEF LinkedLayerData
  <2>15. ASSUME UNCHANGED vars PROVE Same
    BY <2>15 DEF vars
  <2> HIDE DEF Same
  <2> QED BY <2>2, <2>4, <2>5, <2>6, <2>8, <2>9, <2>10, <2>11, <2>12, <2>13, <2>14, <2>15
          DEF Next
<1>2. SmartObjectsInv /\ [Next]_vars
        => [\A l \in document \cap document' : Kept(l)]_vars
  BY <1>1
<1> QED BY <1>2, SmartObjectsInvariant, PTL DEF Spec, LayerKeepsItsImage

-----------------------------------------------------------------------------
(* Induction and recursion over the natural numbers, for sets and          *)
(* functions.                                                              *)

\* A set of naturals that is not empty has a least member.
LEMMA LeastMember ==
  ASSUME NEW T \in SUBSET Nat, T # {}
  PROVE  \E x \in T : \A y \in T : x <= y
<1>1. PICK x \in T : \A y \in T : ~ (<<y, x>> \in OpToRel(<, Nat))
  BY NatLessThanWellFounded, WFMin
<1>2. \A y \in T : ~ (y < x)
  BY <1>1 DEF OpToRel
<1> QED BY <1>2

\* A set that has 0 and the successor of every member has every natural.
LEMMA SetInduction ==
  ASSUME NEW S, 0 \in S, \A n \in Nat : n \in S => n + 1 \in S
  PROVE  Nat \subseteq S
<1> DEFINE T == {n \in Nat : n \notin S}
<1>1. SUFFICES ASSUME T # {} PROVE FALSE
  OBVIOUS
<1>2. PICK x \in T : \A y \in T : x <= y
  BY <1>1, LeastMember
<1>3. x # 0 /\ x - 1 \in Nat /\ x - 1 \notin T
  BY <1>2
<1>4. x \in S
  BY <1>3, x = (x - 1) + 1
<1> QED BY <1>4

\* The function f on 0..N starts with a, and the n-th of the steps F makes
\* every other value of the one before it.
Solves(f, V, a, F, N) ==
  /\ f \in [0..N -> V]
  /\ f[0] = a
  /\ \A n \in 1..N : f[n] = F[n][f[n - 1]]

\* A recursion over 0..N has a solution.
LEMMA Recursion ==
  ASSUME NEW V, NEW a \in V, NEW F \in [Nat -> [V -> V]], NEW N \in Nat
  PROVE  \E f : Solves(f, V, a, F, N)
<1> DEFINE S == {m \in Nat : \E f : Solves(f, V, a, F, m)}
<1>1. 0 \in S
  <2>1. Solves([i \in 0..0 |-> a], V, a, F, 0)
    BY DEF Solves
  <2> QED BY <2>1
<1>2. ASSUME NEW m \in Nat, m \in S PROVE m + 1 \in S
  <2>0. PICK f : Solves(f, V, a, F, m)
    BY <1>2
  <2>1. f \in [0..m -> V] /\ f[0] = a /\ \A n \in 1..m : f[n] = F[n][f[n - 1]]
    BY <2>0 DEF Solves
  <2> DEFINE g == [i \in 0..(m + 1) |-> IF i = m + 1 THEN F[m + 1][f[m]] ELSE f[i]]
  <2>2. g \in [0..(m + 1) -> V]
    BY <2>1
  <2>3. g[0] = a
    BY <2>1
  <2>4. ASSUME NEW n \in 1..(m + 1) PROVE g[n] = F[n][g[n - 1]]
    <3>1. CASE n = m + 1
      <4>1. g[n] = F[m + 1][f[m]] /\ g[n - 1] = f[m] /\ n - 1 = m
        BY <3>1
      <4> QED BY <4>1, <3>1
    <3>2. CASE n # m + 1
      <4>1. n \in 1..m /\ n - 1 \in 0..m
        BY <3>2
      <4>2. g[n] = f[n] /\ g[n - 1] = f[n - 1]
        BY <4>1, <3>2
      <4> QED BY <4>1, <4>2, <2>1
    <3> QED BY <3>1, <3>2
  <2> HIDE DEF g
  <2>5. Solves(g, V, a, F, m + 1)
    BY <2>2, <2>3, <2>4 DEF Solves
  <2> QED BY <2>5
<1> HIDE DEF S
<1>3. N \in S
  BY <1>1, <1>2, SetInduction
<1> QED BY <1>3 DEF S

\* What FlattenSeq computes on the way: the flattened first i sequences.
LEMMA PrefixesOfFlattened ==
  ASSUME NEW T, NEW ss \in Seq(Seq(T)), Len(ss) # 0
  PROVE  \E w \in [1..Len(ss) -> Seq(T)] :
           /\ w[1] = ss[1]
           /\ \A i \in 2..Len(ss) : w[i] = w[i - 1] \o ss[i]
           /\ FlattenSeq(ss) = w[Len(ss)]
<1> DEFINE Body(w) ==
      [i \in 1..Len(ss) |-> IF i = 1 THEN ss[i] ELSE w[i - 1] \o ss[i]]
    w == CHOOSE u : u = Body(u)
<1>1. FlattenSeq(ss) = w[Len(ss)]
  BY DEF FlattenSeq
<1>2. w = Body(w)
  <2> DEFINE V == Seq(T)
             N == Len(ss) - 1
             a == ss[1]
             F == [n \in Nat |->
                     [s \in V |-> IF n + 1 \in 1..Len(ss) THEN s \o ss[n + 1] ELSE s]]
  <2>0. ASSUME NEW n \in Nat, NEW s \in V, n + 1 \in 1..Len(ss)
        PROVE  F[n][s] = s \o ss[n + 1]
    BY <2>0
  <2>1. F \in [Nat -> [V -> V]] /\ a \in V /\ N \in Nat
    OBVIOUS
  <2> HIDE DEF F, V, N, a
  <2>2. PICK f : /\ f \in [0..N -> V]
                 /\ f[0] = a
                 /\ \A n \in 1..N : f[n] = F[n][f[n - 1]]
    <3>1. PICK g : Solves(g, V, a, F, N)
      BY <2>1, Recursion
    <3> QED BY <3>1 DEF Solves
  <2> DEFINE u == [i \in 1..Len(ss) |-> f[i - 1]]
  <2> USE DEF N, a
  <2>3. ASSUME NEW i \in 1..Len(ss) PROVE u[i] = Body(u)[i]
    <3>1. CASE i = 1
      BY <3>1, <2>2
    <3>2. CASE i # 1
      <4>1. i - 1 \in 1..(Len(ss) - 1) /\ i - 1 - 1 \in 0..(Len(ss) - 1)
        BY <3>2
      <4>2. f[i - 1 - 1] \in V /\ f[i - 1] = F[i - 1][f[i - 1 - 1]]
        BY <4>1, <2>2
      <4>3. f[i - 1] = f[i - 1 - 1] \o ss[i]
        <5>1. i - 1 \in Nat /\ (i - 1) + 1 = i
          BY <4>1
        <5>2. F[i - 1][f[i - 1 - 1]] = f[i - 1 - 1] \o ss[(i - 1) + 1]
          BY <2>0, <4>2, <5>1
        <5> QED BY <4>2, <5>1, <5>2
      <4>4. u[i - 1] = f[i - 1 - 1]
        BY <4>1
      <4> QED BY <4>3, <4>4, <3>2
    <3> QED BY <3>1, <3>2
  <2> HIDE DEF u
  <2>4. u = Body(u)
    BY <2>3 DEF u
  <2>5. \E x : x = Body(x)
    BY <2>4
  <2> HIDE DEF Body
  <2> QED BY <2>5
<1> HIDE DEF w
<1>3. /\ w[1] = ss[1]
      /\ \A i \in 2..Len(ss) : w[i] = w[i - 1] \o ss[i]
  <2>1. w[1] = ss[1]
    BY <1>2
  <2>2. ASSUME NEW i \in 2..Len(ss) PROVE w[i] = w[i - 1] \o ss[i]
    <3>1. i \in 1..Len(ss) /\ i # 1
      OBVIOUS
    <3> QED BY <1>2, <3>1
  <2> QED BY <2>1, <2>2
<1>4. ASSUME NEW i \in 1..Len(ss) PROVE w[i] \in Seq(T)
  <2> DEFINE S == {m \in Nat : m + 1 <= Len(ss) => w[m + 1] \in Seq(T)}
  <2>1. 0 \in S
    BY <1>3
  <2>2. ASSUME NEW m \in Nat, m \in S PROVE m + 1 \in S
    <3> SUFFICES ASSUME (m + 1) + 1 <= Len(ss) PROVE w[(m + 1) + 1] \in Seq(T)
      OBVIOUS
    <3>1. w[m + 1] \in Seq(T) /\ ss[m + 2] \in Seq(T)
      BY <2>2
    <3>2. w[m + 2] = w[m + 1] \o ss[m + 2]
      BY <1>3, m + 2 \in 2..Len(ss), (m + 2) - 1 = m + 1
    <3>3. w[m + 2] \in Seq(T)
      BY <3>1, <3>2
    <3>4. (m + 1) + 1 = m + 2
      OBVIOUS
    <3> QED BY <3>3, <3>4
  <2> HIDE DEF S
  <2>3. Nat \subseteq S
    BY <2>1, <2>2, SetInduction
  <2>4. i - 1 \in S
    BY <2>3
  <2> QED BY <2>4, (i - 1) + 1 = i DEF S
<1>5. w \in [1..Len(ss) -> Seq(T)]
  <2>1. w = [i \in 1..Len(ss) |-> w[i]]
    BY <1>2
  <2> HIDE DEF Body
  <2> QED BY <1>4, <2>1
<1> QED BY <1>1, <1>3, <1>5

-----------------------------------------------------------------------------
(* Least and greatest members.                                             *)

\* What Min says of a set of naturals.
LEMMA MinIs ==
  ASSUME NEW S, S \subseteq Nat, S # {}
  PROVE  Min(S) \in S /\ \A y \in S : Min(S) <= y
<1>1. \E x \in S : \A y \in S : x <= y
  BY LeastMember
<1> QED BY <1>1 DEF Min

\* What Max says of a set of naturals with a bound.
LEMMA MaxIs ==
  ASSUME NEW S, S \subseteq Nat, S # {}, NEW b \in Nat, \A x \in S : x <= b
  PROVE  Max(S) \in S /\ \A y \in S : y <= Max(S)
<1> DEFINE T == {b - x : x \in S}
<1>1. T \subseteq Nat /\ T # {}
  <2>1. \A x \in S : b - x \in Nat
    <3> TAKE x \in S
    <3>1. x \in Nat /\ x <= b
      OBVIOUS
    <3> QED BY <3>1
  <2> QED BY <2>1
<1>2. PICK t \in T : \A y \in T : t <= y
  BY <1>1, LeastMember
<1>3. PICK x \in S : t = b - x
  BY <1>2
<1>4. \A y \in S : x >= y
  <2>1. ASSUME NEW y \in S PROVE x >= y
    <3>1. b - y \in T
      OBVIOUS
    <3>2. b - x <= b - y
      BY <1>2, <1>3, <3>1
    <3>3. x \in Nat /\ y \in Nat
      OBVIOUS
    <3> QED BY <3>2, <3>3
  <2> QED BY <2>1
<1>5. \E m \in S : \A y \in S : m >= y
  BY <1>4
<1>6. Max(S) \in S /\ \A y \in S : Max(S) >= y
  BY <1>5 DEF Max
<1>7. \A y \in S : y \in Nat
  OBVIOUS
<1> QED BY <1>6, <1>7

-----------------------------------------------------------------------------
(* Where runs start.                                                       *)

\* The sums that Total computes.
LEMMA TotalSums ==
  ASSUME NEW s \in Seq(Nat)
  PROVE  \E f \in [0..Len(s) -> Nat] :
           /\ f[0] = 0 /\ Total(s) = f[Len(s)]
           /\ \A n \in 1..Len(s) : f[n] = f[n - 1] + s[n]
<1> DEFINE N == Len(s)
           Body(w) == [r \in 0..N |-> IF r = 0 THEN 0 ELSE w[r - 1] + s[r]]
           f == CHOOSE w : w = Body(w)
           F == [n \in Nat |-> [x \in Nat |-> IF n \in 1..N THEN x + s[n] ELSE x]]
<1>1. Total(s) = f[N]
  BY DEF Total
<1>2. N \in Nat /\ DOMAIN s = 1..N /\ \A n \in 1..N : s[n] \in Nat
  OBVIOUS
<1>3. PICK w : Solves(w, Nat, 0, F, N)
  <2>1. F \in [Nat -> [Nat -> Nat]] /\ 0 \in Nat
    BY <1>2
  <2> HIDE DEF F, N
  <2> QED BY <1>2, <2>1, Recursion
<1>4. w \in [0..N -> Nat] /\ w[0] = 0 /\ \A n \in 1..N : w[n] = w[n - 1] + s[n]
  <2>1. w \in [0..N -> Nat] /\ w[0] = 0 /\ \A n \in 1..N : w[n] = F[n][w[n - 1]]
    BY <1>3 DEF Solves
  <2>2. ASSUME NEW n \in 1..N PROVE w[n] = w[n - 1] + s[n]
    <3>1. n \in Nat /\ n - 1 \in 0..N
      BY <1>2
    <3>2. w[n - 1] \in Nat
      BY <2>1, <3>1
    <3> QED BY <2>1, <3>1, <3>2
  <2> QED BY <2>1, <2>2
<1> HIDE DEF F
<1>5. w = Body(w)
  <2>1. \A n \in 0..N : w[n] = IF n = 0 THEN 0 ELSE w[n - 1] + s[n]
    BY <1>2, <1>4
  <2>2. w = [n \in 0..N |-> w[n]]
    BY <1>4
  <2> QED BY <2>1, <2>2
<1>6. f = Body(f)
  <2> HIDE DEF Body
  <2> QED BY <1>5
<1> HIDE DEF f
<1>7. f[0] = 0 /\ \A n \in 1..N : f[n] = f[n - 1] + s[n]
  <2>1. 0 \in 0..N /\ \A n \in 1..N : n \in 0..N /\ n # 0
    BY <1>2
  <2> QED BY <1>6, <2>1
<1> DEFINE T == {n \in Nat : n <= N => f[n] \in Nat}
<1>8. 0 \in T
  BY <1>7
<1>9. ASSUME NEW n \in Nat, n \in T PROVE n + 1 \in T
  <2> SUFFICES ASSUME n + 1 <= N PROVE f[n + 1] \in Nat
    OBVIOUS
  <2>1. n <= N /\ n + 1 \in 1..N /\ (n + 1) - 1 = n
    BY <1>2
  <2>2. f[n] \in Nat /\ s[n + 1] \in Nat /\ f[n + 1] = f[n] + s[n + 1]
    BY <1>2, <1>7, <1>9, <2>1
  <2> QED BY <2>2
<1> HIDE DEF T
<1>10. Nat \subseteq T
  BY <1>8, <1>9, SetInduction
<1>11. \A n \in 0..N : f[n] \in Nat
  BY <1>2, <1>10 DEF T
<1>12. f \in [0..N -> Nat]
  BY <1>6, <1>11
<1> QED BY <1>1, <1>7, <1>12

\* A sum of sums is their total.
LEMMA TotalIs ==
  ASSUME NEW s \in Seq(Nat), NEW g, g[0] = 0, \A n \in 1..Len(s) : g[n] = g[n - 1] + s[n]
  PROVE  Total(s) = g[Len(s)]
<1>1. PICK f \in [0..Len(s) -> Nat] :
           /\ f[0] = 0 /\ Total(s) = f[Len(s)]
           /\ \A n \in 1..Len(s) : f[n] = f[n - 1] + s[n]
  BY TotalSums
<1> DEFINE T == {n \in Nat : n <= Len(s) => g[n] = f[n]}
<1>2. 0 \in T
  BY <1>1
<1>3. ASSUME NEW n \in Nat, n \in T PROVE n + 1 \in T
  <2> SUFFICES ASSUME n + 1 <= Len(s) PROVE g[n + 1] = f[n + 1]
    OBVIOUS
  <2>1. Len(s) \in Nat /\ n <= Len(s) /\ n + 1 \in 1..Len(s) /\ (n + 1) - 1 = n
    OBVIOUS
  <2> QED BY <1>1, <1>3, <2>1
<1> HIDE DEF T
<1>4. Nat \subseteq T
  BY <1>2, <1>3, SetInduction
<1> QED BY <1>1, <1>4 DEF T

\* Every run starts where the one before it ends.
LEMMA Starts ==
  ASSUME NEW s \in Seq(Nat)
  PROVE  /\ Start(s, 1) = 0 /\ Total(s) = Start(s, Len(s) + 1)
         /\ \A r \in 1..(Len(s) + 1) : Start(s, r) \in Nat
         /\ \A r \in 1..Len(s) : Start(s, r + 1) = Start(s, r) + s[r]
<1>1. PICK f \in [0..Len(s) -> Nat] :
           /\ f[0] = 0 /\ Total(s) = f[Len(s)]
           /\ \A n \in 1..Len(s) : f[n] = f[n - 1] + s[n]
  BY TotalSums
<1>2. ASSUME NEW r \in 1..(Len(s) + 1) PROVE Start(s, r) = f[r - 1]
  <2> DEFINE t == SubSeq(s, 1, r - 1)
  <2>1. t \in Seq(Nat) /\ Len(t) = r - 1 /\ Len(s) \in Nat
        /\ \A n \in 1..Len(t) : t[n] = s[n] /\ n \in 1..Len(s)
    OBVIOUS
  <2> HIDE DEF t
  <2>2. \A n \in 1..Len(t) : f[n] = f[n - 1] + t[n]
    BY <1>1, <2>1
  <2>3. Total(t) = f[Len(t)]
    BY <1>1, <2>1, <2>2, TotalIs
  <2> QED BY <2>1, <2>3 DEF Start, t
<1>3. Len(s) \in Nat
  OBVIOUS
<1>4. Start(s, 1) = 0 /\ Total(s) = Start(s, Len(s) + 1)
  <2>1. Start(s, 1) = f[1 - 1] /\ Start(s, Len(s) + 1) = f[(Len(s) + 1) - 1]
    BY <1>2, <1>3
  <2> QED BY <1>1, <1>3, <2>1
<1>5. ASSUME NEW r \in 1..(Len(s) + 1) PROVE Start(s, r) \in Nat
  <2>1. r - 1 \in 0..Len(s)
    BY <1>3
  <2>2. f[r - 1] \in Nat
    BY <1>1, <2>1
  <2> QED BY <1>2, <2>2
<1>6. ASSUME NEW r \in 1..Len(s) PROVE Start(s, r + 1) = Start(s, r) + s[r]
  <2>1. Start(s, r) = f[r - 1] /\ Start(s, r + 1) = f[(r + 1) - 1] /\ (r + 1) - 1 = r
    BY <1>2, <1>3
  <2> QED BY <1>1, <2>1
<1> QED BY <1>4, <1>5, <1>6

\* Where runs start if the lengths are the distances of g.
LEMMA StartsAre ==
  ASSUME NEW s \in Seq(Nat), NEW g, g[1] = 0, \A r \in 1..Len(s) : g[r + 1] = g[r] + s[r]
  PROVE  /\ \A r \in 1..(Len(s) + 1) : Start(s, r) = g[r]
         /\ Total(s) = g[Len(s) + 1]
<1>1. /\ Start(s, 1) = 0 /\ Total(s) = Start(s, Len(s) + 1) /\ Len(s) \in Nat
      /\ \A r \in 1..Len(s) : Start(s, r + 1) = Start(s, r) + s[r]
  BY Starts
<1> DEFINE T == {n \in Nat : n <= Len(s) => Start(s, n + 1) = g[n + 1]}
<1>2. 0 \in T
  BY <1>1
<1>3. ASSUME NEW n \in Nat, n \in T PROVE n + 1 \in T
  <2> SUFFICES ASSUME n + 1 <= Len(s) PROVE Start(s, (n + 1) + 1) = g[(n + 1) + 1]
    OBVIOUS
  <2>1. n <= Len(s) /\ n + 1 \in 1..Len(s)
    BY <1>1
  <2>2. Start(s, n + 1) = g[n + 1]
    BY <1>3, <2>1
  <2> QED BY <1>1, <2>1, <2>2
<1> HIDE DEF T
<1>4. Nat \subseteq T
  BY <1>2, <1>3, SetInduction
<1>5. ASSUME NEW r \in 1..(Len(s) + 1) PROVE Start(s, r) = g[r]
  <2>1. r - 1 \in Nat /\ r - 1 <= Len(s) /\ (r - 1) + 1 = r
    BY <1>1
  <2>2. r - 1 \in T
    BY <1>4, <2>1
  <2>3. Start(s, (r - 1) + 1) = g[(r - 1) + 1]
    BY <2>1, <2>2 DEF T
  <2> QED BY <2>1, <2>3
<1> QED BY <1>1, <1>5

\* No run starts before an earlier one.
LEMMA StartsGrow ==
  ASSUME NEW s \in Seq(Nat), NEW q \in 1..(Len(s) + 1), NEW r \in 1..(Len(s) + 1), q <= r
  PROVE  Start(s, q) <= Start(s, r)
<1>1. /\ \A x \in 1..(Len(s) + 1) : Start(s, x) \in Nat
      /\ \A x \in 1..Len(s) : Start(s, x + 1) = Start(s, x) + s[x]
      /\ Len(s) \in Nat /\ \A x \in 1..Len(s) : s[x] \in Nat
  BY Starts
<1> DEFINE T == {n \in Nat : q + n <= Len(s) + 1 => Start(s, q) <= Start(s, q + n)}
<1>2. 0 \in T
  BY <1>1
<1>3. ASSUME NEW n \in Nat, n \in T PROVE n + 1 \in T
  <2> SUFFICES ASSUME q + (n + 1) <= Len(s) + 1 PROVE Start(s, q) <= Start(s, q + (n + 1))
    OBVIOUS
  <2>1. q + n \in 1..Len(s) /\ (q + n) + 1 = q + (n + 1)
    BY <1>1
  <2>2. Start(s, q) <= Start(s, q + n)
    BY <1>1, <1>3, <2>1
  <2>3. Start(s, (q + n) + 1) = Start(s, q + n) + s[q + n] /\ s[q + n] \in Nat
        /\ Start(s, q + n) \in Nat /\ Start(s, q) \in Nat
    BY <1>1, <2>1
  <2> QED BY <2>1, <2>2, <2>3, SMTT(20)
<1> HIDE DEF T
<1>4. r - q \in T
  <2>1. r - q \in Nat
    BY <1>1
  <2> QED BY <1>2, <1>3, <2>1, SetInduction
<1>5. r - q \in Nat /\ q + (r - q) = r /\ r <= Len(s) + 1
  BY <1>1
<1> QED BY <1>4, <1>5 DEF T

-----------------------------------------------------------------------------
(* Splitting runs and styling ranges of them.                              *)

\* The sequence s with e put in front of its i-th element.
LEMMA InsertedAt ==
  ASSUME NEW V, NEW s \in Seq(V), NEW i \in 1..(Len(s) + 1), NEW e \in V
  PROVE  /\ InsertAt(s, i, e) \in Seq(V)
         /\ Len(InsertAt(s, i, e)) = Len(s) + 1
         /\ \A j \in 1..(Len(s) + 1) :
              InsertAt(s, i, e)[j] = IF j < i THEN s[j] ELSE IF j = i THEN e ELSE s[j - 1]
<1> DEFINE a == SubSeq(s, 1, i - 1)
           b == SubSeq(s, i, Len(s))
<1>1. a \in Seq(V) /\ Len(a) = i - 1 /\ \A j \in 1..(i - 1) : a[j] = s[j]
  OBVIOUS
<1>2. b \in Seq(V) /\ Len(b) = Len(s) + 1 - i /\ \A j \in 1..(Len(s) + 1 - i) : b[j] = s[i + j - 1]
  OBVIOUS
<1>3. InsertAt(s, i, e) = a \o <<e>> \o b
  BY DEF InsertAt
<1> HIDE DEF a, b
<1>4. a \o <<e>> \in Seq(V) /\ Len(a \o <<e>>) = i
      /\ \A j \in 1..i : (a \o <<e>>)[j] = IF j < i THEN s[j] ELSE e
  BY <1>1
<1> DEFINE c == a \o <<e>>
<1> HIDE DEF c
<1>5. c \in Seq(V) /\ Len(c) = i /\ \A j \in 1..i : c[j] = IF j < i THEN s[j] ELSE e
  BY <1>4 DEF c
<1>6. InsertAt(s, i, e) = c \o b
  BY <1>3 DEF c
<1>0. Len(s) \in Nat /\ i \in Nat /\ i <= Len(s) + 1
  OBVIOUS
<1>7. c \o b \in Seq(V) /\ Len(c \o b) = Len(s) + 1
  <2>1. c \in Seq(V) /\ b \in Seq(V)
    BY <1>2, <1>5
  <2>2. c \o b \in Seq(V) /\ Len(c \o b) = Len(c) + Len(b)
    BY <2>1
  <2>3. Len(c) = i /\ Len(b) = Len(s) + 1 - i
    BY <1>2, <1>5
  <2> QED BY <1>0, <2>2, <2>3
<1>8. ASSUME NEW j \in 1..(Len(s) + 1)
      PROVE  (c \o b)[j] = IF j < i THEN s[j] ELSE IF j = i THEN e ELSE s[j - 1]
  <2>1. CASE j <= i
    <3>1. (c \o b)[j] = c[j]
      BY <1>2, <1>5, <2>1
    <3> QED BY <1>5, <2>1, <3>1
  <2>2. CASE j > i
    <3>1. j - i \in 1..(Len(s) + 1 - i) /\ i + (j - i) - 1 = j - 1
      BY <2>2
    <3>2. (c \o b)[j] = b[j - i]
      BY <1>2, <1>5, <2>2
    <3>3. b[j - i] = s[j - 1]
      BY <1>2, <3>1
    <3>4. ~(j < i) /\ j # i
      BY <1>0, <2>2
    <3>5. (c \o b)[j] = s[j - 1]
      BY <3>2, <3>3
    <3>6. j \in Nat
      BY <1>0
    <3>7. (IF j < i THEN s[j] ELSE IF j = i THEN e ELSE s[j - 1]) = s[j - 1]
      BY <1>0, <3>4, <3>6
    <3> QED BY <3>5, <3>7
  <2>3. j <= i \/ j > i
    BY <1>0
  <2> QED BY <2>1, <2>2, <2>3
<1> QED BY <1>6, <1>7, <1>8

\* Runs with values of V over n units.
IsRuns(runs, n, V) ==
  /\ runs \in [lengths : Seq(Nat), values : Seq(V)]
  /\ Len(runs.lengths) = Len(runs.values)
  /\ Total(runs.lengths) = n

\* Boundaries are where runs start.
LEMMA StartsAreBoundaries ==
  ASSUME NEW s, NEW r \in 1..(Len(s) + 1)
  PROVE  Start(s, r) \in Boundaries(s)
BY DEF Boundaries

\* Splitting a run adds a boundary and moves none.
LEMMA SplitLengths ==
  ASSUME NEW s \in Seq(Nat), NEW r \in 1..Len(s), NEW k \in 1..s[r]
  PROVE  LET t == InsertAt(ReplaceAt(s, r, k), r + 1, s[r] - k)
         IN  /\ t \in Seq(Nat) /\ Len(t) = Len(s) + 1 /\ Total(t) = Total(s)
             /\ Boundaries(s) \subseteq Boundaries(t)
             /\ Start(s, r) + k \in Boundaries(t)
             /\ \A x \in 1..(Len(s) + 2) :
                  Start(t, x) = IF x <= r THEN Start(s, x)
                                ELSE IF x = r + 1 THEN Start(s, r) + k ELSE Start(s, x - 1)
<1> DEFINE u == ReplaceAt(s, r, k)
           t == InsertAt(u, r + 1, s[r] - k)
           g == [x \in 1..(Len(s) + 2) |->
                   IF x <= r THEN Start(s, x)
                   ELSE IF x = r + 1 THEN Start(s, r) + k ELSE Start(s, x - 1)]
<1>0. Len(s) \in Nat /\ s[r] \in Nat /\ k \in Nat /\ s[r] - k \in Nat /\ r \in Nat
  OBVIOUS
<1>1. u \in Seq(Nat) /\ Len(u) = Len(s)
      /\ \A x \in 1..Len(s) : u[x] = IF x = r THEN k ELSE s[x]
  BY <1>0 DEF ReplaceAt
<1>2. r + 1 \in 1..(Len(u) + 1)
  BY <1>0, <1>1
<1> DEFINE e == s[r] - k
           i == r + 1
<1> HIDE DEF u, e, i
<1>3. e \in Nat /\ i \in 1..(Len(u) + 1)
  BY <1>0, <1>2 DEF e, i
<1> DEFINE W == Nat
<1>3a. u \in Seq(W) /\ e \in W
  BY <1>1, <1>3
<1> HIDE DEF W
<1>4. /\ InsertAt(u, i, e) \in Seq(W) /\ Len(InsertAt(u, i, e)) = Len(u) + 1
      /\ \A j \in 1..(Len(u) + 1) :
           InsertAt(u, i, e)[j] = IF j < i THEN u[j] ELSE IF j = i THEN e ELSE u[j - 1]
  BY <1>3, <1>3a, InsertedAt
<1>5. t = InsertAt(u, i, e)
  BY DEF t, e, i
<1> HIDE DEF t
<1>6. t \in Seq(Nat) /\ Len(t) = Len(s) + 1
      /\ \A j \in 1..(Len(s) + 1) :
           t[j] = IF j < i THEN u[j] ELSE IF j = i THEN e ELSE u[j - 1]
  BY <1>1, <1>4, <1>5 DEF W
<1>7. /\ Start(s, 1) = 0 /\ Total(s) = Start(s, Len(s) + 1)
      /\ \A x \in 1..(Len(s) + 1) : Start(s, x) \in Nat
      /\ \A x \in 1..Len(s) : Start(s, x + 1) = Start(s, x) + s[x]
  BY Starts
<1>8. g[1] = 0
  BY <1>0, <1>7
<1>9. ASSUME NEW x \in 1..Len(t) PROVE g[x + 1] = g[x] + t[x]
  <2>0. x \in 1..(Len(s) + 1)
    BY <1>6
  <2>1. CASE x < r
    <3>1. t[x] = s[x] /\ x \in 1..Len(s)
      <4>1. x \in 1..Len(s) /\ x < i /\ x # r
        BY <1>0, <2>0, <2>1 DEF i
      <4>2. t[x] = u[x]
        BY <1>6, <2>0, <4>1
      <4> QED BY <1>1, <4>1, <4>2
    <3>2. g[x + 1] = Start(s, x + 1) /\ g[x] = Start(s, x)
      BY <1>0, <2>0, <2>1, SMTT(20)
    <3> QED BY <1>7, <3>1, <3>2
  <2>2. CASE x = r
    <3>1. t[x] = k
      <4>1. x \in 1..Len(s) /\ x < i
        BY <1>0, <2>0, <2>2 DEF i
      <4>2. t[x] = u[x]
        BY <1>6, <2>0, <4>1
      <4> QED BY <1>1, <2>2, <4>1, <4>2
    <3>2. g[x + 1] = Start(s, r) + k /\ g[x] = Start(s, r)
      BY <1>0, <2>0, <2>2
    <3> QED BY <3>1, <3>2
  <2>3. CASE x = r + 1
    <3>1. t[x] = s[r] - k
      BY <1>0, <1>6, <2>0, <2>3, SMTT(20) DEF i, e
    <3>2. g[x + 1] = Start(s, r + 1) /\ g[x] = Start(s, r) + k
      BY <1>0, <2>0, <2>3
    <3>3. Start(s, r + 1) = Start(s, r) + s[r] /\ Start(s, r) \in Nat
      BY <1>0, <1>7, SMTT(20)
    <3> QED BY <1>0, <3>1, <3>2, <3>3
  <2>4. CASE x > r + 1
    <3>1. x - 1 \in 1..Len(s) /\ x - 1 # r /\ (x - 1) + 1 = x
      BY <1>0, <2>0, <2>4
    <3>2. t[x] = s[x - 1]
      <4>1. ~(x < i) /\ x # i
        BY <1>0, <2>0, <2>4 DEF i
      <4>2. t[x] = u[x - 1]
        BY <1>6, <2>0, <4>1
      <4> QED BY <1>1, <3>1, <4>2
    <3>3. g[x + 1] = Start(s, x) /\ g[x] = Start(s, x - 1)
      BY <1>0, <2>0, <2>4
    <3> QED BY <1>7, <3>1, <3>2, <3>3
  <2> QED BY <1>0, <2>0, <2>1, <2>2, <2>3, <2>4
<1> HIDE DEF g
<1>10. /\ \A x \in 1..(Len(t) + 1) : Start(t, x) = g[x]
       /\ Total(t) = g[Len(t) + 1]
  BY <1>6, <1>8, <1>9, StartsAre
<1>11. Total(t) = Total(s)
  BY <1>0, <1>6, <1>7, <1>10 DEF g
<1>12. ASSUME NEW x \in 1..(Len(s) + 1) PROVE Start(s, x) \in Boundaries(t)
  <2>1. CASE x <= r
    <3>1. x \in 1..(Len(t) + 1) /\ g[x] = Start(s, x)
      BY <1>0, <1>6, <2>1 DEF g
    <3> QED BY <1>10, <3>1, StartsAreBoundaries
  <2>2. CASE x > r
    <3>1. x + 1 \in 1..(Len(t) + 1) /\ g[x + 1] = Start(s, x)
      BY <1>0, <1>6, <2>2 DEF g
    <3> QED BY <1>10, <3>1, StartsAreBoundaries
  <2> QED BY <1>0, <2>1, <2>2
<1>13. Boundaries(s) \subseteq Boundaries(t)
  BY <1>12 DEF Boundaries
<1>14. Start(s, r) + k \in Boundaries(t)
  <2>1. r + 1 \in 1..(Len(t) + 1) /\ g[r + 1] = Start(s, r) + k
    BY <1>0, <1>6 DEF g
  <2> QED BY <1>10, <2>1, StartsAreBoundaries
<1>15. t = InsertAt(ReplaceAt(s, r, k), r + 1, s[r] - k)
  BY DEF t, u
<1>16. \A x \in 1..(Len(s) + 2) :
         Start(t, x) = IF x <= r THEN Start(s, x)
                       ELSE IF x = r + 1 THEN Start(s, r) + k ELSE Start(s, x - 1)
  <2>1. Len(t) + 1 = Len(s) + 2
    BY <1>0, <1>6
  <2> QED BY <1>10, <2>1 DEF g
<1> QED BY <1>6, <1>11, <1>13, <1>14, <1>15, <1>16

\* Runs whose run is split are runs over the same units.
LEMMA SplitRuns ==
  ASSUME NEW n, NEW V, NEW runs, IsRuns(runs, n, V), NEW r \in 1..Len(runs.lengths),
         NEW k \in 1..runs.lengths[r]
  PROVE  /\ IsRuns(SplitRun(runs, r, k), n, V)
         /\ Boundaries(runs.lengths) \subseteq Boundaries(SplitRun(runs, r, k).lengths)
<1>1. /\ runs.lengths \in Seq(Nat) /\ runs.values \in Seq(V)
      /\ Len(runs.lengths) = Len(runs.values) /\ Total(runs.lengths) = n
  BY DEF IsRuns
<1> DEFINE s == runs.lengths
           v == runs.values
           t == InsertAt(ReplaceAt(s, r, k), r + 1, s[r] - k)
           w == InsertAt(v, r, v[r])
<1>2. SplitRun(runs, r, k) = [lengths |-> t, values |-> w]
  BY DEF SplitRun
<1>3. s \in Seq(Nat) /\ r \in 1..Len(s) /\ k \in 1..s[r]
  BY <1>1
<1>4. v \in Seq(V) /\ r \in 1..(Len(v) + 1) /\ v[r] \in V
  BY <1>1
<1>5. Len(v) = Len(s) /\ Total(s) = n
  BY <1>1
<1>6. Boundaries(runs.lengths) = Boundaries(s)
  OBVIOUS
<1> HIDE DEF s, v
<1>7. /\ t \in Seq(Nat) /\ Len(t) = Len(s) + 1 /\ Total(t) = Total(s)
      /\ Boundaries(s) \subseteq Boundaries(t)
  BY <1>3, SplitLengths
<1> HIDE DEF t
<1> DEFINE e == v[r]
<1>8. w = InsertAt(v, r, e)
  OBVIOUS
<1>9. e \in V
  BY <1>4
<1> HIDE DEF e
<1>10. InsertAt(v, r, e) \in Seq(V) /\ Len(InsertAt(v, r, e)) = Len(v) + 1
  BY <1>4, <1>9, InsertedAt
<1>11. w \in Seq(V) /\ Len(w) = Len(v) + 1
  BY <1>8, <1>10
<1> HIDE DEF w
<1>12. IsRuns([lengths |-> t, values |-> w], n, V)
  BY <1>5, <1>7, <1>11 DEF IsRuns
<1> QED BY <1>2, <1>6, <1>7, <1>12

\* The run found for an offset within the runs holds the offset.
LEMMA FoundRun ==
  ASSUME NEW s \in Seq(Nat), NEW o \in Nat, o < Total(s)
  PROVE  LET f == FindRunForOffset(s, o)
         IN  f \in 1..Len(s) /\ Start(s, f) <= o /\ o < Start(s, f) + s[f]
<1> DEFINE I == {r \in 1..Len(s) : o < Start(s, r + 1)}
           f == FindRunForOffset(s, o)
<1>1. /\ Start(s, 1) = 0 /\ Total(s) = Start(s, Len(s) + 1) /\ Len(s) \in Nat
      /\ \A x \in 1..(Len(s) + 1) : Start(s, x) \in Nat
      /\ \A x \in 1..Len(s) : Start(s, x + 1) = Start(s, x) + s[x]
  BY Starts
<1>2. Len(s) \in I
  <2>1. Len(s) # 0
    BY <1>1
  <2> QED BY <1>1, <2>1
<1>3. I \subseteq Nat /\ I # {}
  BY <1>2
<1>4. f = Min(I)
  BY <1>3 DEF FindRunForOffset
<1> HIDE DEF I, f
<1>5. f \in I /\ \A y \in I : f <= y
  BY <1>3, <1>4, MinIs
<1>6. f \in 1..Len(s) /\ o < Start(s, f + 1)
  BY <1>5 DEF I
<1>7. Start(s, f) <= o
  <2>1. CASE f = 1
    BY <1>1, <2>1
  <2>2. CASE f # 1
    <3>1. f - 1 \in 1..Len(s) /\ (f - 1) + 1 = f /\ ~(f <= f - 1)
      BY <1>1, <1>6, <2>2
    <3>2. f - 1 \notin I
      BY <1>5, <3>1
    <3>3. ~(o < Start(s, f))
      BY <3>1, <3>2 DEF I
    <3>4. Start(s, f) \in Nat
      BY <1>1, <1>6
    <3> QED BY <3>3, <3>4
  <2> QED BY <2>1, <2>2
<1>8. o < Start(s, f) + s[f]
  BY <1>1, <1>6
<1> QED BY <1>6, <1>7, <1>8 DEF f

\* Runs that are split at a range are runs over the same units.
LEMMA IsolatedRuns ==
  ASSUME NEW n \in Nat, NEW V, NEW runs, IsRuns(runs, n, V),
         NEW start \in Nat, NEW end \in Nat, start < end, end <= n
  PROVE  /\ IsRuns(Isolate(runs, start, end).runs, n, V)
         /\ Boundaries(runs.lengths) \subseteq Boundaries(Isolate(runs, start, end).runs.lengths)
<1> DEFINE s     == runs.lengths
           first == FindRunForOffset(s, start)
           inner == start - Start(s, first)
           left  == IF inner > 0 THEN SplitRun(runs, first, inner) ELSE runs
           t     == left.lengths
           last  == FindRunForOffset(t, end - 1)
           k     == end - Start(t, last)
           both  == IF Start(t, last + 1) > end THEN SplitRun(left, last, k) ELSE left
<1>1. Isolate(runs, start, end).runs = both
  BY DEF Isolate
<1>2. s \in Seq(Nat) /\ Total(s) = n
  BY DEF IsRuns
<1> HIDE DEF s
<1>3. first \in 1..Len(s) /\ Start(s, first) <= start /\ start < Start(s, first) + s[first]
  BY <1>2, FoundRun
<1>4. Start(s, first) \in Nat /\ s[first] \in Nat
  <2>1. first \in 1..(Len(s) + 1) /\ s[first] \in Nat
    BY <1>2, <1>3
  <2> QED BY <1>2, <2>1, Starts
<1> HIDE DEF first
<1>5. inner > 0 => inner \in 1..s[first]
  BY <1>3, <1>4
<1> HIDE DEF inner
<1>6. IsRuns(left, n, V) /\ Boundaries(s) \subseteq Boundaries(left.lengths)
  <2>1. CASE inner > 0
    <3>1. first \in 1..Len(runs.lengths) /\ inner \in 1..runs.lengths[first]
      BY <1>3, <1>5, <2>1 DEF s
    <3>2. /\ IsRuns(SplitRun(runs, first, inner), n, V)
          /\ Boundaries(runs.lengths) \subseteq Boundaries(SplitRun(runs, first, inner).lengths)
      BY <3>1, SplitRuns
    <3>3. left = SplitRun(runs, first, inner)
      BY <2>1
    <3> HIDE DEF left
    <3> QED BY <3>2, <3>3 DEF s
  <2>2. CASE ~(inner > 0)
    <3>1. left = runs
      BY <2>2
    <3> HIDE DEF left
    <3> QED BY <3>1 DEF s
  <2> QED BY <2>1, <2>2
<1> HIDE DEF left
<1>7. t \in Seq(Nat) /\ Total(t) = n
  BY <1>6 DEF IsRuns
<1> HIDE DEF t
<1> DEFINE e == end - 1
<1>8. e \in Nat /\ e < Total(t) /\ end = e + 1
  BY <1>7
<1>9. last = FindRunForOffset(t, e)
  OBVIOUS
<1> HIDE DEF e, last
<1>10. last \in 1..Len(t) /\ Start(t, last) <= e /\ e < Start(t, last) + t[last]
  BY <1>7, <1>8, <1>9, FoundRun
<1>11. Start(t, last) \in Nat /\ t[last] \in Nat
  <2>1. last \in 1..(Len(t) + 1) /\ t[last] \in Nat
    BY <1>7, <1>10
  <2> QED BY <1>7, <2>1, Starts
<1>12. k \in 1..t[last]
  BY <1>8, <1>10, <1>11
<1> HIDE DEF k
<1>13. last \in 1..Len(left.lengths) /\ k \in 1..left.lengths[last]
  BY <1>10, <1>12 DEF t
<1>14. /\ IsRuns(SplitRun(left, last, k), n, V)
       /\ Boundaries(left.lengths) \subseteq Boundaries(SplitRun(left, last, k).lengths)
  BY <1>6, <1>13, SplitRuns
<1>15. IsRuns(both, n, V) /\ Boundaries(left.lengths) \subseteq Boundaries(both.lengths)
  <2>1. both = SplitRun(left, last, k) \/ both = left
    OBVIOUS
  <2> HIDE DEF both
  <2> QED BY <1>6, <1>14, <2>1
<1> HIDE DEF both
<1> QED BY <1>1, <1>6, <1>15 DEF s

\* Setting a value keeps the runs where they are.
LEMMA SetRunsType ==
  ASSUME NEW n, NEW V, NEW runs, IsRuns(runs, n, V), NEW covers, NEW value, NEW refused,
         NEW set, set = SetRuns(runs, covers, value, refused)
  PROVE  /\ set = [runs |-> set.runs, called |-> set.called, threw |-> set.threw]
         /\ set.called \in BOOLEAN /\ set.threw \in BOOLEAN
         /\ IsRuns(set.runs, n, V \cup {value})
         /\ ~set.called => IsRuns(set.runs, n, V)
<1> DEFINE failing == {r \in covers : runs.values[r] \in refused}
           done    == IF failing = {} THEN covers ELSE {r \in covers : r < Min(failing)}
           v       == [r \in DOMAIN runs.values |-> IF r \in done THEN value ELSE runs.values[r]]
           new     == [runs EXCEPT !.values = v]
<1>1. set = [runs |-> new, called |-> covers # {}, threw |-> failing # {}]
  BY DEF SetRuns
<1>2. done \subseteq covers
  OBVIOUS
<1> HIDE DEF done, failing
<1>3. /\ runs \in [lengths : Seq(Nat), values : Seq(V)]
      /\ Len(runs.lengths) = Len(runs.values) /\ Total(runs.lengths) = n
  BY DEF IsRuns
<1>4. new = [lengths |-> runs.lengths, values |-> v]
  <2> HIDE DEF v
  <2> QED BY <1>3
<1> DEFINE N == Len(runs.values)
<1>3a. N \in Nat /\ DOMAIN runs.values = 1..N /\ \A r \in 1..N : runs.values[r] \in V
  BY <1>3
<1> HIDE DEF N
<1>3b. v = [r \in 1..N |-> IF r \in done THEN value ELSE runs.values[r]]
  BY <1>3a
<1>3c. \A r \in 1..N : (IF r \in done THEN value ELSE runs.values[r]) \in V \cup {value}
  BY <1>3a
<1>5. v \in Seq(V \cup {value}) /\ Len(v) = Len(runs.values)
  <2> HIDE DEF v
  <2>1. v \in Seq(V \cup {value}) /\ Len(v) = N
    BY <1>3a, <1>3b, <1>3c
  <2> QED BY <2>1 DEF N
<1>6. covers = {} => v \in Seq(V)
  <2> SUFFICES ASSUME covers = {} PROVE v \in Seq(V)
    OBVIOUS
  <2>1. \A r \in 1..N : (IF r \in done THEN value ELSE runs.values[r]) \in V
    BY <1>2, <1>3a
  <2> HIDE DEF v
  <2> QED BY <1>3a, <1>3b, <2>1
<1> HIDE DEF v, new
<1>7. IsRuns(new, n, V \cup {value}) /\ new.lengths = runs.lengths
  BY <1>3, <1>4, <1>5 DEF IsRuns
<1>8. covers = {} => IsRuns(new, n, V)
  BY <1>3, <1>4, <1>5, <1>6 DEF IsRuns
<1>9. /\ set = [runs |-> set.runs, called |-> set.called, threw |-> set.threw]
      /\ set.called \in BOOLEAN /\ set.threw \in BOOLEAN /\ set.runs = new
      /\ ~set.called => covers = {}
  <2> DEFINE c == covers # {}
             x == failing # {}
  <2>1. c \in BOOLEAN /\ x \in BOOLEAN /\ (~c => covers = {})
    OBVIOUS
  <2>2. set = [runs |-> new, called |-> c, threw |-> x]
    BY <1>1
  <2> HIDE DEF c, x
  <2>3. set.runs = new /\ set.called = c /\ set.threw = x
    BY <2>2
  <2>4. set = [runs |-> set.runs, called |-> set.called, threw |-> set.threw]
    BY <2>2
  <2> QED BY <2>1, <2>3, <2>4
<1> QED BY <1>7, <1>8, <1>9

\* The runs stay where they are.
LEMMA SetRunsLengths ==
  ASSUME NEW n, NEW V, NEW runs, IsRuns(runs, n, V), NEW covers, NEW value, NEW refused,
         NEW set, set = SetRuns(runs, covers, value, refused)
  PROVE  Boundaries(set.runs.lengths) = Boundaries(runs.lengths)
<1> DEFINE failing == {r \in covers : runs.values[r] \in refused}
           done    == IF failing = {} THEN covers ELSE {r \in covers : r < Min(failing)}
           v       == [r \in DOMAIN runs.values |-> IF r \in done THEN value ELSE runs.values[r]]
           new     == [runs EXCEPT !.values = v]
<1>1. set = [runs |-> new, called |-> covers # {}, threw |-> failing # {}]
  BY DEF SetRuns
<1> HIDE DEF v
<1>2. runs \in [lengths : Seq(Nat), values : Seq(V)]
  BY DEF IsRuns
<1>3. new.lengths = runs.lengths
  BY <1>2
<1> HIDE DEF new, failing
<1>4. set.runs = new
  BY <1>1
<1> QED BY <1>3, <1>4

\* What is kept of runs while ranges of them are styled.
Styling(runs, n, V, value, done) ==
  /\ done = [runs |-> done.runs, called |-> done.called, threw |-> done.threw]
  /\ done.called \in BOOLEAN /\ done.threw \in BOOLEAN
  /\ IsRuns(done.runs, n, V \cup {value})
  /\ ~done.called => IsRuns(done.runs, n, V)
  /\ Boundaries(runs.lengths) \subseteq Boundaries(done.runs.lengths)

\* One more range.
LEMMA StyledRange ==
  ASSUME NEW runs, NEW n \in Nat, NEW V, NEW value, NEW done, Styling(runs, n, V, value, done),
         NEW start \in Nat, NEW end \in Nat, NEW refused
  PROVE  Styling(runs, n, V, value, StyleRange(done, start, end, value, refused))
<1> DEFINE stop == Min({end, Total(done.runs.lengths)})
           cut  == Isolate(done.runs, start, stop)
           mid  == cut.runs
           C    == cut.covers
           set  == SetRuns(mid, C, value, refused)
           next == [set EXCEPT !.called = done.called \/ @]
           W    == V \cup {value}
<1>1. /\ done = [runs |-> done.runs, called |-> done.called, threw |-> done.threw]
      /\ done.called \in BOOLEAN /\ done.threw \in BOOLEAN
      /\ IsRuns(done.runs, n, W)
      /\ ~done.called => IsRuns(done.runs, n, V)
      /\ Boundaries(runs.lengths) \subseteq Boundaries(done.runs.lengths)
  BY DEF Styling
<1> HIDE DEF W
<1>2. StyleRange(done, start, end, value, refused)
        = IF done.threw \/ start >= stop THEN done ELSE next
  BY DEF StyleRange
<1>3. Total(done.runs.lengths) = n
  BY <1>1 DEF IsRuns
<1>4. stop \in {end, n} /\ stop <= n
  <2>1. stop = Min({end, n})
    BY <1>3
  <2> HIDE DEF stop
  <2>2. stop \in {end, n} /\ \A y \in {end, n} : stop <= y
    BY <2>1, MinIs
  <2> QED BY <2>2
<1> HIDE DEF stop
<1> SUFFICES ASSUME start < stop PROVE Styling(runs, n, V, value, next)
  <2>1. CASE start >= stop \/ done.threw
    BY <1>2, <2>1
  <2>2. CASE ~(start >= stop) /\ ~done.threw
    <3>1. start < stop
      BY <1>4, <2>2
    <3> HIDE DEF next
    <3> QED BY <1>2, <2>2, <3>1
  <2> QED BY <2>1, <2>2
<1>5. stop \in Nat /\ start < stop /\ stop <= n
  BY <1>4
<1>6. IsRuns(mid, n, W) /\ Boundaries(done.runs.lengths) \subseteq Boundaries(mid.lengths)
  BY <1>1, <1>5, IsolatedRuns
<1>7. ~done.called => IsRuns(mid, n, V)
  BY <1>1, <1>5, IsolatedRuns
<1> HIDE DEF cut, mid, C
<1>7a. set = SetRuns(mid, C, value, refused)
  OBVIOUS
<1> HIDE DEF set
<1>8. /\ set = [runs |-> set.runs, called |-> set.called, threw |-> set.threw]
      /\ set.called \in BOOLEAN /\ set.threw \in BOOLEAN
      /\ Boundaries(set.runs.lengths) = Boundaries(mid.lengths)
      /\ IsRuns(set.runs, n, W \cup {value})
  <2> HIDE DEF next
  <2>1. IsRuns(mid, n, W)
    BY <1>6
  <2>2. set = [runs |-> set.runs, called |-> set.called, threw |-> set.threw]
    BY <2>1, <1>7a, SetRunsType
  <2>4. set.called \in BOOLEAN /\ set.threw \in BOOLEAN
    BY <2>1, <1>7a, SetRunsType
  <2>5. Boundaries(set.runs.lengths) = Boundaries(mid.lengths)
    BY <2>1, <1>7a, SetRunsLengths
  <2>6. IsRuns(set.runs, n, W \cup {value})
    BY <2>1, <1>7a, SetRunsType, ZenonT(60)
  <2> QED BY <2>2, <2>4, <2>5, <2>6
<1>9. ~done.called /\ ~set.called => IsRuns(set.runs, n, V)
  BY <1>7, <1>7a, SetRunsType
<1>10. /\ next.runs = set.runs /\ next.threw = set.threw
       /\ next.called = (done.called \/ set.called)
       /\ next = [runs |-> next.runs, called |-> next.called, threw |-> next.threw]
  BY <1>8
<1> HIDE DEF next
<1>11. W \cup {value} = V \cup {value}
  BY DEF W
<1>12. next.called \in BOOLEAN
  BY <1>10
<1>13. ~next.called => IsRuns(next.runs, n, V)
  BY <1>8, <1>9, <1>10
<1>14. Boundaries(runs.lengths) \subseteq Boundaries(next.runs.lengths)
  <2>1. Boundaries(next.runs.lengths) = Boundaries(mid.lengths)
    BY <1>8, <1>10
  <2> QED BY <1>1, <1>6, <2>1
<1>15. IsRuns(next.runs, n, V \cup {value})
  BY <1>8, <1>10, <1>11
<1>16. next.threw \in BOOLEAN
  BY <1>8, <1>10
<1> QED BY <1>10, <1>12, <1>13, <1>14, <1>15, <1>16 DEF Styling

\* f are the steps of a call that styles one range after the other.
AreSteps(f, runs, ranges, value, refused) ==
  /\ f[0] = [runs |-> runs, called |-> FALSE, threw |-> FALSE]
  /\ \A i \in 1..Len(ranges) :
       f[i] = StyleRange(f[i - 1], ranges[i][1], ranges[i][2], value, refused)
  /\ ApplyStyle(runs, ranges, value, refused) = f[Len(ranges)]

\* There are such steps, and after each of them the runs are what they should be.
LEMMA StyledSteps ==
  ASSUME NEW n \in Nat, NEW V, NEW runs, IsRuns(runs, n, V),
         NEW ranges \in Seq(Nat \X Nat), NEW value, NEW refused
  PROVE  \E f : /\ AreSteps(f, runs, ranges, value, refused)
               /\ \A i \in 0..Len(ranges) : Styling(runs, n, V, value, f[i])
<1> DEFINE N == Len(ranges)
           a == [runs |-> runs, called |-> FALSE, threw |-> FALSE]
           Step(i, d) == StyleRange(d, ranges[i][1], ranges[i][2], value, refused)
           Body(w) == [i \in 0..N |-> IF i = 0 THEN a ELSE Step(i, w[i - 1])]
           f == CHOOSE w : w = Body(w)
           R == [lengths : Seq(Nat), values : Seq(V \cup {value})]
           D == {d \in [runs : R, called : BOOLEAN, threw : BOOLEAN] :
                   Styling(runs, n, V, value, d)}
           F == [i \in Nat |-> [d \in D |-> IF i \in 1..N THEN Step(i, d) ELSE d]]
<1>1. ApplyStyle(runs, ranges, value, refused) = f[N]
  BY DEF ApplyStyle
<1>2. N \in Nat /\ \A i \in 1..N : ranges[i][1] \in Nat /\ ranges[i][2] \in Nat
  OBVIOUS
<1>3. Styling(runs, n, V, value, a)
  <2>1. a.runs = runs /\ a.called = FALSE /\ a.threw = FALSE
    OBVIOUS
  <2>2. IsRuns(runs, n, V \cup {value})
    BY DEF IsRuns
  <2> QED BY <2>1, <2>2 DEF Styling
<1> HIDE DEF N, a
<1>4. ASSUME NEW d, Styling(runs, n, V, value, d) PROVE d \in D
  <2>1. /\ d = [runs |-> d.runs, called |-> d.called, threw |-> d.threw]
        /\ d.called \in BOOLEAN /\ d.threw \in BOOLEAN /\ d.runs \in R
    BY <1>4 DEF Styling, IsRuns
  <2> HIDE DEF R
  <2> QED BY <1>4, <2>1
<1>5. a \in D
  BY <1>3, <1>4
<1>6. ASSUME NEW i \in 1..N, NEW d \in D PROVE Step(i, d) \in D
  <2>1. Styling(runs, n, V, value, d)
    OBVIOUS
  <2> DEFINE start == ranges[i][1]
             end   == ranges[i][2]
  <2>2. start \in Nat /\ end \in Nat
    BY <1>2
  <2> HIDE DEF start, end, D
  <2>3. Styling(runs, n, V, value, StyleRange(d, start, end, value, refused))
    BY <2>1, <2>2, StyledRange
  <2> QED BY <1>4, <2>3 DEF start, end
<1> HIDE DEF D
<1>7. PICK w : Solves(w, D, a, F, N)
  <2>1. F \in [Nat -> [D -> D]]
    <3> HIDE DEF Step
    <3> QED BY <1>6
  <2> HIDE DEF F
  <2> QED BY <1>2, <1>5, <2>1, Recursion
<1> HIDE DEF Step
<1>8. w \in [0..N -> D] /\ w[0] = a /\ \A i \in 1..N : w[i] = Step(i, w[i - 1])
  <2>1. w \in [0..N -> D] /\ w[0] = a /\ \A i \in 1..N : w[i] = F[i][w[i - 1]]
    BY <1>7 DEF Solves
  <2>2. ASSUME NEW i \in 1..N PROVE w[i] = Step(i, w[i - 1])
    <3>1. i \in Nat /\ i - 1 \in 0..N
      BY <1>2
    <3>2. w[i - 1] \in D
      BY <2>1, <3>1
    <3> QED BY <2>1, <3>1, <3>2
  <2> QED BY <2>1, <2>2
<1> HIDE DEF F
<1>9. w = Body(w)
  <2>1. \A i \in 0..N : w[i] = IF i = 0 THEN a ELSE Step(i, w[i - 1])
    BY <1>2, <1>8
  <2>2. w = [i \in 0..N |-> w[i]]
    BY <1>8
  <2> QED BY <2>1, <2>2
<1>10. f = Body(f)
  <2> HIDE DEF Body
  <2> QED BY <1>9
<1> HIDE DEF f
<1>11. f[0] = a /\ \A i \in 1..N : f[i] = Step(i, f[i - 1])
  <2>1. 0 \in 0..N /\ \A i \in 1..N : i \in 0..N /\ i # 0
    BY <1>2
  <2> QED BY <1>10, <2>1
<1> DEFINE T == {i \in Nat : i <= N => f[i] \in D}
<1>12. 0 \in T
  BY <1>5, <1>11
<1>13. ASSUME NEW i \in Nat, i \in T PROVE i + 1 \in T
  <2> SUFFICES ASSUME i + 1 <= N PROVE f[i + 1] \in D
    OBVIOUS
  <2>1. i <= N /\ i + 1 \in 1..N /\ (i + 1) - 1 = i
    BY <1>2
  <2>2. f[i] \in D /\ f[i + 1] = Step(i + 1, f[i])
    BY <1>11, <1>13, <2>1
  <2> DEFINE j == i + 1
             d == f[i]
  <2>3. j \in 1..N /\ d \in D /\ f[i + 1] = Step(j, d)
    BY <2>1, <2>2
  <2> HIDE DEF j, d
  <2>4. Step(j, d) \in D
    BY <1>6, <2>3
  <2> QED BY <2>3, <2>4
<1> HIDE DEF T
<1>14. Nat \subseteq T
  BY <1>12, <1>13, SetInduction
<1>15. \A i \in 0..N : f[i] \in D
  BY <1>2, <1>14 DEF T
<1>16. AreSteps(f, runs, ranges, value, refused)
  BY <1>1, <1>11 DEF AreSteps, N, a, Step
<1>17. \A i \in 0..Len(ranges) : Styling(runs, n, V, value, f[i])
  BY <1>15 DEF D, N
<1> QED BY <1>16, <1>17

\* Runs whose ranges are styled, one range after the other.
LEMMA AppliedStyle ==
  ASSUME NEW n \in Nat, NEW V, NEW runs, IsRuns(runs, n, V),
         NEW ranges \in Seq(Nat \X Nat), NEW value, NEW refused
  PROVE  Styling(runs, n, V, value, ApplyStyle(runs, ranges, value, refused))
<1>1. PICK f : /\ AreSteps(f, runs, ranges, value, refused)
               /\ \A i \in 0..Len(ranges) : Styling(runs, n, V, value, f[i])
  BY StyledSteps
<1>2. Len(ranges) \in 0..Len(ranges)
  OBVIOUS
<1> QED BY <1>1, <1>2 DEF AreSteps

-----------------------------------------------------------------------------
(* Finding and replacing, and where places and runs go.                    *)

\* Places of a text of so many units, each followed by k units of its own.
InOrder(places, k, units) ==
  /\ places \in Seq(Nat)
  /\ \A i \in 1..Len(places) : places[i] + k <= units
  /\ \A i \in 1..Len(places) - 1 : places[i] + k <= places[i + 1]

\* One more place, behind the last one.
LEMMA OneMorePlace ==
  ASSUME NEW k \in Nat, NEW units \in Nat, NEW s, InOrder(s, k, units), NEW p \in Nat,
         p + k <= units, s # <<>> => s[Len(s)] + k <= p
  PROVE  InOrder(Append(s, p), k, units)
<1> DEFINE t == Append(s, p)
<1>1. s \in Seq(Nat) /\ Len(s) \in Nat
  BY DEF InOrder
<1>2. t \in Seq(Nat) /\ Len(t) = Len(s) + 1 /\ t[Len(s) + 1] = p
      /\ \A i \in 1..Len(s) : t[i] = s[i]
  BY <1>1
<1> HIDE DEF t
<1>3. ASSUME NEW i \in 1..Len(t) PROVE t[i] + k <= units
  <2>1. CASE i = Len(s) + 1
    BY <1>2, <2>1
  <2>2. CASE i # Len(s) + 1
    <3>1. i \in 1..Len(s)
      BY <1>1, <1>2, <2>2
    <3> QED BY <1>2, <3>1 DEF InOrder
  <2> QED BY <2>1, <2>2
<1>4. ASSUME NEW i \in 1..Len(t) - 1 PROVE t[i] + k <= t[i + 1]
  <2>0. i \in 1..Len(s)
    BY <1>1, <1>2
  <2>1. CASE i = Len(s)
    <3>1. s # <<>>
      BY <1>1, <2>0, <2>1
    <3> QED BY <1>2, <2>0, <2>1, <3>1
  <2>2. CASE i # Len(s)
    <3>1. i \in 1..Len(s) - 1 /\ i + 1 \in 1..Len(s)
      BY <1>1, <2>0, <2>2
    <3>2. s[i] + k <= s[i + 1]
      BY <3>1 DEF InOrder
    <3>3. t[i] = s[i] /\ t[i + 1] = s[i + 1]
      BY <1>2, <2>0, <3>1
    <3> QED BY <3>2, <3>3
  <2> QED BY <2>1, <2>2
<1> QED BY <1>2, <1>3, <1>4 DEF InOrder, t

\* Where the search for the next match starts, the places it finds, and what is
\* known then.
SearchFrom(s, needle) == IF s = <<>> THEN 0 ELSE s[Len(s)] + Len(needle)

LaterPlaces(s, txt, needle) ==
  {p \in SearchFrom(s, needle)..Len(txt) - Len(needle) : SpellsAt(txt, needle, p)}

SearchStep(s, txt, needle) ==
  IF LaterPlaces(s, txt, needle) = {} THEN s ELSE Append(s, Min(LaterPlaces(s, txt, needle)))

\* f has the matches known after so many searches.
IsSearch(f, txt, needle) ==
  /\ f[0] = <<>>
  /\ \A n \in 1..Len(txt) : f[n] = SearchStep(f[n - 1], txt, needle)
  /\ \A n \in 0..Len(txt) : InOrder(f[n], Len(needle), Len(txt))
  /\ FindAll(txt, needle) = f[Len(txt)]

\* Matches are found by such searches.
LEMMA Searched ==
  ASSUME NEW txt, NEW needle, Len(txt) \in Nat, Len(needle) \in Nat
  PROVE  \E f : IsSearch(f, txt, needle)
<1> DEFINE N == Len(txt)
           k == Len(needle)
           From(s)  == IF s = <<>> THEN 0 ELSE s[Len(s)] + k
           Later(s) == {p \in From(s)..N - k : SpellsAt(txt, needle, p)}
           Step(s)  == IF Later(s) = {} THEN s ELSE Append(s, Min(Later(s)))
           Body(w)  == [n \in 0..N |-> IF n = 0 THEN <<>> ELSE Step(w[n - 1])]
           f == CHOOSE w : w = Body(w)
           D == {s \in Seq(Nat) : InOrder(s, k, N)}
           F == [n \in Nat |-> [s \in D |-> Step(s)]]
<1>1. FindAll(txt, needle) = f[N]
  BY DEF FindAll
<1>2. N \in Nat /\ k \in Nat
  OBVIOUS
<1>14. \A s : Step(s) = SearchStep(s, txt, needle)
  BY DEF SearchStep, LaterPlaces, SearchFrom
<1> HIDE DEF N, k
<1>3. <<>> \in D
  BY DEF InOrder
<1>4. ASSUME NEW s \in D PROVE Step(s) \in D
  <2>1. CASE Later(s) = {}
    BY <2>1
  <2>2. CASE Later(s) # {}
    <3>1. InOrder(s, k, N) /\ s \in Seq(Nat)
      OBVIOUS
    <3>2. From(s) \in Nat
      BY <1>2, <3>1
    <3> DEFINE L == Later(s)
    <3>3. L \subseteq Nat /\ L # {}
      BY <1>2, <2>2, <3>2
    <3>4. \A p \in L : From(s) <= p /\ p + k <= N
      BY <1>2, <3>2
    <3> DEFINE p == Min(L)
    <3> HIDE DEF L
    <3>5. p \in L
      BY <3>3, MinIs
    <3>6. p \in Nat /\ From(s) <= p /\ p + k <= N
      BY <3>3, <3>4, <3>5
    <3> HIDE DEF p
    <3>7. s # <<>> => s[Len(s)] + k <= p
      BY <3>6
    <3>8. InOrder(Append(s, p), k, N)
      BY <1>2, <3>1, <3>6, <3>7, OneMorePlace
    <3>9. Append(s, p) \in Seq(Nat)
      BY <3>1, <3>6
    <3>10. Step(s) = Append(s, p)
      BY <2>2 DEF p, L
    <3> QED BY <3>8, <3>9, <3>10
  <2> QED BY <2>1, <2>2
<1> HIDE DEF D, Step
<1>5. PICK w : Solves(w, D, <<>>, F, N)
  <2>1. F \in [Nat -> [D -> D]]
    BY <1>4
  <2> HIDE DEF F
  <2> QED BY <1>2, <1>3, <2>1, Recursion
<1>6. w \in [0..N -> D] /\ w[0] = <<>> /\ \A n \in 1..N : w[n] = Step(w[n - 1])
  <2>1. w \in [0..N -> D] /\ w[0] = <<>> /\ \A n \in 1..N : w[n] = F[n][w[n - 1]]
    BY <1>5 DEF Solves
  <2>2. ASSUME NEW n \in 1..N PROVE w[n] = Step(w[n - 1])
    <3>1. n \in Nat /\ n - 1 \in 0..N
      BY <1>2
    <3>2. w[n - 1] \in D
      BY <2>1, <3>1
    <3> QED BY <2>1, <3>1, <3>2
  <2> QED BY <2>1, <2>2
<1> HIDE DEF F
<1>7. w = Body(w)
  <2>1. \A n \in 0..N : w[n] = IF n = 0 THEN <<>> ELSE Step(w[n - 1])
    BY <1>2, <1>6
  <2>2. w = [n \in 0..N |-> w[n]]
    BY <1>6
  <2> QED BY <2>1, <2>2
<1>8. f = Body(f)
  <2> HIDE DEF Body
  <2> QED BY <1>7
<1> HIDE DEF f
<1>9. f[0] = <<>> /\ \A n \in 1..N : f[n] = Step(f[n - 1])
  <2>1. 0 \in 0..N /\ \A n \in 1..N : n \in 0..N /\ n # 0
    BY <1>2
  <2> QED BY <1>8, <2>1
<1> DEFINE T == {n \in Nat : n <= N => f[n] \in D}
<1>10. 0 \in T
  BY <1>3, <1>9
<1>11. ASSUME NEW n \in Nat, n \in T PROVE n + 1 \in T
  <2> SUFFICES ASSUME n + 1 <= N PROVE f[n + 1] \in D
    OBVIOUS
  <2>1. n <= N /\ n + 1 \in 1..N /\ (n + 1) - 1 = n
    BY <1>2
  <2>2. f[n] \in D /\ f[n + 1] = Step(f[n])
    BY <1>9, <1>11, <2>1
  <2> QED BY <1>4, <2>2
<1> HIDE DEF T
<1>12. ASSUME NEW n \in 0..N PROVE f[n] \in D
  <2>1. n \in Nat /\ n <= N
    BY <1>2
  <2>2. n \in T
    BY <1>10, <1>11, <2>1, SetInduction
  <2> QED BY <2>1, <2>2 DEF T
<1>13. \A n \in 0..N : InOrder(f[n], k, N)
  BY <1>12 DEF D
<1>15. IsSearch(f, txt, needle)
  <2>1. \A n \in 1..N : f[n] = SearchStep(f[n - 1], txt, needle)
    BY <1>9, <1>14
  <2> HIDE DEF f
  <2> QED BY <1>1, <1>9, <1>13, <2>1 DEF IsSearch, N, k
<1> QED BY <1>15

\* What is found is in order.
LEMMA FoundInOrder ==
  ASSUME NEW txt, NEW needle, Len(txt) \in Nat, Len(needle) \in Nat
  PROVE  InOrder(FindAll(txt, needle), Len(needle), Len(txt))
<1>1. PICK f : IsSearch(f, txt, needle)
  BY Searched
<1>2. Len(txt) \in 0..Len(txt)
  OBVIOUS
<1> QED BY <1>1, <1>2 DEF IsSearch

\* Replacements of parts of a text of so many units, in order and disjoint.
IsEdit(R, units) ==
  /\ R \in Seq([start : Nat, old : Nat, new : Nat])
  /\ \A i \in 1..Len(R) :
       R[i].old # 0 /\ End(R[i]) <= units /\ CopyPos(R, i - 1) <= R[i].start

\* So many of n matches are replaced.
HowMany(n, replaceAll) == IF replaceAll \/ n = 0 THEN n ELSE 1

\* R replaces matches m of k units each by w units.
AreReplacements(R, m, k, w, replaceAll) ==
  /\ R \in Seq([start : Nat, old : Nat, new : Nat])
  /\ Len(R) = HowMany(Len(m), replaceAll) /\ Len(R) <= Len(m)
  /\ \A i \in 1..Len(R) : R[i].start = m[i] /\ R[i].old = k /\ R[i].new = w

\* The replacements of a search are its matches, or the first one.
LEMMA ReplacementsAre ==
  ASSUME NEW txt, NEW old, NEW new, NEW replaceAll \in BOOLEAN,
         Len(txt) \in Nat, Len(old) \in Nat, Len(new) \in Nat,
         NEW m, m = FindAll(txt, old), NEW R, R = Replacements(txt, old, new, replaceAll)
  PROVE  AreReplacements(R, m, Len(old), Len(new), replaceAll)
<1> DEFINE k    == Len(old)
           r(i) == [start |-> m[i], old |-> k, new |-> Len(new)]
           all  == [i \in DOMAIN m |-> r(i)]
           N    == IF replaceAll THEN Len(all) ELSE Min({1, Len(all)})
           V    == [start : Nat, old : Nat, new : Nat]
<1>1. R = SubSeq(all, 1, N)
  BY DEF Replacements
<1>2. InOrder(m, k, Len(txt))
  BY FoundInOrder
<1>3. m \in Seq(Nat) /\ Len(m) \in Nat /\ DOMAIN m = 1..Len(m) /\ \A i \in 1..Len(m) : m[i] \in Nat
  BY <1>2 DEF InOrder
<1>4. \A i \in 1..Len(m) : r(i) \in V
  BY <1>3
<1> DEFINE q == [i \in 1..Len(m) |-> r(i)]
<1>5. all = q
  BY <1>3
<1>6. q \in Seq(V) /\ Len(q) = Len(m) /\ \A i \in 1..Len(m) : q[i] = r(i)
  <2> HIDE DEF r, V
  <2> QED BY <1>3, <1>4
<1> HIDE DEF q, all
<1>7. N = HowMany(Len(m), replaceAll)
  <2>1. Len(all) = Len(m)
    BY <1>5, <1>6
  <2> DEFINE S == {1, Len(m)}
             least == Min(S)
  <2>2. S \subseteq Nat /\ S # {}
    BY <1>3
  <2>3. least \in S /\ \A y \in S : least <= y
    <3> HIDE DEF S
    <3> QED BY <2>2, MinIs, Zenon
  <2>4. N = IF replaceAll THEN Len(m) ELSE least
    BY <2>1
  <2> HIDE DEF N, least
  <2>5. least = IF Len(m) = 0 THEN 0 ELSE 1
    <3> DEFINE z == Len(m)
    <3>1. z \in Nat /\ (least = 1 \/ least = z) /\ least <= 1 /\ least <= z
      BY <1>3, <2>3, Zenon
    <3> HIDE DEF z
    <3>2. least = IF z = 0 THEN 0 ELSE 1
      BY <3>1
    <3> QED BY <3>2 DEF z
  <2> QED BY <2>4, <2>5 DEF HowMany
<1>8. N \in Nat /\ N <= Len(m)
  BY <1>3, <1>7 DEF HowMany
<1> HIDE DEF N, r
<1>9. R \in Seq(V) /\ Len(R) = N /\ \A i \in 1..N : R[i] = r(i)
  <2>1. R = SubSeq(q, 1, N)
    BY <1>1, <1>5
  <2> HIDE DEF V
  <2>2. R \in Seq(V) /\ Len(R) = N /\ \A i \in 1..N : R[i] = q[i]
    BY <1>3, <1>6, <1>8, <2>1
  <2>3. \A i \in 1..N : i \in 1..Len(m)
    BY <1>3, <1>8
  <2> QED BY <1>6, <2>2, <2>3
<1>10. \A i \in 1..Len(R) : R[i].start = m[i] /\ R[i].old = k /\ R[i].new = Len(new)
  BY <1>9 DEF r
<1> QED BY <1>7, <1>8, <1>9, <1>10 DEF AreReplacements

\* Replacing what is found is an edit.
LEMMA ReplacementsAreAnEdit ==
  ASSUME NEW txt, NEW old, NEW new, NEW replaceAll \in BOOLEAN,
         Len(txt) \in Nat, Len(old) \in Nat, Len(new) \in Nat, Len(old) # 0
  PROVE  /\ IsEdit(Replacements(txt, old, new, replaceAll), Len(txt))
         /\ \A i \in 1..Len(Replacements(txt, old, new, replaceAll)) :
              Replacements(txt, old, new, replaceAll)[i].new = Len(new)
<1> DEFINE m == FindAll(txt, old)
           k == Len(old)
           R == Replacements(txt, old, new, replaceAll)
           N == Len(R)
<1>1. InOrder(m, k, Len(txt))
  BY FoundInOrder
<1>2. /\ m \in Seq(Nat) /\ Len(m) \in Nat /\ \A i \in 1..Len(m) : m[i] \in Nat
      /\ \A i \in 1..Len(m) : m[i] + k <= Len(txt)
      /\ \A i \in 1..Len(m) - 1 : m[i] + k <= m[i + 1]
  BY <1>1 DEF InOrder
<1> HIDE DEF m, R
<1>3. /\ R \in Seq([start : Nat, old : Nat, new : Nat]) /\ N <= Len(m)
      /\ \A i \in 1..N : R[i].start = m[i] /\ R[i].old = k /\ R[i].new = Len(new)
  <2>1. AreReplacements(R, m, k, Len(new), replaceAll)
    BY ReplacementsAre DEF m, R
  <2> QED BY <2>1 DEF AreReplacements
<1>4. N \in Nat
  BY <1>3
<1> HIDE DEF N
<1>5. ASSUME NEW i \in 1..N
      PROVE  R[i].old # 0 /\ End(R[i]) <= Len(txt) /\ CopyPos(R, i - 1) <= R[i].start
  <2>1. i \in 1..Len(m) /\ i \in Nat
    BY <1>2, <1>3, <1>4
  <2>2. R[i].start = m[i] /\ R[i].old = k
    BY <1>3
  <2>3. CASE i = 1
    BY <1>2, <2>1, <2>2, <2>3 DEF CopyPos, End
  <2>4. CASE i # 1
    <3>1. i - 1 \in 1..N /\ i - 1 \in 1..Len(m) - 1 /\ (i - 1) + 1 = i /\ i - 1 # 0
      BY <1>2, <1>3, <1>4, <2>1, <2>4
    <3>2. R[i - 1].start = m[i - 1] /\ R[i - 1].old = k
      BY <1>3, <3>1
    <3>3. CopyPos(R, i - 1) = m[i - 1] + k
      BY <3>1, <3>2 DEF CopyPos, End
    <3>4. m[i - 1] + k <= m[i]
      BY <1>2, <3>1
    <3> QED BY <1>2, <2>1, <2>2, <3>3, <3>4 DEF End
  <2> QED BY <2>3, <2>4
<1> QED BY <1>3, <1>5 DEF IsEdit, R, N

\* What the replacements of an edit are.
LEMMA EditParts ==
  ASSUME NEW units \in Nat, NEW R, IsEdit(R, units)
  PROVE  /\ R \in Seq([start : Nat, old : Nat, new : Nat]) /\ Len(R) \in Nat
         /\ DOMAIN R = 1..Len(R)
         /\ CopyPos(R, 0) = 0
         /\ \A i \in 0..Len(R) : CopyPos(R, i) \in Nat /\ CopyPos(R, i) <= units
         /\ \A i \in 1..Len(R) :
              /\ R[i].start \in Nat /\ R[i].old \in Nat /\ R[i].new \in Nat /\ R[i].old # 0
              /\ End(R[i]) = R[i].start + R[i].old /\ CopyPos(R, i) = R[i].start + R[i].old
              /\ R[i].start + R[i].old <= units
              /\ CopyPos(R, i - 1) <= R[i].start
<1>1. R \in Seq([start : Nat, old : Nat, new : Nat]) /\ Len(R) \in Nat /\ DOMAIN R = 1..Len(R)
  BY DEF IsEdit
<1>2. CopyPos(R, 0) = 0
  BY DEF CopyPos
<1>3. ASSUME NEW i \in 1..Len(R)
      PROVE  /\ R[i].start \in Nat /\ R[i].old \in Nat /\ R[i].new \in Nat /\ R[i].old # 0
             /\ End(R[i]) = R[i].start + R[i].old /\ CopyPos(R, i) = R[i].start + R[i].old
             /\ R[i].start + R[i].old <= units
             /\ CopyPos(R, i - 1) <= R[i].start
  <2>1. R[i].start \in Nat /\ R[i].old \in Nat /\ R[i].new \in Nat
    <3> DEFINE V == [start : Nat, old : Nat, new : Nat]
    <3>1. R \in Seq(V)
      BY <1>1
    <3> HIDE DEF V
    <3>2. R[i] \in V
      BY <3>1
    <3> QED BY <3>2 DEF V
  <2>2. R[i].old # 0 /\ End(R[i]) <= units /\ CopyPos(R, i - 1) <= R[i].start
    BY DEF IsEdit
  <2>3. End(R[i]) = R[i].start + R[i].old
    BY DEF End
  <2>4. i # 0
    OBVIOUS
  <2>5. CopyPos(R, i) = End(R[i])
    BY <2>4 DEF CopyPos
  <2> QED BY <2>1, <2>2, <2>3, <2>5
<1>4. ASSUME NEW i \in 0..Len(R) PROVE CopyPos(R, i) \in Nat /\ CopyPos(R, i) <= units
  <2>1. CASE i = 0
    BY <1>2, <2>1
  <2>2. CASE i # 0
    <3>1. i \in 1..Len(R)
      BY <2>2
    <3>2. /\ R[i].start \in Nat /\ R[i].old \in Nat /\ CopyPos(R, i) = R[i].start + R[i].old
          /\ R[i].start + R[i].old <= units
      BY <1>3, <3>1
    <3> QED BY <3>2
  <2> QED BY <2>1, <2>2
<1> QED BY <1>1, <1>2, <1>3, <1>4

\* How much longer the text becomes, one replacement after the other.
LEMMA Deltas ==
  ASSUME NEW units \in Nat, NEW R, IsEdit(R, units)
  PROVE  /\ Delta(R, 0) = 0 /\ \A i \in 0..Len(R) : Delta(R, i) \in Int
         /\ \A i \in 1..Len(R) : Delta(R, i) = Delta(R, i - 1) + R[i].new - R[i].old
<1> DEFINE N == Len(R)
           Step(i, x) == x + R[i].new - R[i].old
           Body(w) == [i \in 0..N |-> IF i = 0 THEN 0 ELSE w[i - 1] + R[i].new - R[i].old]
           f == CHOOSE w : w = Body(w)
           F == [i \in Nat |-> [x \in Int |-> IF i \in 1..N THEN Step(i, x) ELSE x]]
<1>1. \A i : Delta(R, i) = f[i]
  BY DEF Delta
<1>2. N \in Nat /\ \A i \in 1..N : R[i].new \in Nat /\ R[i].old \in Nat
  BY EditParts
<1> HIDE DEF N
<1>3. PICK w : Solves(w, Int, 0, F, N)
  <2>1. \A i \in 1..N, x \in Int : Step(i, x) \in Int
    BY <1>2
  <2>2. F \in [Nat -> [Int -> Int]] /\ 0 \in Int
    <3> HIDE DEF Step
    <3> QED BY <2>1
  <2> HIDE DEF F
  <2> QED BY <1>2, <2>2, Recursion
<1>4. w \in [0..N -> Int] /\ w[0] = 0 /\ \A n \in 1..N : w[n] = w[n - 1] + R[n].new - R[n].old
  <2>1. w \in [0..N -> Int] /\ w[0] = 0 /\ \A n \in 1..N : w[n] = F[n][w[n - 1]]
    BY <1>3 DEF Solves
  <2>2. ASSUME NEW n \in 1..N PROVE w[n] = w[n - 1] + R[n].new - R[n].old
    <3>1. n \in Nat /\ n - 1 \in 0..N
      BY <1>2
    <3>2. w[n - 1] \in Int
      BY <2>1, <3>1
    <3> QED BY <2>1, <3>1, <3>2
  <2> QED BY <2>1, <2>2
<1> HIDE DEF F
<1>5. w = Body(w)
  <2>1. \A n \in 0..N : w[n] = IF n = 0 THEN 0 ELSE w[n - 1] + R[n].new - R[n].old
    BY <1>2, <1>4
  <2>2. w = [n \in 0..N |-> w[n]]
    BY <1>4
  <2> QED BY <2>1, <2>2
<1>6. f = Body(f)
  <2> HIDE DEF Body
  <2> QED BY <1>5
<1> HIDE DEF f
<1>7. f[0] = 0 /\ \A n \in 1..N : f[n] = f[n - 1] + R[n].new - R[n].old
  <2>1. 0 \in 0..N /\ \A n \in 1..N : n \in 0..N /\ n # 0
    BY <1>2
  <2> QED BY <1>6, <2>1
<1> DEFINE T == {n \in Nat : n <= N => f[n] \in Int}
<1>8. 0 \in T
  BY <1>7
<1>9. ASSUME NEW n \in Nat, n \in T PROVE n + 1 \in T
  <2> SUFFICES ASSUME n + 1 <= N PROVE f[n + 1] \in Int
    OBVIOUS
  <2>1. n <= N /\ n + 1 \in 1..N /\ (n + 1) - 1 = n
    BY <1>2
  <2>2. f[n] \in Int /\ R[n + 1].new \in Nat /\ R[n + 1].old \in Nat
    BY <1>2, <1>9, <2>1
  <2>3. f[n + 1] = f[n] + R[n + 1].new - R[n + 1].old
    BY <1>7, <2>1
  <2> QED BY <2>2, <2>3
<1> HIDE DEF T
<1>10. Nat \subseteq T
  BY <1>8, <1>9, SetInduction
<1>11. \A n \in 0..N : f[n] \in Int
  BY <1>2, <1>10 DEF T
<1> QED BY <1>1, <1>7, <1>11 DEF N

\* Where the text behind the first n replacements goes.
Copied(R, n) == CopyPos(R, n) + Delta(R, n)

\* What is copied later goes further behind.
LEMMA CopiesGrow ==
  ASSUME NEW units \in Nat, NEW R, IsEdit(R, units)
  PROVE  /\ Copied(R, 0) = 0 /\ \A i \in 0..Len(R) : Copied(R, i) \in Int
         /\ \A i \in 1..Len(R) :
              /\ Copied(R, i) = R[i].start + Delta(R, i - 1) + R[i].new
              /\ Copied(R, i - 1) <= R[i].start + Delta(R, i - 1)
         /\ \A i \in 0..Len(R), j \in 0..Len(R) : i <= j => Copied(R, i) <= Copied(R, j)
<1>1. /\ Len(R) \in Nat /\ CopyPos(R, 0) = 0
      /\ \A i \in 0..Len(R) : CopyPos(R, i) \in Nat
      /\ \A i \in 1..Len(R) :
           /\ R[i].start \in Nat /\ R[i].old \in Nat /\ R[i].new \in Nat
           /\ CopyPos(R, i) = R[i].start + R[i].old
           /\ CopyPos(R, i - 1) <= R[i].start
  BY EditParts
<1>2. /\ Delta(R, 0) = 0 /\ \A i \in 0..Len(R) : Delta(R, i) \in Int
      /\ \A i \in 1..Len(R) : Delta(R, i) = Delta(R, i - 1) + R[i].new - R[i].old
  BY Deltas
<1>3. Copied(R, 0) = 0 /\ \A i \in 0..Len(R) : Copied(R, i) \in Int
  BY <1>1, <1>2 DEF Copied
<1>4. ASSUME NEW i \in 1..Len(R)
      PROVE  /\ Copied(R, i) = R[i].start + Delta(R, i - 1) + R[i].new
             /\ Copied(R, i - 1) <= R[i].start + Delta(R, i - 1)
             /\ Copied(R, i - 1) <= Copied(R, i)
  <2>1. i - 1 \in 0..Len(R)
    BY <1>1
  <2>2. Delta(R, i - 1) \in Int /\ Delta(R, i) = Delta(R, i - 1) + R[i].new - R[i].old
    BY <1>2, <2>1
  <2>3. R[i].start \in Nat /\ R[i].old \in Nat /\ R[i].new \in Nat
        /\ CopyPos(R, i) = R[i].start + R[i].old /\ CopyPos(R, i - 1) <= R[i].start
    BY <1>1
  <2>4. CopyPos(R, i - 1) \in Nat
    BY <1>1, <2>1
  <2>5. Copied(R, i) = R[i].start + Delta(R, i - 1) + R[i].new
    BY <2>2, <2>3, SMTT(20) DEF Copied
  <2>6. Copied(R, i - 1) = CopyPos(R, i - 1) + Delta(R, i - 1)
    BY DEF Copied
  <2> QED BY <2>2, <2>3, <2>4, <2>5, <2>6, SMTT(20)
<1>5. ASSUME NEW i \in 0..Len(R), NEW j \in 0..Len(R), i <= j PROVE Copied(R, i) <= Copied(R, j)
  <2> DEFINE T == {n \in Nat : i + n <= Len(R) => Copied(R, i) <= Copied(R, i + n)}
  <2>1. 0 \in T
    BY <1>3
  <2>2. ASSUME NEW n \in Nat, n \in T PROVE n + 1 \in T
    <3> SUFFICES ASSUME i + (n + 1) <= Len(R) PROVE Copied(R, i) <= Copied(R, i + (n + 1))
      OBVIOUS
    <3> DEFINE x == i + (n + 1)
    <3>1. x \in 1..Len(R) /\ x - 1 = i + n /\ i + n \in 0..Len(R) /\ i + n <= Len(R)
      BY <1>1
    <3> HIDE DEF x
    <3>2. Copied(R, i) <= Copied(R, i + n)
      BY <2>2, <3>1
    <3>3. Copied(R, x - 1) <= Copied(R, x)
      BY <1>4, <3>1
    <3>4. Copied(R, x - 1) = Copied(R, i + n)
      BY <3>1
    <3>5. Copied(R, i) \in Int /\ Copied(R, i + n) \in Int /\ Copied(R, x) \in Int
      BY <1>1, <1>3, <3>1
    <3>6. Copied(R, i) <= Copied(R, x)
      BY <3>2, <3>3, <3>4, <3>5
    <3> QED BY <3>6 DEF x
  <2> HIDE DEF T
  <2>3. j - i \in T
    <3>1. j - i \in Nat
      BY <1>1, <1>5
    <3> QED BY <2>1, <2>2, <3>1, SetInduction
  <2>4. i + (j - i) = j /\ j <= Len(R)
    BY <1>1
  <2> QED BY <2>3, <2>4 DEF T
<1> QED BY <1>3, <1>4, <1>5

\* Which replacement decides where a place goes.
Decides(R, index, next) ==
  /\ next \in 1..Len(R) + 1
  /\ next \in 1..Len(R) => index <= End(R[next])
  /\ \A i \in 1..Len(R) : i < next => End(R[i]) < index

\* Where a place goes, by the replacement that decides.
LEMMA PlaceMoved ==
  ASSUME NEW units \in Nat, NEW R, IsEdit(R, units), NEW index \in Nat
  PROVE  \E next \in 1..Len(R) + 1 :
           /\ Decides(R, index, next)
           /\ RemapPlainIndex(index, R)
                = IF next \notin 1..Len(R) \/ index < R[next].start
                    THEN index + Delta(R, next - 1)
                  ELSE IF index = End(R[next]) /\ index # R[next].start
                    THEN R[next].start + Delta(R, next - 1) + R[next].new
                  ELSE R[next].start + Delta(R, next - 1)
                         + Min({index - R[next].start, R[next].new})
<1> DEFINE I    == {i \in 1..Len(R) + 1 : i \in DOMAIN R => index <= End(R[i])}
           next == Min(I)
<1>1. /\ Len(R) \in Nat /\ DOMAIN R = 1..Len(R)
      /\ \A i \in 1..Len(R) : End(R[i]) = R[i].start + R[i].old /\ R[i].start \in Nat
                              /\ R[i].old \in Nat
  BY EditParts
<1>2. Len(R) + 1 \in I
  BY <1>1
<1>3. I \subseteq Nat /\ I # {}
  BY <1>1, <1>2
<1>4. next \in I /\ \A y \in I : next <= y
  <2> HIDE DEF I
  <2> QED BY <1>3, MinIs
<1>5. RemapPlainIndex(index, R)
        = IF next \notin 1..Len(R) \/ index < R[next].start
            THEN index + Delta(R, next - 1)
          ELSE IF index = End(R[next]) /\ index # R[next].start
            THEN R[next].start + Delta(R, next - 1) + R[next].new
          ELSE R[next].start + Delta(R, next - 1)
                 + Min({index - R[next].start, R[next].new})
  <2>1. DOMAIN R = 1..Len(R)
    BY <1>1
  <2> QED BY <2>1 DEF RemapPlainIndex
<1> HIDE DEF next
<1>6. Decides(R, index, next)
  <2>1. next \in 1..Len(R) + 1 /\ (next \in 1..Len(R) => index <= End(R[next]))
    BY <1>1, <1>4
  <2>2. ASSUME NEW i \in 1..Len(R), i < next PROVE End(R[i]) < index
    <3>1. i \notin I
      BY <1>1, <1>3, <1>4, <2>2
    <3>2. ~(index <= End(R[i]))
      BY <1>1, <3>1
    <3>3. End(R[i]) \in Nat
      BY <1>1
    <3> QED BY <3>2, <3>3
  <2> QED BY <2>1, <2>2 DEF Decides
<1>7. next \in 1..Len(R) + 1
  BY <1>4
<1> QED BY <1>5, <1>6, <1>7

\* Where a place goes lies between the copies around it.
LEMMA PlaceBetween ==
  ASSUME NEW units \in Nat, NEW R, IsEdit(R, units), NEW index \in 0..units,
         NEW next, Decides(R, index, next)
  PROVE  /\ next \in 1..Len(R) + 1
         /\ RemapPlainIndex(index, R) \in Int
         /\ Copied(R, next - 1) <= RemapPlainIndex(index, R)
         /\ next \in 1..Len(R) => RemapPlainIndex(index, R) <= Copied(R, next)
         /\ next \notin 1..Len(R) => RemapPlainIndex(index, R) = index + Delta(R, Len(R))
         /\ next \in 1..Len(R) =>
              RemapPlainIndex(index, R)
                = IF index < R[next].start THEN index + Delta(R, next - 1)
                  ELSE IF index = End(R[next])
                    THEN R[next].start + Delta(R, next - 1) + R[next].new
                  ELSE R[next].start + Delta(R, next - 1)
                         + (IF index - R[next].start <= R[next].new
                            THEN index - R[next].start ELSE R[next].new)
<1> DEFINE f == RemapPlainIndex(index, R)
           d == Delta(R, next - 1)
           s == R[next].start
           w == R[next].new
           o == R[next].old
<1>1. /\ Len(R) \in Nat /\ CopyPos(R, 0) = 0
      /\ \A i \in 0..Len(R) : CopyPos(R, i) \in Nat
      /\ \A i \in 1..Len(R) :
           /\ R[i].start \in Nat /\ R[i].old \in Nat /\ R[i].new \in Nat /\ R[i].old # 0
           /\ End(R[i]) = R[i].start + R[i].old
           /\ CopyPos(R, i) = R[i].start + R[i].old
           /\ CopyPos(R, i - 1) <= R[i].start
  BY EditParts
<1>2. next \in 1..Len(R) + 1 /\ next \in Nat
  BY <1>1 DEF Decides
<1>3. PICK n \in 1..Len(R) + 1 :
           /\ Decides(R, index, n)
           /\ RemapPlainIndex(index, R)
                = IF n \notin 1..Len(R) \/ index < R[n].start
                    THEN index + Delta(R, n - 1)
                  ELSE IF index = End(R[n]) /\ index # R[n].start
                    THEN R[n].start + Delta(R, n - 1) + R[n].new
                  ELSE R[n].start + Delta(R, n - 1)
                         + Min({index - R[n].start, R[n].new})
  <2>1. index \in Nat
    OBVIOUS
  <2> QED BY <2>1, PlaceMoved
<1>4. n = next
  <2>1. \A i \in 1..Len(R) : i < next => End(R[i]) < index
    BY DEF Decides
  <2>2. \A i \in 1..Len(R) : i < n => End(R[i]) < index
    BY <1>3 DEF Decides
  <2>3. /\ next \in 1..Len(R) => index <= End(R[next])
        /\ n \in 1..Len(R) => index <= End(R[n])
    BY <1>3 DEF Decides
  <2>4. ~(n < next)
    <3> SUFFICES ASSUME n < next PROVE FALSE
      OBVIOUS
    <3>1. n \in 1..Len(R)
      BY <1>1, <1>2
    <3>2. End(R[n]) \in Nat
      BY <1>1, <3>1
    <3>3. index \in Nat
      OBVIOUS
    <3> QED BY <2>1, <2>3, <3>1, <3>2, <3>3
  <2>5. ~(next < n)
    <3> SUFFICES ASSUME next < n PROVE FALSE
      OBVIOUS
    <3>1. next \in 1..Len(R)
      BY <1>1, <1>2
    <3>2. End(R[next]) \in Nat
      BY <1>1, <3>1
    <3>3. index \in Nat
      OBVIOUS
    <3> QED BY <2>2, <2>3, <3>1, <3>2, <3>3
  <2> QED BY <1>1, <1>2, <2>4, <2>5
<1>5. /\ \A i \in 0..Len(R) : Copied(R, i) \in Int
      /\ \A i \in 1..Len(R) :
           /\ Copied(R, i) = R[i].start + Delta(R, i - 1) + R[i].new
           /\ Copied(R, i - 1) <= R[i].start + Delta(R, i - 1)
  BY CopiesGrow
<1>6. next - 1 \in 0..Len(R) /\ d \in Int /\ Copied(R, next - 1) = CopyPos(R, next - 1) + d
  <2>1. next - 1 \in 0..Len(R)
    BY <1>1, <1>2
  <2> QED BY <2>1, Deltas DEF Copied
<1>7. CopyPos(R, next - 1) <= index
  <2>1. CASE next = 1
    BY <1>1, <2>1
  <2>2. CASE next # 1
    <3>1. next - 1 \in 1..Len(R) /\ next - 1 < next
      BY <1>1, <1>2, <2>2
    <3>2. End(R[next - 1]) < index
      BY <3>1 DEF Decides
    <3>3. CopyPos(R, next - 1) = End(R[next - 1]) /\ End(R[next - 1]) \in Nat
      BY <1>1, <3>1
    <3> QED BY <3>2, <3>3
  <2> QED BY <2>1, <2>2
<1>8. CASE next \notin 1..Len(R)
  <2>1. next = Len(R) + 1 /\ next - 1 = Len(R)
    BY <1>1, <1>2, <1>8
  <2>2. f = index + d
    BY <1>3, <1>4, <1>8
  <2>3. CopyPos(R, next - 1) \in Nat
    BY <1>1, <1>6
  <2>4. d = Delta(R, Len(R))
    BY <2>1
  <2> QED BY <1>2, <1>6, <1>7, <1>8, <2>2, <2>3, <2>4
<1>9. CASE next \in 1..Len(R)
  <2>1. /\ s \in Nat /\ o \in Nat /\ w \in Nat /\ o # 0 /\ End(R[next]) = s + o
        /\ CopyPos(R, next - 1) <= s /\ CopyPos(R, next - 1) \in Nat
    BY <1>1, <1>6, <1>9
  <2>2. Copied(R, next) = s + d + w
    BY <1>5, <1>9
  <2>3. index <= s + o
    BY <1>9, <2>1 DEF Decides
  <2>4. f = IF index < s THEN index + d
            ELSE IF index = s + o /\ index # s THEN s + d + w
            ELSE s + d + Min({index - s, w})
    BY <1>3, <1>4, <1>9, <2>1
  <2> HIDE DEF f, s, w, o, d
  <2>5. index \in Nat
    OBVIOUS
  <2>6. ASSUME ~(index < s) PROVE Min({index - s, w}) = IF index - s <= w THEN index - s ELSE w
    <3> DEFINE S == {index - s, w}
    <3>1. S \subseteq Nat /\ S # {}
      BY <2>1, <2>5, <2>6
    <3> HIDE DEF S
    <3>2. Min(S) \in S /\ \A y \in S : Min(S) <= y
      BY <3>1, MinIs
    <3> DEFINE m == Min(S)
    <3>3. m \in S /\ \A y \in S : m <= y
      BY <3>2
    <3> HIDE DEF m
    <3>4. m = IF index - s <= w THEN index - s ELSE w
      BY <2>1, <2>5, <2>6, <3>3 DEF S
    <3> QED BY <3>4 DEF m, S
  <2>7. f = IF index < s THEN index + d
            ELSE IF index = s + o THEN s + d + w
            ELSE s + d + (IF index - s <= w THEN index - s ELSE w)
    <3>1. CASE index < s
      BY <2>4, <3>1
    <3>2. CASE ~(index < s)
      <4>1. f = IF index = s + o /\ index # s THEN s + d + w
                ELSE s + d + (IF index - s <= w THEN index - s ELSE w)
        BY <2>4, <2>6, <3>2
      <4> QED BY <2>1, <2>5, <3>2, <4>1
    <3> QED BY <3>1, <3>2
  <2>8. f \in Int /\ CopyPos(R, next - 1) + d <= f /\ f <= s + d + w
    BY <1>6, <1>7, <2>1, <2>5, <2>7, SMTT(20)
  <2>9. f = RemapPlainIndex(index, R) /\ s = R[next].start /\ w = R[next].new
        /\ d = Delta(R, next - 1) /\ End(R[next]) = s + o
    BY <2>1 DEF f, s, w, d, o
  <2> QED BY <1>2, <1>6, <1>9, <2>2, <2>7, <2>8, <2>9
<1> QED BY <1>8, <1>9

\* Places keep their order.
LEMMA PlacesKeepOrder ==
  ASSUME NEW units \in Nat, NEW R, IsEdit(R, units), NEW a \in 0..units, NEW b \in 0..units,
         a <= b
  PROVE  /\ RemapPlainIndex(a, R) \in Int /\ RemapPlainIndex(b, R) \in Int
         /\ RemapPlainIndex(a, R) <= RemapPlainIndex(b, R)
<1>1. PICK i \in 1..Len(R) + 1 : Decides(R, a, i)
  <2>1. a \in Nat
    OBVIOUS
  <2> QED BY <2>1, PlaceMoved
<1>2. PICK j \in 1..Len(R) + 1 : Decides(R, b, j)
  <2>1. b \in Nat
    OBVIOUS
  <2> QED BY <2>1, PlaceMoved
<1>3. /\ Len(R) \in Nat
      /\ \A x \in 1..Len(R) :
           /\ R[x].start \in Nat /\ R[x].old \in Nat /\ R[x].new \in Nat
           /\ End(R[x]) = R[x].start + R[x].old
           /\ R[x].old # 0
  BY EditParts
<1> DEFINE f == RemapPlainIndex(a, R)
           g == RemapPlainIndex(b, R)
<1>4. /\ f \in Int
      /\ i \in 1..Len(R) => f <= Copied(R, i)
      /\ i \notin 1..Len(R) => f = a + Delta(R, Len(R))
      /\ i \in 1..Len(R) =>
              f = IF a < R[i].start THEN a + Delta(R, i - 1)
                  ELSE IF a = End(R[i])
                    THEN R[i].start + Delta(R, i - 1) + R[i].new
                  ELSE R[i].start + Delta(R, i - 1)
                         + (IF a - R[i].start <= R[i].new
                            THEN a - R[i].start ELSE R[i].new)
  BY <1>1, PlaceBetween
<1>5. /\ g \in Int
      /\ Copied(R, j - 1) <= g
      /\ j \notin 1..Len(R) => g = b + Delta(R, Len(R))
      /\ j \in 1..Len(R) =>
              g = IF b < R[j].start THEN b + Delta(R, j - 1)
                  ELSE IF b = End(R[j])
                    THEN R[j].start + Delta(R, j - 1) + R[j].new
                  ELSE R[j].start + Delta(R, j - 1)
                         + (IF b - R[j].start <= R[j].new
                            THEN b - R[j].start ELSE R[j].new)
  BY <1>2, PlaceBetween
<1> HIDE DEF f, g
<1>6. i <= j
  <2>0. i \in Nat /\ j \in Nat
    BY <1>3
  <2> SUFFICES ASSUME j < i PROVE FALSE
    BY <2>0
  <2>1. j \in 1..Len(R)
    BY <1>3
  <2>2. b <= End(R[j])
    BY <1>2, <2>1 DEF Decides
  <2>3. End(R[j]) < a
    BY <1>1, <2>1 DEF Decides
  <2>4. End(R[j]) \in Nat
    <3>1. R[j].start \in Nat /\ R[j].old \in Nat /\ End(R[j]) = R[j].start + R[j].old
      BY <1>3, <2>1
    <3> QED BY <3>1, SMTT(20)
  <2>5. a \in Nat /\ b \in Nat
    OBVIOUS
  <2> QED BY <2>2, <2>3, <2>4, <2>5
<1>7. CASE i = j /\ i \notin 1..Len(R)
  <2>1. Delta(R, Len(R)) \in Int
    BY <1>3, Deltas
  <2>2. f = a + Delta(R, Len(R)) /\ g = b + Delta(R, Len(R))
    BY <1>4, <1>5, <1>7
  <2> QED BY <1>4, <1>5, <2>1, <2>2 DEF f, g
<1>8. CASE i = j /\ i \in 1..Len(R)
  <2> DEFINE s == R[i].start
             w == R[i].new
             o == R[i].old
             d == Delta(R, i - 1)
  <2>1. s \in Nat /\ w \in Nat /\ o \in Nat /\ End(R[i]) = s + o /\ o # 0
    BY <1>3, <1>8
  <2>2. d \in Int
    <3>1. i - 1 \in 0..Len(R)
      BY <1>3
    <3> QED BY <3>1, Deltas
  <2>3. a <= s + o /\ b <= s + o
    BY <1>1, <1>2, <1>8, <2>1 DEF Decides
  <2>4. f = IF a < s THEN a + d
            ELSE IF a = s + o THEN s + d + w
            ELSE s + d + (IF a - s <= w THEN a - s ELSE w)
    BY <1>4, <1>8, <2>1
  <2>5. g = IF b < s THEN b + d
            ELSE IF b = s + o THEN s + d + w
            ELSE s + d + (IF b - s <= w THEN b - s ELSE w)
    BY <1>5, <1>8, <2>1
  <2> HIDE DEF s, w, o, d
  <2>6. a \in Nat /\ b \in Nat
    OBVIOUS
  <2>7. f <= g
    BY <2>1, <2>2, <2>3, <2>4, <2>5, <2>6
  <2> QED BY <1>4, <1>5, <2>7 DEF f, g
<1>9. CASE i < j
  <2>1. i \in 1..Len(R) /\ i \in 0..Len(R) /\ j - 1 \in 0..Len(R) /\ i <= j - 1
    BY <1>3, <1>9
  <2>2. f <= Copied(R, i)
    BY <1>4, <2>1
  <2> DEFINE k == j - 1
  <2>3. k \in 0..Len(R) /\ i <= k /\ Copied(R, k) <= g
    BY <1>5, <2>1
  <2> HIDE DEF k
  <2>4. Copied(R, i) <= Copied(R, k) /\ Copied(R, i) \in Int /\ Copied(R, k) \in Int
    BY <2>1, <2>3, CopiesGrow
  <2>5. f <= g
    BY <1>4, <1>5, <2>2, <2>3, <2>4
  <2> QED BY <1>4, <1>5, <2>5 DEF f, g
<1> QED BY <1>3, <1>6, <1>7, <1>8, <1>9

\* The beginning of the text stays its beginning.
LEMMA BeginningStays ==
  ASSUME NEW units \in Nat, NEW R, IsEdit(R, units)
  PROVE  RemapPlainIndex(0, R) = 0
<1>1. 0 \in Nat /\ 0 \in 0..units
  OBVIOUS
<1>2. PICK i \in 1..Len(R) + 1 : Decides(R, 0, i)
  BY <1>1, PlaceMoved
<1>3. /\ Len(R) \in Nat
      /\ \A x \in 1..Len(R) :
           /\ R[x].start \in Nat /\ R[x].old \in Nat /\ R[x].new \in Nat
           /\ End(R[x]) = R[x].start + R[x].old
           /\ R[x].old # 0
  BY EditParts
<1>4. i = 1
  <2> SUFFICES ASSUME i # 1 PROVE FALSE
    OBVIOUS
  <2>1. 1 \in 1..Len(R) /\ 1 < i
    BY <1>3
  <2>2. End(R[1]) < 0
    BY <1>2, <2>1 DEF Decides
  <2>3. End(R[1]) \in Nat
    BY <1>3, <2>1, SMTT(20)
  <2> QED BY <2>2, <2>3
<1>5. Delta(R, 0) = 0
  BY Deltas
<1> DEFINE f == RemapPlainIndex(0, R)
<1>6. /\ i \notin 1..Len(R) => f = 0 + Delta(R, Len(R))
      /\ i \in 1..Len(R) =>
              f = IF 0 < R[i].start THEN 0 + Delta(R, i - 1)
                  ELSE IF 0 = End(R[i])
                    THEN R[i].start + Delta(R, i - 1) + R[i].new
                  ELSE R[i].start + Delta(R, i - 1)
                         + (IF 0 - R[i].start <= R[i].new
                            THEN 0 - R[i].start ELSE R[i].new)
  BY <1>1, <1>2, PlaceBetween
<1> HIDE DEF f
<1>7. CASE 1 \notin 1..Len(R)
  <2>1. Len(R) = 0
    BY <1>3, <1>7
  <2>2. f = 0 + Delta(R, 0)
    BY <1>4, <1>6, <1>7, <2>1
  <2> QED BY <1>5, <2>2 DEF f
<1>8. CASE 1 \in 1..Len(R)
  <2>1. /\ R[1].start \in Nat /\ R[1].old \in Nat /\ R[1].new \in Nat
        /\ End(R[1]) = R[1].start + R[1].old /\ R[1].old # 0
    BY <1>3, <1>8
  <2>2. 1 - 1 = 0
    OBVIOUS
  <2>3. f = IF 0 < R[1].start THEN 0 + Delta(R, 0)
                  ELSE IF 0 = End(R[1])
                    THEN R[1].start + Delta(R, 0) + R[1].new
                  ELSE R[1].start + Delta(R, 0)
                         + (IF 0 - R[1].start <= R[1].new
                            THEN 0 - R[1].start ELSE R[1].new)
    BY <1>4, <1>6, <1>8, <2>2
  <2>4. f = 0
    BY <1>5, <2>1, <2>3
  <2> QED BY <2>4 DEF f
<1> QED BY <1>7, <1>8

\* The end of the text stays its end.
LEMMA EndStays ==
  ASSUME NEW units \in Nat, NEW R, IsEdit(R, units)
  PROVE  RemapPlainIndex(units, R) = units + Delta(R, Len(R))
<1>1. units \in 0..units
  OBVIOUS
<1>2. PICK i \in 1..Len(R) + 1 : Decides(R, units, i)
  BY PlaceMoved
<1>3. /\ Len(R) \in Nat
      /\ \A x \in 0..Len(R) : CopyPos(R, x) \in Nat
      /\ \A x \in 1..Len(R) :
           /\ R[x].start \in Nat /\ R[x].old \in Nat /\ R[x].new \in Nat
           /\ End(R[x]) = R[x].start + R[x].old
           /\ R[x].old # 0
           /\ R[x].start + R[x].old <= units
           /\ CopyPos(R, x) = R[x].start + R[x].old
           /\ CopyPos(R, x - 1) <= R[x].start
  BY EditParts
<1> DEFINE f == RemapPlainIndex(units, R)
<1>6. /\ i \notin 1..Len(R) => f = units + Delta(R, Len(R))
      /\ i \in 1..Len(R) =>
              f = IF units < R[i].start THEN units + Delta(R, i - 1)
                  ELSE IF units = End(R[i])
                    THEN R[i].start + Delta(R, i - 1) + R[i].new
                  ELSE R[i].start + Delta(R, i - 1)
                         + (IF units - R[i].start <= R[i].new
                            THEN units - R[i].start ELSE R[i].new)
  BY <1>1, <1>2, PlaceBetween
<1> HIDE DEF f
<1>7. CASE i \notin 1..Len(R)
  BY <1>6, <1>7 DEF f
<1>8. CASE i \in 1..Len(R)
  <2>1. /\ R[i].start \in Nat /\ R[i].old \in Nat /\ R[i].new \in Nat
        /\ End(R[i]) = R[i].start + R[i].old /\ R[i].old # 0
        /\ R[i].start + R[i].old <= units
    BY <1>3, <1>8
  <2>2. units <= End(R[i])
    BY <1>2, <1>8 DEF Decides
  <2>3. i = Len(R)
    <3> SUFFICES ASSUME i # Len(R) PROVE FALSE
      OBVIOUS
    <3> DEFINE j == i + 1
    <3>1. j \in 1..Len(R) /\ j - 1 = i
      BY <1>3, <1>8
    <3> HIDE DEF j
    <3>2. R[j].start \in Nat /\ R[j].old \in Nat /\ R[j].old # 0
          /\ R[j].start + R[j].old <= units /\ CopyPos(R, j - 1) <= R[j].start
      BY <1>3, <3>1
    <3>3. CopyPos(R, i) = R[i].start + R[i].old /\ CopyPos(R, i) <= R[j].start
      BY <1>3, <1>8, <3>1, <3>2
    <3>4. units <= R[j].start
      BY <2>1, <2>2, <3>3
    <3> QED BY <3>2, <3>4
  <2>4. Delta(R, i - 1) \in Int /\ Delta(R, i) = Delta(R, i - 1) + R[i].new - R[i].old
    <3>1. i - 1 \in 0..Len(R)
      BY <1>3
    <3> QED BY <1>8, <3>1, Deltas
  <2>5. f = R[i].start + Delta(R, i - 1) + R[i].new
    <3>1. ~(units < R[i].start) /\ units = End(R[i])
      BY <2>1, <2>2
    <3> QED BY <1>6, <1>8, <3>1
  <2>6. f = units + Delta(R, i)
    <3> DEFINE d == Delta(R, i - 1)
               e == Delta(R, i)
               w == R[i].new
               s == R[i].start
               o == R[i].old
    <3>0. units = s + o
      BY <2>1, <2>2
    <3>1. /\ d \in Int /\ w \in Nat /\ s \in Nat /\ o \in Nat
          /\ e = d + w - o /\ f = s + d + w /\ units = s + o
      BY <2>1, <2>4, <2>5, <3>0
    <3> HIDE DEF d, e, w, s, o
    <3>2. f = units + e
      BY <3>1
    <3> QED BY <3>2 DEF e
  <2> QED BY <2>3, <2>6 DEF f
<1> QED BY <1>7, <1>8

\* f has what was copied up to the end of every replacement.
IsCopying(f, txt, R, new, U) ==
  /\ \A n \in 0..Len(R) : f[n] \in Seq(U) /\ Len(f[n]) = Copied(R, n)
  /\ \A n \in 1..Len(R) :
       f[n] = f[n - 1] \o SubSeq(txt, CopyPos(R, n - 1) + 1, R[n].start) \o new
  /\ ReplacedText(txt, R, new)
       = f[Len(R)] \o SubSeq(txt, CopyPos(R, Len(R)) + 1, Len(txt))

\* A text is copied in such steps.
LEMMA TextCopied ==
  ASSUME NEW U, NEW txt \in Seq(U), NEW new \in Seq(U), NEW R, IsEdit(R, Len(txt)),
         \A i \in 1..Len(R) : R[i].new = Len(new)
  PROVE  \E f : IsCopying(f, txt, R, new, U)
<1> DEFINE N == Len(R)
           units == Len(txt)
           Step(n, x) == x \o SubSeq(txt, CopyPos(R, n - 1) + 1, R[n].start) \o new
           Body(w) == [n \in 0..N |-> IF n = 0 THEN <<>> ELSE Step(n, w[n - 1])]
           f == CHOOSE w : w = Body(w)
           F == [n \in Nat |-> [x \in Seq(U) |-> IF n \in 1..N THEN Step(n, x) ELSE x]]
<1>1. ReplacedText(txt, R, new) = f[N] \o SubSeq(txt, CopyPos(R, N) + 1, units)
  BY DEF ReplacedText
<1>2. units \in Nat /\ Len(new) \in Nat
  OBVIOUS
<1>3. /\ N \in Nat /\ CopyPos(R, 0) = 0
      /\ \A i \in 0..N : CopyPos(R, i) \in Nat /\ CopyPos(R, i) <= units
      /\ \A i \in 1..N :
           /\ R[i].start \in Nat /\ R[i].old \in Nat
           /\ R[i].start + R[i].old <= units
           /\ CopyPos(R, i - 1) <= R[i].start
  BY <1>2, EditParts
<1>4. /\ Copied(R, 0) = 0 /\ \A i \in 0..N : Copied(R, i) \in Int
      /\ \A i \in 1..N : Copied(R, i) = R[i].start + Delta(R, i - 1) + R[i].new
  BY <1>2, CopiesGrow
<1>5. \A i \in 0..N : Delta(R, i) \in Int
  BY <1>2, Deltas
<1> HIDE DEF N
<1>6. ASSUME NEW n \in 1..N, NEW x \in Seq(U)
      PROVE  /\ Step(n, x) \in Seq(U)
             /\ Len(Step(n, x)) = Len(x) + (R[n].start - CopyPos(R, n - 1)) + Len(new)
  <2> DEFINE a == CopyPos(R, n - 1)
             b == R[n].start
             y == SubSeq(txt, a + 1, b)
  <2>1. a \in Nat /\ b \in Nat /\ a <= b /\ b <= units
    <3>1. n - 1 \in 0..N
      BY <1>3
    <3>2. R[n].start \in Nat /\ R[n].old \in Nat /\ R[n].start + R[n].old <= units
      BY <1>3
    <3>3. a \in Nat /\ a <= b
      BY <1>3, <3>1
    <3>4. b \in Nat /\ b <= units
      BY <1>2, <3>2
    <3> QED BY <3>3, <3>4
  <2> HIDE DEF a, b
  <2>2. y \in Seq(U) /\ Len(y) = b - a
    <3>1. Len(y) = IF a + 1 <= b THEN b - (a + 1) + 1 ELSE 0
      BY <2>1
    <3> HIDE DEF y
    <3>2. Len(y) = b - a
      BY <2>1, <3>1
    <3>3. y \in Seq(U)
      BY <2>1 DEF y
    <3> QED BY <3>2, <3>3
  <2>3. Step(n, x) = (x \o y) \o new
    BY DEF a, b
  <2> HIDE DEF y, Step
  <2>2a. y \in Seq(U)
    BY <2>2
  <2>4. x \o y \in Seq(U) /\ Len(x \o y) = Len(x) + Len(y)
    BY <2>2a
  <2> DEFINE z == x \o y
  <2> HIDE DEF z
  <2>5. z \in Seq(U) /\ Len(z) = Len(x) + Len(y) /\ Step(n, x) = z \o new
    BY <2>3, <2>4 DEF z
  <2>5a. z \in Seq(U)
    BY <2>5
  <2>5b. z \o new \in Seq(U) /\ Len(z \o new) = Len(z) + Len(new)
    BY <2>5a
  <2>6. Step(n, x) \in Seq(U) /\ Len(Step(n, x)) = Len(z) + Len(new)
    BY <2>5, <2>5b
  <2>7. Len(Step(n, x)) = Len(x) + (b - a) + Len(new)
    BY <2>2, <2>5, <2>6
  <2> QED BY <2>6, <2>7 DEF a, b
<1> HIDE DEF Step, units
<1>7. PICK w : Solves(w, Seq(U), <<>>, F, N)
  <2>1. \A n \in 1..N, x \in Seq(U) : Step(n, x) \in Seq(U)
    BY <1>6
  <2>2. F \in [Nat -> [Seq(U) -> Seq(U)]] /\ <<>> \in Seq(U)
    BY <2>1
  <2> HIDE DEF F
  <2> DEFINE V == Seq(U)
             e == <<>>
  <2>3. F \in [Nat -> [V -> V]] /\ e \in V
    BY <2>2
  <2> HIDE DEF V, e
  <2>4. \E w : Solves(w, V, e, F, N)
    BY <1>3, <2>3, Recursion
  <2> QED BY <2>4 DEF V, e
<1>8. w \in [0..N -> Seq(U)] /\ w[0] = <<>> /\ \A n \in 1..N : w[n] = Step(n, w[n - 1])
  <2>1. w \in [0..N -> Seq(U)] /\ w[0] = <<>> /\ \A n \in 1..N : w[n] = F[n][w[n - 1]]
    BY <1>7 DEF Solves
  <2>2. ASSUME NEW n \in 1..N PROVE w[n] = Step(n, w[n - 1])
    <3>1. n \in Nat /\ n - 1 \in 0..N
      BY <1>3
    <3>2. w[n - 1] \in Seq(U)
      BY <2>1, <3>1
    <3> QED BY <2>1, <3>1, <3>2
  <2> QED BY <2>1, <2>2
<1> HIDE DEF F
<1>9. w = Body(w)
  <2>1. \A n \in 0..N : w[n] = IF n = 0 THEN <<>> ELSE Step(n, w[n - 1])
    <3> TAKE n \in 0..N
    <3>1. n # 0 => n \in 1..N
      OBVIOUS
    <3> QED BY <1>8, <3>1
  <2>2. w = [n \in 0..N |-> w[n]]
    BY <1>8
  <2> QED BY <2>1, <2>2
<1>10. f = Body(f)
  <2> HIDE DEF Body
  <2> QED BY <1>9
<1> HIDE DEF f
<1>11. f[0] = <<>> /\ \A n \in 1..N : f[n] = Step(n, f[n - 1])
  <2>1. 0 \in 0..N /\ \A n \in 1..N : n \in 0..N /\ n # 0
    BY <1>3
  <2> QED BY <1>10, <2>1
<1> DEFINE T == {n \in Nat : n <= N => f[n] \in Seq(U) /\ Len(f[n]) = Copied(R, n)}
<1>12. 0 \in T
  <2>1. f[0] \in Seq(U) /\ Len(f[0]) = 0
    BY <1>11
  <2> QED BY <1>4, <2>1
<1>13. ASSUME NEW n \in Nat, n \in T PROVE n + 1 \in T
  <2> SUFFICES ASSUME n + 1 <= N
               PROVE  f[n + 1] \in Seq(U) /\ Len(f[n + 1]) = Copied(R, n + 1)
    OBVIOUS
  <2> DEFINE m == n + 1
             x == f[n]
  <2>0. N \in Nat
    BY <1>3
  <2>1. n <= N /\ m \in 1..N /\ m - 1 = n /\ n \in 0..N
    BY <2>0
  <2>2. x \in Seq(U) /\ Len(x) = Copied(R, n) /\ f[m] = Step(m, x)
    BY <1>11, <1>13, <2>1
  <2> HIDE DEF x, m
  <2>3. Step(m, x) \in Seq(U)
        /\ Len(Step(m, x)) = Len(x) + (R[m].start - CopyPos(R, m - 1)) + Len(new)
    BY <1>6, <2>1, <2>2
  <2>4. Copied(R, m) = R[m].start + Delta(R, n) + Len(new)
    <3>1. R[m].new = Len(new)
      BY <2>1 DEF N
    <3> QED BY <1>4, <2>1, <3>1
  <2>5. Copied(R, n) = CopyPos(R, n) + Delta(R, n) /\ CopyPos(R, m - 1) = CopyPos(R, n)
    BY <2>1 DEF Copied
  <2>6. R[m].start \in Nat /\ CopyPos(R, n) \in Nat /\ Delta(R, n) \in Int
    BY <1>3, <1>5, <2>1
  <2>7. Len(Step(m, x)) = Copied(R, m)
    BY <1>2, <2>2, <2>3, <2>4, <2>5, <2>6
  <2>8. f[m] \in Seq(U) /\ Len(f[m]) = Copied(R, m)
    BY <2>2, <2>3, <2>7
  <2> QED BY <2>8 DEF m
<1> HIDE DEF T
<1>14. Nat \subseteq T
  BY <1>12, <1>13, SetInduction
<1>15. \A n \in 0..N : f[n] \in Seq(U) /\ Len(f[n]) = Copied(R, n)
  BY <1>3, <1>14 DEF T
<1>16. IsCopying(f, txt, R, new, U)
  BY <1>1, <1>11, <1>15 DEF IsCopying, N, Step, units
<1> QED BY <1>16

\* A text that an edit replaced parts of.
LEMMA TextReplaced ==
  ASSUME NEW U, NEW txt \in Seq(U), NEW new \in Seq(U), NEW R, IsEdit(R, Len(txt)),
         \A i \in 1..Len(R) : R[i].new = Len(new)
  PROVE  /\ ReplacedText(txt, R, new) \in Seq(U)
         /\ Len(ReplacedText(txt, R, new)) = Len(txt) + Delta(R, Len(R))
<1> DEFINE N == Len(R)
           units == Len(txt)
<1>1. PICK f : IsCopying(f, txt, R, new, U)
  BY TextCopied
<1>2. units \in Nat /\ N \in Nat /\ N \in 0..N
  BY EditParts
<1>3. CopyPos(R, N) \in Nat /\ CopyPos(R, N) <= units
  <2>1. Len(txt) \in Nat
    BY <1>2
  <2> QED BY <1>2, <2>1, EditParts
<1>5. Delta(R, N) \in Int
  <2>1. Len(txt) \in Nat
    BY <1>2
  <2> QED BY <1>2, <2>1, Deltas
<1>15. /\ f[N] \in Seq(U) /\ Len(f[N]) = Copied(R, N)
       /\ ReplacedText(txt, R, new) = f[N] \o SubSeq(txt, CopyPos(R, N) + 1, units)
  BY <1>1, <1>2 DEF IsCopying
<1> HIDE DEF N
<1> DEFINE c    == CopyPos(R, N)
           rest == SubSeq(txt, c + 1, units)
<1>16. c \in Nat /\ c <= units /\ Delta(R, N) \in Int
  BY <1>3, <1>5
<1>17. rest \in Seq(U) /\ Len(rest) = units - c
  <2> HIDE DEF c
  <2>1. Len(rest) = IF c + 1 <= units THEN units - (c + 1) + 1 ELSE 0
    BY <1>2, <1>16 DEF units
  <2>2. rest \in Seq(U)
    BY <1>2, <1>16 DEF units
  <2> HIDE DEF rest
  <2> QED BY <1>2, <1>16, <2>1, <2>2
<1> DEFINE g == f[N]
<1>18. ReplacedText(txt, R, new) = g \o rest
  BY <1>15
<1>19. g \in Seq(U) /\ Len(g) = c + Delta(R, N)
  BY <1>15 DEF Copied
<1> HIDE DEF g, rest, c
<1>20. g \o rest \in Seq(U) /\ Len(g \o rest) = Len(g) + Len(rest)
  <2>1. g \in Seq(U) /\ rest \in Seq(U)
    BY <1>17, <1>19
  <2> QED BY <2>1
<1>21. Len(g \o rest) = units + Delta(R, N)
  BY <1>2, <1>16, <1>17, <1>19, <1>20
<1> QED BY <1>18, <1>20, <1>21 DEF N, units

\* Places of the engine's text keep their order; its ends stay its ends.
LEMMA EnginePlaces ==
  ASSUME NEW units \in Nat, NEW R, IsEdit(R, units)
  PROVE  /\ RemapEngineIndex(0, units, R) = 0
         /\ RemapEngineIndex(units + 1, units, R) = units + Delta(R, Len(R)) + 1
         /\ \A a \in 0..units + 1 : RemapEngineIndex(a, units, R) \in Int
         /\ \A a \in 0..units + 1, b \in 0..units + 1 :
              a <= b => RemapEngineIndex(a, units, R) <= RemapEngineIndex(b, units, R)
<1> DEFINE h(a) == RemapEngineIndex(a, units, R)
           e    == RemapPlainIndex(units, R)
<1>1. \A a \in 0..units : h(a) = RemapPlainIndex(a, R)
  BY DEF RemapEngineIndex
<1>2. h(0) = 0
  <2>1. 0 \in 0..units
    OBVIOUS
  <2> QED BY <1>1, <2>1, BeginningStays
<1>3. e = units + Delta(R, Len(R))
  BY EndStays
<1>4. e \in Int
  <2>1. units \in 0..units /\ units <= units
    OBVIOUS
  <2> QED BY <2>1, PlacesKeepOrder
<1> HIDE DEF e
<1>5. h(units + 1) = e + 1
  <2>1. ~(units + 1 <= units)
    OBVIOUS
  <2>2. h(units + 1) = e + (units + 1) - units
    BY <2>1 DEF RemapEngineIndex, e
  <2> QED BY <1>4, <2>2
<1>6. \A a \in 0..units : h(a) \in Int /\ h(a) <= e
  <2> TAKE a \in 0..units
  <2>1. units \in 0..units /\ a <= units
    OBVIOUS
  <2>2. RemapPlainIndex(a, R) \in Int /\ RemapPlainIndex(a, R) <= RemapPlainIndex(units, R)
    BY <2>1, PlacesKeepOrder
  <2> QED BY <1>1, <2>2 DEF e
<1>7. \A a \in 0..units, b \in 0..units : a <= b => h(a) <= h(b)
  <2>1. ASSUME NEW a \in 0..units, NEW b \in 0..units, a <= b PROVE h(a) <= h(b)
    <3>1. RemapPlainIndex(a, R) <= RemapPlainIndex(b, R)
      BY <2>1, PlacesKeepOrder
    <3> QED BY <1>1, <3>1
  <2> QED BY <2>1
<1> HIDE DEF h
<1>8. \A a \in 0..units + 1 : a \in 0..units \/ a = units + 1
  OBVIOUS
<1>9. \A a \in 0..units + 1 : h(a) \in Int
  BY <1>4, <1>5, <1>6, <1>8
<1>10. ASSUME NEW a \in 0..units + 1, NEW b \in 0..units + 1, a <= b PROVE h(a) <= h(b)
  <2>1. CASE b \in 0..units
    <3>1. a \in 0..units
      BY <1>10, <2>1
    <3> QED BY <1>7, <1>10, <2>1, <3>1
  <2>2. CASE b = units + 1
    <3>1. CASE a \in 0..units
      <4>1. h(a) \in Int /\ h(a) <= e /\ h(b) = e + 1
        BY <1>5, <1>6, <2>2, <3>1
      <4> QED BY <1>4, <4>1
    <3>2. CASE a = units + 1
      BY <1>9, <2>2, <3>2
    <3> QED BY <1>8, <3>1, <3>2
  <2> QED BY <1>8, <2>1, <2>2
<1>11. h(units + 1) = units + Delta(R, Len(R)) + 1
  BY <1>3, <1>5
<1> QED BY <1>2, <1>9, <1>10, <1>11 DEF h

\* The greatest of the first n values of a function that never falls.
LEMMA GreatestSoFar ==
  ASSUME NEW n \in Nat, NEW g, NEW r \in 1..n, \A i \in 1..n : g[i] \in Int,
         \A i \in 1..n, j \in 1..n : i <= j => g[i] <= g[j]
  PROVE  Max({g[q] : q \in 1..r}) = g[r]
<1> DEFINE S == {g[q] : q \in 1..r}
<1>1. \A q \in 1..r : q \in 1..n /\ q <= r
  OBVIOUS
<1>2. g[r] \in S /\ \A y \in S : g[r] >= y /\ y \in Int
  <2>1. ASSUME NEW y \in S PROVE g[r] >= y /\ y \in Int
    <3>1. PICK q \in 1..r : y = g[q]
      OBVIOUS
    <3>2. q \in 1..n /\ q <= r
      BY <1>1
    <3>3. g[q] <= g[r] /\ g[q] \in Int /\ g[r] \in Int
      BY <3>2
    <3> QED BY <3>1, <3>3
  <2>2. r \in 1..r
    OBVIOUS
  <2> QED BY <2>1, <2>2
<1> HIDE DEF S
<1>3. \E x \in S : \A y \in S : x >= y
  BY <1>2
<1> DEFINE m == Max(S)
<1>4. m \in S /\ \A y \in S : m >= y
  BY <1>3 DEF Max
<1> HIDE DEF m
<1>5. m >= g[r] /\ g[r] >= m /\ m \in Int /\ g[r] \in Int
  BY <1>2, <1>4
<1>6. m = g[r]
  BY <1>5
<1> QED BY <1>6 DEF m, S

\* Remapped runs cover the new text, and start where their starts went.
LEMMA RemappedRuns ==
  ASSUME NEW units \in Nat, NEW R, IsEdit(R, units), NEW s \in Seq(Nat), Total(s) = units + 1
  PROVE  LET t == RemapRunLengths(s, units, R)
         IN  /\ t \in Seq(Nat) /\ Len(t) = Len(s)
             /\ Total(t) = units + Delta(R, Len(R)) + 1
             /\ \A r \in 1..Len(s) + 1 :
                  Start(t, r) = RemapEngineIndex(Start(s, r), units, R)
<1> DEFINE n == Len(s) + 1
           moved == [r \in 1..Len(s) + 1 |-> RemapEngineIndex(Start(s, r), units, R)]
           bound(r) == Max({moved[q] : q \in 1..r})
           t == [r \in 1..Len(s) |-> bound(r + 1) - bound(r)]
<1>1. RemapRunLengths(s, units, R) = t
  BY DEF RemapRunLengths
<1>2. /\ Start(s, 1) = 0 /\ Total(s) = Start(s, n)
      /\ \A r \in 1..n : Start(s, r) \in Nat
  BY Starts
<1>3. n \in Nat /\ Len(s) \in Nat /\ n = Len(s) + 1
  OBVIOUS
<1>4. ASSUME NEW q \in 1..n, NEW r \in 1..n, q <= r PROVE Start(s, q) <= Start(s, r)
  <2>1. q \in 1..(Len(s) + 1) /\ r \in 1..(Len(s) + 1)
    OBVIOUS
  <2> QED BY <1>4, <2>1, StartsGrow
<1> HIDE DEF n
<1>5. ASSUME NEW r \in 1..n PROVE Start(s, r) \in 0..units + 1
  <2>1. n \in 1..n /\ r <= n
    BY <1>3
  <2>2. Start(s, r) <= Start(s, n)
    BY <1>4, <2>1
  <2> QED BY <1>2, <2>1, <2>2
<1>6. \A r \in 1..n : moved[r] = RemapEngineIndex(Start(s, r), units, R)
  BY <1>3
<1> HIDE DEF moved
<1>7. /\ RemapEngineIndex(0, units, R) = 0
      /\ RemapEngineIndex(units + 1, units, R) = units + Delta(R, Len(R)) + 1
      /\ \A a \in 0..units + 1 : RemapEngineIndex(a, units, R) \in Int
      /\ \A a \in 0..units + 1, b \in 0..units + 1 :
           a <= b => RemapEngineIndex(a, units, R) <= RemapEngineIndex(b, units, R)
  BY EnginePlaces
<1>8. \A r \in 1..n : moved[r] \in Int
  BY <1>5, <1>6, <1>7
<1>9. ASSUME NEW q \in 1..n, NEW r \in 1..n, q <= r PROVE moved[q] <= moved[r]
  <2>1. Start(s, q) \in 0..units + 1 /\ Start(s, r) \in 0..units + 1
        /\ Start(s, q) <= Start(s, r)
    BY <1>4, <1>5, <1>9
  <2> QED BY <1>6, <1>7, <2>1
<1>10. \A r \in 1..n : bound(r) = moved[r]
  <2> TAKE r \in 1..n
  <2>1. \A i \in 1..n, j \in 1..n : i <= j => moved[i] <= moved[j]
    BY <1>9
  <2> QED BY <1>3, <1>8, <2>1, GreatestSoFar
<1> HIDE DEF bound
<1>11. \A r \in 1..Len(s) :
         r \in 1..n /\ r + 1 \in 1..n /\ bound(r + 1) - bound(r) \in Nat
  <2> TAKE r \in 1..Len(s)
  <2>1. r \in 1..n /\ r + 1 \in 1..n /\ r <= r + 1
    BY <1>3
  <2>2. moved[r] <= moved[r + 1] /\ moved[r] \in Int /\ moved[r + 1] \in Int
    BY <1>8, <1>9, <2>1
  <2>3. bound(r) = moved[r] /\ bound(r + 1) = moved[r + 1]
    BY <1>10, <2>1
  <2> QED BY <2>1, <2>2, <2>3
<1>12. t \in Seq(Nat) /\ Len(t) = Len(s)
  BY <1>3, <1>11
<1>13. \A r \in 1..Len(s) : t[r] = moved[r + 1] - moved[r]
  <2> TAKE r \in 1..Len(s)
  <2>1. t[r] = bound(r + 1) - bound(r)
    OBVIOUS
  <2> QED BY <1>10, <1>11, <2>1
<1> HIDE DEF t
<1>14. moved[1] = 0
  <2>1. 1 \in 1..n
    BY <1>3
  <2> QED BY <1>2, <1>6, <1>7, <2>1
<1>15. ASSUME NEW r \in 1..Len(t) PROVE moved[r + 1] = moved[r] + t[r]
  <2>1. r \in 1..Len(s)
    BY <1>12
  <2>2. moved[r] \in Int /\ moved[r + 1] \in Int /\ t[r] = moved[r + 1] - moved[r]
    BY <1>8, <1>11, <1>13, <2>1
  <2> QED BY <2>2
<1>16. /\ \A r \in 1..(Len(t) + 1) : Start(t, r) = moved[r]
       /\ Total(t) = moved[Len(t) + 1]
  BY <1>12, <1>14, <1>15, StartsAre
<1>17. Total(t) = units + Delta(R, Len(R)) + 1
  <2>1. Total(t) = moved[n] /\ n \in 1..n
    BY <1>3, <1>12, <1>16
  <2>2. Start(s, n) = units + 1
    BY <1>2
  <2> QED BY <1>6, <1>7, <2>1, <2>2
<1>18. \A r \in 1..Len(s) + 1 : Start(t, r) = RemapEngineIndex(Start(s, r), units, R)
  <2> TAKE r \in 1..Len(s) + 1
  <2>1. r \in 1..n /\ r \in 1..(Len(t) + 1)
    BY <1>3, <1>12
  <2> QED BY <1>6, <1>16, <2>1
<1> QED BY <1>1, <1>12, <1>17, <1>18

\* Runs stay runs, and boundaries go where the indexes that name them go.
LEMMA RemappedBoundaries ==
  ASSUME NEW units \in Nat, NEW R, IsEdit(R, units), NEW V, NEW runs,
         IsRuns(runs, units + 1, V), NEW new,
         new = [runs EXCEPT !.lengths = RemapRunLengths(@, units, R)]
  PROVE  /\ IsRuns(new, units + Delta(R, Len(R)) + 1, V)
         /\ \A b \in Boundaries(runs.lengths) :
              RemapEngineIndex(b, units, R) \in Boundaries(new.lengths)
<1> DEFINE s == runs.lengths
           t == RemapRunLengths(s, units, R)
<1>1. /\ runs \in [lengths : Seq(Nat), values : Seq(V)]
      /\ Len(runs.lengths) = Len(runs.values) /\ Total(runs.lengths) = units + 1
  BY DEF IsRuns
<1>2. new = [lengths |-> t, values |-> runs.values]
  <2> HIDE DEF t
  <2>1. new = [runs EXCEPT !.lengths = t]
    BY DEF t
  <2> QED BY <1>1, <2>1
<1>3. s \in Seq(Nat) /\ Total(s) = units + 1 /\ Len(s) = Len(runs.values)
  BY <1>1
<1> HIDE DEF s
<1>4. /\ t \in Seq(Nat) /\ Len(t) = Len(s)
      /\ Total(t) = units + Delta(R, Len(R)) + 1
      /\ \A r \in 1..Len(s) + 1 :
           Start(t, r) = RemapEngineIndex(Start(s, r), units, R)
  BY <1>3, RemappedRuns
<1> HIDE DEF t
<1>5. new.lengths = t /\ new.values = runs.values
      /\ new \in [lengths : Seq(Nat), values : Seq(V)]
  <2>1. t \in Seq(Nat) /\ runs.values \in Seq(V)
    BY <1>1, <1>4
  <2> DEFINE v == runs.values
  <2>2. v \in Seq(V) /\ t \in Seq(Nat) /\ new = [lengths |-> t, values |-> v]
    BY <1>2, <2>1
  <2> HIDE DEF v
  <2>3. new.lengths = t /\ new.values = v
    BY <2>2
  <2>4. new \in [lengths : Seq(Nat), values : Seq(V)]
    <3> DEFINE A == Seq(Nat)
               B == Seq(V)
    <3>1. t \in A /\ v \in B /\ new = [lengths |-> t, values |-> v]
      BY <2>2
    <3> HIDE DEF A, B
    <3>2. [lengths |-> t, values |-> v] \in [lengths : A, values : B]
      BY <3>1
    <3>3. new \in [lengths : A, values : B]
      BY <3>1, <3>2
    <3> QED BY <3>3 DEF A, B
  <2> QED BY <2>3, <2>4 DEF v
<1>6. IsRuns(new, units + Delta(R, Len(R)) + 1, V)
  <2> DEFINE n == units + Delta(R, Len(R)) + 1
  <2>1. Total(new.lengths) = n
    BY <1>4, <1>5
  <2>2. Len(new.lengths) = Len(new.values)
    BY <1>3, <1>4, <1>5
  <2> HIDE DEF n
  <2>3. IsRuns(new, n, V)
    BY <1>5, <2>1, <2>2 DEF IsRuns
  <2> QED BY <2>3 DEF n
<1>7. ASSUME NEW b \in Boundaries(s) PROVE RemapEngineIndex(b, units, R) \in Boundaries(t)
  <2>1. PICK r \in 1..Len(s) + 1 : b = Start(s, r)
    BY DEF Boundaries
  <2>2. RemapEngineIndex(b, units, R) = Start(t, r)
    BY <1>4, <2>1
  <2>3. r \in 1..(Len(t) + 1)
    BY <1>4
  <2> QED BY <2>2, <2>3, StartsAreBoundaries
<1> QED BY <1>5, <1>6, <1>7 DEF s

-----------------------------------------------------------------------------
(* Literals without a parenthesis or a backslash.                          *)

\* A sequence that is put together one element after the other.
LEMMA BuiltUp ==
  ASSUME NEW W, NEW s \in Seq(W), NEW f, f[0] = <<>>,
         \A n \in 1..Len(s) : \A x \in Seq(W) : f[n - 1] = x => f[n] = Append(x, s[n])
  PROVE  f[Len(s)] = s
<1>1. Len(s) \in Nat
  OBVIOUS
<1> DEFINE T == {n \in Nat : n <= Len(s) => f[n] = SubSeq(s, 1, n)}
<1>2. 0 \in T
  <2>1. SubSeq(s, 1, 0) = <<>>
    OBVIOUS
  <2> QED BY <2>1
<1>3. ASSUME NEW n \in Nat, n \in T PROVE n + 1 \in T
  <2> SUFFICES ASSUME n + 1 <= Len(s) PROVE f[n + 1] = SubSeq(s, 1, n + 1)
    OBVIOUS
  <2> DEFINE x == SubSeq(s, 1, n)
             m == n + 1
  <2>1. m \in 1..Len(s) /\ m - 1 = n /\ n <= Len(s)
    BY <1>1
  <2>2. x \in Seq(W) /\ f[m - 1] = x
    BY <1>1, <1>3, <2>1
  <2>3. f[m] = Append(x, s[m])
    BY <2>1, <2>2
  <2>4. Append(x, s[m]) = SubSeq(s, 1, m)
    BY <1>1, <2>1
  <2> QED BY <2>3, <2>4
<1> HIDE DEF T
<1>4. Len(s) \in T
  BY <1>1, <1>2, <1>3, SetInduction
<1>5. f[Len(s)] = SubSeq(s, 1, Len(s))
  BY <1>1, <1>4 DEF T
<1> QED BY <1>5

\* Nothing of a text without parentheses is escaped.
LEMMA NothingIsEscaped ==
  ASSUME NEW W, NEW t \in Seq(W), W \cap Special = {}
  PROVE  Escaped(t) = t
<1> DEFINE N == Len(t)
           Body(w) == [k \in 0..N |->
             IF k = 0 THEN <<>>
             ELSE w[k - 1] \o (IF t[k] \in Special THEN <<Escape, t[k]>> ELSE <<t[k]>>)]
           f == CHOOSE w : w = Body(w)
           v == [k \in 0..N |-> SubSeq(t, 1, k)]
<1>1. Escaped(t) = f[N]
  BY DEF Escaped
<1>2. N \in Nat /\ \A k \in 1..N : t[k] \in W /\ t[k] \notin Special
  OBVIOUS
<1>3. v = Body(v)
  <2>1. ASSUME NEW k \in 0..N
        PROVE  v[k] = IF k = 0 THEN <<>>
                      ELSE v[k - 1] \o (IF t[k] \in Special THEN <<Escape, t[k]>> ELSE <<t[k]>>)
    <3>1. CASE k = 0
      <4>1. SubSeq(t, 1, 0) = <<>>
        OBVIOUS
      <4> QED BY <3>1, <4>1
    <3>2. CASE k # 0
      <4>1. k \in 1..N /\ k - 1 \in 0..N
        BY <1>2, <3>2
      <4>2. SubSeq(t, 1, k) = SubSeq(t, 1, k - 1) \o <<t[k]>>
        BY <4>1
      <4>3. v[k] = SubSeq(t, 1, k) /\ v[k - 1] = SubSeq(t, 1, k - 1)
        BY <4>1
      <4>4. t[k] \notin Special
        BY <1>2, <4>1
      <4> QED BY <3>2, <4>2, <4>3, <4>4
    <3> QED BY <3>1, <3>2
  <2>2. v = [k \in 0..N |-> v[k]]
    OBVIOUS
  <2> HIDE DEF v
  <2> QED BY <2>1, <2>2
<1> HIDE DEF v
<1>4. f = Body(f)
  <2> HIDE DEF Body
  <2> QED BY <1>3
<1> HIDE DEF f
<1>5. f[0] = <<>>
  <2>1. 0 \in 0..N
    BY <1>2
  <2> QED BY <1>4, <2>1
<1>6. ASSUME NEW k \in 1..N, NEW x \in Seq(W), f[k - 1] = x PROVE f[k] = Append(x, t[k])
  <2>1. k \in 0..N /\ k # 0 /\ t[k] \notin Special /\ t[k] \in W
    BY <1>2
  <2>2. f[k] = f[k - 1] \o <<t[k]>>
    BY <1>4, <2>1
  <2>3. x \o <<t[k]>> = Append(x, t[k])
    BY <2>1
  <2> QED BY <1>6, <2>2, <2>3
<1> QED BY <1>1, <1>5, <1>6, BuiltUp

\* A reader sees such a literal as it is.
LEMMA NothingIsHidden ==
  ASSUME NEW W, literal \in Seq(W), Escape \notin W
  PROVE  EngineText = literal
<1> DEFINE t == literal
           N == Len(t)
           Body(w) == [k \in 0..N |->
             IF k = 0 THEN <<>>
             ELSE IF t[k] = Escape THEN w[k - 1] ELSE Append(w[k - 1], t[k])]
           f == CHOOSE w : w = Body(w)
           v == [k \in 0..N |-> SubSeq(t, 1, k)]
<1>1. EngineText = f[N]
  BY DEF EngineText
<1>0. t \in Seq(W)
  OBVIOUS
<1> HIDE DEF t
<1>2. N \in Nat /\ \A k \in 1..N : t[k] \in W /\ t[k] # Escape
  BY <1>0
<1>3. v = Body(v)
  <2>1. ASSUME NEW k \in 0..N
        PROVE  v[k] = IF k = 0 THEN <<>>
                      ELSE IF t[k] = Escape THEN v[k - 1] ELSE Append(v[k - 1], t[k])
    <3>1. CASE k = 0
      <4>1. SubSeq(t, 1, 0) = <<>>
        BY <1>0
      <4> QED BY <3>1, <4>1
    <3>2. CASE k # 0
      <4>1. k \in 1..N /\ k - 1 \in 0..N
        BY <1>2, <3>2
      <4>2. SubSeq(t, 1, k) = Append(SubSeq(t, 1, k - 1), t[k])
        BY <1>0, <4>1
      <4>3. v[k] = SubSeq(t, 1, k) /\ v[k - 1] = SubSeq(t, 1, k - 1)
        BY <4>1
      <4>4. t[k] # Escape
        BY <1>2, <4>1
      <4> QED BY <3>2, <4>2, <4>3, <4>4
    <3> QED BY <3>1, <3>2
  <2>2. v = [k \in 0..N |-> v[k]]
    OBVIOUS
  <2> HIDE DEF v
  <2> QED BY <2>1, <2>2
<1> HIDE DEF v
<1>4. f = Body(f)
  <2> HIDE DEF Body
  <2> QED BY <1>3
<1> HIDE DEF f
<1>5. f[0] = <<>>
  <2>1. 0 \in 0..N
    BY <1>2
  <2> QED BY <1>4, <2>1
<1>6. ASSUME NEW k \in 1..N, NEW x \in Seq(W), f[k - 1] = x PROVE f[k] = Append(x, t[k])
  <2>1. k \in 0..N /\ k # 0 /\ t[k] # Escape
    BY <1>2
  <2>2. f[k] = Append(f[k - 1], t[k])
    BY <1>4, <2>1
  <2> QED BY <1>6, <2>2
<1>7. f[N] = t
  BY <1>0, <1>5, <1>6, BuiltUp
<1> QED BY <1>1, <1>7 DEF t

\* Such a literal parses, and is decoded as it is.
LEMMA LiteralIsSimple ==
  ASSUME NEW W, NEW lit \in Seq(W), Escape \notin W, W \cap Special = {}
  PROVE  Parses(lit) /\ Decoded(lit) = lit
<1> DEFINE bare(u, k) == Cardinality({j \in 1..k : lit[j] = u /\ ~(j > 1 /\ lit[j - 1] = Escape)})
<1>1. Len(lit) \in Nat /\ \A k \in 1..Len(lit) : lit[k] \in W
  OBVIOUS
<1>2. ASSUME NEW u \in Special, NEW k \in Nat, k <= Len(lit) PROVE bare(u, k) = 0
  <2>1. {j \in 1..k : lit[j] = u /\ ~(j > 1 /\ lit[j - 1] = Escape)} = {}
    <3> SUFFICES ASSUME NEW j \in 1..k, lit[j] = u PROVE FALSE
      OBVIOUS
    <3>1. j \in 1..Len(lit)
      BY <1>1, <1>2
    <3>2. lit[j] \in W
      BY <3>1
    <3> QED BY <3>2
  <2>2. Cardinality({}) = 0
    BY FS_EmptySet
  <2> QED BY <2>1, <2>2
<1> HIDE DEF bare
<1>3. OpenParen \in Special /\ CloseParen \in Special
  BY DEF Special
<1>4. \A k \in 1..Len(lit) : bare(OpenParen, k) >= bare(CloseParen, k)
  <2> TAKE k \in 1..Len(lit)
  <2>1. k \in Nat /\ k <= Len(lit)
    BY <1>1
  <2>2. bare(OpenParen, k) = 0 /\ bare(CloseParen, k) = 0
    BY <1>2, <1>3, <2>1
  <2> QED BY <2>2
<1>5. bare(OpenParen, Len(lit)) = bare(CloseParen, Len(lit))
  <2>1. Len(lit) <= Len(lit)
    BY <1>1
  <2> QED BY <1>1, <1>2, <1>3, <2>1
<1>6. Parses(lit)
  BY <1>4, <1>5 DEF Parses, bare
<1> DEFINE escapes == Cardinality({k \in 1..Len(lit) : lit[k] = Escape})
           size    == (2 * (Len(lit) - escapes) + escapes) \div 2
<1>7. escapes = 0
  <2>1. {k \in 1..Len(lit) : lit[k] = Escape} = {}
    BY <1>1
  <2> QED BY <2>1, FS_EmptySet
<1> HIDE DEF escapes
<1>8. size = Len(lit)
  BY <1>1, <1>7
<1> DEFINE Seen(k) == Escape \in {lit[j] : j \in 1..Min({k, Len(lit)})}
           Unit(k) == IF Seen(k) THEN Garbled ELSE lit[k]
<1>9. Decoded(lit) = [k \in 1..size |-> Unit(k)]
  BY DEF Decoded, escapes
<1> HIDE DEF size
<1>10. \A k \in 1..Len(lit) : Unit(k) = lit[k]
  <2> TAKE k \in 1..Len(lit)
  <2> DEFINE S == {k, Len(lit)}
             m == Min(S)
  <2>1. S \subseteq Nat /\ S # {}
    BY <1>1
  <2> HIDE DEF S
  <2>2. m \in S /\ \A y \in S : m <= y
    BY <2>1, MinIs
  <2> HIDE DEF m
  <2>3. m \in Nat /\ m <= Len(lit)
    BY <1>1, <2>1, <2>2 DEF S
  <2>4. Escape \notin {lit[j] : j \in 1..m}
    <3>1. \A j \in 1..m : j \in 1..Len(lit)
      BY <1>1, <2>3
    <3> QED BY <1>1, <3>1
  <2>5. ~Seen(k)
    BY <2>4 DEF m, S
  <2> HIDE DEF Seen
  <2> QED BY <2>5
<1> HIDE DEF Unit
<1>11. Decoded(lit) = [k \in 1..Len(lit) |-> lit[k]]
  BY <1>8, <1>9, <1>10
<1>12. lit = [k \in 1..Len(lit) |-> lit[k]]
  OBVIOUS
<1> QED BY <1>6, <1>11, <1>12

-----------------------------------------------------------------------------
(* Text layers of careful clients.                                         *)

\* The units a client writes.
Written == UNION {Range(t) : t \in Texts \cup Needles \cup News}

\* Those of them that are no parenthesis.
Letters == Written \ Special

\* Both copies of the text, the one of the engine data with its return.
TextIsOrdinary ==
  /\ plain \in Seq(Letters) /\ plain # <<>>
  /\ literal = plain \o <<Return>>

\* Both kinds of runs cover the text and its return, with values that exist.
RunsFit ==
  /\ fontSet \in Seq(Fonts)
  /\ IsRuns(style, Len(plain) + 1, 1..Len(fontSet))
  /\ IsRuns(para, Len(plain) + 1, Paras \cup {Absent})

\* What holds of a layer between two calls.
TextInv == TextIsOrdinary /\ RunsFit /\ LegacyRangesFollow

\* Texts of a client.
LEMMA ClientTexts ==
  ASSUME NEW t \in Texts \cup Needles \cup News
  PROVE  t \in Seq(Written) /\ Len(t) \in Nat
<1>1. t \in Seq(Range(t))
  BY TextLayerAssumption
<1>2. Range(t) \subseteq Written
  BY DEF Written
<1>3. t \in Seq(Written)
  BY <1>1, <1>2
<1> QED BY <1>3

\* Ordinary texts have letters only.
LEMMA OrdinaryTexts ==
  ASSUME NEW t \in Seq(Written), Ordinary(t)
  PROVE  t \in Seq(Letters) /\ t # <<>>
<1>1. t # <<>> /\ Range(t) \cap Special = {}
  BY DEF Ordinary
<1>2. Len(t) \in Nat /\ DOMAIN t = 1..Len(t) /\ \A i \in 1..Len(t) : t[i] \in Written
  OBVIOUS
<1>3. \A i \in 1..Len(t) : t[i] \in Letters
  <2> TAKE i \in 1..Len(t)
  <2>1. t[i] \in Range(t)
    BY <1>2 DEF Range
  <2> QED BY <1>1, <1>2, <2>1 DEF Letters
<1>4. t \in Seq(Letters)
  BY <1>2, <1>3
<1> QED BY <1>1, <1>4

\* No letter means anything to the parser, and neither does the return.
LEMMA LettersAreHarmless ==
  LET W == Letters \cup {Return}
  IN  Escape \notin W /\ W \cap Special = {}
<1>1. {Escape, Return} \cap {OpenParen, CloseParen, Garbled} = {} /\ Escape # Return
  BY TextLayerAssumption
<1>2. Escape \notin Written
  BY TextLayerAssumption DEF Written
<1> QED BY <1>1, <1>2 DEF Letters, Special

\* The literal of a text with letters only.
LEMMA LiteralOfLetters ==
  ASSUME NEW t \in Seq(Letters)
  PROVE  /\ t \o <<Return>> \in Seq(Letters \cup {Return})
         /\ Len(t \o <<Return>>) = Len(t) + 1
         /\ Parses(t \o <<Return>>) /\ Decoded(t \o <<Return>>) = t \o <<Return>>
         /\ Escaped(t) = t
<1> DEFINE W   == Letters \cup {Return}
           lit == t \o <<Return>>
<1>1. lit \in Seq(W) /\ Len(lit) = Len(t) + 1
  OBVIOUS
<1>2. Escape \notin W /\ W \cap Special = {}
  BY LettersAreHarmless
<1>3. t \in Seq(W)
  OBVIOUS
<1> HIDE DEF W, lit
<1>4. Parses(lit) /\ Decoded(lit) = lit
  BY <1>1, <1>2, LiteralIsSimple
<1>5. Escaped(t) = t
  BY <1>2, <1>3, NothingIsEscaped
<1> QED BY <1>1, <1>4, <1>5 DEF W, lit

\* What the calls see of a layer.
LEMMA LayerSeen ==
  ASSUME TextIsOrdinary
  PROVE  /\ Parses(literal) /\ Decoded(literal) = literal /\ EngineText = literal
         /\ Len(literal) = Len(plain) + 1 /\ IsPrefix(plain, Decoded(literal))
         /\ SubSeq(literal, Len(plain) + 1, Len(literal)) = <<Return>>
         /\ Len(plain) \in Nat /\ Len(plain) # 0
<1>1. plain \in Seq(Letters) /\ plain # <<>> /\ literal = plain \o <<Return>>
  BY DEF TextIsOrdinary
<1>2. literal \in Seq(Letters \cup {Return}) /\ Len(literal) = Len(plain) + 1
      /\ Parses(literal) /\ Decoded(literal) = literal
  BY <1>1, LiteralOfLetters
<1> DEFINE W == Letters \cup {Return}
<1>3. EngineText = literal
  <2>1. literal \in Seq(W) /\ Escape \notin W
    BY <1>2, LettersAreHarmless
  <2> HIDE DEF W
  <2> QED BY <2>1, NothingIsHidden
<1>4. Len(plain) \in Nat /\ Len(plain) # 0
  BY <1>1
<1>5. IsPrefix(plain, literal)
  <2>1. SubSeq(plain, 1, Len(plain)) = plain
    BY <1>1
  <2>2. SubSeq(plain \o <<Return>>, 1, Len(plain)) = plain
    <3> DEFINE r == Return
               p == plain
               q == p \o <<r>>
    <3>1. p \in Seq(W) /\ r \in W
      BY <1>1
    <3> HIDE DEF W, r, p
    <3>2. q \in Seq(W) /\ Len(q) = Len(p) + 1 /\ \A i \in 1..Len(p) : q[i] = p[i]
      BY <3>1
    <3>3. SubSeq(q, 1, Len(p)) = p
      <4> HIDE DEF q
      <4>1. Len(p) \in Nat
        BY <3>1
      <4>2. SubSeq(q, 1, Len(p)) = [i \in 1..Len(p) |-> q[i]]
        BY <3>2, <4>1
      <4>3. p = [i \in 1..Len(p) |-> p[i]]
        BY <3>1
      <4> QED BY <3>2, <4>2, <4>3
    <3> QED BY <3>3 DEF r, p
  <2>3. Len(plain) <= Len(literal)
    BY <1>2, <1>4
  <2> QED BY <1>1, <2>1, <2>2, <2>3 DEF IsPrefix
<1>6. SubSeq(literal, Len(plain) + 1, Len(literal)) = <<Return>>
  <2> DEFINE r == Return
             p == plain
             q == p \o <<r>>
             n == Len(p) + 1
  <2>1. p \in Seq(W) /\ r \in W
    BY <1>1
  <2> HIDE DEF W, r, p
  <2>2. q \in Seq(W) /\ Len(q) = n /\ q[n] = r /\ n \in Nat
    BY <2>1
  <2> HIDE DEF q, n
  <2>2a. n \in 1..Len(q)
    <3>1. n # 0
      BY <2>1 DEF n
    <3> QED BY <2>2, <3>1
  <2>3. SubSeq(q, n, n) = <<r>>
    <3> DEFINE z == SubSeq(q, n, n)
    <3>1. z \in Seq(W)
      BY <2>2, <2>2a
    <3>2. Len(z) = 1
      BY <2>2, <2>2a
    <3>3. z[1] = q[n]
      BY <2>2, <2>2a
    <3> HIDE DEF z
    <3>4. z = <<r>>
      BY <2>2, <3>1, <3>2, <3>3
    <3> QED BY <3>4 DEF z
  <2>4. literal = q /\ Len(literal) = n /\ Len(plain) + 1 = n
    BY <1>1, <1>2 DEF q, r, p, n
  <2> QED BY <2>3, <2>4 DEF r
<1> QED BY <1>2, <1>3, <1>4, <1>5, <1>6

\* The three properties.
LEMMA TextInvImplies ==
  ASSUME TextInv
  PROVE  EngineShowsTheText /\ RunsCoverTheText /\ LegacyRangesFollow
<1>1. TextIsOrdinary /\ RunsFit /\ LegacyRangesFollow
  BY DEF TextInv
<1>2. /\ Parses(literal) /\ EngineText = literal /\ literal = plain \o <<Return>>
      /\ Len(literal) = Len(plain) + 1
  BY <1>1, LayerSeen DEF TextIsOrdinary
<1>3. EngineShowsTheText
  BY <1>2 DEF EngineShowsTheText
<1>4. /\ Total(style.lengths) = Len(plain) + 1 /\ Len(style.lengths) = Len(style.values)
      /\ Total(para.lengths) = Len(plain) + 1 /\ Len(para.lengths) = Len(para.values)
  BY <1>1 DEF RunsFit, IsRuns
<1>5. Range(style.values) \subseteq DOMAIN fontSet
  <2>1. style.values \in Seq(1..Len(fontSet)) /\ fontSet \in Seq(Fonts)
    BY <1>1 DEF RunsFit, IsRuns
  <2> DEFINE v == style.values
             V == 1..Len(fontSet)
  <2>2. DOMAIN fontSet = V
    BY <2>1
  <2>3. v \in Seq(V)
    BY <2>1
  <2> HIDE DEF v, V
  <2>4. Range(v) \subseteq V
    BY <2>3 DEF Range
  <2> QED BY <2>2, <2>4 DEF v
<1>6. RunsCoverTheText
  BY <1>2, <1>4, <1>5 DEF RunsCoverTheText
<1> QED BY <1>1, <1>3, <1>6

\* The layers a program starts with.
LEMMA TextInitHolds ==
  ASSUME CarefulTextInit
  PROVE  TextInv
<1> DEFINE n == Len(plain) + 1
<1>0. /\ plain \in Texts /\ Ordinary(plain)
      /\ literal = Escaped(plain) \o <<Return>>
      /\ \E f \in Fonts : fontSet = <<f>>
      /\ style \in InitialRuns(n, {1}) /\ para \in InitialRuns(n, Paras \cup {Absent})
      /\ legacy = Boundaries(style.lengths)
  BY DEF CarefulTextInit, TextInit
<1>1. plain \in Seq(Letters) /\ plain # <<>>
  <2>1. plain \in Seq(Written)
    BY <1>0, ClientTexts
  <2> QED BY <1>0, <2>1, OrdinaryTexts
<1>2. TextIsOrdinary
  <2>1. Escaped(plain) = plain
    BY <1>1, LiteralOfLetters
  <2> QED BY <1>0, <1>1, <2>1 DEF TextIsOrdinary
<1>3. n \in Nat /\ n # 0
  BY <1>1
<1>4. ASSUME NEW V, NEW runs \in InitialRuns(n, V) PROVE IsRuns(runs, n, V)
  <2> HIDE DEF n
  <2>1. ASSUME NEW v \in V, runs = [lengths |-> <<n>>, values |-> <<v>>]
        PROVE  IsRuns(runs, n, V)
    <3> DEFINE s == <<n>>
               g == [i \in 1..2 |-> IF i = 1 THEN 0 ELSE n]
               w == <<v>>
    <3>1. s \in Seq(Nat) /\ Len(s) = 1 /\ s[1] = n /\ w \in Seq(V) /\ Len(w) = 1
      BY <1>3
    <3>2. runs = [lengths |-> s, values |-> w]
      BY <2>1
    <3> HIDE DEF s, w
    <3>3. g[1] = 0 /\ g[2] = n
      OBVIOUS
    <3> HIDE DEF g
    <3>4. \A r \in 1..Len(s) : g[r + 1] = g[r] + s[r]
      <4> TAKE r \in 1..Len(s)
      <4>1. r = 1 /\ r + 1 = 2
        BY <3>1
      <4> QED BY <1>3, <3>1, <3>3, <4>1
    <3>5. Total(s) = g[Len(s) + 1]
      BY <3>1, <3>3, <3>4, StartsAre
    <3>6. Total(s) = n
      BY <3>1, <3>3, <3>5
    <3> QED BY <3>1, <3>2, <3>6 DEF IsRuns
  <2>2. ASSUME NEW k \in 1..n - 1, NEW v \in V, NEW u \in V,
               runs = [lengths |-> <<k, n - k>>, values |-> <<v, u>>]
        PROVE  IsRuns(runs, n, V)
    <3> DEFINE s == <<k, n - k>>
               g == [i \in 1..3 |-> IF i = 1 THEN 0 ELSE IF i = 2 THEN k ELSE n]
               w == <<v, u>>
    <3>0. k \in Nat /\ n - k \in Nat /\ k + (n - k) = n
      BY <1>3
    <3>1. s \in Seq(Nat) /\ Len(s) = 2 /\ s[1] = k /\ s[2] = n - k
      BY <3>0
    <3>1a. w \in Seq(V) /\ Len(w) = 2
      OBVIOUS
    <3>2. runs = [lengths |-> s, values |-> w]
      BY <2>2
    <3> HIDE DEF s, w
    <3>3. g[1] = 0 /\ g[2] = k /\ g[3] = n
      OBVIOUS
    <3> HIDE DEF g
    <3>4. \A r \in 1..Len(s) : g[r + 1] = g[r] + s[r]
      <4> TAKE r \in 1..Len(s)
      <4>1. (r = 1 /\ r + 1 = 2) \/ (r = 2 /\ r + 1 = 3)
        BY <3>1
      <4> QED BY <3>0, <3>1, <3>3, <4>1
    <3>5. Total(s) = g[Len(s) + 1]
      BY <3>1, <3>3, <3>4, StartsAre
    <3>6. Total(s) = n
      BY <3>1, <3>3, <3>5
    <3> QED BY <3>1, <3>1a, <3>2, <3>6 DEF IsRuns
  <2>3. \/ \E v \in V : runs = [lengths |-> <<n>>, values |-> <<v>>]
        \/ \E k \in 1..n - 1, v \in V, u \in V :
             runs = [lengths |-> <<k, n - k>>, values |-> <<v, u>>]
    BY DEF InitialRuns
  <2> QED BY <2>1, <2>2, <2>3
<1>5. PICK f \in Fonts : fontSet = <<f>>
  BY <1>0
<1>6. fontSet \in Seq(Fonts) /\ Len(fontSet) = 1
  BY <1>5
<1>7. IsRuns(style, n, {1}) /\ IsRuns(para, n, Paras \cup {Absent})
  BY <1>0, <1>4
<1>8. {1} = 1..Len(fontSet)
  BY <1>6
<1>9. RunsFit
  BY <1>6, <1>7, <1>8 DEF RunsFit
<1>10. LegacyRangesFollow
  BY <1>0 DEF LegacyRangesFollow
<1> QED BY <1>2, <1>9, <1>10 DEF TextInv

\* What a change of the text assigns.
LEMMA TextBrought ==
  ASSUME TextInv, NEW new, NEW R, ApplyTextMutation(new, R)
  PROVE  /\ plain' = new /\ literal' = new \o <<Return>> /\ fontSet' = fontSet
         /\ style' = [style EXCEPT !.lengths = RemapRunLengths(@, Len(plain), R)]
         /\ para' = [para EXCEPT !.lengths = RemapRunLengths(@, Len(plain), R)]
         /\ legacy' = {RemapEngineIndex(i, Len(plain), R) : i \in legacy}
<1> DEFINE n == Len(plain)
<1>1. TextIsOrdinary /\ IsRuns(style, n + 1, 1..Len(fontSet)) /\ IsRuns(para, n + 1, Paras \cup {Absent})
  BY DEF TextInv, RunsFit
<1>2. /\ Parses(literal) /\ Decoded(literal) = literal /\ IsPrefix(plain, Decoded(literal))
      /\ Len(literal) = n + 1
      /\ SubSeq(literal, n + 1, Len(literal)) = <<Return>>
  BY <1>1, LayerSeen
<1>3. /\ plain' = new /\ literal' = LiteralOf(new)
      /\ style' = RemapRuns(style, R) /\ para' = RemapRuns(para, R)
      /\ legacy' = {RemapEngineIndex(i, n, R) : i \in legacy} /\ fontSet' = fontSet
  BY <1>2 DEF ApplyTextMutation, RemapEngineData, LegacyRanges
<1>4. literal' = new \o <<Return>>
  BY <1>2, <1>3 DEF LiteralOf
<1>5. Total(style.lengths) = n + 1 /\ Total(para.lengths) = n + 1
  BY <1>1 DEF IsRuns
<1>6. Total(style.lengths) = Len(Decoded(literal)) /\ Total(para.lengths) = Len(Decoded(literal))
  BY <1>2, <1>5
<1>7. /\ style' = [style EXCEPT !.lengths = RemapRunLengths(@, n, R)]
      /\ para' = [para EXCEPT !.lengths = RemapRunLengths(@, n, R)]
  BY <1>3, <1>6 DEF RemapRuns
<1> QED BY <1>3, <1>4, <1>7

\* A change of the text brings the literal, the runs and the indexes along.
LEMMA TextEdited ==
  ASSUME TextInv, NEW new \in Seq(Written), Ordinary(new), NEW R, IsEdit(R, Len(plain)),
         Len(new) = Len(plain) + Delta(R, Len(R)), ApplyTextMutation(new, R)
  PROVE  TextInv'
<1> DEFINE n == Len(plain)
           P == Paras \cup {Absent}
           Q == 1..Len(fontSet)
           m == n + Delta(R, Len(R)) + 1
<1>1. /\ TextIsOrdinary /\ legacy \subseteq Boundaries(style.lengths)
      /\ fontSet \in Seq(Fonts) /\ IsRuns(style, n + 1, Q) /\ IsRuns(para, n + 1, P)
      /\ n \in Nat
  BY LayerSeen DEF TextInv, RunsFit, LegacyRangesFollow
<1>2. /\ plain' = new /\ literal' = new \o <<Return>> /\ fontSet' = fontSet
      /\ style' = [style EXCEPT !.lengths = RemapRunLengths(@, n, R)]
      /\ para' = [para EXCEPT !.lengths = RemapRunLengths(@, n, R)]
      /\ legacy' = {RemapEngineIndex(i, n, R) : i \in legacy}
  BY TextBrought
<1>3. new \in Seq(Letters) /\ new # <<>>
  BY OrdinaryTexts
<1>4. TextIsOrdinary'
  BY <1>2, <1>3 DEF TextIsOrdinary
<1>5. Len(plain') = n + Delta(R, Len(R))
  BY <1>2
<1> HIDE DEF n, P, Q
<1>6. IsEdit(R, n)
  BY DEF n
<1>7. /\ IsRuns(style', m, Q)
      /\ \A b \in Boundaries(style.lengths) :
           RemapEngineIndex(b, n, R) \in Boundaries(style'.lengths)
  BY <1>1, <1>2, <1>6, RemappedBoundaries
<1>8. IsRuns(para', m, P)
  BY <1>1, <1>2, <1>6, RemappedBoundaries
<1>9. LegacyRangesFollow'
  BY <1>1, <1>2, <1>7 DEF LegacyRangesFollow
<1>10. m = Len(plain') + 1 /\ Q = 1..Len(fontSet')
  BY <1>2, <1>5 DEF Q
<1> HIDE DEF m
<1>11. RunsFit'
  BY <1>1, <1>2, <1>7, <1>8, <1>10 DEF RunsFit, P
<1> QED BY <1>4, <1>9, <1>11 DEF TextInv

\* One replacement, of a whole text of n units by k units.
IsWhole(R, n, k) == R = <<[start |-> 0, old |-> n, new |-> k]>>

\* It is an edit.
LEMMA WholeIsAnEdit ==
  ASSUME NEW n \in Nat, n # 0, NEW k \in Nat, NEW R, IsWhole(R, n, k)
  PROVE  /\ IsEdit(R, n) /\ Len(R) = 1
         /\ R[1].start = 0 /\ R[1].old = n /\ R[1].new = k
         /\ k = n + Delta(R, Len(R))
<1> DEFINE r == [start |-> 0, old |-> n, new |-> k]
           V == [start : Nat, old : Nat, new : Nat]
<1>1. r \in V /\ r.start = 0 /\ r.old = n /\ r.new = k /\ R = <<r>>
  BY DEF IsWhole
<1> HIDE DEF r, V
<1>2. R \in Seq(V) /\ Len(R) = 1 /\ R[1] = r
  BY <1>1
<1>3. ASSUME NEW i \in 1..Len(R)
      PROVE  R[i].old # 0 /\ End(R[i]) <= n /\ CopyPos(R, i - 1) <= R[i].start
  <2>1. i = 1 /\ i - 1 = 0
    BY <1>2
  <2>2. End(R[i]) = 0 + n
    BY <1>1, <1>2, <2>1 DEF End
  <2>3. CopyPos(R, i - 1) = 0
    BY <2>1 DEF CopyPos
  <2> QED BY <1>1, <1>2, <2>1, <2>2, <2>3
<1>4. IsEdit(R, n)
  BY <1>2, <1>3 DEF IsEdit, V
<1>5. Delta(R, 0) = 0 /\ \A i \in 1..Len(R) : Delta(R, i) = Delta(R, i - 1) + R[i].new - R[i].old
  BY <1>4, Deltas
<1>6. 1 \in 1..Len(R) /\ 1 - 1 = 0
  BY <1>2
<1>7. Delta(R, 1) = Delta(R, 0) + R[1].new - R[1].old
  BY <1>5, <1>6
<1>8. Delta(R, 1) = k - n
  BY <1>1, <1>2, <1>5, <1>7
<1> QED BY <1>1, <1>2, <1>4, <1>8

\* set_text.
LEMMA SetTextKeeps ==
  ASSUME TextInv, NEW t \in Texts, Ordinary(plain'), SetText(t)
  PROVE  TextInv'
<1>1. CASE t = plain
  BY <1>1 DEF SetText, text, TextInv, TextIsOrdinary, RunsFit, LegacyRangesFollow
<1>2. CASE t # plain
  <2> DEFINE r == [start |-> 0, old |-> Len(plain), new |-> Len(t)]
             R == <<r>>
  <2>1. ApplyTextMutation(t, R) /\ plain' = t
    BY <1>2 DEF SetText, ApplyTextMutation
  <2>2. t \in Seq(Written) /\ Len(t) \in Nat /\ Ordinary(t)
    BY <2>1, ClientTexts
  <2>3. Len(plain) \in Nat /\ Len(plain) # 0
    BY LayerSeen DEF TextInv
  <2> DEFINE n == Len(plain)
             k == Len(t)
  <2>4. IsWhole(R, n, k) /\ n \in Nat /\ n # 0 /\ k \in Nat
    BY <2>2, <2>3 DEF IsWhole
  <2> HIDE DEF R, n, k
  <2>5. IsEdit(R, n) /\ k = n + Delta(R, Len(R))
    BY <2>4, WholeIsAnEdit
  <2>6. IsEdit(R, Len(plain)) /\ Len(t) = Len(plain) + Delta(R, Len(R))
    BY <2>5 DEF n, k
  <2> QED BY <2>1, <2>2, <2>6, TextEdited
<1> QED BY <1>1, <1>2

\* replace_text.
LEMMA ReplaceTextKeeps ==
  ASSUME TextInv, NEW old \in Needles, NEW new \in News, NEW all \in BOOLEAN,
         Ordinary(plain'), ReplaceText(old, new, all)
  PROVE  TextInv'
<1> DEFINE R == Replacements(plain, old, new, all)
           t == ReplacedText(plain, R, new)
<1>1. CASE R = <<>>
  BY <1>1 DEF ReplaceText, text, TextInv, TextIsOrdinary, RunsFit, LegacyRangesFollow
<1>2. CASE R # <<>>
  <2>1. ApplyTextMutation(t, R) /\ plain' = t
    BY <1>2 DEF ReplaceText, ApplyTextMutation
  <2>2. old \in Seq(Written) /\ Len(old) \in Nat /\ new \in Seq(Written) /\ Len(new) \in Nat
    BY ClientTexts
  <2>3. Len(old) # 0
    <3>1. old # <<>>
      BY TextLayerAssumption
    <3> QED BY <2>2, <3>1
  <2>4. Len(plain) \in Nat /\ plain \in Seq(Written)
    <3>1. plain \in Seq(Letters) /\ Len(plain) \in Nat
      BY LayerSeen DEF TextInv, TextIsOrdinary
    <3>2. Letters \subseteq Written
      BY DEF Letters
    <3> QED BY <3>1, <3>2
  <2>5. IsEdit(R, Len(plain)) /\ \A i \in 1..Len(R) : R[i].new = Len(new)
    BY <2>2, <2>3, <2>4, ReplacementsAreAnEdit
  <2> HIDE DEF R
  <2>6. t \in Seq(Written) /\ Len(t) = Len(plain) + Delta(R, Len(R))
    BY <2>2, <2>4, <2>5, TextReplaced
  <2> HIDE DEF t
  <2>7. Ordinary(t)
    BY <2>1
  <2> QED BY <2>1, <2>5, <2>6, <2>7, TextEdited
<1> QED BY <1>1, <1>2

\* A call that changes the fonts or runs only keeps the layer as it was, if
\* the new runs fit and lost no boundary.
LEMMA StyleKeeps ==
  ASSUME TextInv, UNCHANGED text, fontSet' \in Seq(Fonts),
         IsRuns(style', Len(plain) + 1, 1..Len(fontSet')),
         IsRuns(para', Len(plain) + 1, Paras \cup {Absent}),
         Boundaries(style.lengths) \subseteq Boundaries(style'.lengths)
  PROVE  TextInv'
<1>1. plain' = plain /\ literal' = literal /\ legacy' = legacy
  BY DEF text
<1>2. TextIsOrdinary'
  BY <1>1 DEF TextInv, TextIsOrdinary
<1>3. RunsFit'
  BY <1>1 DEF RunsFit
<1>4. LegacyRangesFollow'
  BY <1>1 DEF TextInv, LegacyRangesFollow
<1> QED BY <1>2, <1>3, <1>4 DEF TextInv

\* More values are allowed.
LEMMA RunsOfMore ==
  ASSUME NEW n, NEW V, NEW W, NEW runs, IsRuns(runs, n, V), V \subseteq W
  PROVE  IsRuns(runs, n, W)
<1>1. /\ runs \in [lengths : Seq(Nat), values : Seq(V)]
      /\ Len(runs.lengths) = Len(runs.values) /\ Total(runs.lengths) = n
  BY DEF IsRuns
<1>2. Seq(V) \subseteq Seq(W)
  OBVIOUS
<1> DEFINE A == Seq(Nat)
           B == Seq(V)
           C == Seq(W)
<1>3. runs \in [lengths : A, values : B] /\ B \subseteq C
  BY <1>1, <1>2
<1> HIDE DEF A, B, C
<1>4. runs \in [lengths : A, values : C]
  BY <1>3
<1> QED BY <1>1, <1>4 DEF IsRuns, A, C

\* Runs with other values.
LEMMA RunsWithValues ==
  ASSUME NEW n, NEW V, NEW W, NEW runs, IsRuns(runs, n, V), NEW values \in Seq(W),
         Len(values) = Len(runs.values), NEW new, new = [runs EXCEPT !.values = values]
  PROVE  IsRuns(new, n, W) /\ Boundaries(new.lengths) = Boundaries(runs.lengths)
<1>1. /\ runs \in [lengths : Seq(Nat), values : Seq(V)]
      /\ Len(runs.lengths) = Len(runs.values) /\ Total(runs.lengths) = n
  BY DEF IsRuns
<1> DEFINE s == runs.lengths
<1>2. new = [lengths |-> s, values |-> values] /\ s \in Seq(Nat)
  BY <1>1
<1>3. s = runs.lengths
  OBVIOUS
<1> HIDE DEF s
<1>4. new.lengths = s /\ new.values = values
  BY <1>2
<1>5. [lengths |-> s, values |-> values] \in [lengths : Seq(Nat), values : Seq(W)]
  BY <1>2
<1>6. new \in [lengths : Seq(Nat), values : Seq(W)]
  BY <1>2, <1>5
<1>7. IsRuns(new, n, W)
  BY <1>1, <1>3, <1>4, <1>6 DEF IsRuns
<1> QED BY <1>3, <1>4, <1>7

\* The list of fonts with a font that is wanted.
LEMMA FontIsFound ==
  ASSUME NEW f \in Fonts, fontSet \in Seq(Fonts)
  PROVE  /\ FontSetWith(f) \in Seq(Fonts) /\ Len(fontSet) <= Len(FontSetWith(f))
         /\ IndexIn(f) \in 1..Len(FontSetWith(f))
         /\ Len(fontSet) \in Nat /\ Len(FontSetWith(f)) \in Nat
<1> DEFINE places == {i \in DOMAIN fontSet : fontSet[i] = f}
<1>1. Len(fontSet) \in Nat /\ DOMAIN fontSet = 1..Len(fontSet)
  OBVIOUS
<1>2. CASE places = {}
  <2>1. FontIndex(f) = 0
    BY <1>2 DEF FontIndex
  <2>2. FontSetWith(f) = Append(fontSet, f) /\ IndexIn(f) = Len(fontSet) + 1
    BY <2>1 DEF FontSetWith, IndexIn
  <2>3. Append(fontSet, f) \in Seq(Fonts) /\ Len(Append(fontSet, f)) = Len(fontSet) + 1
    OBVIOUS
  <2> QED BY <1>1, <2>2, <2>3
<1>3. CASE places # {}
  <2>1. places \subseteq Nat
    BY <1>1
  <2>2. FontIndex(f) = Min(places)
    BY <1>3 DEF FontIndex
  <2>3. Min(places) \in places
    <3> HIDE DEF places
    <3> QED BY <1>3, <2>1, MinIs
  <2>4. FontIndex(f) \in 1..Len(fontSet)
    BY <1>1, <2>2, <2>3
  <2>5. FontIndex(f) # 0
    BY <2>4
  <2>6. FontSetWith(f) = fontSet /\ IndexIn(f) = FontIndex(f)
    BY <2>5 DEF FontSetWith, IndexIn
  <2> QED BY <1>1, <2>4, <2>6
<1> QED BY <1>2, <1>3

\* The ranges of a proxy.
LEMMA ProxyRanges ==
  ASSUME NEW proxy \in Proxies
  PROVE  proxy \in Seq(Nat \X Nat)
<1>1. ASSUME NEW span \in Spans, proxy = <<span>> PROVE proxy \in Seq(Nat \X Nat)
  <2>1. span \in Nat \X Nat
    BY TextLayerAssumption
  <2> DEFINE V == Nat \X Nat
  <2>2. span \in V
    BY <2>1
  <2> HIDE DEF V
  <2>3. <<span>> \in Seq(V)
    BY <2>2
  <2> QED BY <1>1, <2>3 DEF V
<1>2. ASSUME NEW seen \in Texts, proxy = <<<<0, Len(seen) + 1>>>> PROVE proxy \in Seq(Nat \X Nat)
  <2>1. Len(seen) + 1 \in Nat
    BY ClientTexts
  <2> DEFINE V == Nat \X Nat
             p == <<0, Len(seen) + 1>>
  <2>2. p \in V
    BY <2>1
  <2> HIDE DEF V, p
  <2>3. <<p>> \in Seq(V)
    BY <2>2
  <2> QED BY <1>2, <2>3 DEF V, p
<1>3. ASSUME NEW seen \in Texts, NEW needle \in Needles, NEW occurrence \in 0..2,
             proxy = FindTextRanges(seen, needle, occurrence)
      PROVE  proxy \in Seq(Nat \X Nat)
  <2> DEFINE m      == FindAll(seen, needle)
             k      == Len(needle)
             ranges == [i \in 1..Len(m) |-> <<m[i], m[i] + k>>]
             V      == Nat \X Nat
  <2>1. Len(seen) \in Nat /\ k \in Nat
    BY ClientTexts
  <2>2. m \in Seq(Nat)
    BY <2>1, FoundInOrder DEF InOrder
  <2> HIDE DEF m, k
  <2>3. Len(m) \in Nat /\ \A i \in 1..Len(m) : <<m[i], m[i] + k>> \in V
    BY <2>1, <2>2
  <2> HIDE DEF V
  <2>4. ranges \in Seq(V)
    BY <2>3
  <2>5. proxy = IF occurrence = 0 THEN ranges
                ELSE IF occurrence \in DOMAIN ranges THEN <<ranges[occurrence]>>
                ELSE <<>>
    BY <1>3 DEF FindTextRanges, m, k
  <2> HIDE DEF ranges
  <2>6. \A i \in DOMAIN ranges : <<ranges[i]>> \in Seq(V)
    BY <2>4
  <2>7. proxy \in Seq(V)
    BY <2>4, <2>5, <2>6
  <2> QED BY <2>7 DEF V
<1> QED BY <1>1, <1>2, <1>3 DEF Proxies

\* What a style call finds.
LEMMA LayerStyled ==
  ASSUME TextInv
  PROVE  /\ fontSet \in Seq(Fonts) /\ Len(fontSet) \in Nat /\ Len(plain) + 1 \in Nat
         /\ IsRuns(style, Len(plain) + 1, 1..Len(fontSet))
         /\ IsRuns(para, Len(plain) + 1, Paras \cup {Absent})
<1>1. Len(plain) \in Nat
  BY LayerSeen DEF TextInv
<1>2. fontSet \in Seq(Fonts) /\ IsRuns(style, Len(plain) + 1, 1..Len(fontSet))
      /\ IsRuns(para, Len(plain) + 1, Paras \cup {Absent})
  BY DEF TextInv, RunsFit
<1> QED BY <1>1, <1>2

\* A call that adds or renames a font.
LEMMA FontCallKeeps ==
  ASSUME TextInv, UNCHANGED <<text, style, para>>, fontSet' \in Seq(Fonts),
         Len(fontSet) <= Len(fontSet')
  PROVE  TextInv'
<1>1. /\ fontSet \in Seq(Fonts) /\ Len(fontSet) \in Nat
      /\ IsRuns(style, Len(plain) + 1, 1..Len(fontSet))
      /\ IsRuns(para, Len(plain) + 1, Paras \cup {Absent})
  BY LayerStyled
<1>2. 1..Len(fontSet) \subseteq 1..Len(fontSet')
  <2>1. Len(fontSet') \in Nat
    OBVIOUS
  <2> QED BY <1>1, <2>1
<1> DEFINE n == Len(plain) + 1
           V == 1..Len(fontSet)
           W == 1..Len(fontSet')
<1>3. IsRuns(style, n, W)
  <2>1. IsRuns(style, n, V) /\ V \subseteq W
    BY <1>1, <1>2
  <2> HIDE DEF n, V, W
  <2> QED BY <2>1, RunsOfMore
<1>4. style' = style /\ para' = para /\ UNCHANGED text
  OBVIOUS
<1>5. IsRuns(style', Len(plain) + 1, 1..Len(fontSet'))
  BY <1>3, <1>4
<1>6. IsRuns(para', Len(plain) + 1, Paras \cup {Absent})
  BY <1>1, <1>4
<1>7. Boundaries(style.lengths) \subseteq Boundaries(style'.lengths)
  BY <1>4
<1> QED BY <1>4, <1>5, <1>6, <1>7, StyleKeeps

\* add_font.
LEMMA AddFontKeeps ==
  ASSUME TextInv, NEW f \in Fonts, AddFont(f)
  PROVE  TextInv'
<1>1. fontSet \in Seq(Fonts) /\ Len(fontSet) \in Nat
  BY LayerStyled
<1>2. fontSet' = Append(fontSet, f) /\ UNCHANGED <<text, style, para>>
  BY DEF AddFont
<1>3. Append(fontSet, f) \in Seq(Fonts) /\ Len(Append(fontSet, f)) = Len(fontSet) + 1
  BY <1>1
<1>4. fontSet' \in Seq(Fonts) /\ Len(fontSet) <= Len(fontSet')
  BY <1>1, <1>2, <1>3
<1> QED BY <1>2, <1>4, FontCallKeeps

\* set_font_postscript_name.
LEMMA RenameFontKeeps ==
  ASSUME TextInv, NEW f \in Fonts, NEW i \in DOMAIN fontSet, SetFontPostscriptName(i, f)
  PROVE  TextInv'
<1>1. fontSet \in Seq(Fonts) /\ Len(fontSet) \in Nat
  BY LayerStyled
<1>2. fontSet' = [fontSet EXCEPT ![i] = f] /\ UNCHANGED <<text, style, para>>
  BY DEF SetFontPostscriptName
<1>3. fontSet' \in Seq(Fonts) /\ Len(fontSet) <= Len(fontSet')
  BY <1>1, <1>2
<1> QED BY <1>2, <1>3, FontCallKeeps

\* The calls that give runs other fonts.
LEMMA StyleValuesKeep ==
  ASSUME TextInv, UNCHANGED <<text, para>>, fontSet' \in Seq(Fonts),
         NEW values \in Seq(1..Len(fontSet')), Len(values) = Len(style.values),
         style' = [style EXCEPT !.values = values]
  PROVE  TextInv'
<1>1. /\ IsRuns(style, Len(plain) + 1, 1..Len(fontSet))
      /\ IsRuns(para, Len(plain) + 1, Paras \cup {Absent})
  BY LayerStyled
<1> DEFINE n == Len(plain) + 1
           V == 1..Len(fontSet)
           W == 1..Len(fontSet')
<1>2. IsRuns(style', n, W) /\ Boundaries(style'.lengths) = Boundaries(style.lengths)
  <2>1. IsRuns(style, n, V) /\ values \in Seq(W)
    BY <1>1
  <2> HIDE DEF n, V, W
  <2> QED BY <2>1, RunsWithValues
<1>3. para' = para /\ UNCHANGED text
  OBVIOUS
<1>4. IsRuns(para', Len(plain) + 1, Paras \cup {Absent})
  BY <1>1, <1>3
<1>5. IsRuns(style', Len(plain) + 1, 1..Len(fontSet'))
  BY <1>2
<1>6. Boundaries(style.lengths) \subseteq Boundaries(style'.lengths)
  BY <1>2
<1> QED BY <1>3, <1>4, <1>5, <1>6, StyleKeeps

\* set_font.
LEMMA SetFontKeeps ==
  ASSUME TextInv, NEW f \in Fonts, SetFont(f)
  PROVE  TextInv'
<1>1. /\ fontSet \in Seq(Fonts) /\ IsRuns(style, Len(plain) + 1, 1..Len(fontSet))
  BY LayerStyled
<1>2. style.values \in Seq(1..Len(fontSet))
  BY <1>1 DEF IsRuns
<1> DEFINE v == style.values
           W == 1..Len(fontSet')
           j == IndexIn(f)
           values == [r \in DOMAIN v |-> j]
<1>3. fontSet' = FontSetWith(f) /\ UNCHANGED <<text, para>>
      /\ style' = [style EXCEPT !.values = values]
  BY DEF SetFont
<1>4. fontSet' \in Seq(Fonts) /\ j \in W
  BY <1>1, <1>3, FontIsFound
<1>5. v \in Seq(1..Len(fontSet))
  BY <1>2
<1> HIDE DEF j, v, W
<1>6. Len(v) \in Nat /\ DOMAIN v = 1..Len(v)
  BY <1>5
<1>7. values \in Seq(W) /\ Len(values) = Len(v)
  BY <1>4, <1>6
<1> HIDE DEF values
<1>8. values \in Seq(1..Len(fontSet')) /\ Len(values) = Len(style.values)
  BY <1>7 DEF v, W
<1> QED BY <1>3, <1>4, <1>8, StyleValuesKeep

\* One value of a sequence is another one.
LEMMA OtherValue ==
  ASSUME NEW V, NEW W, NEW v \in Seq(V), V \subseteq W, NEW x \in W, NEW r \in DOMAIN v
  PROVE  [v EXCEPT ![r] = x] \in Seq(W) /\ Len([v EXCEPT ![r] = x]) = Len(v)
<1>1. Len(v) \in Nat /\ DOMAIN v = 1..Len(v) /\ \A i \in 1..Len(v) : v[i] \in W
  OBVIOUS
<1>2. [v EXCEPT ![r] = x] = [i \in 1..Len(v) |-> IF i = r THEN x ELSE v[i]]
  BY <1>1
<1>3. \A i \in 1..Len(v) : (IF i = r THEN x ELSE v[i]) \in W
  BY <1>1
<1> QED BY <1>1, <1>2, <1>3

\* A run has another font.
LEMMA SetRunFontKeeps ==
  ASSUME TextInv, NEW r \in DOMAIN style.values, NEW j \in 1..Len(fontSet'),
         UNCHANGED <<text, para>>, fontSet' \in Seq(Fonts), Len(fontSet) <= Len(fontSet'),
         style' = [style EXCEPT !.values[r] = j]
  PROVE  TextInv'
<1>1. /\ fontSet \in Seq(Fonts) /\ Len(fontSet) \in Nat
      /\ IsRuns(style, Len(plain) + 1, 1..Len(fontSet))
  BY LayerStyled
<1>2. style.values \in Seq(1..Len(fontSet))
  BY <1>1 DEF IsRuns
<1> DEFINE v == style.values
           V == 1..Len(fontSet)
           W == 1..Len(fontSet')
           values == [v EXCEPT ![r] = j]
<1>3. V \subseteq W
  <2>1. Len(fontSet') \in Nat
    OBVIOUS
  <2> QED BY <1>1, <2>1
<1>4. v \in Seq(V) /\ j \in W /\ r \in DOMAIN v
  BY <1>2
<1>5. style' = [style EXCEPT !.values = values]
  OBVIOUS
<1> HIDE DEF v, V, W
<1>6. values \in Seq(W) /\ Len(values) = Len(v)
  BY <1>3, <1>4, OtherValue
<1> HIDE DEF values
<1>7. values \in Seq(1..Len(fontSet')) /\ Len(values) = Len(style.values)
  BY <1>6 DEF v, W
<1> QED BY <1>5, <1>7, StyleValuesKeep

\* set_style_run_font.
LEMMA SetStyleRunFontKeeps ==
  ASSUME TextInv, NEW r \in DOMAIN style.lengths, NEW i \in DOMAIN fontSet, SetStyleRunFont(r, i)
  PROVE  TextInv'
<1>1. fontSet \in Seq(Fonts) /\ Len(fontSet) \in Nat
  BY LayerStyled
<1>2. /\ r \in DOMAIN style.values /\ UNCHANGED <<text, para>> /\ fontSet' = fontSet
      /\ style' = [style EXCEPT !.values[r] = i]
  BY DEF SetStyleRunFont
<1>3. i \in 1..Len(fontSet')
  BY <1>1, <1>2
<1>4. fontSet' \in Seq(Fonts) /\ Len(fontSet) <= Len(fontSet')
  BY <1>1, <1>2
<1> QED BY <1>2, <1>3, <1>4, SetRunFontKeeps

\* set_style_run_font by the name of a font.
LEMMA SetStyleRunFontByNameKeeps ==
  ASSUME TextInv, NEW r \in DOMAIN style.lengths, NEW f \in Fonts, SetStyleRunFontByName(r, f)
  PROVE  TextInv'
<1>1. fontSet \in Seq(Fonts)
  BY LayerStyled
<1> DEFINE j == IndexIn(f)
<1>2. /\ r \in DOMAIN style.values /\ UNCHANGED <<text, para>> /\ fontSet' = FontSetWith(f)
      /\ style' = [style EXCEPT !.values[r] = j]
  BY DEF SetStyleRunFontByName
<1>3. j \in 1..Len(fontSet') /\ fontSet' \in Seq(Fonts) /\ Len(fontSet) <= Len(fontSet')
  BY <1>1, <1>2, FontIsFound
<1> HIDE DEF j
<1> QED BY <1>2, <1>3, SetRunFontKeeps

\* split_style_run.
LEMMA SplitStyleRunKeeps ==
  ASSUME TextInv, NEW r \in DOMAIN style.lengths, NEW offset \in 1..style.lengths[r],
         SplitStyleRun(r, offset)
  PROVE  TextInv'
<1>1. /\ fontSet \in Seq(Fonts)
      /\ IsRuns(style, Len(plain) + 1, 1..Len(fontSet))
      /\ IsRuns(para, Len(plain) + 1, Paras \cup {Absent})
  BY LayerStyled
<1>2. UNCHANGED text /\ para' = para /\ fontSet' = fontSet /\ style' = SplitRun(style, r, offset)
  BY DEF SplitStyleRun
<1>3. r \in 1..Len(style.lengths)
  <2>1. style.lengths \in Seq(Nat)
    BY <1>1 DEF IsRuns
  <2> QED BY <2>1
<1> DEFINE n == Len(plain) + 1
           V == 1..Len(fontSet)
<1>4. IsRuns(style', n, V) /\ Boundaries(style.lengths) \subseteq Boundaries(style'.lengths)
  <2>1. IsRuns(style, n, V)
    BY <1>1
  <2> HIDE DEF n, V
  <2>2. /\ IsRuns(SplitRun(style, r, offset), n, V)
        /\ Boundaries(style.lengths) \subseteq Boundaries(SplitRun(style, r, offset).lengths)
    BY <1>3, <2>1, SplitRuns
  <2> QED BY <1>2, <2>2
<1>5. IsRuns(style', Len(plain) + 1, 1..Len(fontSet')) /\ fontSet' \in Seq(Fonts)
  BY <1>1, <1>2, <1>4
<1>6. IsRuns(para', Len(plain) + 1, Paras \cup {Absent})
  BY <1>1, <1>2
<1> QED BY <1>2, <1>4, <1>5, <1>6, StyleKeeps

\* A call that changes paragraphs only.
LEMMA ParagraphCallKeeps ==
  ASSUME TextInv, UNCHANGED <<text, style, fontSet>>,
         IsRuns(para', Len(plain) + 1, Paras \cup {Absent})
  PROVE  TextInv'
<1>1. /\ fontSet \in Seq(Fonts)
      /\ IsRuns(style, Len(plain) + 1, 1..Len(fontSet))
  BY LayerStyled
<1>2. UNCHANGED text /\ style' = style /\ fontSet' = fontSet
  OBVIOUS
<1>3. /\ fontSet' \in Seq(Fonts) /\ IsRuns(style', Len(plain) + 1, 1..Len(fontSet'))
      /\ Boundaries(style.lengths) \subseteq Boundaries(style'.lengths)
  BY <1>1, <1>2
<1> QED BY <1>2, <1>3, StyleKeeps

\* split_paragraph_run.
LEMMA SplitParagraphRunKeeps ==
  ASSUME TextInv, NEW r \in DOMAIN para.lengths, NEW offset \in 1..para.lengths[r],
         SplitParagraphRun(r, offset)
  PROVE  TextInv'
<1>1. IsRuns(para, Len(plain) + 1, Paras \cup {Absent})
  BY LayerStyled
<1>2. UNCHANGED <<text, style, fontSet>> /\ para' = SplitRun(para, r, offset)
  BY DEF SplitParagraphRun
<1>3. r \in 1..Len(para.lengths)
  <2>1. para.lengths \in Seq(Nat)
    BY <1>1 DEF IsRuns
  <2> QED BY <2>1
<1> DEFINE n == Len(plain) + 1
           V == Paras \cup {Absent}
<1>4. IsRuns(para', n, V)
  <2>1. IsRuns(para, n, V)
    BY <1>1
  <2> HIDE DEF n, V
  <2>2. IsRuns(SplitRun(para, r, offset), n, V)
    BY <1>3, <2>1, SplitRuns
  <2> QED BY <1>2, <2>2
<1> QED BY <1>2, <1>4, ParagraphCallKeeps

\* set_justification of a paragraph run.
LEMMA SetParagraphRunKeeps ==
  ASSUME TextInv, NEW r \in DOMAIN para.lengths, NEW x \in Paras,
         SetParagraphRunJustification(r, x)
  PROVE  TextInv'
<1>1. IsRuns(para, Len(plain) + 1, Paras \cup {Absent})
  BY LayerStyled
<1> DEFINE v == para.values
           V == Paras \cup {Absent}
           n == Len(plain) + 1
           values == [v EXCEPT ![r] = x]
<1>2. /\ r \in DOMAIN v /\ UNCHANGED <<text, style, fontSet>>
      /\ para' = [para EXCEPT !.values = values]
  BY DEF SetParagraphRunJustification
<1>3. v \in Seq(V) /\ x \in V /\ V \subseteq V /\ IsRuns(para, n, V)
  BY <1>1 DEF IsRuns
<1>4. v = para.values
  OBVIOUS
<1> HIDE DEF v, V, n
<1>5. values \in Seq(V) /\ Len(values) = Len(v)
  BY <1>2, <1>3, OtherValue
<1> HIDE DEF values
<1>6. IsRuns(para', n, V)
  BY <1>2, <1>3, <1>4, <1>5, RunsWithValues
<1> QED BY <1>2, <1>6, ParagraphCallKeeps DEF n, V

\* set_font of the ranges of a proxy.
LEMMA StyleRangeKeeps ==
  ASSUME TextInv, NEW proxy \in Proxies, NEW f \in Fonts, StyleRangeSetFont(proxy, f)
  PROVE  TextInv'
<1> DEFINE n == Len(plain) + 1
           V == 1..Len(fontSet)
           j == IndexIn(f)
           done == ApplyStyle(style, proxy, j, {})
<1>1. /\ fontSet \in Seq(Fonts) /\ Len(fontSet) \in Nat /\ n \in Nat
      /\ IsRuns(style, n, V)
      /\ IsRuns(para, Len(plain) + 1, Paras \cup {Absent})
  BY LayerStyled
<1>2. /\ style' = done.runs /\ UNCHANGED text /\ para' = para
      /\ fontSet' = IF done.called THEN FontSetWith(f) ELSE fontSet
  BY DEF StyleRangeSetFont
<1>3. proxy \in Seq(Nat \X Nat)
  BY ProxyRanges
<1> HIDE DEF n, V, j
<1>4. Styling(style, n, V, j, done)
  BY <1>1, <1>3, AppliedStyle
<1> HIDE DEF done
<1>5. /\ done.called \in BOOLEAN
      /\ IsRuns(done.runs, n, V \cup {j})
      /\ ~done.called => IsRuns(done.runs, n, V)
      /\ Boundaries(style.lengths) \subseteq Boundaries(done.runs.lengths)
  BY <1>4 DEF Styling
<1>6. /\ FontSetWith(f) \in Seq(Fonts) /\ Len(fontSet) <= Len(FontSetWith(f))
      /\ j \in 1..Len(FontSetWith(f)) /\ Len(FontSetWith(f)) \in Nat
  BY <1>1, FontIsFound DEF j
<1>7. fontSet' \in Seq(Fonts) /\ IsRuns(style', n, 1..Len(fontSet'))
  <2>1. CASE done.called
    <3> DEFINE W == 1..Len(FontSetWith(f))
               U == V \cup {j}
    <3>1. U \subseteq W
      BY <1>1, <1>6 DEF V
    <3>2. IsRuns(done.runs, n, U)
      BY <1>5
    <3> HIDE DEF U, W
    <3>3. IsRuns(done.runs, n, W)
      BY <3>1, <3>2, RunsOfMore
    <3>4. fontSet' = FontSetWith(f)
      BY <1>2, <2>1
    <3> QED BY <1>2, <1>6, <3>3, <3>4 DEF W
  <2>2. CASE ~done.called
    <3>1. fontSet' = fontSet
      BY <1>2, <2>2
    <3> QED BY <1>1, <1>2, <1>5, <2>2, <3>1 DEF V
  <2> QED BY <2>1, <2>2
<1>8. Boundaries(style.lengths) \subseteq Boundaries(style'.lengths)
  BY <1>2, <1>5
<1>9. IsRuns(para', Len(plain) + 1, Paras \cup {Absent})
  BY <1>1, <1>2
<1>10. IsRuns(style', Len(plain) + 1, 1..Len(fontSet'))
  BY <1>7 DEF n
<1> QED BY <1>2, <1>7, <1>8, <1>9, <1>10, StyleKeeps

\* set_justification of the ranges of a proxy.
LEMMA ParagraphRangeKeeps ==
  ASSUME TextInv, NEW proxy \in Proxies, NEW x \in Paras, ParagraphRangeSetJustification(proxy, x)
  PROVE  TextInv'
<1> DEFINE n == Len(plain) + 1
           V == Paras \cup {Absent}
           refused == {Absent}
           done == ApplyStyle(para, proxy, x, refused)
<1>1. n \in Nat /\ IsRuns(para, n, V)
  BY LayerStyled
<1>2. para' = done.runs /\ UNCHANGED <<text, style, fontSet>>
  BY DEF ParagraphRangeSetJustification
<1>3. proxy \in Seq(Nat \X Nat)
  BY ProxyRanges
<1>4. V \cup {x} = V
  OBVIOUS
<1> HIDE DEF n, V, refused
<1>5. Styling(para, n, V, x, done)
  BY <1>1, <1>3, AppliedStyle
<1> HIDE DEF done
<1>6. IsRuns(done.runs, n, V \cup {x})
  BY <1>5 DEF Styling
<1>7. IsRuns(para', n, V)
  BY <1>2, <1>4, <1>6
<1> QED BY <1>2, <1>7, ParagraphCallKeeps DEF n, V

-----------------------------------------------------------------------------
\* Every step of a careful client keeps the invariant.
LEMMA TextInvKept ==
  ASSUME TextInv, [CarefulTextNext]_textVars
  PROVE  TextInv'
<1>1. CASE UNCHANGED textVars
  BY <1>1 DEF textVars, TextInv, TextIsOrdinary, RunsFit, LegacyRangesFollow
<1>2. CASE CarefulTextNext
  <2>1. (TextCall \/ StyleCall) /\ Ordinary(plain')
    BY <1>2 DEF CarefulTextNext, TextNext
  <2>2. ASSUME NEW t \in Texts, SetText(t) \/ SetTextEqualLength(t) PROVE TextInv'
    BY <2>1, <2>2, SetTextKeeps DEF SetTextEqualLength
  <2>3. ASSUME NEW old \in Needles, NEW new \in News, NEW all \in BOOLEAN,
               ReplaceText(old, new, all) \/ ReplaceTextEqualLength(old, new, all)
        PROVE  TextInv'
    BY <2>1, <2>3, ReplaceTextKeeps DEF ReplaceTextEqualLength
  <2>4. CASE TextCall
    BY <2>2, <2>3, <2>4 DEF TextCall
  <2>5. ASSUME NEW f \in Fonts, AddFont(f) \/ SetFont(f) PROVE TextInv'
    BY <2>5, AddFontKeeps, SetFontKeeps
  <2>6. ASSUME NEW f \in Fonts, NEW i \in DOMAIN fontSet, SetFontPostscriptName(i, f)
        PROVE  TextInv'
    BY <2>6, RenameFontKeeps
  <2>7. ASSUME NEW r \in DOMAIN style.lengths,
               \/ \E offset \in 1..style.lengths[r] : SplitStyleRun(r, offset)
               \/ \E i \in DOMAIN fontSet : SetStyleRunFont(r, i)
               \/ \E f \in Fonts : SetStyleRunFontByName(r, f)
        PROVE  TextInv'
    BY <2>7, SplitStyleRunKeeps, SetStyleRunFontKeeps, SetStyleRunFontByNameKeeps
  <2>8. ASSUME NEW r \in DOMAIN para.lengths,
               \/ \E offset \in 1..para.lengths[r] : SplitParagraphRun(r, offset)
               \/ \E v \in Paras : SetParagraphRunJustification(r, v)
        PROVE  TextInv'
    BY <2>8, SplitParagraphRunKeeps, SetParagraphRunKeeps
  <2>9. ASSUME NEW proxy \in Proxies,
               \/ \E f \in Fonts : StyleRangeSetFont(proxy, f)
               \/ \E v \in Paras : ParagraphRangeSetJustification(proxy, v)
        PROVE  TextInv'
    BY <2>9, StyleRangeKeeps, ParagraphRangeKeeps
  <2>10. CASE StyleCall
    BY <2>5, <2>6, <2>7, <2>8, <2>9, <2>10 DEF StyleCall
  <2> QED BY <2>1, <2>4, <2>10
<1> QED BY <1>1, <1>2

\* The invariant holds of careful clients.
LEMMA TextInvHolds == CarefulTextSpec => []TextInv
<1>1. CarefulTextInit => TextInv
  BY TextInitHolds
<1>2. TextInv /\ [CarefulTextNext]_textVars => TextInv'
  BY TextInvKept
<1> QED BY <1>1, <1>2, PTL DEF CarefulTextSpec

\* For a client that leaves no text empty and uses no text with a parenthesis,
\* Photoshop reads in the engine data the text that text() returns, and the
\* literal ends where the text does, after every call (set_text, replace_text,
\* remap_engine_data).
THEOREM EngineReadsTheText == CarefulTextSpec => []EngineShowsTheText
<1>1. TextInv => EngineShowsTheText
  BY TextInvImplies
<1> QED BY <1>1, TextInvHolds, PTL

\* For such a client the style and paragraph runs cover the engine's text
\* exactly, whatever was edited, split and styled, and every style run has a
\* font of the list.
THEOREM EveryUnitHasARun == CarefulTextSpec => []RunsCoverTheText
<1>1. TextInv => RunsCoverTheText
  BY TextInvImplies
<1> QED BY <1>1, TextInvHolds, PTL

\* For such a client every From and To index of an old file is a boundary of
\* the style runs, whatever was edited: the two places of the code that move
\* them never disagree.
THEOREM LegacyIndexesAreBoundaries == CarefulTextSpec => []LegacyRangesFollow
<1>1. TextInv => LegacyRangesFollow
  BY TextInvImplies
<1> QED BY <1>1, TextInvHolds, PTL

-----------------------------------------------------------------------------
(* Sequences that are put together piece by piece.                         *)

\* f has what the first pieces of ss make together.
IsLayout(f, ss) == f = [n \in 0..Len(ss) |-> IF n = 0 THEN <<>> ELSE f[n - 1] \o ss[n]]

\* There are the prefixes that the code puts together.
LEMMA LayoutExists ==
  ASSUME NEW T, NEW ss \in Seq(Seq(T))
  PROVE  \E w : IsLayout(w, ss)
<1> DEFINE N == Len(ss)
           V == Seq(T)
           F == [n \in Nat |-> [x \in V |-> IF n \in 1..N THEN x \o ss[n] ELSE x]]
<1>1. N \in Nat /\ \A n \in 1..N : ss[n] \in V
  OBVIOUS
<1>2. PICK w : Solves(w, V, <<>>, F, N)
  <2>1. ASSUME NEW n \in Nat, NEW x \in V PROVE (IF n \in 1..N THEN x \o ss[n] ELSE x) \in V
    <3>1. CASE n \in 1..N
      <4>1. ss[n] \in Seq(T)
        BY <1>1, <3>1
      <4>2. x \o ss[n] \in Seq(T)
        BY <4>1
      <4> QED BY <3>1, <4>2
    <3> QED BY <3>1
  <2> HIDE DEF V, N
  <2>2. F \in [Nat -> [V -> V]]
    BY <2>1
  <2>3. <<>> \in V
    BY DEF V
  <2> HIDE DEF F
  <2> QED BY <1>1, <2>2, <2>3, Recursion
<1>3. w \in [0..N -> V] /\ w[0] = <<>> /\ \A n \in 1..N : w[n] = w[n - 1] \o ss[n]
  <2>1. w \in [0..N -> V] /\ w[0] = <<>> /\ \A n \in 1..N : w[n] = F[n][w[n - 1]]
    BY <1>2 DEF Solves
  <2>2. ASSUME NEW n \in 1..N PROVE w[n] = w[n - 1] \o ss[n]
    <3>1. n \in Nat /\ n - 1 \in 0..N
      BY <1>1
    <3> HIDE DEF V, N
    <3>2. w[n - 1] \in V
      BY <2>1, <3>1
    <3> QED BY <2>1, <3>1, <3>2
  <2> QED BY <2>1, <2>2
<1> HIDE DEF F, V
<1>4. \A n \in 0..N : w[n] = IF n = 0 THEN <<>> ELSE w[n - 1] \o ss[n]
  <2>1. \A n \in 0..N : n = 0 \/ (n # 0 /\ n \in 1..N)
    BY <1>1
  <2> QED BY <1>3, <2>1
<1>5. w = [n \in 0..N |-> w[n]]
  BY <1>3
<1>6. w = [n \in 0..N |-> IF n = 0 THEN <<>> ELSE w[n - 1] \o ss[n]]
  BY <1>4, <1>5
<1> QED BY <1>6 DEF IsLayout

\* What f puts together has every piece, behind the pieces before it.
IsLaidOut(f, ss, T) ==
  /\ \A n \in 0..Len(ss) : f[n] \in Seq(T)
  /\ f[0] = <<>> /\ \A n \in 1..Len(ss) : f[n] = f[n - 1] \o ss[n]
  /\ \A i \in 1..Len(ss) : \A t \in 1..Len(ss[i]) :
       /\ Len(f[i - 1]) + t \in 1..Len(f[Len(ss)])
       /\ f[Len(ss)][Len(f[i - 1]) + t] = ss[i][t]

\* Every piece is in what was put together, behind the pieces before it.
LEMMA LaidOut ==
  ASSUME NEW T, NEW ss \in Seq(Seq(T)), NEW f, IsLayout(f, ss)
  PROVE  IsLaidOut(f, ss, T)
<1> DEFINE N == Len(ss)
<1>1. N \in Nat /\ \A n \in 1..N : ss[n] \in Seq(T)
  OBVIOUS
<1>2. f[0] = <<>> /\ \A n \in 1..N : f[n] = f[n - 1] \o ss[n]
  <2>1. 0 \in 0..N /\ \A n \in 1..N : n \in 0..N /\ n # 0
    BY <1>1
  <2> DEFINE Body(w) == [n \in 0..N |-> IF n = 0 THEN <<>> ELSE w[n - 1] \o ss[n]]
             g == Body(f)
  <2>2. f = g
    BY DEF IsLayout
  <2>3. \A n \in 0..N : g[n] = IF n = 0 THEN <<>> ELSE f[n - 1] \o ss[n]
    OBVIOUS
  <2> HIDE DEF g
  <2>4. \A n \in 0..N : f[n] = IF n = 0 THEN <<>> ELSE f[n - 1] \o ss[n]
    BY <2>2, <2>3
  <2> HIDE DEF N
  <2> QED BY <2>1, <2>4
<1> DEFINE S == {n \in Nat : n <= N => f[n] \in Seq(T)}
<1>3. 0 \in S
  <2>1. f[0] \in Seq(T)
    BY <1>2
  <2> QED BY <2>1
<1>4. ASSUME NEW n \in Nat, n \in S PROVE n + 1 \in S
  <2> SUFFICES ASSUME n + 1 <= N PROVE f[n + 1] \in Seq(T)
    OBVIOUS
  <2>1. n <= N /\ n + 1 \in 1..N /\ (n + 1) - 1 = n
    BY <1>1
  <2>2. f[n] \in Seq(T) /\ ss[n + 1] \in Seq(T) /\ f[n + 1] = f[n] \o ss[n + 1]
    BY <1>1, <1>2, <1>4, <2>1
  <2> QED BY <2>2
<1> HIDE DEF S
<1>5. Nat \subseteq S
  BY <1>3, <1>4, SetInduction
<1>6. \A n \in 0..N : f[n] \in Seq(T)
  BY <1>1, <1>5 DEF S
<1> DEFINE Has(n) == \A i \in 1..n : \A t \in 1..Len(ss[i]) :
                       /\ Len(f[i - 1]) + t \in 1..Len(f[n])
                       /\ f[n][Len(f[i - 1]) + t] = ss[i][t]
           P == {n \in Nat : n <= N => Has(n)}
<1>7. 0 \in P
  OBVIOUS
<1>8. ASSUME NEW n \in Nat, n \in P PROVE n + 1 \in P
  <2> SUFFICES ASSUME n + 1 <= N PROVE Has(n + 1)
    <3> HIDE DEF Has
    <3> QED OBVIOUS
  <2> SUFFICES ASSUME NEW i \in 1..(n + 1), NEW t \in 1..Len(ss[i])
               PROVE  /\ Len(f[i - 1]) + t \in 1..Len(f[n + 1])
                      /\ f[n + 1][Len(f[i - 1]) + t] = ss[i][t]
    OBVIOUS
  <2>1. n <= N /\ n + 1 \in 1..N /\ (n + 1) - 1 = n /\ i \in 1..N
    BY <1>1
  <2> DEFINE a == f[n]
             b == ss[n + 1]
             m == Len(f[i - 1])
  <2>2. a \in Seq(T) /\ b \in Seq(T) /\ f[n + 1] = a \o b
    <3>1. n \in 0..N
      BY <1>1, <2>1
    <3>2. f[n + 1] = f[(n + 1) - 1] \o ss[n + 1]
      BY <1>2, <2>1
    <3>3. f[n] \in Seq(T)
      BY <1>6, <3>1
    <3>4. ss[n + 1] \in Seq(T)
      BY <1>1, <2>1
    <3> QED BY <2>1, <3>2, <3>3, <3>4
  <2>3. m \in Nat /\ ss[i] \in Seq(T)
    <3>1. i - 1 \in 0..N
      BY <1>1, <2>1
    <3> QED BY <1>1, <1>6, <2>1, <3>1
  <2>4. CASE i \in 1..n
    <3>1. m + t \in 1..Len(a) /\ a[m + t] = ss[i][t]
      BY <1>8, <2>1, <2>4
    <3> HIDE DEF a, b, m
    <3>2. m + t \in 1..Len(a \o b) /\ (a \o b)[m + t] = a[m + t]
      BY <2>2, <3>1
    <3> QED BY <2>2, <3>1, <3>2 DEF m
  <2>5. CASE i = n + 1
    <3>1. m = Len(a) /\ ss[i] = b /\ t \in 1..Len(b)
      BY <2>1, <2>5
    <3> HIDE DEF a, b, m
    <3>2. Len(a) + t \in 1..Len(a \o b) /\ (a \o b)[Len(a) + t] = b[t]
      BY <2>2, <3>1
    <3> QED BY <2>2, <3>1, <3>2 DEF m
  <2> QED BY <2>1, <2>4, <2>5
<1> HIDE DEF P
<1>9. N \in P
  BY <1>1, <1>7, <1>8, SetInduction
<1>10. Has(N)
  BY <1>1, <1>9 DEF P
<1> QED BY <1>2, <1>6, <1>10 DEF IsLaidOut

-----------------------------------------------------------------------------
(* The styles of units.                                                    *)

\* Every unit has the value of the run it is in.
LEMMA SpreadIs ==
  ASSUME NEW n \in Nat, NEW V, NEW runs, IsRuns(runs, n, V)
  PROVE  /\ Spread(runs) \in Seq(V) /\ Len(Spread(runs)) = n
         /\ \A r \in 1..Len(runs.lengths) : \A p \in Nat :
              Start(runs.lengths, r) <= p /\ p < Start(runs.lengths, r + 1)
                => Spread(runs)[p + 1] = runs.values[r]
<1> DEFINE s == runs.lengths
           v == runs.values
           N == Len(s)
           ss == [r \in 1..N |-> [k \in 1..s[r] |-> v[r]]]
           Body(w) == [r \in 0..N |-> IF r = 0 THEN <<>>
                                      ELSE w[r - 1] \o [k \in 1..s[r] |-> v[r]]]
           f == CHOOSE w : w = Body(w)
<1>1. Spread(runs) = f[N]
  BY DEF Spread
<1>2. s \in Seq(Nat) /\ v \in Seq(V) /\ N \in Nat /\ Len(v) = N /\ Total(s) = n
  BY DEF IsRuns
<1> HIDE DEF s, v
<1>3. \A r \in 1..N : s[r] \in Nat /\ v[r] \in V
  BY <1>2
<1>4. ss \in Seq(Seq(V)) /\ Len(ss) = N /\ \A r \in 1..N : Len(ss[r]) = s[r]
  <2>1. ASSUME NEW r \in 1..N
        PROVE  [k \in 1..s[r] |-> v[r]] \in Seq(V) /\ Len([k \in 1..s[r] |-> v[r]]) = s[r]
    <3>1. s[r] \in Nat /\ v[r] \in V
      BY <1>3
    <3> QED BY <3>1
  <2>2. \A r \in 1..N : ss[r] = [k \in 1..s[r] |-> v[r]]
    OBVIOUS
  <2>3. \A r \in 1..N : ss[r] \in Seq(V) /\ Len(ss[r]) = s[r]
    BY <2>1, <2>2
  <2>4. ss \in [1..N -> Seq(V)]
    BY <2>1
  <2> HIDE DEF ss, N
  <2> QED BY <1>2, <2>3, <2>4
<1>5. \A r \in 1..N : ss[r] = [k \in 1..s[r] |-> v[r]]
  OBVIOUS
<1> HIDE DEF ss
<1>6. PICK w : IsLayout(w, ss)
  BY <1>4, LayoutExists
<1> HIDE DEF N
<1>7. ASSUME NEW x
      PROVE  [r \in 0..Len(ss) |-> IF r = 0 THEN <<>> ELSE x[r - 1] \o ss[r]] = Body(x)
  <2>1. \A r \in 0..N : r = 0 \/ r \in 1..N
    BY <1>2
  <2> QED BY <1>4, <1>5, <2>1
<1>8. f = Body(f)
  <2>1. w = Body(w)
    BY <1>6, <1>7 DEF IsLayout
  <2> HIDE DEF Body
  <2> QED BY <2>1
<1> HIDE DEF f
<1>9. IsLayout(f, ss)
  BY <1>7, <1>8 DEF IsLayout
<1> HIDE DEF Body
<1>10. /\ \A r \in 0..N : f[r] \in Seq(V)
       /\ f[0] = <<>> /\ \A r \in 1..N : f[r] = f[r - 1] \o ss[r]
       /\ \A r \in 1..N : \A t \in 1..s[r] :
            f[N][Len(f[r - 1]) + t] = ss[r][t]
  <2>1. IsLaidOut(f, ss, V)
    <3>1. ss \in Seq(Seq(V))
      BY <1>4
    <3> QED BY <1>9, <3>1, LaidOut
  <2>2. /\ \A r \in 0..Len(ss) : f[r] \in Seq(V)
        /\ f[0] = <<>> /\ \A r \in 1..Len(ss) : f[r] = f[r - 1] \o ss[r]
    BY <2>1 DEF IsLaidOut
  <2>3. \A r \in 1..Len(ss) : \A t \in 1..Len(ss[r]) :
          f[Len(ss)][Len(f[r - 1]) + t] = ss[r][t]
    BY <2>1 DEF IsLaidOut
  <2>4. \A r \in 1..N : \A t \in 1..s[r] : f[N][Len(f[r - 1]) + t] = ss[r][t]
    BY <1>4, <2>3
  <2> QED BY <1>4, <2>2, <2>4
<1> DEFINE g == [r \in 1..N + 1 |-> Len(f[r - 1])]
<1>11. g[1] = 0 /\ \A r \in 1..N : g[r + 1] = g[r] + s[r]
  <2>1. g[1] = 0
    BY <1>2, <1>10
  <2>2. ASSUME NEW r \in 1..N PROVE g[r + 1] = g[r] + s[r]
    <3>1. r - 1 \in 0..N /\ r \in 0..N /\ r \in 1..N + 1 /\ r + 1 \in 1..N + 1 /\ (r + 1) - 1 = r
      BY <1>2
    <3>2. f[r - 1] \in Seq(V) /\ ss[r] \in Seq(V) /\ f[r] = f[r - 1] \o ss[r] /\ Len(ss[r]) = s[r]
      <4>1. f[r - 1] \in Seq(V)
        BY <1>10, <3>1
      <4>2. f[r] = f[r - 1] \o ss[r]
        BY <1>10
      <4>3. Len(ss[r]) = s[r]
        BY <1>4
      <4>4. ss[r] \in Seq(V)
        <5>1. ss \in Seq(Seq(V)) /\ r \in 1..Len(ss)
          BY <1>4
        <5> QED BY <5>1
      <4> QED BY <4>1, <4>2, <4>3, <4>4
    <3> DEFINE x == f[r - 1]
               y == ss[r]
    <3>3. x \in Seq(V) /\ y \in Seq(V) /\ f[r] = x \o y /\ Len(y) = s[r]
      BY <3>2
    <3> HIDE DEF x, y, g
    <3>4. Len(x \o y) = Len(x) + Len(y)
      <4>1. x \in Seq(V) /\ y \in Seq(V)
        BY <3>3
      <4> QED BY <4>1
    <3>5. Len(f[r]) = Len(x) + s[r]
      BY <3>3, <3>4
    <3> QED BY <3>1, <3>5 DEF x, g
  <2> QED BY <2>1, <2>2
<1>12. /\ \A r \in 1..N + 1 : Start(s, r) = g[r]
       /\ Total(s) = g[N + 1]
  <2> HIDE DEF g
  <2>1. /\ \A r \in 1..(Len(s) + 1) : Start(s, r) = g[r]
        /\ Total(s) = g[Len(s) + 1]
    BY <1>2, <1>11, StartsAre DEF N
  <2> QED BY <2>1 DEF N
<1>13. f[N] \in Seq(V) /\ Len(f[N]) = n
  <2>1. N + 1 \in 1..N + 1 /\ (N + 1) - 1 = N /\ N \in 0..N
    BY <1>2
  <2> QED BY <1>2, <1>10, <1>12, <2>1
<1>14. ASSUME NEW r \in 1..N, NEW p \in Nat, Start(s, r) <= p, p < Start(s, r + 1)
       PROVE  f[N][p + 1] = v[r]
  <2>1. r \in 1..N + 1 /\ r - 1 \in 0..N
    BY <1>2
  <2>2. Start(s, r) = Len(f[r - 1]) /\ Len(f[r - 1]) \in Nat
    <3>1. Start(s, r) = g[r]
      BY <1>12, <2>1
    <3>2. f[r - 1] \in Seq(V)
      BY <1>10, <2>1
    <3> QED BY <2>1, <3>1, <3>2
  <2>3. Start(s, r + 1) = Start(s, r) + s[r] /\ s[r] \in Nat
    BY <1>2, <1>3, Starts DEF N
  <2> DEFINE a == Len(f[r - 1])
             t == p + 1 - a
  <2>3a. a \in Nat /\ a <= p /\ p < a + s[r]
    BY <1>14, <2>2, <2>3
  <2> HIDE DEF a
  <2>4. t \in 1..s[r] /\ a + t = p + 1
    BY <2>3, <2>3a
  <2> HIDE DEF t
  <2>5. f[N][a + t] = ss[r][t]
    BY <1>10, <2>4 DEF a
  <2>6. ss[r][t] = v[r]
    BY <1>5, <2>4
  <2> QED BY <2>4, <2>5, <2>6
<1> QED BY <1>1, <1>13, <1>14 DEF s, v, N

\* The place p is in a run and shows its value.
IsShown(runs, p) ==
  \E r \in 1..Len(runs.lengths) :
    /\ Start(runs.lengths, r) <= p /\ p < Start(runs.lengths, r + 1)
    /\ Spread(runs)[p + 1] = runs.values[r]

\* Every place shows the value of a run.
LEMMA ShownBy ==
  ASSUME NEW n \in Nat, NEW V, NEW runs, IsRuns(runs, n, V), NEW p \in Nat, p < n
  PROVE  IsShown(runs, p)
<1> DEFINE s == runs.lengths
           f == FindRunForOffset(s, p)
<1>1. s \in Seq(Nat) /\ Total(s) = n
  BY DEF IsRuns
<1>2. f \in 1..Len(s) /\ Start(s, f) <= p /\ p < Start(s, f) + s[f]
  BY <1>1, FoundRun
<1>3. Start(s, f + 1) = Start(s, f) + s[f]
  BY <1>1, <1>2, Starts
<1> HIDE DEF f
<1>4. Spread(runs)[p + 1] = runs.values[f]
  BY <1>2, <1>3, SpreadIs
<1> QED BY <1>2, <1>3, <1>4 DEF IsShown

\* Wherever a run of new is, runs shows its value.
ShowsLike(new, runs, n) ==
  \A r \in 1..Len(new.lengths) : \A p \in Nat :
    Start(new.lengths, r) <= p /\ p < Start(new.lengths, r + 1) /\ p < n
      => Spread(runs)[p + 1] = new.values[r]

\* Units that show the same at every place show the same.
LEMMA SameSpread ==
  ASSUME NEW n \in Nat, NEW runs, NEW new, ShowsLike(new, runs, n),
         \E V : IsRuns(runs, n, V), \E W : IsRuns(new, n, W)
  PROVE  Spread(new) = Spread(runs)
<1>0. PICK V, W : IsRuns(runs, n, V) /\ IsRuns(new, n, W)
  OBVIOUS
<1>1. /\ Spread(runs) \in Seq(V) /\ Len(Spread(runs)) = n
      /\ Spread(new) \in Seq(W) /\ Len(Spread(new)) = n
  BY <1>0, SpreadIs
<1>2. ASSUME NEW i \in 1..n PROVE Spread(new)[i] = Spread(runs)[i]
  <2> DEFINE p == i - 1
  <2>1. p \in Nat /\ p < n /\ p + 1 = i
    OBVIOUS
  <2> HIDE DEF p
  <2>2. PICK r \in 1..Len(new.lengths) :
          /\ Start(new.lengths, r) <= p /\ p < Start(new.lengths, r + 1)
          /\ Spread(new)[p + 1] = new.values[r]
    <3>1. IsShown(new, p)
      BY <2>1, ShownBy
    <3> QED BY <3>1 DEF IsShown
  <2>3. Spread(runs)[p + 1] = new.values[r]
    BY <2>1, <2>2 DEF ShowsLike
  <2> QED BY <2>1, <2>2, <2>3
<1> DEFINE x == Spread(new)
           y == Spread(runs)
<1>3. x \in Seq(W) /\ y \in Seq(V) /\ Len(x) = n /\ Len(y) = n /\ \A i \in 1..n : x[i] = y[i]
  BY <1>1, <1>2
<1> HIDE DEF x, y
<1>4. DOMAIN x = 1..n /\ DOMAIN y = 1..n
  BY <1>3
<1>5. x = [i \in 1..n |-> x[i]] /\ y = [i \in 1..n |-> y[i]]
  BY <1>3, <1>4
<1>6. x = y
  BY <1>3, <1>5
<1> QED BY <1>6 DEF x, y

\* Where the halves of a split run start, and what they show.
LEMMA SplitStarts ==
  ASSUME NEW n, NEW V, NEW runs, IsRuns(runs, n, V), NEW r \in 1..Len(runs.lengths),
         NEW k \in 1..runs.lengths[r], NEW new, new = SplitRun(runs, r, k)
  PROVE  /\ Len(new.lengths) = Len(runs.lengths) + 1
         /\ \A x \in 1..(Len(runs.lengths) + 2) :
              Start(new.lengths, x)
                = IF x <= r THEN Start(runs.lengths, x)
                  ELSE IF x = r + 1 THEN Start(runs.lengths, r) + k
                  ELSE Start(runs.lengths, x - 1)
         /\ \A x \in 1..(Len(runs.lengths) + 1) :
              new.values[x] = IF x <= r THEN runs.values[x] ELSE runs.values[x - 1]
<1> DEFINE s == runs.lengths
           v == runs.values
           t == InsertAt(ReplaceAt(s, r, k), r + 1, s[r] - k)
           e == v[r]
           w == InsertAt(v, r, e)
<1>1. s \in Seq(Nat) /\ v \in Seq(V) /\ Len(s) = Len(v) /\ Len(s) \in Nat
  BY DEF IsRuns
<1>2. new = [lengths |-> t, values |-> w]
  BY DEF SplitRun
<1> HIDE DEF s, v
<1>3. r \in 1..Len(s) /\ k \in 1..s[r]
  BY DEF s
<1>4. /\ Len(t) = Len(s) + 1
      /\ \A x \in 1..(Len(s) + 2) :
           Start(t, x) = IF x <= r THEN Start(s, x)
                         ELSE IF x = r + 1 THEN Start(s, r) + k ELSE Start(s, x - 1)
  BY <1>1, <1>3, SplitLengths, ZenonT(30)
<1>5. e \in V /\ r \in 1..(Len(v) + 1) /\ r \in Nat
  BY <1>1, <1>3
<1>6. e = v[r]
  OBVIOUS
<1> HIDE DEF e, t
<1>7. \A x \in 1..(Len(v) + 1) : w[x] = IF x < r THEN v[x] ELSE IF x = r THEN e ELSE v[x - 1]
  <2>1. v \in Seq(V) /\ r \in 1..(Len(v) + 1) /\ e \in V
    BY <1>1, <1>5
  <2>2. /\ InsertAt(v, r, e) \in Seq(V) /\ Len(InsertAt(v, r, e)) = Len(v) + 1
        /\ \A x \in 1..(Len(v) + 1) :
             InsertAt(v, r, e)[x] = IF x < r THEN v[x] ELSE IF x = r THEN e ELSE v[x - 1]
    BY <2>1, InsertedAt
  <2> QED BY <2>2
<1> HIDE DEF w
<1>8. ASSUME NEW x \in 1..(Len(s) + 1)
      PROVE  w[x] = IF x <= r THEN v[x] ELSE v[x - 1]
  <2>1. w[x] = IF x < r THEN v[x] ELSE IF x = r THEN e ELSE v[x - 1]
    BY <1>1, <1>7
  <2>2. x \in Nat /\ r \in Nat
    BY <1>1, <1>5
  <2>3. CASE x < r
    BY <2>1, <2>2, <2>3
  <2>4. CASE x = r
    BY <1>6, <2>1, <2>2, <2>4
  <2>5. CASE r < x
    BY <2>1, <2>2, <2>5
  <2> QED BY <2>2, <2>3, <2>4, <2>5
<1>9. new.lengths = t /\ new.values = w
  BY <1>2
<1> QED BY <1>4, <1>8, <1>9 DEF s, v

\* Splitting a run shows nowhere.
LEMMA SplitKeepsSpread ==
  ASSUME NEW n \in Nat, NEW V, NEW runs, IsRuns(runs, n, V), NEW r \in 1..Len(runs.lengths),
         NEW k \in 1..runs.lengths[r]
  PROVE  Spread(SplitRun(runs, r, k)) = Spread(runs)
<1> DEFINE new == SplitRun(runs, r, k)
           s == runs.lengths
           t == new.lengths
<1>1. IsRuns(new, n, V)
  BY SplitRuns
<1>2. /\ Len(t) = Len(s) + 1
      /\ \A x \in 1..(Len(s) + 2) :
           Start(t, x) = IF x <= r THEN Start(s, x)
                         ELSE IF x = r + 1 THEN Start(s, r) + k ELSE Start(s, x - 1)
      /\ \A x \in 1..(Len(s) + 1) :
           new.values[x] = IF x <= r THEN runs.values[x] ELSE runs.values[x - 1]
  <2> HIDE DEF new
  <2>1. new = SplitRun(runs, r, k)
    BY DEF new
  <2> QED BY <2>1, SplitStarts
<1>3. s \in Seq(Nat) /\ Len(s) \in Nat /\ r \in 1..Len(s) /\ k \in 1..s[r]
  BY DEF IsRuns
<1>4. Start(s, r + 1) = Start(s, r) + s[r] /\ Start(s, r) \in Nat /\ s[r] \in Nat
  <2>1. r \in 1..(Len(s) + 1) /\ s[r] \in Nat
    BY <1>3
  <2> QED BY <1>3, <2>1, Starts
<1>5. \A x \in 1..Len(s) : \A p \in Nat :
        Start(s, x) <= p /\ p < Start(s, x + 1) => Spread(runs)[p + 1] = runs.values[x]
  BY SpreadIs
<1> HIDE DEF new, s, t
<1>6. ASSUME NEW x \in 1..Len(t), NEW p \in Nat, Start(t, x) <= p, p < Start(t, x + 1)
      PROVE  Spread(runs)[p + 1] = new.values[x]
  <2>0. /\ x \in 1..(Len(s) + 1) /\ x \in 1..(Len(s) + 2) /\ x + 1 \in 1..(Len(s) + 2)
        /\ x \in Nat /\ r \in Nat
    BY <1>2, <1>3
  <2>1. CASE x < r
    <3>1. x <= r /\ x + 1 <= r /\ x \in 1..Len(s)
      BY <1>3, <2>0, <2>1
    <3>2. Start(t, x) = Start(s, x) /\ Start(t, x + 1) = Start(s, x + 1)
      BY <1>2, <2>0, <3>1
    <3>3. new.values[x] = runs.values[x]
      BY <1>2, <2>0, <3>1
    <3> QED BY <1>5, <1>6, <3>1, <3>2, <3>3
  <2>2. CASE x = r
    <3>1. x <= r /\ x + 1 = r + 1 /\ ~(x + 1 <= r)
      BY <2>0, <2>2
    <3>2. Start(t, x) = Start(s, r) /\ Start(t, x + 1) = Start(s, r) + k
      BY <1>2, <2>0, <2>2, <3>1
    <3>3. new.values[x] = runs.values[r]
      BY <1>2, <2>0, <2>2, <3>1
    <3>4. Start(s, r) <= p /\ p < Start(s, r + 1)
      BY <1>3, <1>4, <1>6, <3>2, SMTT(20)
    <3> QED BY <1>3, <1>5, <3>3, <3>4
  <2>3. CASE x = r + 1
    <3>1. ~(x <= r) /\ ~(x + 1 <= r) /\ x + 1 # r + 1 /\ (x + 1) - 1 = r + 1 /\ x - 1 = r
      BY <2>0, <2>3
    <3>2. Start(t, x) = Start(s, r) + k
      BY <1>2, <2>0, <2>3, <3>1
    <3>3. Start(t, x + 1) = Start(s, r + 1)
      BY <1>2, <2>0, <3>1
    <3>4. new.values[x] = runs.values[r]
      BY <1>2, <2>0, <3>1
    <3>5. Start(s, r) <= p /\ p < Start(s, r + 1)
      BY <1>3, <1>4, <1>6, <3>2, <3>3
    <3> QED BY <1>3, <1>5, <3>4, <3>5
  <2>4. CASE r + 1 < x
    <3>1. /\ ~(x <= r) /\ ~(x + 1 <= r) /\ x # r + 1 /\ x + 1 # r + 1 /\ (x + 1) - 1 = x
          /\ x - 1 \in 1..Len(s) /\ (x - 1) + 1 = x
      <4>1. x \in Nat /\ r \in Nat /\ Len(s) \in Nat /\ 1 <= r /\ x <= Len(s) + 1
        BY <1>3, <2>0
      <4> QED BY <2>4, <4>1
    <3>2. Start(t, x) = Start(s, x - 1)
      BY <1>2, <2>0, <3>1
    <3>3. Start(t, x + 1) = Start(s, x)
      BY <1>2, <2>0, <3>1
    <3>4. new.values[x] = runs.values[x - 1]
      BY <1>2, <2>0, <3>1
    <3> QED BY <1>5, <1>6, <3>1, <3>2, <3>3, <3>4
  <2> QED BY <2>0, <2>1, <2>2, <2>3, <2>4
<1>7. Spread(new) = Spread(runs)
  <2>1. ShowsLike(new, runs, n)
    BY <1>6 DEF t, ShowsLike
  <2>2. (\E V0 : IsRuns(runs, n, V0)) /\ (\E W0 : IsRuns(new, n, W0))
    BY <1>1
  <2> QED BY <2>1, <2>2, SameSpread
<1> QED BY <1>7 DEF new

\* The places of P get a value.
Painted(f, P, value) == [k \in DOMAIN f |-> IF k - 1 \in P THEN value ELSE f[k]]

\* A range [start, end) is exactly the runs a..b of what was split for it.
IsIsolated(cut, start, end, runs, a, b) ==
  /\ a \in 1..Len(cut.runs.lengths) /\ b \in 1..Len(cut.runs.lengths) /\ a <= b
  /\ cut.covers = a..b
  /\ Start(cut.runs.lengths, a) = start
  /\ Start(cut.runs.lengths, b + 1) = end
  /\ Spread(cut.runs) = Spread(runs)

\* Splitting at the start of a range.
LEMMA SplitAtStart ==
  ASSUME NEW n \in Nat, NEW V, NEW runs, IsRuns(runs, n, V), NEW start \in Nat, start < n
  PROVE  LET first == FindRunForOffset(runs.lengths, start)
             inner == start - Start(runs.lengths, first)
             left  == IF inner > 0 THEN SplitRun(runs, first, inner) ELSE runs
             a     == IF inner > 0 THEN first + 1 ELSE first
         IN  /\ IsRuns(left, n, V) /\ Spread(left) = Spread(runs)
             /\ a \in 1..Len(left.lengths) /\ Start(left.lengths, a) = start
<1> DEFINE s     == runs.lengths
           first == FindRunForOffset(s, start)
           inner == start - Start(s, first)
           left  == IF inner > 0 THEN SplitRun(runs, first, inner) ELSE runs
           a     == IF inner > 0 THEN first + 1 ELSE first
<1> SUFFICES /\ IsRuns(left, n, V) /\ Spread(left) = Spread(runs)
             /\ a \in 1..Len(left.lengths) /\ Start(left.lengths, a) = start
  OBVIOUS
<1>1. s \in Seq(Nat) /\ Total(s) = n
  BY DEF IsRuns
<1>2. first \in 1..Len(s) /\ Start(s, first) <= start /\ start < Start(s, first) + s[first]
  BY <1>1, FoundRun
<1>3. Start(s, first) \in Nat /\ s[first] \in Nat /\ first \in Nat /\ Len(s) \in Nat
  <2> HIDE DEF s, first
  <2>1. first \in 1..(Len(s) + 1) /\ s[first] \in Nat /\ first \in Nat /\ Len(s) \in Nat
    BY <1>1, <1>2
  <2> QED BY <1>1, <2>1, Starts
<1> HIDE DEF first
<1>4. inner > 0 => inner \in 1..s[first]
  BY <1>2, <1>3
<1>5. inner \in Int /\ inner >= 0 /\ start = Start(s, first) + inner
  BY <1>2, <1>3
<1> HIDE DEF inner
<1>6. CASE inner > 0
  <2> DEFINE new == SplitRun(runs, first, inner)
  <2>1. left = new /\ a = first + 1
    BY <1>6
  <2>2. first \in 1..Len(runs.lengths) /\ inner \in 1..runs.lengths[first]
    BY <1>2, <1>4, <1>6
  <2>3. IsRuns(new, n, V) /\ Spread(new) = Spread(runs)
    BY <2>2, SplitRuns, SplitKeepsSpread
  <2> HIDE DEF left, a
  <2>4. new = SplitRun(runs, first, inner)
    OBVIOUS
  <2> HIDE DEF new
  <2>5. /\ Len(new.lengths) = Len(s) + 1
        /\ \A x \in 1..(Len(s) + 2) :
             Start(new.lengths, x) = IF x <= first THEN Start(s, x)
                           ELSE IF x = first + 1 THEN Start(s, first) + inner ELSE Start(s, x - 1)
    BY <2>2, <2>4, SplitStarts
  <2>6. first + 1 \in 1..Len(new.lengths) /\ first + 1 \in 1..(Len(s) + 2) /\ ~(first + 1 <= first)
    BY <1>2, <1>3, <2>5
  <2>7. Start(new.lengths, first + 1) = start
    BY <1>5, <2>5, <2>6
  <2> QED BY <2>1, <2>3, <2>6, <2>7
<1>7. CASE ~(inner > 0)
  <2>1. left = runs /\ a = first /\ inner = 0
    BY <1>5, <1>7
  <2> HIDE DEF left, a
  <2>2. Start(s, first) = start
    BY <1>3, <1>5, <2>1
  <2> QED BY <1>2, <2>1, <2>2
<1> QED BY <1>6, <1>7

\* Splitting at both ends of a range makes the range runs of its own, and shows
\* nowhere.
LEMMA IsolatedSpread ==
  ASSUME NEW n \in Nat, NEW V, NEW runs, IsRuns(runs, n, V),
         NEW start \in Nat, NEW end \in Nat, start < end, end <= n
  PROVE  \E a, b \in Nat : IsIsolated(Isolate(runs, start, end), start, end, runs, a, b)
<1> DEFINE first == FindRunForOffset(runs.lengths, start)
           inner == start - Start(runs.lengths, first)
           left  == IF inner > 0 THEN SplitRun(runs, first, inner) ELSE runs
           a     == IF inner > 0 THEN first + 1 ELSE first
           t     == left.lengths
           b     == FindRunForOffset(t, end - 1)
           k     == end - Start(t, b)
           both  == IF Start(t, b + 1) > end THEN SplitRun(left, b, k) ELSE left
           cut   == Isolate(runs, start, end)
<1>1. cut = [runs |-> both, covers |-> a..b]
  BY DEF Isolate
<1>2. /\ IsRuns(left, n, V) /\ Spread(left) = Spread(runs)
      /\ a \in 1..Len(left.lengths) /\ Start(left.lengths, a) = start
  <2>1. start < n
    OBVIOUS
  <2> QED BY <2>1, SplitAtStart
<1> HIDE DEF first, inner, left, a, cut
<1>3. t \in Seq(Nat) /\ Total(t) = n /\ a \in 1..Len(t) /\ Start(t, a) = start
  BY <1>2 DEF IsRuns
<1>4. t = left.lengths
  OBVIOUS
<1> HIDE DEF t
<1> DEFINE e == end - 1
<1>5. e \in Nat /\ e < Total(t) /\ end = e + 1 /\ start <= e
  BY <1>3
<1>6. b = FindRunForOffset(t, e)
  OBVIOUS
<1> HIDE DEF e, b
<1>7. b \in 1..Len(t) /\ Start(t, b) <= e /\ e < Start(t, b) + t[b]
  BY <1>3, <1>5, <1>6, FoundRun
<1>8. /\ Start(t, b) \in Nat /\ t[b] \in Nat /\ Start(t, b + 1) = Start(t, b) + t[b]
      /\ b \in Nat /\ a \in Nat /\ Len(t) \in Nat
  <2>1. /\ b \in 1..(Len(t) + 1) /\ t[b] \in Nat /\ b \in Nat /\ a \in Nat /\ Len(t) \in Nat
    BY <1>3, <1>7
  <2> QED BY <1>3, <1>7, <2>1, Starts
<1>9. k \in 1..t[b] /\ end = Start(t, b) + k
  BY <1>5, <1>7, <1>8
<1>10. a <= b
  <2>1. SUFFICES ASSUME b + 1 <= a PROVE FALSE
    BY <1>8
  <2>2. b + 1 \in 1..(Len(t) + 1) /\ a \in 1..(Len(t) + 1)
    BY <1>3, <1>7, <1>8
  <2>3. Start(t, b + 1) <= Start(t, a)
    BY <1>3, <2>1, <2>2, StartsGrow
  <2> QED BY <1>3, <1>5, <1>7, <1>8, <2>3
<1> HIDE DEF k
<1>11. CASE Start(t, b + 1) > end
  <2> DEFINE new == SplitRun(left, b, k)
  <2>1. both = new
    BY <1>11
  <2>2. b \in 1..Len(left.lengths) /\ k \in 1..left.lengths[b]
    BY <1>4, <1>7, <1>9
  <2>3. Spread(new) = Spread(left)
    BY <1>2, <2>2, SplitKeepsSpread
  <2> HIDE DEF both
  <2>4. new = SplitRun(left, b, k)
    OBVIOUS
  <2> HIDE DEF new
  <2>5. /\ Len(new.lengths) = Len(left.lengths) + 1
        /\ \A x \in 1..(Len(left.lengths) + 2) :
             Start(new.lengths, x)
               = IF x <= b THEN Start(left.lengths, x)
                 ELSE IF x = b + 1 THEN Start(left.lengths, b) + k
                 ELSE Start(left.lengths, x - 1)
    BY <1>2, <2>2, <2>4, SplitStarts, SMTT(20)
  <2>6. /\ Len(new.lengths) = Len(t) + 1
        /\ \A x \in 1..(Len(t) + 2) :
             Start(new.lengths, x)
               = IF x <= b THEN Start(t, x)
                 ELSE IF x = b + 1 THEN Start(t, b) + k ELSE Start(t, x - 1)
    BY <1>4, <2>5
  <2>7. /\ a \in 1..(Len(t) + 2) /\ b + 1 \in 1..(Len(t) + 2) /\ ~(b + 1 <= b)
        /\ a \in 1..(Len(t) + 1) /\ b \in 1..(Len(t) + 1)
    BY <1>3, <1>7, <1>8, SMTT(20)
  <2>8. Start(new.lengths, a) = start
    BY <1>3, <1>10, <2>6, <2>7
  <2>9. Start(new.lengths, b + 1) = end
    BY <1>9, <2>6, <2>7
  <2>10. cut.runs = new /\ cut.covers = a..b
    BY <1>1, <2>1
  <2>11. IsIsolated(cut, start, end, runs, a, b)
    BY <1>2, <1>10, <2>3, <2>6, <2>7, <2>8, <2>9, <2>10 DEF IsIsolated
  <2> QED BY <1>8, <2>11 DEF cut
<1>12. CASE ~(Start(t, b + 1) > end)
  <2>1. both = left
    BY <1>12
  <2> HIDE DEF both
  <2>2. Start(t, b + 1) = end
    BY <1>5, <1>7, <1>8, <1>12
  <2>3. cut.runs = left /\ cut.covers = a..b
    BY <1>1, <2>1
  <2>4. IsIsolated(cut, start, end, runs, a, b)
    BY <1>2, <1>3, <1>4, <1>7, <1>10, <2>2, <2>3 DEF IsIsolated
  <2> QED BY <1>8, <2>4 DEF cut
<1> QED BY <1>11, <1>12

\* new are the runs with another value in a..m-1.
IsRepainted(new, runs, a, m, value) ==
  /\ new.lengths = runs.lengths
  /\ new.values = [r \in DOMAIN runs.values |->
                    IF a <= r /\ r < m THEN value ELSE runs.values[r]]

\* Setting the values of the runs a..m-1 paints the places from the start of
\* run a to that of run m.
LEMMA PaintedRuns ==
  ASSUME NEW n \in Nat, NEW V, NEW runs, IsRuns(runs, n, V), NEW value,
         NEW a \in 1..(Len(runs.lengths) + 1), NEW m \in 1..(Len(runs.lengths) + 1),
         NEW new, NEW W, IsRuns(new, n, W),
         IsRepainted(new, runs, a, m, value)
  PROVE  Spread(new)
           = Painted(Spread(runs), Start(runs.lengths, a)..(Start(runs.lengths, m) - 1), value)
<1> DEFINE s == runs.lengths
           P == Start(s, a)..(Start(s, m) - 1)
           x == Spread(new)
           y == Spread(runs)
<1>1. s \in Seq(Nat) /\ Len(s) \in Nat /\ DOMAIN runs.values = 1..Len(s)
  BY DEF IsRuns
<1>2. x \in Seq(W) /\ y \in Seq(V) /\ Len(x) = n /\ Len(y) = n
  BY SpreadIs
<1>3. Start(s, a) \in Nat /\ Start(s, m) \in Nat /\ \A r \in 1..(Len(s) + 1) : Start(s, r) \in Nat
  BY <1>1, Starts
<1>4. \A i \in 1..(Len(s) + 1), j \in 1..(Len(s) + 1) : i <= j => Start(s, i) <= Start(s, j)
  BY <1>1, StartsGrow
<1>5. ASSUME NEW i \in 1..n PROVE x[i] = IF i - 1 \in P THEN value ELSE y[i]
  <2> DEFINE p == i - 1
  <2>1. p \in Nat /\ p < n /\ p + 1 = i
    OBVIOUS
  <2> HIDE DEF p, s, x, y
  <2>2. PICK r \in 1..Len(new.lengths) :
          /\ Start(new.lengths, r) <= p /\ p < Start(new.lengths, r + 1)
          /\ Spread(new)[p + 1] = new.values[r]
    <3>1. IsShown(new, p)
      BY <2>1, ShownBy
    <3> QED BY <3>1 DEF IsShown
  <2>3. /\ r \in 1..Len(s) /\ Start(s, r) <= p /\ p < Start(s, r + 1) /\ x[i] = new.values[r]
    <3>1. s = new.lengths
      BY DEF s, IsRepainted
    <3>2. x[i] = new.values[r]
      BY <2>1, <2>2 DEF x
    <3> QED BY <2>2, <3>1, <3>2
  <2>4. y[i] = runs.values[r]
    BY <2>1, <2>3, SpreadIs DEF s, y
  <2>5. new.values[r] = IF a <= r /\ r < m THEN value ELSE runs.values[r]
    BY <1>1, <2>3 DEF IsRepainted
  <2>6. p \in P <=> (a <= r /\ r < m)
    <3>1. /\ r \in 1..(Len(s) + 1) /\ r + 1 \in 1..(Len(s) + 1) /\ r \in Nat
          /\ a \in 1..(Len(s) + 1) /\ m \in 1..(Len(s) + 1) /\ a \in Nat /\ m \in Nat
      BY <1>1, <2>3 DEF s
    <3>2. Start(s, r) \in Nat /\ Start(s, r + 1) \in Nat
      BY <1>3, <3>1
    <3>3. a <= r => Start(s, a) <= Start(s, r)
      BY <1>4, <3>1
    <3>4. r + 1 <= a => Start(s, r + 1) <= Start(s, a)
      BY <1>4, <3>1
    <3>5. r + 1 <= m => Start(s, r + 1) <= Start(s, m)
      BY <1>4, <3>1
    <3>6. m <= r => Start(s, m) <= Start(s, r)
      BY <1>4, <3>1
    <3>7. p \in P <=> (Start(s, a) <= p /\ p < Start(s, m))
      BY <1>3, <2>1
    <3>8. Start(s, a) <= p <=> a <= r
      BY <1>3, <2>1, <2>3, <3>1, <3>2, <3>3, <3>4
    <3>9. p < Start(s, m) <=> r < m
      BY <1>3, <2>1, <2>3, <3>1, <3>2, <3>5, <3>6
    <3> QED BY <3>7, <3>8, <3>9
  <2> QED BY <2>3, <2>4, <2>5, <2>6 DEF p
<1>6. x = Painted(y, P, value)
  <2> HIDE DEF x, y, P
  <2>1. DOMAIN x = 1..n /\ DOMAIN y = 1..n
    BY <1>2
  <2>2. x = [i \in 1..n |-> x[i]]
    BY <1>2, <2>1
  <2>3. x = [i \in 1..n |-> IF i - 1 \in P THEN value ELSE y[i]]
    BY <1>5, <2>2
  <2> QED BY <2>1, <2>3 DEF Painted
<1> QED BY <1>6

\* What is painted depends on places of the text only.
LEMMA PaintedSame ==
  ASSUME NEW n \in Nat, NEW f, DOMAIN f = 1..n, NEW P, NEW Q, NEW value,
         \A p \in 0..n - 1 : p \in P <=> p \in Q
  PROVE  Painted(f, P, value) = Painted(f, Q, value)
<1>1. \A k \in 1..n : k - 1 \in 0..n - 1
  OBVIOUS
<1>2. \A k \in DOMAIN f : (k - 1 \in P) <=> (k - 1 \in Q)
  BY <1>1
<1> QED BY <1>2 DEF Painted

\* Painting twice.
LEMMA PaintedTwice ==
  ASSUME NEW f, NEW P, NEW Q, NEW value
  PROVE  Painted(Painted(f, P, value), Q, value) = Painted(f, P \cup Q, value)
BY DEF Painted

\* A call painted the range from start to stop, or the front part of it before
\* it threw.
HasPainted(set, runs, start, stop, value) ==
  /\ set.called = TRUE
  /\ \E e \in Nat :
       /\ start <= e /\ e <= stop
       /\ Spread(set.runs) = Painted(Spread(runs), start..(e - 1), value)
       /\ ~set.threw => e = stop

\* Setting the values of some runs paints a range up to the run that has none of
\* its own.
LEMMA SetRunsPaints ==
  ASSUME NEW n \in Nat, NEW V, NEW runs, IsRuns(runs, n, V),
         NEW a \in 1..Len(runs.lengths), NEW b \in 1..Len(runs.lengths), a <= b,
         NEW value, NEW refused, NEW set, set = SetRuns(runs, a..b, value, refused)
  PROVE  HasPainted(set, runs, Start(runs.lengths, a), Start(runs.lengths, b + 1), value)
<1> DEFINE s == runs.lengths
           failing == {r \in a..b : runs.values[r] \in refused}
           done    == IF failing = {} THEN a..b ELSE {r \in a..b : r < Min(failing)}
           v       == [r \in DOMAIN runs.values |-> IF r \in done THEN value ELSE runs.values[r]]
           new     == [runs EXCEPT !.values = v]
           m       == IF failing = {} THEN b + 1 ELSE Min(failing)
<1>1. set = [runs |-> new, called |-> a..b # {}, threw |-> failing # {}]
  BY DEF SetRuns
<1>2. /\ s \in Seq(Nat) /\ Len(s) \in Nat /\ DOMAIN runs.values = 1..Len(s)
      /\ runs = [lengths |-> s, values |-> runs.values]
  BY DEF IsRuns
<1>3. a \in Nat /\ b \in Nat /\ a \in a..b
  BY <1>2
<1>4. m \in a..(b + 1) /\ (failing = {} => m = b + 1)
  <2>1. CASE failing = {}
    BY <1>3, <2>1
  <2>2. CASE failing # {}
    <3>1. failing \subseteq Nat /\ failing \subseteq a..b
      BY <1>3
    <3> HIDE DEF failing
    <3>2. Min(failing) \in failing
      BY <2>2, <3>1, MinIs
    <3>3. Min(failing) \in a..b
      BY <3>1, <3>2
    <3> QED BY <1>3, <2>2, <3>3
  <2> QED BY <2>1, <2>2
<1>5. \A r \in 1..Len(s) : r \in done <=> (a <= r /\ r < m)
  <2>1. CASE failing = {}
    BY <1>2, <1>3, <2>1
  <2>2. CASE failing # {}
    <3>1. done = {r \in a..b : r < m} /\ m \in a..b
      <4>1. failing \subseteq Nat /\ failing \subseteq a..b
        BY <1>3
      <4>2. m = Min(failing) /\ done = {r \in a..b : r < m}
        BY <2>2
      <4> HIDE DEF failing, m, done
      <4>3. Min(failing) \in failing
        BY <2>2, <4>1, MinIs
      <4> QED BY <4>1, <4>2, <4>3
    <3> HIDE DEF done, m
    <3> QED BY <1>2, <1>3, <3>1
  <2> QED BY <2>1, <2>2
<1> HIDE DEF failing, m, done, new
<1>6. set.called = TRUE /\ set.runs = new /\ (~set.threw => failing = {})
  <2>1. a..b # {}
    BY <1>3
  <2>2. /\ set.called = (a..b # {}) /\ set.runs = new
        /\ set.threw = (failing # {})
    BY <1>1
  <2> QED BY <2>1, <2>2, Zenon
<1> USE DEF new
<1>7. new.lengths = s /\ new.values = v
  BY <1>2
<1>8. v = [r \in DOMAIN runs.values |-> IF a <= r /\ r < m THEN value ELSE runs.values[r]]
  BY <1>2, <1>5
<1> HIDE DEF v, new
<1>9. IsRepainted(new, runs, a, m, value)
  BY <1>7, <1>8 DEF IsRepainted
<1>10. IsRuns(new, n, V \cup {value})
  <2>1. IsRuns(set.runs, n, V \cup {value})
    BY SetRunsType
  <2> QED BY <1>6, <2>1
<1>11. a \in 1..(Len(s) + 1) /\ m \in 1..(Len(s) + 1) /\ b + 1 \in 1..(Len(s) + 1) /\ a <= m
       /\ m <= b + 1
  BY <1>2, <1>3, <1>4
<1> DEFINE e == Start(s, m)
<1>12. Spread(new) = Painted(Spread(runs), Start(s, a)..(e - 1), value)
  BY <1>9, <1>10, <1>11, PaintedRuns
<1>13. Start(s, a) <= e /\ e <= Start(s, b + 1)
  BY <1>2, <1>11, StartsGrow
<1>14. e \in Nat
  BY <1>2, <1>11, Starts
<1>15. ~set.threw => e = Start(s, b + 1)
  BY <1>4, <1>6
<1> HIDE DEF e
<1> QED BY <1>6, <1>12, <1>13, <1>14, <1>15 DEF HasPainted

\* The places of the first m ranges.
Over(ranges, m) == {p \in Nat : \E i \in 1..m : ranges[i][1] <= p /\ p < ranges[i][2]}

\* Ranges one behind the other.
AreOrdered(ranges) ==
  /\ ranges \in Seq(Nat \X Nat)
  /\ \A i \in 1..Len(ranges), j \in 1..Len(ranges) : i < j => ranges[i][2] <= ranges[j][1]

\* What styling one range, cut to the text, does.
StylesRange(done, start, stop, value, next) ==
  \/ (done.threw \/ start >= stop) /\ next = done
  \/ ~done.threw /\ start < stop /\ HasPainted(next, done.runs, start, stop, value)

\* It does so.
LEMMA RangeStyled ==
  ASSUME NEW n \in Nat, NEW V, NEW runs, NEW value, NEW done, Styling(runs, n, V, value, done),
         NEW start \in Nat, NEW end \in Nat, NEW refused,
         NEW stop, stop = (IF end <= n THEN end ELSE n),
         NEW next, next = StyleRange(done, start, end, value, refused)
  PROVE  StylesRange(done, start, stop, value, next)
<1> DEFINE W   == V \cup {value}
           cut == Isolate(done.runs, start, stop)
           mid == cut.runs
           set == SetRuns(mid, cut.covers, value, refused)
<1>1. IsRuns(done.runs, n, W) /\ done.threw \in BOOLEAN /\ done.called \in BOOLEAN
  BY DEF Styling
<1>2. Min({end, Total(done.runs.lengths)}) = stop
  <2>1. Total(done.runs.lengths) = n
    BY <1>1 DEF IsRuns
  <2>2. Min({end, n}) = stop
    <3>1. {end, n} \subseteq Nat /\ {end, n} # {}
      OBVIOUS
    <3>2. Min({end, n}) \in {end, n} /\ \A y \in {end, n} : Min({end, n}) <= y
      BY <3>1, MinIs
    <3>3. end \in {end, n} /\ n \in {end, n}
      OBVIOUS
    <3>4. Min({end, n}) \in Nat /\ Min({end, n}) <= end /\ Min({end, n}) <= n
      BY <3>2, <3>3
    <3>5. Min({end, n}) = end \/ Min({end, n}) = n
      BY <3>2
    <3> HIDE <3>2
    <3> QED BY <3>4, <3>5
  <2> QED BY <2>1, <2>2
<1>3. next = IF done.threw \/ start >= stop THEN done
             ELSE [set EXCEPT !.called = done.called \/ @]
  BY <1>2 DEF StyleRange
<1> HIDE DEF set, mid, cut
<1>4. stop \in Nat /\ stop <= n
  OBVIOUS
<1>5. CASE done.threw \/ start >= stop
  BY <1>3, <1>5 DEF StylesRange
<1>6. CASE ~(done.threw \/ start >= stop)
  <2>1. next = [set EXCEPT !.called = done.called \/ @] /\ start < stop /\ ~done.threw
    BY <1>3, <1>4, <1>6
  <2>2. PICK a, b \in Nat : IsIsolated(cut, start, stop, done.runs, a, b)
    BY <1>1, <1>4, <2>1, IsolatedSpread DEF cut
  <2>3. IsRuns(mid, n, W)
    BY <1>1, <1>4, <2>1, IsolatedRuns DEF cut, mid
  <2>4. /\ a \in 1..Len(mid.lengths) /\ b \in 1..Len(mid.lengths) /\ a <= b
        /\ cut.covers = a..b
        /\ Start(mid.lengths, a) = start
        /\ Start(mid.lengths, b + 1) = stop
        /\ Spread(mid) = Spread(done.runs)
    BY <2>2 DEF IsIsolated, mid
  <2>5. set = SetRuns(mid, a..b, value, refused)
    BY <2>4 DEF set
  <2> HIDE DEF W
  <2>6. HasPainted(set, mid, Start(mid.lengths, a), Start(mid.lengths, b + 1), value)
    BY <2>3, <2>4, <2>5, SetRunsPaints
  <2>7. set = [runs |-> set.runs, called |-> set.called, threw |-> set.threw]
    BY <2>3, <2>5, SetRunsType
  <2>8. next.called = TRUE /\ next.runs = set.runs /\ next.threw = set.threw
    BY <2>1, <2>6, <2>7 DEF HasPainted
  <2>9. HasPainted(next, done.runs, start, stop, value)
    BY <2>4, <2>6, <2>8 DEF HasPainted
  <2> QED BY <2>1, <2>9 DEF StylesRange
<1> QED BY <1>5, <1>6

\* A call threw at the place e, before every range that is still to come.
StopsAt(done, runs, ranges, m, value, e) ==
  /\ e \in Nat
  /\ Spread(done.runs) = Painted(Spread(runs), Over(ranges, m) \cap 0..(e - 1), value)
  /\ \A j \in (m + 1)..Len(ranges) : e <= ranges[j][1]

\* What shows after the first m ranges.
ShowsSoFar(done, runs, ranges, m, value, n) ==
  /\ ~done.threw => Spread(done.runs) = Painted(Spread(runs), Over(ranges, m), value)
  /\ done.threw => done.called /\ \E e : StopsAt(done, runs, ranges, m, value, e)
  /\ done.called \/ \A p \in 0..n - 1 : p \notin Over(ranges, m)

\* The places of one more range.
LEMMA OverOneMore ==
  ASSUME NEW ranges, NEW m \in Nat \ {0}, NEW p \in Nat
  PROVE  p \in Over(ranges, m)
           <=> p \in Over(ranges, m - 1) \/ (ranges[m][1] <= p /\ p < ranges[m][2])
<1>1. 1..m = 1..(m - 1) \cup {m}
  OBVIOUS
<1> QED BY <1>1 DEF Over

\* A range lies behind the ranges before it.
LEMMA OverBefore ==
  ASSUME NEW ranges, AreOrdered(ranges), NEW m \in 1..Len(ranges), NEW p \in Over(ranges, m - 1)
  PROVE  p \in Nat /\ p < ranges[m][1]
<1>1. PICK i \in 1..m - 1 : p < ranges[i][2]
  BY DEF Over
<1>2. /\ Len(ranges) \in Nat /\ ranges[m] \in Nat \X Nat /\ ranges[i] \in Nat \X Nat
      /\ i \in 1..Len(ranges) /\ i < m
  <2>1. ranges \in Seq(Nat \X Nat)
    BY DEF AreOrdered
  <2>2. Len(ranges) \in Nat /\ \A j \in 1..Len(ranges) : ranges[j] \in Nat \X Nat
    BY <2>1
  <2>3. i \in 1..Len(ranges) /\ i < m
    BY <2>2
  <2> QED BY <2>2, <2>3
<1>3. ranges[i][2] <= ranges[m][1]
  BY <1>2 DEF AreOrdered
<1>4. p \in Nat
  BY DEF Over
<1>5. ranges[i][2] \in Nat /\ ranges[m][1] \in Nat
  BY <1>2
<1> QED BY <1>1, <1>3, <1>4, <1>5

\* One more range.
LEMMA OneMoreRange ==
  ASSUME NEW n \in Nat, NEW V, NEW runs, IsRuns(runs, n, V), NEW value, NEW refused,
         NEW ranges, AreOrdered(ranges), NEW m \in 1..Len(ranges),
         NEW done, Styling(runs, n, V, value, done),
         ShowsSoFar(done, runs, ranges, m - 1, value, n),
         NEW next, next = StyleRange(done, ranges[m][1], ranges[m][2], value, refused)
  PROVE  ShowsSoFar(next, runs, ranges, m, value, n)
<1> DEFINE S    == Spread(runs)
           lo   == ranges[m][1]
           hi   == ranges[m][2]
           stop == IF hi <= n THEN hi ELSE n
           P    == Over(ranges, m - 1)
           Q    == Over(ranges, m)
<1>1. /\ ranges \in Seq(Nat \X Nat) /\ Len(ranges) \in Nat /\ m \in Nat /\ m # 0
      /\ m \in Nat \ {0} /\ m - 1 \in Nat
  BY DEF AreOrdered
<1>2. lo \in Nat /\ hi \in Nat
  <2>1. ranges[m] \in Nat \X Nat
    BY <1>1
  <2> QED BY <2>1
<1>3. stop \in Nat /\ stop <= n /\ stop <= hi
  BY <1>2
<1>4. DOMAIN S = 1..n
  <2>1. S \in Seq(V) /\ Len(S) = n
    BY SpreadIs
  <2> QED BY <2>1
<1>5. \A p \in Nat : p \in Q <=> p \in P \/ (lo <= p /\ p < hi)
  BY <1>1, OverOneMore
<1>6. \A p \in P : p \in Nat /\ p < lo
  BY OverBefore
<1>7. \A j \in (m + 1)..Len(ranges) : ranges[j][1] \in Nat /\ hi <= ranges[j][1]
  <2>1. \A j \in (m + 1)..Len(ranges) : j \in 1..Len(ranges) /\ m < j
    BY <1>1, SMTT(20)
  <2>2. \A j \in 1..Len(ranges) : ranges[j] \in Nat \X Nat
    BY <1>1
  <2> QED BY <2>1, <2>2 DEF AreOrdered
<1>8. /\ ~done.threw => Spread(done.runs) = Painted(S, P, value)
      /\ done.threw => done.called /\ \E e : StopsAt(done, runs, ranges, m - 1, value, e)
      /\ done.called \/ \A p \in 0..n - 1 : p \notin P
  BY DEF ShowsSoFar
<1>9. done.threw \in BOOLEAN /\ done.called \in BOOLEAN
  BY DEF Styling
<1>10. \/ (done.threw \/ lo >= stop) /\ next = done
       \/ ~done.threw /\ lo < stop /\ HasPainted(next, done.runs, lo, stop, value)
  <2> HIDE DEF lo, hi, stop
  <2>1. next = StyleRange(done, lo, hi, value, refused)
    BY DEF lo, hi
  <2>2. stop = IF hi <= n THEN hi ELSE n
    BY DEF stop
  <2>3. StylesRange(done, lo, stop, value, next)
    BY <1>2, <2>1, <2>2, RangeStyled
  <2> QED BY <2>3 DEF StylesRange
<1>11. \A X, Y : (\A p \in 0..n - 1 : p \in X <=> p \in Y)
                   => Painted(S, X, value) = Painted(S, Y, value)
  <2> SUFFICES ASSUME NEW X, NEW Y, \A p \in 0..n - 1 : p \in X <=> p \in Y
               PROVE  Painted(S, X, value) = Painted(S, Y, value)
    OBVIOUS
  <2> HIDE DEF S
  <2>1. \A k \in 1..n : k - 1 \in 0..n - 1
    OBVIOUS
  <2>2. \A k \in DOMAIN S : (k - 1 \in X) <=> (k - 1 \in Y)
    BY <1>4, <2>1
  <2> QED BY <2>2 DEF Painted
<1>12. \A p \in 0..n - 1 : p \in Nat
  OBVIOUS
<1>13. CASE done.threw /\ next = done
  <2>1. PICK e : StopsAt(done, runs, ranges, m - 1, value, e)
    BY <1>8, <1>13
  <2>2. /\ e \in Nat /\ e <= lo
        /\ Spread(done.runs) = Painted(S, P \cap 0..(e - 1), value)
    BY <1>1, <2>1 DEF StopsAt
  <2>3. \A p \in 0..n - 1 : p \in P \cap 0..(e - 1) <=> p \in Q \cap 0..(e - 1)
    BY <1>2, <1>5, <2>2
  <2>4. \A j \in (m + 1)..Len(ranges) : e <= ranges[j][1]
    <3>1. \A j \in (m + 1)..Len(ranges) : j \in (m - 1 + 1)..Len(ranges)
      BY <1>1
    <3> QED BY <2>1, <3>1 DEF StopsAt
  <2>5. Spread(done.runs) = Painted(S, Q \cap 0..(e - 1), value)
    BY <1>11, <2>2, <2>3
  <2>6. StopsAt(next, runs, ranges, m, value, e)
    BY <1>13, <2>2, <2>4, <2>5 DEF StopsAt
  <2>7. next.called
    BY <1>8, <1>13
  <2> QED BY <1>13, <2>6, <2>7 DEF ShowsSoFar
<1>14. CASE ~done.threw /\ next = done /\ lo >= stop
  <2>1. \A p \in 0..n - 1 : p \in P <=> p \in Q
    BY <1>2, <1>5, <1>14
  <2> QED BY <1>8, <1>11, <1>14, <2>1 DEF ShowsSoFar
<1>15. CASE ~done.threw /\ lo < stop /\ HasPainted(next, done.runs, lo, stop, value)
  <2>1. PICK e \in Nat : /\ lo <= e /\ e <= stop
                         /\ Spread(next.runs) = Painted(Spread(done.runs), lo..(e - 1), value)
                         /\ ~next.threw => e = stop
    BY <1>15 DEF HasPainted
  <2>2. next.called
    BY <1>15 DEF HasPainted
  <2>3. Spread(next.runs) = Painted(S, P \cup lo..(e - 1), value)
    <3> HIDE DEF S, P, lo
    <3>1. Spread(done.runs) = Painted(S, P, value)
      BY <1>8, <1>15
    <3>2. Spread(next.runs) = Painted(Painted(S, P, value), lo..(e - 1), value)
      BY <2>1, <3>1
    <3> QED BY <3>2 DEF Painted
  <2>4. CASE ~next.threw
    <3>1. \A p \in 0..n - 1 : p \in P \cup lo..(e - 1) <=> p \in Q
      BY <1>2, <1>3, <1>5, <2>1, <2>4
    <3> QED BY <1>11, <2>2, <2>3, <2>4, <3>1 DEF ShowsSoFar
  <2>5. CASE next.threw
    <3>1. \A p \in 0..n - 1 : p \in P \cup lo..(e - 1) <=> p \in Q \cap 0..(e - 1)
      BY <1>2, <1>3, <1>5, <1>6, <2>1
    <3>2. \A j \in (m + 1)..Len(ranges) : e <= ranges[j][1]
      BY <1>2, <1>3, <1>7, <2>1, SMTT(20)
    <3>3. StopsAt(next, runs, ranges, m, value, e)
      BY <1>11, <2>3, <3>1, <3>2 DEF StopsAt
    <3> QED BY <2>2, <2>5, <3>3 DEF ShowsSoFar
  <2> QED BY <2>4, <2>5
<1> QED BY <1>9, <1>10, <1>13, <1>14, <1>15

\* After every range the runs show what was styled so far.
LEMMA StyledShows ==
  ASSUME NEW n \in Nat, NEW V, NEW runs, IsRuns(runs, n, V), NEW value, NEW refused,
         NEW ranges, AreOrdered(ranges)
  PROVE  ShowsSoFar(ApplyStyle(runs, ranges, value, refused), runs, ranges, Len(ranges), value, n)
<1>1. ranges \in Seq(Nat \X Nat) /\ Len(ranges) \in Nat
  BY DEF AreOrdered
<1>2. PICK f : /\ AreSteps(f, runs, ranges, value, refused)
               /\ \A i \in 0..Len(ranges) : Styling(runs, n, V, value, f[i])
  BY <1>1, StyledSteps
<1>3. /\ f[0] = [runs |-> runs, called |-> FALSE, threw |-> FALSE]
      /\ \A i \in 1..Len(ranges) :
           f[i] = StyleRange(f[i - 1], ranges[i][1], ranges[i][2], value, refused)
      /\ ApplyStyle(runs, ranges, value, refused) = f[Len(ranges)]
  BY <1>2 DEF AreSteps
<1> DEFINE T == {i \in Nat : i <= Len(ranges) => ShowsSoFar(f[i], runs, ranges, i, value, n)}
<1>4. 0 \in T
  <2>1. f[0].runs = runs /\ f[0].threw = FALSE
    BY <1>3
  <2>2. \A p : p \notin Over(ranges, 0)
    BY DEF Over
  <2>3. Spread(runs) = Painted(Spread(runs), Over(ranges, 0), value)
    <3>1. Spread(runs) \in Seq(V)
      BY SpreadIs
    <3> DEFINE S == Spread(runs)
    <3>2. S = [k \in DOMAIN S |-> S[k]]
      <4> HIDE DEF S
      <4>1. S \in Seq(V)
        BY <3>1 DEF S
      <4> QED BY <4>1
    <3> HIDE DEF S
    <3>3. S = Painted(S, Over(ranges, 0), value)
      BY <2>2, <3>2 DEF Painted
    <3> QED BY <3>3 DEF S
  <2>4. ShowsSoFar(f[0], runs, ranges, 0, value, n)
    BY <2>1, <2>2, <2>3 DEF ShowsSoFar
  <2> QED BY <2>4
<1>5. ASSUME NEW i \in Nat, i \in T PROVE i + 1 \in T
  <2> SUFFICES ASSUME i + 1 <= Len(ranges)
               PROVE  ShowsSoFar(f[i + 1], runs, ranges, i + 1, value, n)
    OBVIOUS
  <2> DEFINE m == i + 1
             done == f[m - 1]
             next == f[m]
  <2>1. m \in 1..Len(ranges) /\ m - 1 = i /\ i \in 0..Len(ranges)
    BY <1>1
  <2>2. ShowsSoFar(f[i], runs, ranges, i, value, n)
    BY <1>1, <1>5
  <2> HIDE DEF m
  <2>3. ShowsSoFar(done, runs, ranges, m - 1, value, n)
    BY <2>1, <2>2
  <2>4. Styling(runs, n, V, value, done)
    BY <1>2, <2>1
  <2>5. next = StyleRange(done, ranges[m][1], ranges[m][2], value, refused)
    BY <1>3, <2>1
  <2> HIDE DEF done, next, T
  <2>6. ShowsSoFar(next, runs, ranges, m, value, n)
    BY <2>1, <2>3, <2>4, <2>5, OneMoreRange
  <2> QED BY <2>6 DEF m, next
<1> HIDE DEF T
<1>6. Nat \subseteq T
  BY <1>4, <1>5, SetInduction
<1>7. ShowsSoFar(f[Len(ranges)], runs, ranges, Len(ranges), value, n)
  BY <1>1, <1>6 DEF T
<1> QED BY <1>3, <1>7

\* No setter throws that refuses nothing.
LEMMA NothingThrows ==
  ASSUME NEW n \in Nat, NEW V, NEW runs, IsRuns(runs, n, V), NEW value, NEW ranges,
         AreOrdered(ranges)
  PROVE  ApplyStyle(runs, ranges, value, {}).threw = FALSE
<1>1. ranges \in Seq(Nat \X Nat) /\ Len(ranges) \in Nat
  BY DEF AreOrdered
<1>2. PICK f : AreSteps(f, runs, ranges, value, {})
  BY <1>1, StyledSteps
<1>3. /\ f[0] = [runs |-> runs, called |-> FALSE, threw |-> FALSE]
      /\ \A i \in 1..Len(ranges) :
           f[i] = StyleRange(f[i - 1], ranges[i][1], ranges[i][2], value, {})
      /\ ApplyStyle(runs, ranges, value, {}) = f[Len(ranges)]
  BY <1>2 DEF AreSteps
<1>4. ASSUME NEW done, done.threw = FALSE, NEW start, NEW end
      PROVE  StyleRange(done, start, end, value, {}).threw = FALSE
  <2>1. ASSUME NEW any, NEW covers PROVE SetRuns(any, covers, value, {}).threw = FALSE
    BY DEF SetRuns
  <2>2. ASSUME NEW any, NEW covers, NEW b
        PROVE  [SetRuns(any, covers, value, {}) EXCEPT !.called = b].threw = FALSE
    <3> DEFINE failing == {r \in covers : any.values[r] \in {}}
               x == [any EXCEPT !.values =
                      [r \in DOMAIN @ |->
                         IF r \in (IF failing = {} THEN covers
                                   ELSE {q \in covers : q < Min(failing)})
                         THEN value ELSE @[r]]]
    <3>1. SetRuns(any, covers, value, {})
            = [runs |-> x, called |-> covers # {}, threw |-> failing # {}]
      BY DEF SetRuns
    <3>2. failing = {}
      OBVIOUS
    <3> HIDE DEF x, failing
    <3> DEFINE z == SetRuns(any, covers, value, {})
    <3>3. z = [runs |-> x, called |-> covers # {}, threw |-> FALSE]
      BY <3>1, <3>2
    <3> HIDE DEF z
    <3>4. [z EXCEPT !.called = b].threw = FALSE
      BY <3>3
    <3> QED BY <3>4 DEF z
  <2> DEFINE stop == Min({end, Total(done.runs.lengths)})
             cut  == Isolate(done.runs, start, stop)
             set  == SetRuns(cut.runs, cut.covers, value, {})
             new  == [set EXCEPT !.called = done.called \/ @]
  <2>3. StyleRange(done, start, end, value, {})
          = IF done.threw \/ start >= stop THEN done ELSE new
    BY DEF StyleRange
  <2> HIDE DEF stop, cut
  <2>4. new.threw = FALSE
    <3> DEFINE b == done.called \/ set.called
    <3>1. new = [set EXCEPT !.called = b]
      OBVIOUS
    <3> HIDE DEF b, new
    <3>2. [set EXCEPT !.called = b].threw = FALSE
      BY <2>2
    <3> QED BY <3>1, <3>2
  <2> HIDE DEF new
  <2> QED BY <1>4, <2>3, <2>4
<1> DEFINE T == {i \in Nat : i <= Len(ranges) => f[i].threw = FALSE}
<1>5. 0 \in T
  BY <1>3
<1>6. ASSUME NEW i \in Nat, i \in T PROVE i + 1 \in T
  <2>1. CASE i + 1 <= Len(ranges)
    <3>1. i + 1 \in 1..Len(ranges) /\ (i + 1) - 1 = i /\ i <= Len(ranges)
      BY <1>1, <2>1
    <3>2. f[i].threw = FALSE
      BY <1>6, <3>1
    <3>3. f[i + 1] = StyleRange(f[i], ranges[i + 1][1], ranges[i + 1][2], value, {})
      BY <1>3, <3>1
    <3>4. f[i + 1].threw = FALSE
      BY <1>4, <3>2, <3>3
    <3> QED BY <3>4
  <2>2. CASE ~(i + 1 <= Len(ranges))
    BY <2>2
  <2> QED BY <2>1, <2>2
<1> HIDE DEF T
<1>7. Nat \subseteq T
  BY <1>5, <1>6, SetInduction
<1>8. f[Len(ranges)].threw = FALSE
  BY <1>1, <1>7 DEF T
<1> QED BY <1>3, <1>8

\* A later replacement ends no earlier.
LEMMA CopyPosGrows ==
  ASSUME NEW units \in Nat, NEW R, IsEdit(R, units), NEW i \in 0..Len(R), NEW j \in 0..Len(R),
         i <= j
  PROVE  CopyPos(R, i) <= CopyPos(R, j)
<1>1. /\ Len(R) \in Nat
      /\ \A k \in 0..Len(R) : CopyPos(R, k) \in Nat
      /\ \A k \in 1..Len(R) : /\ R[k].start \in Nat /\ R[k].old \in Nat
                              /\ CopyPos(R, k) = R[k].start + R[k].old
                              /\ CopyPos(R, k - 1) <= R[k].start
  BY EditParts
<1> DEFINE c(k) == CopyPos(R, k)
<1>2. ASSUME NEW k \in 1..Len(R) PROVE c(k - 1) <= c(k)
  <2>1. k - 1 \in 0..Len(R) /\ c(k - 1) \in Nat
    BY <1>1
  <2>2. R[k].start \in Nat /\ R[k].old \in Nat /\ c(k) = R[k].start + R[k].old
        /\ c(k - 1) <= R[k].start
    BY <1>1
  <2> HIDE DEF c
  <2> QED BY <2>1, <2>2
<1> DEFINE T == {n \in Nat : i + n <= Len(R) => c(i) <= c(i + n)}
<1>3. \A k \in 0..Len(R) : c(k) \in Nat
  BY <1>1
<1> HIDE DEF c
<1>4. 0 \in T
  BY <1>3
<1>5. ASSUME NEW n \in Nat, n \in T PROVE n + 1 \in T
  <2> SUFFICES ASSUME i + (n + 1) <= Len(R) PROVE c(i) <= c(i + (n + 1))
    OBVIOUS
  <2> DEFINE x == i + (n + 1)
  <2>1. x \in 1..Len(R) /\ x - 1 = i + n /\ i + n \in 0..Len(R) /\ i + n <= Len(R)
        /\ x \in 0..Len(R)
    BY <1>1
  <2> HIDE DEF x
  <2>2. c(i) <= c(i + n)
    BY <1>5, <2>1
  <2>3. c(i + n) <= c(x)
    BY <1>2, <2>1
  <2>4. c(i) \in Nat /\ c(i + n) \in Nat /\ c(x) \in Nat
    BY <1>3, <2>1
  <2>5. c(i) <= c(x)
    BY <2>2, <2>3, <2>4
  <2> QED BY <2>5 DEF x
<1> HIDE DEF T
<1>6. j - i \in T
  <2>1. j - i \in Nat
    BY <1>1
  <2> QED BY <1>4, <1>5, <2>1, SetInduction
<1>7. i + (j - i) = j /\ j <= Len(R)
  BY <1>1
<1>8. c(i) <= c(j)
  BY <1>6, <1>7 DEF T
<1> QED BY <1>8 DEF c

\* A place behind a replacement and not behind the next one is decided by the
\* next one.
LEMMA DecidedHere ==
  ASSUME NEW units \in Nat, NEW R, IsEdit(R, units), NEW index \in Nat,
         NEW next \in 1..Len(R) + 1, next = 1 \/ CopyPos(R, next - 1) < index,
         next \in 1..Len(R) => index <= End(R[next])
  PROVE  Decides(R, index, next)
<1>1. /\ Len(R) \in Nat
      /\ \A k \in 0..Len(R) : CopyPos(R, k) \in Nat
      /\ \A k \in 1..Len(R) : /\ R[k].start \in Nat /\ R[k].old \in Nat
                              /\ End(R[k]) = R[k].start + R[k].old
                              /\ CopyPos(R, k) = R[k].start + R[k].old
  BY EditParts
<1>2. ASSUME NEW i \in 1..Len(R), i < next PROVE End(R[i]) < index
  <2>1. next # 1 /\ i \in 0..Len(R) /\ next - 1 \in 0..Len(R) /\ i <= next - 1
    BY <1>1, <1>2
  <2>2. CopyPos(R, i) <= CopyPos(R, next - 1)
    BY <2>1, CopyPosGrows
  <2>3. CopyPos(R, i) \in Nat /\ CopyPos(R, next - 1) \in Nat /\ End(R[i]) = CopyPos(R, i)
    BY <1>1, <2>1
  <2>4. CopyPos(R, next - 1) < index
    BY <2>1
  <2> QED BY <2>2, <2>3, <2>4
<1> QED BY <1>2 DEF Decides

\* The place p lies behind i replacements and does not lie behind the start of
\* the next one.
InGap(R, units, i, p) ==
  /\ i \in 0..Len(R) /\ p \in 0..units
  /\ CopyPos(R, i) <= p
  /\ i + 1 \in 1..Len(R) => p <= R[i + 1].start

\* It moves with the text behind those replacements.
LEMMA GapMoves ==
  ASSUME NEW units \in Nat, NEW R, IsEdit(R, units), NEW i, NEW p, InGap(R, units, i, p)
  PROVE  RemapPlainIndex(p, R) = p + Delta(R, i)
<1>1. /\ Len(R) \in Nat
      /\ \A k \in 0..Len(R) : CopyPos(R, k) \in Nat
      /\ \A k \in 1..Len(R) : /\ R[k].start \in Nat /\ R[k].old \in Nat /\ R[k].old # 0
                              /\ R[k].new \in Nat
                              /\ End(R[k]) = R[k].start + R[k].old
                              /\ CopyPos(R, k) = R[k].start + R[k].old
                              /\ CopyPos(R, k - 1) <= R[k].start
  BY EditParts
<1>2. /\ i \in 0..Len(R) /\ p \in 0..units /\ CopyPos(R, i) <= p
      /\ i + 1 \in 1..Len(R) => p <= R[i + 1].start
  BY DEF InGap
<1>3. CASE i = 0 \/ CopyPos(R, i) < p
  <2> DEFINE next == i + 1
  <2>1. next \in 1..Len(R) + 1 /\ next - 1 = i /\ (next = 1 \/ CopyPos(R, next - 1) < p)
        /\ p \in Nat
    <3>1. i \in Nat /\ i <= Len(R) /\ Len(R) \in Nat /\ p \in Nat
      BY <1>1, <1>2
    <3>2. next - 1 = i /\ next \in 1..Len(R) + 1
      BY <3>1
    <3>3. next = 1 \/ CopyPos(R, i) < p
      BY <1>3, <3>1
    <3> HIDE DEF next
    <3> QED BY <3>1, <3>2, <3>3
  <2>2. next \in 1..Len(R) => p <= R[next].start /\ p < End(R[next])
    <3> SUFFICES ASSUME next \in 1..Len(R) PROVE p <= R[next].start /\ p < End(R[next])
      OBVIOUS
    <3>1. R[next].start \in Nat /\ R[next].old \in Nat
          /\ End(R[next]) = R[next].start + R[next].old /\ R[next].old # 0
      BY <1>1
    <3>2. p <= R[next].start
      BY <1>2
    <3> HIDE DEF next
    <3> QED BY <2>1, <3>1, <3>2
  <2> HIDE DEF next
  <2>3. Decides(R, p, next)
    <3>1. next \in 1..Len(R) => p <= End(R[next])
      <4> SUFFICES ASSUME next \in 1..Len(R) PROVE p <= End(R[next])
        OBVIOUS
      <4>1. End(R[next]) = R[next].start + R[next].old /\ R[next].start \in Nat
            /\ R[next].old \in Nat
        BY <1>1
      <4> QED BY <2>1, <2>2, <4>1
    <3> QED BY <2>1, <3>1, DecidedHere
  <2>4. /\ next \notin 1..Len(R) => RemapPlainIndex(p, R) = p + Delta(R, Len(R))
        /\ next \in 1..Len(R) => RemapPlainIndex(p, R) = p + Delta(R, next - 1)
    <3> DEFINE f == RemapPlainIndex(p, R)
    <3>1. /\ next \notin 1..Len(R) => f = p + Delta(R, Len(R))
          /\ next \in 1..Len(R) =>
               f = IF p < R[next].start THEN p + Delta(R, next - 1)
                   ELSE IF p = End(R[next])
                     THEN R[next].start + Delta(R, next - 1) + R[next].new
                   ELSE R[next].start + Delta(R, next - 1)
                          + (IF p - R[next].start <= R[next].new
                             THEN p - R[next].start ELSE R[next].new)
      BY <1>2, <2>3, PlaceBetween, ZenonT(30)
    <3> HIDE DEF f
    <3>2. ASSUME next \in 1..Len(R) PROVE f = p + Delta(R, next - 1)
      <4> DEFINE s == R[next].start
                 w == R[next].new
                 d == Delta(R, next - 1)
      <4>1. s \in Nat /\ w \in Nat
        BY <1>1, <3>2
      <4>2. d \in Int
        <5>1. next - 1 \in 0..Len(R)
          BY <1>2, <2>1
        <5> QED BY <5>1, Deltas
      <4>3. p <= s /\ p # End(R[next])
        <5>1. p < End(R[next]) /\ End(R[next]) = s + R[next].old /\ R[next].old \in Nat
          BY <1>1, <2>2, <3>2
        <5> QED BY <2>1, <2>2, <3>2, <4>1, <5>1
      <4>4. f = IF p < s THEN p + d ELSE s + d + (IF p - s <= w THEN p - s ELSE w)
        BY <3>1, <3>2, <4>3
      <4> HIDE DEF s, w, d
      <4>5. f = p + d
        BY <2>1, <4>1, <4>2, <4>3, <4>4
      <4> QED BY <4>5 DEF d
    <3> QED BY <3>1, <3>2 DEF f
  <2>5. next \notin 1..Len(R) => i = Len(R)
    BY <1>1, <1>2, <2>1
  <2> QED BY <2>1, <2>2, <2>4, <2>5
<1>4. CASE i # 0 /\ CopyPos(R, i) = p
  <2>1. i \in 1..Len(R) /\ i \in 1..Len(R) + 1 /\ i - 1 \in 0..Len(R)
    BY <1>1, <1>2, <1>4
  <2>2. /\ R[i].start \in Nat /\ R[i].old \in Nat /\ R[i].old # 0 /\ R[i].new \in Nat
        /\ End(R[i]) = R[i].start + R[i].old /\ End(R[i]) = p
        /\ CopyPos(R, i - 1) <= R[i].start /\ CopyPos(R, i - 1) \in Nat
    BY <1>1, <1>4, <2>1
  <2>3. CopyPos(R, i - 1) < p /\ p <= End(R[i]) /\ p \in Nat /\ ~(p < R[i].start)
    BY <2>2
  <2>4. Decides(R, p, i)
    BY <2>1, <2>3, DecidedHere
  <2>5. RemapPlainIndex(p, R) = R[i].start + Delta(R, i - 1) + R[i].new
    BY <1>2, <2>1, <2>2, <2>3, <2>4, PlaceBetween
  <2>6. Delta(R, i) = Delta(R, i - 1) + R[i].new - R[i].old /\ Delta(R, i - 1) \in Int
    BY <2>1, Deltas
  <2> QED BY <2>2, <2>5, <2>6
<1>5. CopyPos(R, i) \in Nat /\ p \in Nat
  BY <1>1, <1>2
<1> QED BY <1>2, <1>3, <1>4, <1>5

\* A place within a replacement stays within its new units.
LEMMA InnerMoves ==
  ASSUME NEW units \in Nat, NEW R, IsEdit(R, units), NEW i \in 1..Len(R), NEW p \in Nat,
         R[i].start <= p, p <= End(R[i]),
         NEW s, s = R[i].start, NEW w, w = R[i].new
  PROVE  RemapPlainIndex(p, R)
           = s + Delta(R, i - 1) + (IF p # End(R[i]) /\ p - s <= w THEN p - s ELSE w)
<1>1. /\ Len(R) \in Nat
      /\ \A k \in 0..Len(R) : CopyPos(R, k) \in Nat
      /\ R[i].start \in Nat /\ R[i].old \in Nat /\ R[i].old # 0
      /\ R[i].new \in Nat
      /\ End(R[i]) = R[i].start + R[i].old
      /\ R[i].start + R[i].old <= units
      /\ CopyPos(R, i - 1) <= R[i].start
  BY EditParts
<1>2. i - 1 \in 0..Len(R) /\ i \in 1..Len(R) + 1 /\ (i - 1) + 1 = i /\ p \in 0..units
  BY <1>1, SMTT(20)
<1>3. CopyPos(R, i - 1) \in Nat /\ Delta(R, i - 1) \in Int
  BY <1>1, <1>2, Deltas
<1>4. CASE p = s
  <2>1. InGap(R, units, i - 1, p)
    BY <1>1, <1>2, <1>4 DEF InGap
  <2>2. RemapPlainIndex(p, R) = p + Delta(R, i - 1)
    BY <2>1, GapMoves
  <2>3. p # End(R[i]) /\ p - s <= w /\ p - s = 0
    BY <1>1, <1>4
  <2> QED BY <1>1, <1>3, <1>4, <2>2, <2>3
<1>5. CASE p # s
  <2>1. CopyPos(R, i - 1) < p
    BY <1>1, <1>3, <1>5
  <2>2. Decides(R, p, i)
    BY <1>2, <2>1, DecidedHere
  <2> DEFINE f == RemapPlainIndex(p, R)
  <2>3. i \in 1..Len(R) =>
          f = IF p < R[i].start THEN p + Delta(R, i - 1)
              ELSE IF p = End(R[i])
                THEN R[i].start + Delta(R, i - 1) + R[i].new
              ELSE R[i].start + Delta(R, i - 1)
                     + (IF p - R[i].start <= R[i].new
                        THEN p - R[i].start ELSE R[i].new)
    BY <1>2, <2>2, PlaceBetween, ZenonT(30)
  <2> HIDE DEF f
  <2>4. ~(p < s)
    BY <1>1
  <2>5. f = IF p = End(R[i]) THEN s + Delta(R, i - 1) + w
            ELSE s + Delta(R, i - 1) + (IF p - s <= w THEN p - s ELSE w)
    BY <2>3, <2>4
  <2>6. f = s + Delta(R, i - 1) + (IF p # End(R[i]) /\ p - s <= w THEN p - s ELSE w)
    BY <2>5
  <2> QED BY <2>6 DEF f
<1> QED BY <1>4, <1>5

\* The place p is kept: it lies behind i replacements and before the next one.
KeptPlace(R, units, i, p) ==
  InGap(R, units, i, p) /\ (i + 1 \in 1..Len(R) => p < R[i + 1].start)

\* The new place q is where the unit at p went.
Straddles(R, units, p, q) ==
  /\ p \in 0..units /\ q \in Int
  /\ RemapEngineIndex(p, units, R) <= q
  /\ q < RemapEngineIndex(p + 1, units, R)

\* A unit that is kept moves with the text behind the replacements before it.
LEMMA KeptStraddles ==
  ASSUME NEW units \in Nat, NEW R, IsEdit(R, units), NEW i, NEW p, KeptPlace(R, units, i, p)
  PROVE  Straddles(R, units, p, p + Delta(R, i))
<1>1. /\ i \in 0..Len(R) /\ p \in 0..units /\ CopyPos(R, i) <= p
      /\ i + 1 \in 1..Len(R) => p < R[i + 1].start
      /\ InGap(R, units, i, p)
  BY DEF KeptPlace, InGap
<1>2. /\ Len(R) \in Nat /\ CopyPos(R, i) \in Nat
      /\ \A k \in 1..Len(R) : /\ R[k].start \in Nat /\ R[k].old \in Nat
                              /\ R[k].start + R[k].old <= units
  BY <1>1, EditParts
<1>3. Delta(R, i) \in Int
  BY <1>1, Deltas
<1>4. RemapEngineIndex(p, units, R) = p + Delta(R, i)
  <2>1. RemapPlainIndex(p, R) = p + Delta(R, i)
    BY <1>1, GapMoves
  <2> QED BY <1>1, <2>1 DEF RemapEngineIndex
<1>5. RemapEngineIndex(p + 1, units, R) = p + 1 + Delta(R, i)
  <2>1. CASE p = units
    <3>1. i = Len(R)
      <4> SUFFICES ASSUME i # Len(R) PROVE FALSE
        OBVIOUS
      <4>1. i + 1 \in 1..Len(R)
        BY <1>1, <1>2
      <4>2. R[i + 1].start \in Nat /\ R[i + 1].old \in Nat
            /\ R[i + 1].start + R[i + 1].old <= units /\ p < R[i + 1].start
        BY <1>1, <1>2, <4>1
      <4> QED BY <2>1, <4>2
    <3>2. RemapEngineIndex(units + 1, units, R) = units + Delta(R, Len(R)) + 1
      BY EnginePlaces
    <3>3. RemapEngineIndex(p + 1, units, R) = units + Delta(R, i) + 1
      BY <2>1, <3>1, <3>2
    <3> QED BY <1>3, <2>1, <3>3
  <2>2. CASE p # units
    <3> DEFINE x == p + 1
    <3>1. x \in 0..units /\ CopyPos(R, i) <= x
      BY <1>1, <1>2, <2>2
    <3>2. i + 1 \in 1..Len(R) => x <= R[i + 1].start
      <4> SUFFICES ASSUME i + 1 \in 1..Len(R) PROVE x <= R[i + 1].start
        OBVIOUS
      <4>1. R[i + 1].start \in Nat /\ p < R[i + 1].start /\ p \in Nat
        BY <1>1, <1>2
      <4> QED BY <4>1
    <3> HIDE DEF x
    <3>3. InGap(R, units, i, x)
      BY <1>1, <3>1, <3>2 DEF InGap
    <3>4. RemapPlainIndex(x, R) = x + Delta(R, i)
      BY <3>3, GapMoves
    <3>5. RemapEngineIndex(x, units, R) = x + Delta(R, i)
      BY <3>1, <3>4 DEF RemapEngineIndex
    <3> QED BY <3>5 DEF x
  <2> QED BY <2>1, <2>2
<1> DEFINE d == Delta(R, i)
<1> HIDE DEF d
<1>6. p \in Int /\ d \in Int /\ p + d <= p + d /\ p + d < p + 1 + d /\ p + d \in Int
  BY <1>1, <1>3 DEF d
<1> QED BY <1>1, <1>4, <1>5, <1>6 DEF Straddles, d

\* The old unit whose place the j-th new unit of a replacement takes, counting
\* from 0.
ReplacedPlace(r, j) == r.start + (IF j < r.old THEN j ELSE r.old - 1)

\* New units stand where the units they replace stood.
LEMMA NewStraddles ==
  ASSUME NEW units \in Nat, NEW R, IsEdit(R, units), NEW i \in 1..Len(R), NEW j \in Nat,
         j < R[i].new
  PROVE  Straddles(R, units, ReplacedPlace(R[i], j), R[i].start + Delta(R, i - 1) + j)
<1> DEFINE s == R[i].start
           w == R[i].new
           o == R[i].old
           d == Delta(R, i - 1)
           p == ReplacedPlace(R[i], j)
<1>1. /\ Len(R) \in Nat /\ s \in Nat /\ o \in Nat /\ o # 0 /\ w \in Nat
      /\ End(R[i]) = s + o /\ s + o <= units
  BY EditParts
<1>2. d \in Int
  <2>1. i - 1 \in 0..Len(R)
    BY <1>1
  <2> QED BY <2>1, Deltas
<1>3. p = s + (IF j < o THEN j ELSE o - 1)
  BY DEF ReplacedPlace
<1>4. s = R[i].start /\ w = R[i].new /\ j < w
  OBVIOUS
<1>5. ASSUME NEW x \in Nat, s <= x, x <= s + o
      PROVE  RemapEngineIndex(x, units, R)
               = s + d + (IF x # s + o /\ x - s <= w THEN x - s ELSE w)
  <2>1. RemapPlainIndex(x, R)
           = s + Delta(R, i - 1) + (IF x # End(R[i]) /\ x - s <= w THEN x - s ELSE w)
    <3>1. R[i].start <= x /\ x <= End(R[i])
      BY <1>1, <1>5
    <3> HIDE DEF s, w
    <3> QED BY <1>4, <1>5, <3>1, InnerMoves
  <2>2. x <= units
    BY <1>1, <1>5
  <2>3. RemapEngineIndex(x, units, R) = RemapPlainIndex(x, R)
    BY <2>2 DEF RemapEngineIndex
  <2>4. End(R[i]) = s + o
    BY <1>1
  <2> HIDE DEF s, w, o
  <2> QED BY <2>1, <2>3, <2>4
<1> HIDE DEF s, w, o, d, p
<1>6. p \in Nat /\ p + 1 \in Nat /\ s <= p /\ p + 1 <= s + o /\ s <= p + 1 /\ p <= s + o
      /\ p \in 0..units /\ p # s + o
  BY <1>1, <1>3
<1>7. RemapEngineIndex(p, units, R) = s + d + (IF p - s <= w THEN p - s ELSE w)
  BY <1>5, <1>6
<1>8. RemapEngineIndex(p + 1, units, R)
        = s + d + (IF p + 1 # s + o /\ (p + 1) - s <= w THEN (p + 1) - s ELSE w)
  BY <1>5, <1>6
<1>9. p - s = IF j < o THEN j ELSE o - 1
  BY <1>1, <1>3
<1>10. p - s <= j /\ p - s \in Nat
  BY <1>1, <1>9
<1>11. RemapEngineIndex(p, units, R) <= s + d + j
  BY <1>1, <1>2, <1>4, <1>7, <1>10, SMTT(20)
<1>12. s + d + j < RemapEngineIndex(p + 1, units, R)
  <2>1. CASE p + 1 = s + o
    BY <1>1, <1>2, <1>4, <1>8, <2>1, SMTT(20)
  <2>2. CASE p + 1 # s + o
    <3>1. p - s = j /\ (p + 1) - s = j + 1
      BY <1>1, <1>6, <1>9, <2>2
    <3>2. RemapEngineIndex(p + 1, units, R) = s + d + (IF j + 1 <= w THEN j + 1 ELSE w)
      BY <1>8, <2>2, <3>1
    <3> QED BY <1>1, <1>2, <1>4, <3>2, SMTT(20)
  <2> QED BY <2>1, <2>2
<1>13. s + d + j \in Int
  BY <1>1, <1>2
<1>14. Straddles(R, units, p, s + d + j)
  BY <1>6, <1>11, <1>12, <1>13 DEF Straddles
<1> QED BY <1>14 DEF s, d, p

\* A place of a run shows its value.
LEMMA ShownAt ==
  ASSUME NEW n \in Nat, NEW V, NEW runs, IsRuns(runs, n, V), NEW r \in 1..Len(runs.lengths),
         NEW p \in Nat, Start(runs.lengths, r) <= p, p < Start(runs.lengths, r + 1)
  PROVE  Spread(runs)[p + 1] = runs.values[r]
<1>1. \A q \in 1..Len(runs.lengths) : \A x \in Nat :
         Start(runs.lengths, q) <= x /\ x < Start(runs.lengths, q + 1)
           => Spread(runs)[x + 1] = runs.values[q]
  BY SpreadIs
<1> QED BY <1>1

\* A unit of the new text shows the run of the unit whose place it took.
LEMMA RemappedShows ==
  ASSUME NEW units \in Nat, NEW R, IsEdit(R, units), NEW V, NEW runs,
         IsRuns(runs, units + 1, V), NEW new,
         IsRuns(new, units + Delta(R, Len(R)) + 1, V),
         new.lengths = RemapRunLengths(runs.lengths, units, R), new.values = runs.values,
         NEW p, NEW q, Straddles(R, units, p, q)
  PROVE  /\ q \in 0..units + Delta(R, Len(R))
         /\ Spread(new)[q + 1] = Spread(runs)[p + 1]
<1> DEFINE s  == runs.lengths
           h(x) == RemapEngineIndex(x, units, R)
           n  == units + Delta(R, Len(R)) + 1
<1>1. /\ runs \in [lengths : Seq(Nat), values : Seq(V)]
      /\ s \in Seq(Nat) /\ Len(s) \in Nat /\ Total(s) = units + 1
  BY DEF IsRuns
<1>2. new.lengths = RemapRunLengths(s, units, R) /\ new.values = runs.values
  OBVIOUS
<1>3. IsRuns(new, n, V)
  OBVIOUS
<1>4. /\ Len(new.lengths) = Len(s)
      /\ \A r \in 1..Len(s) + 1 : Start(new.lengths, r) = h(Start(s, r))
  BY <1>1, <1>2, RemappedRuns
<1>5. /\ h(0) = 0 /\ h(units + 1) = n
      /\ \A a \in 0..units + 1 : h(a) \in Int
      /\ \A a \in 0..units + 1, b \in 0..units + 1 : a <= b => h(a) <= h(b)
  BY EnginePlaces
<1>6. p \in 0..units /\ q \in Int /\ h(p) <= q /\ q < h(p + 1)
  BY DEF Straddles
<1> HIDE DEF h
<1>7. /\ 0 \in 0..units + 1 /\ units + 1 \in 0..units + 1 /\ p \in 0..units + 1
      /\ p + 1 \in 0..units + 1 /\ 0 <= p /\ p + 1 <= units + 1 /\ p \in Nat /\ p < units + 1
  BY <1>6
<1>8. 0 <= h(p) /\ h(p + 1) <= n
  BY <1>5, <1>7
<1>9. n \in Int /\ q \in Nat /\ q < n
  <2>1. h(p) \in Int /\ h(p + 1) \in Int /\ n \in Int
    BY <1>5, <1>7
  <2> QED BY <1>6, <1>8, <2>1
<1>10. PICK r \in 1..Len(s) :
         /\ Start(s, r) <= p /\ p < Start(s, r + 1)
         /\ Spread(runs)[p + 1] = runs.values[r]
  <2>1. units + 1 \in Nat
    OBVIOUS
  <2>2. IsShown(runs, p)
    BY <1>7, <2>1, ShownBy
  <2> QED BY <2>2 DEF IsShown
<1>11. Start(new.lengths, r) <= q /\ q < Start(new.lengths, r + 1)
  <2> DEFINE a == Start(s, r)
             b == Start(s, r + 1)
  <2>1. r \in 1..Len(s) + 1 /\ r + 1 \in 1..Len(s) + 1 /\ Len(s) + 1 \in 1..Len(s) + 1
        /\ r + 1 <= Len(s) + 1
    BY <1>1
  <2>2. a \in Nat /\ b \in Nat
    BY <1>1, <2>1, Starts
  <2>3. b <= units + 1
    <3>1. b <= Start(s, Len(s) + 1)
      BY <1>1, <2>1, StartsGrow
    <3>2. Start(s, Len(s) + 1) = units + 1
      BY <1>1, Starts
    <3> QED BY <3>1, <3>2
  <2>4. Start(new.lengths, r) = h(a) /\ Start(new.lengths, r + 1) = h(b)
    BY <1>4, <2>1
  <2>5. a <= p /\ p < b
    BY <1>10
  <2> HIDE DEF a, b
  <2>6. a \in 0..units + 1 /\ b \in 0..units + 1 /\ p + 1 <= b
    BY <1>7, <2>2, <2>3, <2>5
  <2>7. h(a) <= h(p) /\ h(p + 1) <= h(b)
    BY <1>5, <1>7, <2>5, <2>6
  <2>8. h(a) \in Int /\ h(p) \in Int /\ h(p + 1) \in Int /\ h(b) \in Int
    BY <1>5, <1>7, <2>6
  <2>9. h(a) <= q /\ q < h(b)
    BY <1>6, <2>7, <2>8
  <2> QED BY <2>4, <2>9
<1>12. Spread(new)[q + 1] = new.values[r]
  <2>1. r \in 1..Len(new.lengths)
    BY <1>4
  <2>2. n \in Nat
    BY <1>9
  <2> HIDE DEF n
  <2> QED BY <1>3, <1>9, <1>11, <2>1, <2>2, ShownAt
<1>13. q \in 0..units + Delta(R, Len(R))
  <2>1. Delta(R, Len(R)) \in Int
    <3>1. Len(R) \in 0..Len(R)
      BY EditParts
    <3> QED BY <3>1, Deltas
  <2> QED BY <1>9, <2>1
<1> QED BY <1>2, <1>10, <1>12, <1>13

\* What was copied once stays.
LEMMA CopiesStay ==
  ASSUME NEW U, NEW txt \in Seq(U), NEW new \in Seq(U), NEW R, IsEdit(R, Len(txt)),
         NEW f, IsCopying(f, txt, R, new, U),
         NEW i \in 0..Len(R), NEW x, x \in 1..Len(f[i])
  PROVE  /\ x \in 1..Len(ReplacedText(txt, R, new))
         /\ ReplacedText(txt, R, new)[x] = f[i][x]
<1>1. Len(txt) \in Nat /\ Len(R) \in Nat
  BY EditParts
<1>2. /\ \A n \in 0..Len(R) : f[n] \in Seq(U)
      /\ \A n \in 1..Len(R) :
           f[n] = f[n - 1] \o SubSeq(txt, CopyPos(R, n - 1) + 1, R[n].start) \o new
      /\ ReplacedText(txt, R, new)
           = f[Len(R)] \o SubSeq(txt, CopyPos(R, Len(R)) + 1, Len(txt))
  BY DEF IsCopying
<1>3. ASSUME NEW a \in Nat, NEW b \in Nat, b <= Len(txt) PROVE SubSeq(txt, a + 1, b) \in Seq(U)
  BY <1>1, <1>3
<1>4. ASSUME NEW u \in Seq(U), NEW v \in Seq(U), x \in 1..Len(u)
      PROVE  u \o v \in Seq(U) /\ x \in 1..Len(u \o v) /\ (u \o v)[x] = u[x]
  BY <1>4
<1>5. ASSUME NEW n \in 1..Len(R), x \in 1..Len(f[n - 1])
      PROVE  x \in 1..Len(f[n]) /\ f[n][x] = f[n - 1][x]
  <2> DEFINE u == f[n - 1]
             v == SubSeq(txt, CopyPos(R, n - 1) + 1, R[n].start)
  <2>1. n - 1 \in 0..Len(R)
    BY <1>1
  <2>2. u \in Seq(U) /\ x \in 1..Len(u) /\ f[n] = (u \o v) \o new
    BY <1>2, <1>5, <2>1
  <2>3. v \in Seq(U)
    <3>1. CopyPos(R, n - 1) \in Nat /\ R[n].start \in Nat /\ R[n].old \in Nat
          /\ R[n].start + R[n].old <= Len(txt)
      BY <1>1, <2>1, EditParts
    <3>2. R[n].start <= Len(txt)
      BY <1>1, <3>1
    <3> QED BY <1>3, <3>1, <3>2
  <2> HIDE DEF u, v
  <2>4. u \o v \in Seq(U) /\ x \in 1..Len(u \o v) /\ (u \o v)[x] = u[x]
    BY <1>4, <2>2, <2>3
  <2> DEFINE w == u \o v
  <2>5. w \in Seq(U) /\ x \in 1..Len(w) /\ f[n] = w \o new /\ w[x] = u[x]
    BY <2>2, <2>4
  <2> HIDE DEF w
  <2>6. x \in 1..Len(w \o new) /\ (w \o new)[x] = w[x]
    BY <1>4, <2>5
  <2> QED BY <2>5, <2>6 DEF u
<1> DEFINE T == {k \in Nat : i + k <= Len(R) => x \in 1..Len(f[i + k]) /\ f[i + k][x] = f[i][x]}
<1>6. 0 \in T
  <2>1. i + 0 = i
    OBVIOUS
  <2> QED BY <2>1
<1>7. ASSUME NEW k \in Nat, k \in T PROVE k + 1 \in T
  <2> SUFFICES ASSUME i + (k + 1) <= Len(R)
               PROVE  x \in 1..Len(f[i + (k + 1)]) /\ f[i + (k + 1)][x] = f[i][x]
    OBVIOUS
  <2> DEFINE n == i + (k + 1)
  <2>1. n \in 1..Len(R) /\ n - 1 = i + k /\ i + k <= Len(R)
    BY <1>1
  <2>2. x \in 1..Len(f[i + k]) /\ f[i + k][x] = f[i][x]
    BY <1>7, <2>1
  <2> HIDE DEF n
  <2>3. x \in 1..Len(f[n - 1])
    BY <2>1, <2>2
  <2>4. x \in 1..Len(f[n]) /\ f[n][x] = f[n - 1][x]
    BY <1>5, <2>1, <2>3
  <2>5. x \in 1..Len(f[n]) /\ f[n][x] = f[i][x]
    BY <2>1, <2>2, <2>4
  <2> QED BY <2>5 DEF n
<1> HIDE DEF T
<1>8. Len(R) - i \in T
  <2>1. Len(R) - i \in Nat
    BY <1>1
  <2> QED BY <1>6, <1>7, <2>1, SetInduction
<1>9. i + (Len(R) - i) = Len(R)
  BY <1>1
<1>10. x \in 1..Len(f[Len(R)]) /\ f[Len(R)][x] = f[i][x]
  BY <1>8, <1>9 DEF T
<1> DEFINE u == f[Len(R)]
           v == SubSeq(txt, CopyPos(R, Len(R)) + 1, Len(txt))
<1>11. u \in Seq(U) /\ x \in 1..Len(u) /\ u[x] = f[i][x]
  <2>1. Len(R) \in 0..Len(R)
    BY <1>1
  <2> QED BY <1>2, <1>10, <2>1
<1>12. v \in Seq(U)
  <2>1. CopyPos(R, Len(R)) \in Nat
    <3>1. Len(R) \in 0..Len(R)
      BY <1>1
    <3> QED BY <1>1, <3>1, EditParts
  <2> QED BY <1>1, <1>3, <2>1
<1>13. ReplacedText(txt, R, new) = u \o v
  BY <1>2
<1> HIDE DEF u, v
<1>14. x \in 1..Len(u \o v) /\ (u \o v)[x] = u[x]
  BY <1>4, <1>11, <1>12
<1> QED BY <1>11, <1>13, <1>14

\* The t-th unit of a part of a text.
LEMMA PartOf ==
  ASSUME NEW U, NEW s \in Seq(U), NEW a \in Nat, NEW b \in Nat, a <= b, b <= Len(s),
         NEW v, v = SubSeq(s, a + 1, b)
  PROVE  /\ v \in Seq(U) /\ Len(v) = b - a
         /\ \A t \in 1..b - a : v[t] = s[a + t]
<1>1. v \in Seq(U)
  OBVIOUS
<1>2. Len(v) = IF a + 1 <= b THEN b - (a + 1) + 1 ELSE 0
  OBVIOUS
<1>3. \A t \in 1..b - a : v[t] = s[a + t]
  <2> TAKE t \in 1..b - a
  <2>1. t \in 1..b - (a + 1) + 1
    OBVIOUS
  <2>2. v[t] = s[(a + 1) + t - 1]
    BY <2>1
  <2>3. (a + 1) + t - 1 = a + t
    OBVIOUS
  <2> QED BY <2>2, <2>3
<1> QED BY <1>1, <1>2, <1>3

\* s has the units of three pieces.
HasPieces(s, x, y, z) ==
  /\ Len(s) = Len(x) + Len(y) + Len(z)
  /\ \A t \in 1..Len(y) : s[Len(x) + t] = y[t]
  /\ \A t \in 1..Len(z) : s[Len(x) + Len(y) + t] = z[t]

\* So has what is put together of them.
LEMMA ThreePieces ==
  ASSUME NEW U, NEW x \in Seq(U), NEW y \in Seq(U), NEW z \in Seq(U)
  PROVE  HasPieces(x \o y \o z, x, y, z)
<1>1. /\ x \o y \in Seq(U) /\ Len(x \o y) = Len(x) + Len(y)
      /\ \A t \in 1..Len(y) : (x \o y)[Len(x) + t] = y[t]
  <2>1. x \o y \in Seq(U) /\ Len(x \o y) = Len(x) + Len(y)
    OBVIOUS
  <2>2. ASSUME NEW t \in 1..Len(y) PROVE (x \o y)[Len(x) + t] = y[t]
    OBVIOUS
  <2> QED BY <2>1, <2>2
<1> DEFINE w == x \o y
<1> HIDE DEF w
<1>2. /\ w \in Seq(U) /\ Len(w) = Len(x) + Len(y)
      /\ \A t \in 1..Len(y) : w[Len(x) + t] = y[t]
  BY <1>1 DEF w
<1>3. /\ Len(w \o z) = Len(w) + Len(z)
      /\ \A t \in 1..Len(w) : (w \o z)[t] = w[t]
      /\ \A t \in 1..Len(z) : (w \o z)[Len(w) + t] = z[t]
  <2>0. w \in Seq(U)
    BY <1>2
  <2>1. Len(w \o z) = Len(w) + Len(z)
    BY <2>0
  <2>2. ASSUME NEW t \in 1..Len(z) PROVE (w \o z)[Len(w) + t] = z[t]
    BY <2>0
  <2>3. ASSUME NEW t \in 1..Len(w) PROVE (w \o z)[t] = w[t]
    BY <2>0
  <2> QED BY <2>1, <2>2, <2>3
<1>4. \A t \in 1..Len(y) : Len(x) + t \in 1..Len(w)
  BY <1>2
<1>5. /\ Len(w \o z) = Len(x) + Len(y) + Len(z)
      /\ \A t \in 1..Len(y) : (w \o z)[Len(x) + t] = y[t]
      /\ \A t \in 1..Len(z) : (w \o z)[Len(x) + Len(y) + t] = z[t]
  BY <1>2, <1>3, <1>4
<1> QED BY <1>5 DEF w, HasPieces

\* Units that are not replaced are copied.
LEMMA KeptUnits ==
  ASSUME NEW U, NEW txt \in Seq(U), NEW new \in Seq(U), NEW R, IsEdit(R, Len(txt)),
         \A i \in 1..Len(R) : R[i].new = Len(new),
         NEW i, NEW p, KeptPlace(R, Len(txt), i, p), p < Len(txt)
  PROVE  ReplacedText(txt, R, new)[p + Delta(R, i) + 1] = txt[p + 1]
<1> DEFINE N == Len(R)
           c == CopyPos(R, i)
           d == Delta(R, i)
           x == p + d + 1
<1>1. PICK f : IsCopying(f, txt, R, new, U)
  BY TextCopied
<1>2. /\ i \in 0..N /\ p \in 0..Len(txt) /\ c <= p
      /\ i + 1 \in 1..N => p < R[i + 1].start
  BY DEF KeptPlace, InGap
<1>3. /\ N \in Nat /\ Len(txt) \in Nat /\ c \in Nat /\ c <= Len(txt)
      /\ \A k \in 1..N : R[k].start \in Nat /\ R[k].old \in Nat /\ CopyPos(R, k - 1) <= R[k].start
                         /\ R[k].start + R[k].old <= Len(txt)
  <2>1. Len(txt) \in Nat
    OBVIOUS
  <2>2. N \in Nat /\ c \in Nat /\ c <= Len(txt)
    BY <1>2, <2>1, EditParts
  <2>3. ASSUME NEW k \in 1..N
        PROVE  /\ R[k].start \in Nat /\ R[k].old \in Nat /\ CopyPos(R, k - 1) <= R[k].start
               /\ R[k].start + R[k].old <= Len(txt)
    BY <2>1, EditParts
  <2> QED BY <2>1, <2>2, <2>3
<1>4. d \in Int
  BY <1>2, <1>3, Deltas
<1>5. f[i] \in Seq(U) /\ Len(f[i]) = c + d
  BY <1>1, <1>2 DEF IsCopying, Copied
<1>6. CASE i + 1 \in 1..N
  <2> DEFINE k == i + 1
             b == R[k].start
             y == SubSeq(txt, c + 1, b)
  <2>1. k \in 1..N /\ k - 1 = i /\ k \in 0..N
    BY <1>2, <1>3, <1>6
  <2>2. b \in Nat /\ c <= b /\ b <= Len(txt) /\ p < b
    <3>1. R[k].start \in Nat /\ R[k].old \in Nat /\ CopyPos(R, k - 1) <= R[k].start
          /\ R[k].start + R[k].old <= Len(txt)
      BY <1>3, <2>1
    <3>2. c <= R[k].start /\ p < R[k].start
      BY <1>2, <2>1, <3>1
    <3> QED BY <1>3, <3>1, <3>2
  <2> HIDE DEF k
  <2>3. f[k] = (f[i] \o y) \o new
    BY <1>1, <2>1 DEF IsCopying
  <2> DEFINE a == f[i]
  <2> HIDE DEF b, c, y, d, a
  <2>4. y \in Seq(U) /\ Len(y) = b - c /\ \A t \in 1..b - c : y[t] = txt[c + t]
    BY <1>3, <2>2, PartOf DEF y
  <2>5. a \in Seq(U) /\ Len(a) = c + d
    BY <1>5 DEF a
  <2> DEFINE t == p - c + 1
  <2>6. t \in 1..Len(y) /\ t \in 1..b - c /\ Len(a) + t = x /\ c + t = p + 1 /\ t \in Nat
        /\ Len(a) \in Nat
    BY <1>2, <1>3, <1>4, <2>2, <2>4, <2>5
  <2>7. /\ Len((a \o y) \o new) = Len(a) + Len(y) + Len(new)
        /\ \A u \in 1..Len(y) : ((a \o y) \o new)[Len(a) + u] = y[u]
    <3>1. HasPieces(a \o y \o new, a, y, new)
      <4>1. y \in Seq(U) /\ a \in Seq(U)
        BY <2>4, <2>5
      <4> QED BY <4>1, ThreePieces
    <3> QED BY <3>1 DEF HasPieces
  <2>8. f[k] = (a \o y) \o new
    BY <2>3 DEF a
  <2> HIDE DEF t, x
  <2>9. f[k][x] = txt[p + 1]
    BY <2>4, <2>6, <2>7, <2>8
  <2>10. x \in 1..Len(f[k])
    <3>1. Len(y) \in Nat /\ Len(new) \in Nat /\ t <= Len(y) /\ t >= 1
      BY <2>4, <2>6
    <3>2. Len(f[k]) = Len(a) + Len(y) + Len(new)
      BY <2>7, <2>8
    <3> QED BY <2>6, <3>1, <3>2
  <2>11. ReplacedText(txt, R, new)[x] = f[k][x]
    <3>1. \A q \in 0..Len(R) : \A z \in 1..Len(f[q]) :
            ReplacedText(txt, R, new)[z] = f[q][z]
      BY <1>1, CopiesStay
    <3>2. k \in 0..Len(R)
      BY <2>1
    <3> QED BY <2>10, <3>1, <3>2
  <2> QED BY <2>9, <2>11 DEF x, d
<1>7. CASE ~(i + 1 \in 1..N)
  <2>1. i = N
    BY <1>2, <1>3, <1>7
  <2> DEFINE b == Len(txt)
             y == SubSeq(txt, c + 1, b)
             a == f[i]
             t == p - c + 1
  <2>2. ReplacedText(txt, R, new) = a \o y
    BY <1>1, <2>1 DEF IsCopying
  <2> HIDE DEF b, c, y, d, a
  <2>3. b \in Nat /\ b <= Len(txt) /\ b = Len(txt)
    BY <1>3 DEF b
  <2>4. y \in Seq(U) /\ Len(y) = b - c /\ \A u \in 1..b - c : y[u] = txt[c + u]
    <3>1. y = SubSeq(txt, c + 1, b)
      BY DEF y
    <3> QED BY <1>3, <2>3, <3>1, PartOf
  <2>5. a \in Seq(U) /\ Len(a) = c + d
    BY <1>5 DEF a
  <2>6. t \in 1..Len(y) /\ t \in 1..b - c /\ Len(a) + t = x /\ c + t = p + 1
    BY <1>2, <1>3, <1>4, <2>3, <2>4, <2>5
  <2>7. \A u \in 1..Len(y) : (a \o y)[Len(a) + u] = y[u]
    BY <2>4, <2>5
  <2> HIDE DEF t, x
  <2>8. (a \o y)[x] = txt[p + 1]
    BY <2>4, <2>6, <2>7
  <2> QED BY <2>2, <2>8 DEF x, d
<1> QED BY <1>6, <1>7

\* New units stand where the replaced ones began.
LEMMA NewUnits ==
  ASSUME NEW U, NEW txt \in Seq(U), NEW new \in Seq(U), NEW R, IsEdit(R, Len(txt)),
         \A i \in 1..Len(R) : R[i].new = Len(new),
         NEW i \in 1..Len(R), NEW j \in Nat, j < Len(new)
  PROVE  ReplacedText(txt, R, new)[R[i].start + Delta(R, i - 1) + j + 1] = new[j + 1]
<1> DEFINE N == Len(R)
           m == i - 1
           c == CopyPos(R, m)
           d == Delta(R, m)
           b == R[i].start
           y == SubSeq(txt, c + 1, b)
           x == b + d + j + 1
<1>1. PICK f : IsCopying(f, txt, R, new, U)
  BY TextCopied
<1> DEFINE a == f[m]
<1>2. /\ N \in Nat /\ Len(txt) \in Nat /\ m \in 0..N
  BY EditParts
<1>3. c \in Nat /\ b \in Nat /\ c <= b /\ b <= Len(txt)
  <2>1. /\ c \in Nat /\ R[i].start \in Nat /\ R[i].old \in Nat
        /\ CopyPos(R, i - 1) <= R[i].start /\ R[i].start + R[i].old <= Len(txt)
    BY <1>2, EditParts
  <2> QED BY <1>2, <2>1
<1>4. d \in Int
  BY <1>2, Deltas
<1>5. a \in Seq(U) /\ Len(a) = c + d
  BY <1>1, <1>2 DEF IsCopying, Copied
<1>6. f[i] = (a \o y) \o new
  BY <1>1 DEF IsCopying
<1> HIDE DEF N, c, d, b, y, a, m
<1>7. y \in Seq(U) /\ Len(y) = b - c
  BY <1>2, <1>3, PartOf DEF y
<1>8. /\ Len((a \o y) \o new) = Len(a) + Len(y) + Len(new)
      /\ \A u \in 1..Len(new) : ((a \o y) \o new)[Len(a) + Len(y) + u] = new[u]
  <2>1. HasPieces(a \o y \o new, a, y, new)
    <3>1. y \in Seq(U) /\ a \in Seq(U)
      BY <1>5, <1>7
    <3> QED BY <3>1, ThreePieces
  <2> QED BY <2>1 DEF HasPieces
<1> DEFINE t == j + 1
<1>9. t \in 1..Len(new) /\ Len(a) + Len(y) + t = x /\ Len(new) \in Nat /\ Len(a) \in Nat
      /\ Len(y) \in Nat
  BY <1>3, <1>4, <1>5, <1>7
<1> HIDE DEF t, x
<1>10. f[i][x] = new[t]
  BY <1>6, <1>8, <1>9
<1>11. x \in 1..Len(f[i])
  <2>1. Len(f[i]) = Len(a) + Len(y) + Len(new)
    BY <1>6, <1>8
  <2> QED BY <1>9, <2>1
<1>12. ReplacedText(txt, R, new)[x] = f[i][x]
  <2>1. i \in 0..Len(R)
    BY <1>2 DEF N
  <2>2. \A q \in 0..Len(R) : \A z \in 1..Len(f[q]) :
          ReplacedText(txt, R, new)[z] = f[q][z]
    BY <1>1, CopiesStay
  <2> QED BY <1>11, <2>1, <2>2
<1> QED BY <1>10, <1>12 DEF x, t, b, d, m

\* The cells of n units with their styles.
CellsFrom(n, units, styles, fonts, paras) ==
  [k \in 1..n |-> [unit |-> units[k], font |-> fonts[styles[k]], para |-> paras[k]]]

\* What a layer shows.
LEMMA CellsShown ==
  TextInv => Cells = CellsFrom(Len(plain) + 1, literal, Spread(style), fontSet, Spread(para))
<1> SUFFICES ASSUME TextInv
             PROVE  Cells = CellsFrom(Len(plain) + 1, literal, Spread(style), fontSet, Spread(para))
  OBVIOUS
<1>1. EngineText = literal /\ Len(literal) = Len(plain) + 1
  BY LayerSeen DEF TextInv
<1>2. DOMAIN literal = 1..Len(plain) + 1
  <2>1. literal \in Seq(Letters \cup {Return})
    <3>1. plain \in Seq(Letters) /\ literal = plain \o <<Return>>
      BY DEF TextInv, TextIsOrdinary
    <3> QED BY <3>1, LiteralOfLetters
  <2> QED BY <1>1, <2>1
<1>3. Cells = [k \in DOMAIN literal |->
                 [unit |-> literal[k], font |-> fontSet[Spread(style)[k]],
                  para |-> Spread(para)[k]]]
  BY <1>1 DEF Cells
<1> QED BY <1>2, <1>3 DEF CellsFrom

\* What it shows after a call.
LEMMA CellsShownThen ==
  TextInv' => Cells' = CellsFrom(Len(plain') + 1, literal', Spread(style'), fontSet', Spread(para'))
<1>1. TextInv => Cells = CellsFrom(Len(plain) + 1, literal, Spread(style), fontSet, Spread(para))
  BY CellsShown
<1>2. (TextInv => Cells = CellsFrom(Len(plain) + 1, literal, Spread(style), fontSet, Spread(para)))'
  BY <1>1, PTL
<1> QED BY <1>2

\* The cells c with another value at the places of P.
ChangedAt(c, P, field, value) ==
  [k \in DOMAIN c |-> IF k - 1 \in P THEN [c[k] EXCEPT ![field] = value] ELSE c[k]]

\* Values of n places that are v at the places of P and the old ones elsewhere.
DiffersAt(new, old, n, P, v) ==
  \A k \in 1..n : new[k] = IF k - 1 \in P THEN v ELSE old[k]

\* The font at every place.
FontsAt(n, list, styles) == [k \in 1..n |-> list[styles[k]]]

\* Cells whose fonts differ at some places only.
LEMMA FontsPainted ==
  ASSUME NEW n \in Nat, NEW units, NEW styles, NEW fonts, NEW paras, NEW new, NEW list,
         NEW P, NEW f,
         DiffersAt(FontsAt(n, list, new), FontsAt(n, fonts, styles), n, P, f)
  PROVE  CellsFrom(n, units, new, list, paras)
           = ChangedAt(CellsFrom(n, units, styles, fonts, paras), P, "font", f)
<1> DEFINE c == CellsFrom(n, units, styles, fonts, paras)
<1>1. ASSUME NEW k \in 1..n
      PROVE  [unit |-> units[k], font |-> list[new[k]], para |-> paras[k]]
               = IF k - 1 \in P THEN [c[k] EXCEPT !["font"] = f] ELSE c[k]
  <2> DEFINE r == c[k]
             u == units[k]
             w == fonts[styles[k]]
             p == paras[k]
  <2>1. r = [unit |-> u, font |-> w, para |-> p]
    BY DEF CellsFrom
  <2>2. list[new[k]] = IF k - 1 \in P THEN f ELSE w
    BY DEF DiffersAt, FontsAt
  <2> HIDE DEF r, u, w, p
  <2>3. [r EXCEPT !["font"] = f] = [unit |-> u, font |-> f, para |-> p]
    BY <2>1
  <2> DEFINE x == list[new[k]]
             y == [r EXCEPT !["font"] = f]
  <2>4. x = (IF k - 1 \in P THEN f ELSE w) /\ y = [unit |-> u, font |-> f, para |-> p]
    BY <2>2, <2>3
  <2> HIDE DEF x, y
  <2>5. [unit |-> u, font |-> x, para |-> p] = IF k - 1 \in P THEN y ELSE r
    BY <2>1, <2>4
  <2> QED BY <2>5 DEF r, u, p, x, y
<1>2. DOMAIN c = 1..n
  BY DEF CellsFrom
<1> DEFINE a(k) == [unit |-> units[k], font |-> list[new[k]], para |-> paras[k]]
           b(k) == IF k - 1 \in P THEN [c[k] EXCEPT !["font"] = f] ELSE c[k]
<1>3. \A k \in 1..n : a(k) = b(k)
  BY <1>1
<1>4. CellsFrom(n, units, new, list, paras) = [k \in 1..n |-> a(k)]
  BY DEF CellsFrom
<1> HIDE DEF a, b
<1>5. [k \in 1..n |-> a(k)] = [k \in DOMAIN c |-> b(k)]
  BY <1>2, <1>3
<1> QED BY <1>4, <1>5 DEF b, ChangedAt

\* Cells whose paragraphs differ at some places only.
LEMMA ParasPainted ==
  ASSUME NEW n \in Nat, NEW units, NEW styles, NEW fonts, NEW paras, NEW new, NEW P, NEW v,
         DiffersAt(new, paras, n, P, v)
  PROVE  CellsFrom(n, units, styles, fonts, new)
           = ChangedAt(CellsFrom(n, units, styles, fonts, paras), P, "para", v)
<1> DEFINE c == CellsFrom(n, units, styles, fonts, paras)
<1>1. ASSUME NEW k \in 1..n
      PROVE  [unit |-> units[k], font |-> fonts[styles[k]], para |-> new[k]]
               = IF k - 1 \in P THEN [c[k] EXCEPT !["para"] = v] ELSE c[k]
  <2> DEFINE r == c[k]
             u == units[k]
             w == fonts[styles[k]]
             p == paras[k]
  <2>1. r = [unit |-> u, font |-> w, para |-> p]
    BY DEF CellsFrom
  <2>2. new[k] = IF k - 1 \in P THEN v ELSE p
    BY DEF DiffersAt
  <2> HIDE DEF r, u, w, p
  <2>3. [r EXCEPT !["para"] = v] = [unit |-> u, font |-> w, para |-> v]
    BY <2>1
  <2> DEFINE x == new[k]
             y == [r EXCEPT !["para"] = v]
  <2>4. x = (IF k - 1 \in P THEN v ELSE p) /\ y = [unit |-> u, font |-> w, para |-> v]
    BY <2>2, <2>3
  <2> HIDE DEF x, y
  <2>5. [unit |-> u, font |-> w, para |-> x] = IF k - 1 \in P THEN y ELSE r
    BY <2>1, <2>4
  <2> QED BY <2>5 DEF r, u, w, x, y
<1>2. DOMAIN c = 1..n
  BY DEF CellsFrom
<1> DEFINE a(k) == [unit |-> units[k], font |-> fonts[styles[k]], para |-> new[k]]
           b(k) == IF k - 1 \in P THEN [c[k] EXCEPT !["para"] = v] ELSE c[k]
<1>3. \A k \in 1..n : a(k) = b(k)
  BY <1>1
<1>4. CellsFrom(n, units, styles, fonts, new) = [k \in 1..n |-> a(k)]
  BY DEF CellsFrom
<1> HIDE DEF a, b
<1>5. [k \in 1..n |-> a(k)] = [k \in DOMAIN c |-> b(k)]
  BY <1>2, <1>3
<1> QED BY <1>4, <1>5 DEF b, ChangedAt

\* What is known of a layer's runs.
LEMMA LayerSpread ==
  ASSUME TextInv, NEW n, n = Len(plain) + 1
  PROVE  /\ n \in Nat
         /\ Len(Spread(style)) = n /\ DOMAIN Spread(style) = 1..n
         /\ \A k \in 1..n : Spread(style)[k] \in 1..Len(fontSet)
         /\ Len(Spread(para)) = n /\ DOMAIN Spread(para) = 1..n
<1>1. /\ n \in Nat /\ IsRuns(style, n, 1..Len(fontSet))
      /\ IsRuns(para, n, Paras \cup {Absent})
  BY LayerStyled
<1> DEFINE s == Spread(style)
           q == Spread(para)
           V == 1..Len(fontSet)
<1>2. s \in Seq(V) /\ Len(s) = n
  BY <1>1, SpreadIs
<1>3. q \in Seq(Paras \cup {Absent}) /\ Len(q) = n
  BY <1>1, SpreadIs
<1> HIDE DEF s, q, V
<1>4. DOMAIN s = 1..n /\ \A k \in 1..n : s[k] \in V
  BY <1>2
<1>5. DOMAIN q = 1..n
  BY <1>3
<1> QED BY <1>1, <1>2, <1>3, <1>4, <1>5 DEF s, q, V

\* The list of fonts keeps its entries and has the font.
LEMMA FontIsListed ==
  ASSUME NEW f \in Fonts, fontSet \in Seq(Fonts)
  PROVE  /\ \A i \in 1..Len(fontSet) : FontSetWith(f)[i] = fontSet[i]
         /\ FontSetWith(f)[IndexIn(f)] = f
<1> DEFINE places == {i \in DOMAIN fontSet : fontSet[i] = f}
<1>1. FontIndex(f) = IF places = {} THEN 0 ELSE Min(places)
  BY DEF FontIndex
<1>2. places \subseteq Nat /\ \A i \in places : i # 0 /\ fontSet[i] = f
  OBVIOUS
<1> HIDE DEF places
<1>3. CASE places = {}
  <2>1. FontSetWith(f) = Append(fontSet, f) /\ IndexIn(f) = Len(fontSet) + 1
    BY <1>1, <1>3 DEF FontSetWith, IndexIn
  <2> QED BY <2>1
<1>4. CASE places # {}
  <2>1. Min(places) \in places
    BY <1>2, <1>4, MinIs
  <2>2. FontIndex(f) # 0 /\ fontSet[FontIndex(f)] = f
    BY <1>1, <1>2, <1>4, <2>1
  <2> QED BY <2>2 DEF FontSetWith, IndexIn
<1> QED BY <1>3, <1>4

\* A call that gives fonts to some places.
LEMMA LayerFontsPainted ==
  ASSUME TextInv, TextInv', UNCHANGED text, para' = para, NEW P, NEW f,
         DiffersAt(FontsAt(Len(plain) + 1, fontSet', Spread(style')),
                   FontsAt(Len(plain) + 1, fontSet, Spread(style)), Len(plain) + 1, P, f)
  PROVE  Styled!SetOver(P, "font", f)
<1> DEFINE n == Len(plain) + 1
<1>1. n \in Nat
  BY LayerSpread
<1>2. Cells = CellsFrom(n, literal, Spread(style), fontSet, Spread(para))
  BY CellsShown
<1>3. Cells' = CellsFrom(n, literal, Spread(style'), fontSet', Spread(para))
  BY CellsShownThen DEF text
<1> DEFINE sp == Spread(style)
           new == Spread(style')
           pa == Spread(para)
           list == fontSet'
           fonts == fontSet
           c == Cells
<1>5. c = CellsFrom(n, literal, sp, fonts, pa)
  BY <1>2
<1>6. DiffersAt(FontsAt(n, list, new), FontsAt(n, fonts, sp), n, P, f)
  OBVIOUS
<1>7. Cells' = CellsFrom(n, literal, new, list, pa)
  BY <1>3
<1> HIDE DEF n, sp, new, pa, list, fonts, c
<1>8. CellsFrom(n, literal, new, list, pa)
        = ChangedAt(CellsFrom(n, literal, sp, fonts, pa), P, "font", f)
  BY <1>1, <1>6, FontsPainted
<1> QED BY <1>5, <1>7, <1>8 DEF c, Styled!SetOver, ChangedAt

\* A call that gives paragraph properties to some places.
LEMMA LayerParasPainted ==
  ASSUME TextInv, TextInv', UNCHANGED <<text, style, fontSet>>, NEW P, NEW v,
         DiffersAt(Spread(para'), Spread(para), Len(plain) + 1, P, v)
  PROVE  Styled!SetOver(P, "para", v)
<1> DEFINE n == Len(plain) + 1
<1>1. n \in Nat
  BY LayerSpread
<1>2. Cells = CellsFrom(n, literal, Spread(style), fontSet, Spread(para))
  BY CellsShown
<1>3. Cells' = CellsFrom(n, literal, Spread(style), fontSet, Spread(para'))
  BY CellsShownThen DEF text
<1> DEFINE sp == Spread(style)
           new == Spread(para')
           pa == Spread(para)
           fonts == fontSet
           c == Cells
<1>5. c = CellsFrom(n, literal, sp, fonts, pa)
  BY <1>2
<1>6. DiffersAt(new, pa, n, P, v)
  OBVIOUS
<1>7. Cells' = CellsFrom(n, literal, sp, fonts, new)
  BY <1>3
<1> HIDE DEF n, sp, new, pa, fonts, c
<1>8. CellsFrom(n, literal, sp, fonts, new)
        = ChangedAt(CellsFrom(n, literal, sp, fonts, pa), P, "para", v)
  BY <1>1, <1>6, ParasPainted
<1> QED BY <1>5, <1>7, <1>8 DEF c, Styled!SetOver, ChangedAt

\* Only places of the text count.
LEMMA DiffersWithin ==
  ASSUME NEW n \in Nat, NEW new, NEW old, NEW P, NEW v, DiffersAt(new, old, n, P, v),
         NEW Q, \A p \in 0..n - 1 : p \in P <=> p \in Q
  PROVE  DiffersAt(new, old, n, Q, v)
<1>1. \A k \in 1..n : k - 1 \in 0..n - 1
  OBVIOUS
<1>2. \A k \in 1..n : k - 1 \in P <=> k - 1 \in Q
  BY <1>1
<1> QED BY <1>2 DEF DiffersAt

\* Painted values differ at the painted places.
LEMMA PaintedDiffers ==
  ASSUME NEW n \in Nat, NEW old, DOMAIN old = 1..n, NEW P, NEW v
  PROVE  DiffersAt(Painted(old, P, v), old, n, P, v)
BY DEF DiffersAt, Painted

\* So do fonts of painted indexes, if the list of fonts kept its entries.
LEMMA PaintedFonts ==
  ASSUME NEW n \in Nat, NEW m, NEW styles, DOMAIN styles = 1..n, \A k \in 1..n : styles[k] \in 1..m,
         NEW list, NEW fonts, \A j \in 1..m : list[j] = fonts[j],
         NEW P, NEW i, NEW f, \A k \in 1..n : k - 1 \in P => list[i] = f
  PROVE  DiffersAt(FontsAt(n, list, Painted(styles, P, i)), FontsAt(n, fonts, styles), n, P, f)
<1> DEFINE new == Painted(styles, P, i)
<1>1. \A k \in 1..n : new[k] = IF k - 1 \in P THEN i ELSE styles[k]
  BY DEF Painted
<1> HIDE DEF new
<1>2. \A k \in 1..n : list[new[k]] = IF k - 1 \in P THEN f ELSE fonts[styles[k]]
  BY <1>1
<1>3. DiffersAt(FontsAt(n, list, new), FontsAt(n, fonts, styles), n, P, f)
  BY <1>2 DEF DiffersAt, FontsAt
<1> QED BY <1>3 DEF new

\* new is runs with the value v for run r.
LEMMA RunChanged ==
  ASSUME NEW n, NEW V, NEW runs, IsRuns(runs, n, V), NEW r \in 1..Len(runs.lengths), NEW v,
         NEW new, new = [runs EXCEPT !.values[r] = v]
  PROVE  IsRepainted(new, runs, r, r + 1, v)
<1> DEFINE s == runs.lengths
           w == runs.values
<1>1. /\ Len(s) \in Nat /\ DOMAIN w = 1..Len(s) /\ runs = [lengths |-> s, values |-> w]
  BY DEF IsRuns
<1>2. new.lengths = s /\ new.values = [w EXCEPT ![r] = v]
  BY <1>1
<1>3. \A x \in DOMAIN w : (r <= x /\ x < r + 1) <=> x = r
  BY <1>1
<1>4. [w EXCEPT ![r] = v] = [x \in DOMAIN w |-> IF r <= x /\ x < r + 1 THEN v ELSE w[x]]
  <2> HIDE DEF w
  <2>1. [w EXCEPT ![r] = v] = [x \in DOMAIN w |-> IF x = r THEN v ELSE w[x]]
    OBVIOUS
  <2> QED BY <1>3, <2>1
<1> QED BY <1>2, <1>4 DEF IsRepainted

\* The places of run r, and no other ones, show the value v.
RunShows(new, runs, r, n, v) ==
  /\ Start(runs.lengths, r) \in 0..n /\ Start(runs.lengths, r + 1) \in 0..n
  /\ Spread(new) = Painted(Spread(runs),
                            Start(runs.lengths, r)..(Start(runs.lengths, r + 1) - 1), v)

\* One run with another value shows there only.
LEMMA RunPainted ==
  ASSUME NEW n \in Nat, NEW V, NEW runs, IsRuns(runs, n, V), NEW r \in 1..Len(runs.lengths),
         NEW v, NEW W, NEW new, IsRuns(new, n, W), IsRepainted(new, runs, r, r + 1, v)
  PROVE  RunShows(new, runs, r, n, v)
<1> DEFINE s == runs.lengths
           m == r + 1
<1>1. s \in Seq(Nat) /\ Len(s) \in Nat /\ Total(s) = n
  BY DEF IsRuns
<1>3. r \in 1..(Len(s) + 1) /\ r + 1 \in 1..(Len(s) + 1) /\ Len(s) + 1 \in 1..(Len(s) + 1)
      /\ r + 1 <= Len(s) + 1 /\ r <= Len(s) + 1
  BY <1>1
<1>7. Spread(new) = Painted(Spread(runs), Start(runs.lengths, r)..(Start(runs.lengths, m) - 1), v)
  <2>1. r \in 1..(Len(runs.lengths) + 1) /\ m \in 1..(Len(runs.lengths) + 1)
    BY <1>3
  <2>2. IsRepainted(new, runs, r, m, v)
    OBVIOUS
  <2> HIDE DEF m, s
  <2> QED BY <2>1, <2>2, PaintedRuns
<1>8. Start(s, r) \in Nat /\ Start(s, r + 1) \in Nat /\ Start(s, Len(s) + 1) = n
  BY <1>1, <1>3, Starts
<1>9. Start(s, r) <= n /\ Start(s, r + 1) <= n
  BY <1>1, <1>3, <1>8, StartsGrow
<1> QED BY <1>7, <1>8, <1>9 DEF RunShows

\* The places of a layer's cells.
LEMMA LayerPositions ==
  ASSUME TextInv
  PROVE  DOMAIN Cells = 1..Len(plain) + 1 /\ Styled!Positions = 0..Len(plain)
<1>1. Len(plain) \in Nat
  BY LayerSeen DEF TextInv
<1>2. DOMAIN Cells = 1..Len(plain) + 1
  BY CellsShown DEF CellsFrom
<1>3. {k - 1 : k \in 1..Len(plain) + 1} = 0..Len(plain)
  <2>1. ASSUME NEW p \in 0..Len(plain) PROVE \E k \in 1..Len(plain) + 1 : p = k - 1
    <3>1. p + 1 \in 1..Len(plain) + 1 /\ p = (p + 1) - 1
      BY <1>1
    <3> QED BY <3>1
  <2>2. \A k \in 1..Len(plain) + 1 : k - 1 \in 0..Len(plain)
    BY <1>1
  <2> QED BY <2>1, <2>2
<1> QED BY <1>2, <1>3 DEF Styled!Positions

\* A call after which every place shows the same.
LEMMA NothingShows ==
  ASSUME TextInv, TextInv', UNCHANGED text,
         FontsAt(Len(plain) + 1, fontSet', Spread(style'))
           = FontsAt(Len(plain) + 1, fontSet, Spread(style)),
         Spread(para') = Spread(para)
  PROVE  Cells' = Cells
<1> DEFINE n == Len(plain) + 1
<1>2. Cells = CellsFrom(n, literal, Spread(style), fontSet, Spread(para))
  BY CellsShown
<1>3. Cells' = CellsFrom(n, literal, Spread(style'), fontSet', Spread(para))
  BY CellsShownThen DEF text
<1>4. \A k \in 1..n : fontSet'[Spread(style')[k]] = fontSet[Spread(style)[k]]
  <2> TAKE k \in 1..n
  <2> DEFINE a == fontSet'
             x == Spread(style')
             b == fontSet
             y == Spread(style)
  <2>1. FontsAt(n, a, x) = FontsAt(n, b, y)
    OBVIOUS
  <2> HIDE DEF a, x, b, y, n
  <2>2. FontsAt(n, a, x)[k] = a[x[k]] /\ FontsAt(n, b, y)[k] = b[y[k]]
    BY DEF FontsAt
  <2>3. a[x[k]] = b[y[k]]
    BY <2>1, <2>2
  <2> QED BY <2>3 DEF a, x, b, y
<1> QED BY <1>2, <1>3, <1>4 DEF CellsFrom

\* add_font shows nowhere.
LEMMA AddFontShows ==
  ASSUME TextInv, TextInv', NEW f \in Fonts, AddFont(f)
  PROVE  Styled!Invisible
<1> DEFINE n == Len(plain) + 1
<1>1. /\ lastCall' = <<"invisible">> /\ fontSet' = Append(fontSet, f)
      /\ UNCHANGED <<text, style, para>>
  BY DEF AddFont
<1>2. fontSet \in Seq(Fonts) /\ Len(fontSet) \in Nat
  BY LayerStyled
<1>3. \A i \in 1..Len(fontSet) : fontSet'[i] = fontSet[i]
  BY <1>1, <1>2
<1>4. \A k \in 1..n : Spread(style)[k] \in 1..Len(fontSet)
  BY LayerSpread
<1>5. FontsAt(n, fontSet', Spread(style')) = FontsAt(n, fontSet, Spread(style))
  <2>1. style' = style
    BY <1>1
  <2>2. \A k \in 1..n : fontSet'[Spread(style)[k]] = fontSet[Spread(style)[k]]
    BY <1>3, <1>4
  <2> QED BY <2>1, <2>2 DEF FontsAt
<1>6. Cells' = Cells
  BY <1>1, <1>5, NothingShows
<1> QED BY <1>1, <1>6 DEF Styled!Invisible

\* Neither does splitting a style run.
LEMMA SplitStyleRunShows ==
  ASSUME TextInv, TextInv', NEW r \in DOMAIN style.lengths, NEW offset \in 1..style.lengths[r],
         SplitStyleRun(r, offset)
  PROVE  Styled!Invisible
<1>1. /\ lastCall' = <<"invisible">> /\ style' = SplitRun(style, r, offset)
      /\ UNCHANGED <<text, para, fontSet>>
  BY DEF SplitStyleRun
<1> DEFINE n == Len(plain) + 1
           V == 1..Len(fontSet)
<1>2. n \in Nat /\ IsRuns(style, n, V)
  BY LayerStyled
<1>3. r \in 1..Len(style.lengths)
  <2>1. style.lengths \in Seq(Nat)
    BY <1>2 DEF IsRuns
  <2> QED BY <2>1
<1> HIDE DEF n, V
<1>4. Spread(style') = Spread(style)
  BY <1>1, <1>2, <1>3, SplitKeepsSpread
<1>5. Cells' = Cells
  BY <1>1, <1>4, NothingShows
<1> QED BY <1>1, <1>5 DEF Styled!Invisible

\* Nor splitting a paragraph run.
LEMMA SplitParagraphRunShows ==
  ASSUME TextInv, TextInv', NEW r \in DOMAIN para.lengths, NEW offset \in 1..para.lengths[r],
         SplitParagraphRun(r, offset)
  PROVE  Styled!Invisible
<1>1. /\ lastCall' = <<"invisible">> /\ para' = SplitRun(para, r, offset)
      /\ UNCHANGED <<text, style, fontSet>>
  BY DEF SplitParagraphRun
<1> DEFINE n == Len(plain) + 1
           V == Paras \cup {Absent}
<1>2. n \in Nat /\ IsRuns(para, n, V)
  BY LayerStyled
<1>3. r \in 1..Len(para.lengths)
  <2>1. para.lengths \in Seq(Nat)
    BY <1>2 DEF IsRuns
  <2> QED BY <2>1
<1> HIDE DEF n, V
<1>4. Spread(para') = Spread(para)
  BY <1>1, <1>2, <1>3, SplitKeepsSpread
<1>5. Cells' = Cells
  BY <1>1, <1>4, NothingShows
<1> QED BY <1>1, <1>5 DEF Styled!Invisible

\* set_font gives a font to every place.
LEMMA SetFontShows ==
  ASSUME TextInv, TextInv', NEW f \in Fonts, SetFont(f)
  PROVE  Styled!SetFont(f)
<1> DEFINE n == Len(plain) + 1
           i == IndexIn(f)
<1>1. /\ lastCall' = <<"set_font", f>> /\ fontSet' = FontSetWith(f)
      /\ style' = [style EXCEPT !.values = [r \in DOMAIN @ |-> i]]
      /\ UNCHANGED <<text, para>>
  BY DEF SetFont
<1>2. n \in Nat /\ IsRuns(style, n, 1..Len(fontSet)) /\ fontSet \in Seq(Fonts)
  BY LayerStyled
<1>3. fontSet'[i] = f
  BY <1>1, <1>2, FontIsListed
<1>4. IsRuns(style', n, 1..Len(fontSet'))
  <2>1. plain' = plain
    BY <1>1 DEF text
  <2>2. IsRuns(style', Len(plain') + 1, 1..Len(fontSet'))
    BY DEF TextInv, RunsFit
  <2> QED BY <2>1, <2>2
<1>5. style'.lengths = style.lengths /\ style'.values = [r \in DOMAIN style.values |-> i]
  <2>1. style = [lengths |-> style.lengths, values |-> style.values]
    BY <1>2 DEF IsRuns
  <2> HIDE DEF i
  <2> QED BY <1>1, <2>1
<1>6. ASSUME NEW k \in 1..n PROVE Spread(style')[k] = i
  <2> DEFINE p == k - 1
             new == style'
             V == 1..Len(fontSet')
  <2>1. p \in Nat /\ p < n /\ p + 1 = k
    BY <1>2
  <2>2. IsRuns(new, n, V)
    BY <1>4
  <2>3. new.values = [r \in DOMAIN style.values |-> i] /\ Len(new.values) = Len(new.lengths)
        /\ DOMAIN new.values = 1..Len(new.values)
    BY <1>4, <1>5 DEF IsRuns
  <2> HIDE DEF p, new, V, n, i
  <2>4. IsShown(new, p)
    BY <1>2, <2>1, <2>2, ShownBy
  <2>5. PICK r \in 1..Len(new.lengths) : Spread(new)[p + 1] = new.values[r]
    BY <2>4 DEF IsShown
  <2>6. new.values[r] = i
    BY <2>3
  <2> QED BY <2>1, <2>5, <2>6 DEF new
<1>7. Styled!Positions = 0..Len(plain)
  BY LayerPositions
<1>8. \A k \in 1..n : k - 1 \in 0..Len(plain)
  BY <1>2
<1>9. DiffersAt(FontsAt(n, fontSet', Spread(style')), FontsAt(n, fontSet, Spread(style)), n,
                Styled!Positions, f)
  <2>1. \A k \in 1..n : fontSet'[Spread(style')[k]] = f
    BY <1>3, <1>6
  <2> QED BY <1>7, <1>8, <2>1 DEF DiffersAt, FontsAt
<1>10. Styled!SetOver(Styled!Positions, "font", f)
  BY <1>1, <1>9, LayerFontsPainted
<1> QED BY <1>1, <1>10 DEF Styled!SetFont

\* set_font_postscript_name changes cells that had the old name.
LEMMA RenameShows ==
  ASSUME TextInv, TextInv', NEW f \in Fonts, NEW i \in DOMAIN fontSet, SetFontPostscriptName(i, f)
  PROVE  \E old \in Fonts : Styled!Rename(old, f)
<1> DEFINE n == Len(plain) + 1
           sp == Spread(style)
           old == fontSet[i]
           P == {p \in Styled!Positions : sp[p + 1] = i}
<1>1. /\ lastCall' = <<"rename", old, f>> /\ fontSet' = [fontSet EXCEPT ![i] = f]
      /\ UNCHANGED <<text, style, para>>
  BY DEF SetFontPostscriptName
<1>2. n \in Nat /\ fontSet \in Seq(Fonts) /\ old \in Fonts
  BY LayerStyled
<1>3. \A k \in 1..n : sp[k] \in 1..Len(fontSet)
  BY LayerSpread
<1>4. Styled!Positions = 0..Len(plain) /\ DOMAIN Cells = 1..n
  BY LayerPositions
<1>5. \A k \in 1..n : k - 1 \in P <=> sp[k] = i
  <2>1. \A k \in 1..n : k - 1 \in 0..Len(plain) /\ (k - 1) + 1 = k
    BY <1>2
  <2> QED BY <1>4, <2>1
<1>6. \A j \in 1..Len(fontSet) : fontSet'[j] = IF j = i THEN f ELSE fontSet[j]
  <2>1. DOMAIN fontSet = 1..Len(fontSet)
    BY <1>2
  <2> QED BY <1>1, <2>1
<1>7. DiffersAt(FontsAt(n, fontSet', Spread(style')), FontsAt(n, fontSet, sp), n, P, f)
  <2>1. style' = style
    BY <1>1
  <2>2. \A k \in 1..n : fontSet'[sp[k]] = IF k - 1 \in P THEN f ELSE fontSet[sp[k]]
    <3> HIDE DEF P, sp
    <3> QED BY <1>3, <1>5, <1>6
  <2> HIDE DEF P
  <2> QED BY <2>1, <2>2 DEF DiffersAt, FontsAt
<1>8. Styled!SetOver(P, "font", f)
  <2> HIDE DEF P
  <2> QED BY <1>1, <1>7, LayerFontsPainted
<1>9. ASSUME NEW p \in P PROVE p \in Styled!Positions /\ Cells[p + 1].font = old
  <2>1. p \in 0..Len(plain) /\ sp[p + 1] = i
    BY <1>4
  <2>2. p + 1 \in 1..n
    BY <1>2, <2>1
  <2>3. Cells[p + 1] = [unit |-> literal[p + 1], font |-> fontSet[sp[p + 1]],
                        para |-> Spread(para)[p + 1]]
    BY <2>2, CellsShown DEF CellsFrom
  <2> QED BY <1>4, <2>1, <2>3
<1>10. P \in SUBSET {p \in Styled!Positions : Cells[p + 1].font = old}
  <2> HIDE DEF P
  <2> QED BY <1>9
<1> HIDE DEF P, old
<1>11. Styled!Rename(old, f)
  BY <1>1, <1>8, <1>10 DEF Styled!Rename
<1> QED BY <1>2, <1>11

\* A style run has another font.
LEMMA RunFontShows ==
  ASSUME TextInv, TextInv', UNCHANGED <<text, para>>, Len(plain') <= MaxText,
         NEW r \in 1..Len(style.lengths), NEW j, NEW f,
         style' = [style EXCEPT !.values[r] = j], fontSet'[j] = f,
         \A i \in 1..Len(fontSet) : fontSet'[i] = fontSet[i],
         lastCall' = <<"set_run", Start(style.lengths, r), Start(style.lengths, r + 1)>>
  PROVE  \E start, end \in 0..MaxText + 1 : Styled!SetRun(start, end, "font", f)
<1> DEFINE n == Len(plain) + 1
           a == Start(style.lengths, r)
           b == Start(style.lengths, r + 1)
           sp == Spread(style)
<1>1. n \in Nat /\ IsRuns(style, n, 1..Len(fontSet))
  BY LayerStyled
<1>2. IsRuns(style', n, 1..Len(fontSet'))
  <2>1. plain' = plain
    BY DEF text
  <2>2. IsRuns(style', Len(plain') + 1, 1..Len(fontSet'))
    BY DEF TextInv, RunsFit
  <2> QED BY <2>1, <2>2
<1>3. a \in 0..n /\ b \in 0..n /\ Spread(style') = Painted(sp, a..(b - 1), j)
  <2> DEFINE new == style'
             V == 1..Len(fontSet)
             W == 1..Len(fontSet')
  <2>1. IsRepainted(new, style, r, r + 1, j)
    BY <1>1, RunChanged
  <2>2. IsRuns(style, n, V) /\ IsRuns(new, n, W)
    BY <1>1, <1>2
  <2> HIDE DEF n, new, V, W
  <2>3. RunShows(new, style, r, n, j)
    BY <1>1, <2>1, <2>2, RunPainted
  <2> QED BY <2>3 DEF RunShows, new
<1>4. DOMAIN sp = 1..n /\ \A k \in 1..n : sp[k] \in 1..Len(fontSet)
  BY LayerSpread
<1> DEFINE P == Styled!Positions \cap a..(b - 1)
<1>5. \A p \in 0..n - 1 : p \in a..(b - 1) <=> p \in P
  <2>1. Styled!Positions = 0..n - 1
    BY <1>1, LayerPositions
  <2> QED BY <2>1
<1>6. DiffersAt(FontsAt(n, fontSet', Spread(style')), FontsAt(n, fontSet, sp), n, P, f)
  <2> DEFINE list == fontSet'
             Q == a..(b - 1)
             new == FontsAt(n, list, Painted(sp, Q, j))
             old == FontsAt(n, fontSet, sp)
             m == Len(fontSet)
  <2>1. \A i \in 1..m : list[i] = fontSet[i]
    OBVIOUS
  <2>2. list[j] = f
    OBVIOUS
  <2>3. DiffersAt(new, old, n, Q, f)
    <3> HIDE DEF n, sp, list, Q, m
    <3>1. \A k \in 1..n : k - 1 \in Q => list[j] = f
      BY <2>2
    <3>2. DOMAIN sp = 1..n /\ \A k \in 1..n : sp[k] \in 1..m
      BY <1>4 DEF m
    <3> QED BY <1>1, <2>1, <3>1, <3>2, PaintedFonts
  <2> HIDE DEF n, new, old, Q, P
  <2>4. \A p \in 0..n - 1 : p \in Q <=> p \in P
    BY <1>5 DEF Q
  <2>5. DiffersAt(new, old, n, P, f)
    BY <1>1, <2>3, <2>4, DiffersWithin
  <2> QED BY <1>3, <2>5 DEF new, old, Q
<1>7. Styled!SetOver(P, "font", f)
  <2> HIDE DEF P
  <2> QED BY <1>6, LayerFontsPainted
<1>8. a \in 0..MaxText + 1 /\ b \in 0..MaxText + 1
  <2>1. n <= MaxText + 1 /\ MaxText \in Nat
    <3>1. plain' = plain
      BY DEF text
    <3>2. MaxText \in Nat
      BY TextLayerAssumption
    <3>3. Len(plain) <= MaxText /\ Len(plain) \in Nat
      BY <3>1, LayerSeen DEF TextInv
    <3> QED BY <3>2, <3>3
  <2> HIDE DEF n
  <2> QED BY <1>1, <1>3, <2>1
<1>9. Styled!SetRun(a, b, "font", f)
  BY <1>7 DEF Styled!SetRun
<1> HIDE DEF a, b
<1> QED BY <1>8, <1>9

\* set_style_run_font.
LEMMA SetStyleRunFontShows ==
  ASSUME TextInv, TextInv', Within', NEW r \in DOMAIN style.lengths, NEW i \in DOMAIN fontSet,
         SetStyleRunFont(r, i)
  PROVE  \E f \in Fonts : \E start, end \in 0..MaxText + 1 : Styled!SetRun(start, end, "font", f)
<1>1. /\ style' = [style EXCEPT !.values[r] = i] /\ UNCHANGED <<text, para, fontSet>>
      /\ lastCall' = <<"set_run", Start(style.lengths, r), Start(style.lengths, r + 1)>>
  BY DEF SetStyleRunFont
<1>2. r \in 1..Len(style.lengths)
  <2>1. style.lengths \in Seq(Nat)
    BY LayerStyled DEF IsRuns
  <2> QED BY <2>1
<1> DEFINE f == fontSet[i]
<1>3. fontSet'[i] = f /\ \A k \in 1..Len(fontSet) : fontSet'[k] = fontSet[k]
  BY <1>1
<1>4. f \in Fonts
  BY LayerStyled
<1>5. Len(plain') <= MaxText
  BY DEF Within
<1> HIDE DEF f
<1>6. \E start, end \in 0..MaxText + 1 : Styled!SetRun(start, end, "font", f)
  BY <1>1, <1>2, <1>3, <1>5, RunFontShows
<1> QED BY <1>4, <1>6

\* set_style_run_font by the name of a font.
LEMMA SetStyleRunFontByNameShows ==
  ASSUME TextInv, TextInv', Within', NEW r \in DOMAIN style.lengths, NEW f \in Fonts,
         SetStyleRunFontByName(r, f)
  PROVE  \E start, end \in 0..MaxText + 1 : Styled!SetRun(start, end, "font", f)
<1>1. /\ style' = [style EXCEPT !.values[r] = IndexIn(f)] /\ UNCHANGED <<text, para>>
      /\ fontSet' = FontSetWith(f)
      /\ lastCall' = <<"set_run", Start(style.lengths, r), Start(style.lengths, r + 1)>>
  BY DEF SetStyleRunFontByName
<1>2. r \in 1..Len(style.lengths)
  <2>1. style.lengths \in Seq(Nat)
    BY LayerStyled DEF IsRuns
  <2> QED BY <2>1
<1> DEFINE i == IndexIn(f)
<1>3. fontSet'[i] = f /\ \A k \in 1..Len(fontSet) : fontSet'[k] = fontSet[k]
  <2>1. fontSet \in Seq(Fonts)
    BY LayerStyled
  <2> QED BY <1>1, <2>1, FontIsListed
<1>4. style' = [style EXCEPT !.values[r] = i]
  BY <1>1
<1>5. Len(plain') <= MaxText
  BY DEF Within
<1> HIDE DEF i
<1> QED BY <1>1, <1>2, <1>3, <1>4, <1>5, RunFontShows

\* set_justification of a paragraph run.
LEMMA SetParagraphRunShows ==
  ASSUME TextInv, TextInv', Within', NEW r \in DOMAIN para.lengths, NEW v \in Paras,
         SetParagraphRunJustification(r, v)
  PROVE  \E start, end \in 0..MaxText + 1 : Styled!SetRun(start, end, "para", v)
<1> DEFINE n == Len(plain) + 1
           a == Start(para.lengths, r)
           b == Start(para.lengths, r + 1)
           pa == Spread(para)
           V == Paras \cup {Absent}
<1>1. /\ para' = [para EXCEPT !.values[r] = v] /\ UNCHANGED <<text, style, fontSet>>
      /\ lastCall' = <<"set_run", a, b>>
  BY DEF SetParagraphRunJustification
<1>2. n \in Nat /\ IsRuns(para, n, V)
  BY LayerStyled
<1>3. r \in 1..Len(para.lengths)
  <2>1. para.lengths \in Seq(Nat)
    BY <1>2 DEF IsRuns
  <2> QED BY <2>1
<1>4. IsRuns(para', n, V)
  <2>1. plain' = plain
    BY <1>1 DEF text
  <2>2. IsRuns(para', Len(plain') + 1, V)
    BY DEF TextInv, RunsFit
  <2> QED BY <2>1, <2>2
<1>5. a \in 0..n /\ b \in 0..n /\ Spread(para') = Painted(pa, a..(b - 1), v)
  <2> DEFINE new == para'
  <2> HIDE DEF n, V
  <2>1. IsRepainted(new, para, r, r + 1, v)
    BY <1>1, <1>2, <1>3, RunChanged
  <2>2. IsRuns(new, n, V)
    BY <1>4
  <2> HIDE DEF new
  <2>3. RunShows(new, para, r, n, v)
    BY <1>2, <1>3, <2>1, <2>2, RunPainted
  <2> QED BY <2>3 DEF RunShows, new
<1>6. DOMAIN pa = 1..n
  BY LayerSpread
<1> DEFINE P == Styled!Positions \cap a..(b - 1)
<1>7. \A p \in 0..n - 1 : p \in a..(b - 1) <=> p \in P
  <2>1. Styled!Positions = 0..n - 1
    BY <1>2, LayerPositions
  <2> QED BY <2>1
<1>8. DiffersAt(Spread(para'), pa, n, P, v)
  <2> DEFINE new == Painted(pa, a..(b - 1), v)
             Q == a..(b - 1)
  <2> HIDE DEF n, pa, Q, P
  <2>1. DiffersAt(Painted(pa, Q, v), pa, n, Q, v)
    BY <1>2, <1>6, PaintedDiffers
  <2>2. DiffersAt(new, pa, n, Q, v)
    BY <2>1 DEF Q
  <2> HIDE DEF new
  <2>4. \A p \in 0..n - 1 : p \in Q <=> p \in P
    BY <1>7 DEF Q
  <2>5. DiffersAt(new, pa, n, P, v)
    BY <1>2, <2>2, <2>4, DiffersWithin
  <2> QED BY <1>5, <2>5 DEF new
<1>9. Styled!SetOver(P, "para", v)
  <2> HIDE DEF P
  <2> QED BY <1>1, <1>8, LayerParasPainted
<1>10. a \in 0..MaxText + 1 /\ b \in 0..MaxText + 1
  <2>1. n <= MaxText + 1 /\ MaxText \in Nat
    <3>1. plain' = plain
      BY <1>1 DEF text
    <3>2. MaxText \in Nat
      BY TextLayerAssumption
    <3>3. Len(plain) <= MaxText /\ Len(plain) \in Nat
      BY <3>1, LayerSeen DEF TextInv, Within
    <3> QED BY <3>2, <3>3
  <2> HIDE DEF n
  <2> QED BY <1>2, <1>5, <2>1
<1>11. Styled!SetRun(a, b, "para", v)
  BY <1>1, <1>9 DEF Styled!SetRun
<1> HIDE DEF a, b
<1> QED BY <1>10, <1>11

-----------------------------------------------------------------------------
(* What is found are the matches.                                          *)

\* Places found by a search that has passed over every match before its next start.
HasPassed(s, txt, needle) ==
  /\ \A i \in 1..Len(s) : SpellsAt(txt, needle, s[i])
  /\ \A o \in Nat : SpellsAt(txt, needle, o) /\ o < SearchFrom(s, needle) =>
       \E i \in 1..Len(s) : s[i] <= o /\ o < s[i] + Len(needle)

\* One more search passes over every match before the next.
LEMMA OneMoreSearch ==
  ASSUME NEW txt, NEW needle, Len(txt) \in Nat, Len(needle) \in Nat, Len(needle) # 0,
         NEW s, InOrder(s, Len(needle), Len(txt)), HasPassed(s, txt, needle),
         NEW n \in Nat, LaterPlaces(s, txt, needle) = {} \/ SearchFrom(s, needle) >= n,
         NEW t, t = SearchStep(s, txt, needle)
  PROVE  /\ HasPassed(t, txt, needle)
         /\ LaterPlaces(t, txt, needle) = {} \/ SearchFrom(t, needle) >= n + 1
<1>1. CASE LaterPlaces(s, txt, needle) = {}
  BY <1>1 DEF SearchStep
<1>2. CASE LaterPlaces(s, txt, needle) # {}
  <2> DEFINE L == LaterPlaces(s, txt, needle)
             p == Min(L)
             k == Len(needle)
             from == SearchFrom(s, needle)
  <2>0. s \in Seq(Nat) /\ Len(s) \in Nat
    BY DEF InOrder
  <2>1. from \in Nat
    <3>1. CASE s = <<>>
      BY <3>1 DEF SearchFrom
    <3>2. CASE s # <<>>
      <4>1. Len(s) \in 1..Len(s)
        BY <2>0, <3>2
      <4> QED BY <2>0, <3>2, <4>1 DEF SearchFrom
    <3> QED BY <3>1, <3>2
  <2>2. L \subseteq Nat /\ L # {}
    BY <1>2, <2>1 DEF LaterPlaces
  <2>3. p \in L /\ \A y \in L : p <= y
    BY <2>2, MinIs
  <2>4. p \in Nat /\ from <= p /\ SpellsAt(txt, needle, p) /\ p + k <= Len(txt)
    BY <2>1, <2>3 DEF LaterPlaces
  <2>5. t = Append(s, p)
    BY <1>2 DEF SearchStep
  <2>6. \A o \in Nat : SpellsAt(txt, needle, o) /\ from <= o => p <= o \/ o + k > Len(txt)
    <3> SUFFICES ASSUME NEW o \in Nat, SpellsAt(txt, needle, o), from <= o, o + k <= Len(txt)
                 PROVE  p <= o
      BY <2>4
    <3>1. o \in L
      BY <2>1 DEF LaterPlaces
    <3> QED BY <2>3, <3>1
  <2> HIDE DEF p, L
  <2>7. Len(t) = Len(s) + 1 /\ t[Len(s) + 1] = p /\ t # <<>>
        /\ \A i \in 1..Len(s) : t[i] = s[i]
    BY <2>0, <2>4, <2>5
  <2>8. SearchFrom(t, needle) = p + k
    BY <2>0, <2>7 DEF SearchFrom
  <2>9. ASSUME NEW i \in 1..Len(t) PROVE SpellsAt(txt, needle, t[i])
    <3>1. CASE i = Len(s) + 1
      BY <2>4, <2>7, <3>1
    <3>2. CASE i # Len(s) + 1
      <4>1. i \in 1..Len(s)
        BY <2>0, <2>7, <3>2
      <4> QED BY <2>7, <4>1 DEF HasPassed
    <3> QED BY <3>1, <3>2
  <2>10. ASSUME NEW o \in Nat, SpellsAt(txt, needle, o), o < p + k
         PROVE  \E i \in 1..Len(t) : t[i] <= o /\ o < t[i] + k
    <3>1. CASE o < from
      <4>1. PICK i \in 1..Len(s) : s[i] <= o /\ o < s[i] + k
        BY <2>10, <3>1 DEF HasPassed
      <4>2. i \in 1..Len(t) /\ t[i] = s[i]
        BY <2>0, <2>7
      <4> QED BY <4>1, <4>2
    <3>2. CASE from <= o
      <4>1. p <= o
        BY <2>4, <2>6, <2>10, <3>2
      <4>2. Len(s) + 1 \in 1..Len(t)
        BY <2>0, <2>7
      <4> QED BY <2>7, <2>10, <4>1, <4>2
    <3> QED BY <2>1, <3>1, <3>2
  <2>11. HasPassed(t, txt, needle)
    BY <2>8, <2>9, <2>10 DEF HasPassed
  <2>12. SearchFrom(t, needle) >= n + 1
    <3>1. from >= n
      BY <1>2
    <3> HIDE DEF from
    <3> QED BY <2>1, <2>4, <2>8, <3>1
  <2> QED BY <2>11, <2>12
<1> QED BY <1>1, <1>2

\* The search passes over every match.
LEMMA AllArePassed ==
  ASSUME NEW txt, NEW needle, Len(txt) \in Nat, Len(needle) \in Nat, Len(needle) # 0
  PROVE  /\ HasPassed(FindAll(txt, needle), txt, needle)
         /\ LaterPlaces(FindAll(txt, needle), txt, needle) = {}
<1>1. PICK f : IsSearch(f, txt, needle)
  BY Searched
<1> DEFINE N == Len(txt)
           G(n) == HasPassed(f[n], txt, needle) /\
                   (LaterPlaces(f[n], txt, needle) = {} \/ SearchFrom(f[n], needle) >= n)
           T == {n \in Nat : n <= N => G(n)}
<1>2. 0 \in T
  <2>1. f[0] = <<>>
    BY <1>1 DEF IsSearch
  <2>2. HasPassed(<<>>, txt, needle) /\ SearchFrom(<<>>, needle) = 0
    BY DEF HasPassed, SearchFrom
  <2> QED BY <2>1, <2>2
<1>3. ASSUME NEW n \in Nat, n \in T PROVE n + 1 \in T
  <2> SUFFICES ASSUME n + 1 <= N PROVE G(n + 1)
    OBVIOUS
  <2>1. n <= N /\ n + 1 \in 1..N /\ (n + 1) - 1 = n /\ n \in 0..N
    OBVIOUS
  <2>2. f[n + 1] = SearchStep(f[n], txt, needle) /\ InOrder(f[n], Len(needle), N)
    BY <1>1, <2>1 DEF IsSearch
  <2>3. G(n)
    BY <1>3, <2>1
  <2> DEFINE s == f[n]
             t == f[n + 1]
  <2>4. InOrder(s, Len(needle), Len(txt)) /\ HasPassed(s, txt, needle)
        /\ (LaterPlaces(s, txt, needle) = {} \/ SearchFrom(s, needle) >= n)
        /\ t = SearchStep(s, txt, needle)
    BY <2>2, <2>3
  <2> HIDE DEF s, t
  <2>5. HasPassed(t, txt, needle) /\ (LaterPlaces(t, txt, needle) = {} \/ SearchFrom(t, needle) >= n + 1)
    BY <2>4, OneMoreSearch
  <2> QED BY <2>5 DEF s, t
<1> HIDE DEF T
<1>4. N \in T
  BY <1>2, <1>3, SetInduction
<1>5. G(N) /\ FindAll(txt, needle) = f[N]
  <2>1. N \in Nat /\ N <= N
    OBVIOUS
  <2> QED BY <1>1, <1>4, <2>1 DEF T, IsSearch
<1>6. SearchFrom(f[N], needle) >= N => LaterPlaces(f[N], txt, needle) = {}
  <2> SUFFICES ASSUME SearchFrom(f[N], needle) >= N, NEW p \in LaterPlaces(f[N], txt, needle) PROVE FALSE
    OBVIOUS
  <2> DEFINE from == SearchFrom(f[N], needle)
  <2>1. p \in from..N - Len(needle)
    BY DEF LaterPlaces
  <2> HIDE DEF from
  <2>2. from >= N
    BY DEF from
  <2>3. from \in Nat
    <3>1. N \in 0..N
      OBVIOUS
    <3>2. InOrder(f[N], Len(needle), N)
      BY <1>1, <3>1 DEF IsSearch
    <3> DEFINE s == f[N]
    <3>3. s \in Seq(Nat)
      BY <3>2 DEF InOrder
    <3> HIDE DEF s
    <3>4. s # <<>> => s[Len(s)] \in Nat
      BY <3>3
    <3> QED BY <3>4 DEF from, SearchFrom, s
  <2> QED BY <2>1, <2>2, <2>3
<1> QED BY <1>5, <1>6

-----------------------------------------------------------------------------
(* The matches of a needle are determined.                                 *)

\* A set of occurrences that do not overlap and that every occurrence overlaps.
AreMatches(M, O, k) ==
  /\ M \subseteq O
  /\ \A p, q \in M : p < q => p + k <= q
  /\ \A o \in O : \E p \in M : p <= o /\ o < p + k

\* Occurrences that belong to one such set belong to every other.
LEMMA MatchesAreUnique ==
  ASSUME NEW O, O \subseteq Nat, NEW k \in Nat, NEW M, AreMatches(M, O, k),
         NEW L, AreMatches(L, O, k)
  PROVE  M = L
<1> DEFINE D == (M \ L) \cup (L \ M)
<1>1. M \subseteq Nat /\ L \subseteq Nat
  BY DEF AreMatches
<1>2. ASSUME D # {} PROVE FALSE
  <2>1. PICK p \in D : \A q \in D : p <= q
    <3>1. D \subseteq Nat
      BY <1>1
    <3> HIDE DEF D
    <3> QED BY <1>2, <3>1, LeastMember
  <2>2. p \in O /\ p \in Nat
    BY <1>1 DEF AreMatches
  <2>3. CASE p \in M
    <3>1. PICK q \in L : q <= p /\ p < q + k
      BY <2>2 DEF AreMatches
    <3>2. q # p /\ q \in Nat
      BY <1>1, <2>1, <2>3
    <3>3. q < p
      BY <2>2, <3>1, <3>2
    <3>4. q \notin D
      BY <2>1, <2>2, <3>2, <3>3
    <3>5. q \in M
      BY <3>4
    <3> QED BY <2>2, <2>3, <3>1, <3>2, <3>3, <3>5 DEF AreMatches
  <2>4. CASE p \in L
    <3>1. PICK q \in M : q <= p /\ p < q + k
      BY <2>2 DEF AreMatches
    <3>2. q # p /\ q \in Nat
      BY <1>1, <2>1, <2>4
    <3>3. q < p
      BY <2>2, <3>1, <3>2
    <3>4. q \notin D
      BY <2>1, <2>2, <3>2, <3>3
    <3>5. q \in L
      BY <3>4
    <3> QED BY <2>2, <2>4, <3>1, <3>2, <3>3, <3>5 DEF AreMatches
  <2> QED BY <2>1, <2>3, <2>4
<1> QED BY <1>2

\* Of two places the later one is behind the earlier.
LEMMA PlacesFar ==
  ASSUME NEW s, NEW k \in Nat, NEW units, InOrder(s, k, units)
  PROVE  \A i, j \in 1..Len(s) : i < j => s[i] + k <= s[j]
<1> DEFINE T == {d \in Nat : \A i \in 1..Len(s) :
                    i + (d + 1) <= Len(s) => s[i] + k <= s[i + (d + 1)]}
<1>1. s \in Seq(Nat) /\ Len(s) \in Nat /\ DOMAIN s = 1..Len(s)
  BY DEF InOrder
<1>2. 0 \in T
  <2> SUFFICES ASSUME NEW i \in 1..Len(s), i + (0 + 1) <= Len(s) PROVE s[i] + k <= s[i + (0 + 1)]
    OBVIOUS
  <2>1. i \in 1..Len(s) - 1 /\ i + (0 + 1) = i + 1
    BY <1>1
  <2> QED BY <2>1 DEF InOrder
<1>3. ASSUME NEW d \in Nat, d \in T PROVE d + 1 \in T
  <2> SUFFICES ASSUME NEW i \in 1..Len(s), i + ((d + 1) + 1) <= Len(s)
               PROVE  s[i] + k <= s[i + ((d + 1) + 1)]
    OBVIOUS
  <2> DEFINE j == i + (d + 1)
  <2>1. j \in 1..Len(s) - 1 /\ j + 1 = i + ((d + 1) + 1) /\ j \in 1..Len(s) /\ j + 1 \in 1..Len(s)
    BY <1>1
  <2>2. s[i] + k <= s[j]
    BY <1>3, <2>1
  <2> HIDE DEF j
  <2> DEFINE a == s[i]
             b == s[j]
             c == s[j + 1]
  <2>3. b + k <= c
    BY <2>1 DEF InOrder
  <2>4. a \in Nat /\ b \in Nat /\ c \in Nat
    BY <1>1, <2>1
  <2>5. a + k <= b
    BY <2>2
  <2> HIDE DEF a, b, c
  <2>6. a + k <= c
    BY <2>3, <2>4, <2>5
  <2> QED BY <2>1, <2>6 DEF a, c
<1> HIDE DEF T
<1>4. Nat \subseteq T
  BY <1>2, <1>3, SetInduction
<1> SUFFICES ASSUME NEW i \in 1..Len(s), NEW j \in 1..Len(s), i < j PROVE s[i] + k <= s[j]
  OBVIOUS
<1>5. j - i - 1 \in Nat /\ i + ((j - i - 1) + 1) = j /\ j <= Len(s)
  BY <1>1
<1> QED BY <1>4, <1>5 DEF T

\* The places that are found are such a set.
LEMMA FoundAreMatches ==
  ASSUME NEW txt, NEW needle, Len(txt) \in Nat, Len(needle) \in Nat, Len(needle) # 0
  PROVE  AreMatches(Range(FindAll(txt, needle)), Styled!Occurrences(txt, needle), Len(needle))
<1> DEFINE s == FindAll(txt, needle)
           k == Len(needle)
           O == Styled!Occurrences(txt, needle)
<1>1. InOrder(s, k, Len(txt)) /\ HasPassed(s, txt, needle) /\ LaterPlaces(s, txt, needle) = {}
  BY FoundInOrder, AllArePassed
<1>2. \A p : p \in O <=> p \in Nat /\ p + k <= Len(txt) /\ SpellsAt(txt, needle, p)
  BY SMTT(20) DEF Styled!Occurrences, SpellsAt
<1> HIDE DEF s, O
<1>3. s \in Seq(Nat) /\ Len(s) \in Nat /\ DOMAIN s = 1..Len(s)
  BY <1>1 DEF InOrder
<1>4. \A p : p \in Range(s) <=> \E i \in 1..Len(s) : p = s[i]
  BY <1>3 DEF Range
<1>5. ASSUME NEW i \in 1..Len(s) PROVE s[i] \in O
  <2>1. s[i] \in Nat
    BY <1>3
  <2>2. s[i] + k <= Len(txt)
    BY <1>1 DEF InOrder
  <2>3. SpellsAt(txt, needle, s[i])
    BY <1>1 DEF HasPassed
  <2> DEFINE p == s[i]
  <2> HIDE DEF p
  <2>4. p \in Nat /\ p + k <= Len(txt) /\ SpellsAt(txt, needle, p)
    BY <2>1, <2>2, <2>3 DEF p
  <2>5. p \in O
    BY <1>2, <2>4
  <2> QED BY <2>5 DEF p
<1>6. Range(s) \subseteq O
  BY <1>4, <1>5
<1>7. \A i, j \in 1..Len(s) : i < j => s[i] + k <= s[j]
  BY <1>1, PlacesFar
<1>8. ASSUME NEW p \in Range(s), NEW q \in Range(s), p < q PROVE p + k <= q
  <2>1. PICK i \in 1..Len(s) : p = s[i]
    BY <1>4
  <2>2. PICK j \in 1..Len(s) : q = s[j]
    BY <1>4
  <2>3. p \in Nat /\ q \in Nat
    BY <1>3, <2>1, <2>2
  <2>4. CASE i < j
    BY <1>7, <2>1, <2>2, <2>4
  <2>5. CASE j < i
    <3>1. q + k <= p
      BY <1>7, <2>1, <2>2, <2>5
    <3> QED BY <1>8, <2>3, <3>1
  <2>6. CASE i = j
    BY <1>8, <2>1, <2>2, <2>3, <2>6
  <2> QED BY <1>3, <2>4, <2>5, <2>6
<1>9. ASSUME NEW o \in O PROVE \E p \in Range(s) : p <= o /\ o < p + k
  <2>1. o \in Nat /\ SpellsAt(txt, needle, o) /\ o + k <= Len(txt)
    BY <1>2
  <2>2. o < SearchFrom(s, needle)
    <3> SUFFICES ASSUME ~(o < SearchFrom(s, needle)) PROVE FALSE
      OBVIOUS
    <3>1. SearchFrom(s, needle) \in Nat
      <4>1. s # <<>> => s[Len(s)] \in Nat
        BY <1>3
      <4> QED BY <4>1 DEF SearchFrom
    <3>2. o \in LaterPlaces(s, txt, needle)
      BY <2>1, <3>1 DEF LaterPlaces
    <3> QED BY <1>1, <3>2
  <2>3. PICK i \in 1..Len(s) : s[i] <= o /\ o < s[i] + k
    BY <1>1, <2>1, <2>2 DEF HasPassed
  <2> QED BY <1>4, <2>3
<1>10. AreMatches(Range(s), O, k)
  BY <1>6, <1>8, <1>9 DEF AreMatches
<1> QED BY <1>10 DEF s, O

\* The abstract text matches a needle where it is found.
LEMMA MatchesAreFound ==
  ASSUME NEW txt, NEW needle, Len(txt) \in Nat, Len(needle) \in Nat, Len(needle) # 0
  PROVE  Styled!Matches(txt, needle) = Range(FindAll(txt, needle))
<1> DEFINE O == Styled!Occurrences(txt, needle)
           k == Len(needle)
           F == Range(FindAll(txt, needle))
           Q(M) == /\ \A p, q \in M : p < q => p + Len(needle) <= q
                   /\ \A o \in O : \E p \in M : p <= o /\ o < p + Len(needle)
           C == CHOOSE M \in SUBSET O : Q(M)
<1>1. Styled!Matches(txt, needle) = C
  BY DEF Styled!Matches
<1>2. AreMatches(F, O, k)
  BY FoundAreMatches
<1>3. O \subseteq Nat /\ k \in Nat
  BY DEF Styled!Occurrences
<1> HIDE DEF O, F
<1>4. F \in SUBSET O /\ Q(F)
  BY <1>2 DEF AreMatches
<1>5. C \in SUBSET O /\ Q(C)
  <2> HIDE DEF Q
  <2> QED BY <1>4
<1> HIDE DEF C
<1>6. AreMatches(C, O, k)
  BY <1>5 DEF AreMatches
<1> HIDE DEF k
<1>7. C = F
  BY <1>2, <1>3, <1>6, MatchesAreUnique
<1> QED BY <1>1, <1>7 DEF F

\* Matches are known to be in order and are occurrences.
LEMMA FoundPlaces ==
  ASSUME NEW txt, NEW needle, Len(txt) \in Nat, Len(needle) \in Nat, Len(needle) # 0,
         NEW s, s = FindAll(txt, needle)
  PROVE  /\ s \in Seq(Nat) /\ Len(s) \in Nat /\ DOMAIN s = 1..Len(s)
         /\ \A i \in 1..Len(s) : s[i] \in Nat /\ s[i] + Len(needle) <= Len(txt)
         /\ \A i, j \in 1..Len(s) : i < j => s[i] + Len(needle) <= s[j]
<1> DEFINE k == Len(needle)
<1>1. InOrder(s, k, Len(txt)) /\ k \in Nat
  BY FoundInOrder
<1>2. s \in Seq(Nat) /\ \A i \in 1..Len(s) : s[i] + k <= Len(txt)
  BY <1>1 DEF InOrder
<1> DEFINE units == Len(txt)
<1> HIDE DEF k, units
<1>3. \A i, j \in 1..Len(s) : i < j => s[i] + k <= s[j]
  <2>1. InOrder(s, k, units)
    BY <1>1 DEF units
  <2> QED BY <1>1, <2>1, PlacesFar
<1>4. Len(s) \in Nat /\ DOMAIN s = 1..Len(s) /\ \A i \in 1..Len(s) : s[i] \in Nat
  BY <1>2
<1> QED BY <1>2, <1>3, <1>4 DEF k

-----------------------------------------------------------------------------
(* Proxies.                                                                *)

\* Places one behind the other.
AreRising(s) ==
  /\ s \in Seq(Nat)
  /\ \A i, j \in 1..Len(s) : i < j => s[i] < s[j]

\* The first i of them.
FirstOf(s, i) == {s[j] : j \in 1..i}

\* So many they are.
LEMMA FirstCounted ==
  ASSUME NEW s, AreRising(s), NEW i \in Nat, i <= Len(s)
  PROVE  IsFiniteSet(FirstOf(s, i)) /\ Cardinality(FirstOf(s, i)) = i
<1> DEFINE T == {n \in Nat : n <= Len(s) =>
                   IsFiniteSet(FirstOf(s, n)) /\ Cardinality(FirstOf(s, n)) = n}
<1>0. s \in Seq(Nat) /\ Len(s) \in Nat /\ \A j \in 1..Len(s) : s[j] \in Nat
  BY DEF AreRising
<1>1. 0 \in T
  <2>1. FirstOf(s, 0) = {}
    BY DEF FirstOf
  <2> QED BY <2>1, FS_EmptySet
<1>2. ASSUME NEW n \in Nat, n \in T PROVE n + 1 \in T
  <2> SUFFICES ASSUME n + 1 <= Len(s)
               PROVE  IsFiniteSet(FirstOf(s, n + 1)) /\ Cardinality(FirstOf(s, n + 1)) = n + 1
    OBVIOUS
  <2> DEFINE S == FirstOf(s, n)
             x == s[n + 1]
  <2>1. n <= Len(s) /\ n + 1 \in 1..Len(s)
    BY <1>0
  <2>2. IsFiniteSet(S) /\ Cardinality(S) = n
    BY <1>2, <2>1
  <2>3. x \notin S
    <3> SUFFICES ASSUME NEW j \in 1..n, s[j] = s[n + 1] PROVE FALSE
      BY DEF FirstOf
    <3>1. j \in 1..Len(s) /\ j < n + 1
      BY <2>1
    <3>2. s[j] < s[n + 1]
      BY <2>1, <3>1 DEF AreRising
    <3> QED BY <1>0, <2>1, <3>1, <3>2
  <2>4. FirstOf(s, n + 1) = S \cup {x}
    <3>1. 1..n + 1 = 1..n \cup {n + 1}
      OBVIOUS
    <3> QED BY <3>1 DEF FirstOf
  <2> HIDE DEF S, x
  <2>5. IsFiniteSet(S \cup {x}) /\ Cardinality(S \cup {x}) = Cardinality(S) + 1
    BY <2>2, <2>3, FS_AddElement
  <2> QED BY <2>2, <2>4, <2>5
<1> HIDE DEF T
<1>3. Nat \subseteq T
  BY <1>1, <1>2, SetInduction
<1> QED BY <1>3 DEF T

\* Places up to the i-th one.
LEMMA FirstAre ==
  ASSUME NEW s, AreRising(s), NEW i \in 1..Len(s)
  PROVE  {x \in Range(s) : x <= s[i]} = FirstOf(s, i)
<1>0. s \in Seq(Nat) /\ Len(s) \in Nat /\ DOMAIN s = 1..Len(s)
      /\ \A j \in 1..Len(s) : s[j] \in Nat
  BY DEF AreRising
<1>1. \A x : x \in Range(s) <=> \E j \in 1..Len(s) : x = s[j]
  BY <1>0 DEF Range
<1>2. ASSUME NEW x \in Range(s), x <= s[i] PROVE x \in FirstOf(s, i)
  <2>1. PICK j \in 1..Len(s) : x = s[j]
    BY <1>1
  <2>2. ~(i < j)
    <3> SUFFICES ASSUME i < j PROVE FALSE
      OBVIOUS
    <3>1. s[i] < s[j]
      BY DEF AreRising
    <3>2. s[i] \in Nat /\ s[j] \in Nat /\ s[j] <= s[i]
      BY <1>0, <1>2, <2>1
    <3> HIDE <1>2
    <3> QED BY <3>1, <3>2
  <2>3. j \in 1..i
    BY <1>0, <2>2
  <2> QED BY <2>1, <2>3 DEF FirstOf
<1>3. ASSUME NEW x \in FirstOf(s, i) PROVE x \in Range(s) /\ x <= s[i]
  <2>1. PICK j \in 1..i : x = s[j]
    BY DEF FirstOf
  <2>2. j \in 1..Len(s) /\ (j < i \/ j = i)
    BY <1>0
  <2>3. s[j] <= s[i]
    <3>1. CASE j = i
      BY <1>0, <3>1
    <3>2. CASE j < i
      <4>1. s[j] < s[i]
        BY <2>2, <3>2 DEF AreRising
      <4>2. s[j] \in Nat /\ s[i] \in Nat
        BY <1>0, <2>2
      <4> QED BY <4>1, <4>2
    <3> QED BY <2>2, <3>1, <3>2
  <2> QED BY <1>1, <2>1, <2>2, <2>3
<1> QED BY <1>2, <1>3

\* The abstract text counts as the layer does.
LEMMA CountedAlike == \A S : Styled!Cardinality(S) = Cardinality(S)
BY DEF Styled!Cardinality, Cardinality

\* The ranges of n units at rising places.
LEMMA RangesAre ==
  ASSUME NEW s, AreRising(s), NEW n
  PROVE  Styled!Ranges(Range(s), n) = [i \in 1..Len(s) |-> <<s[i], s[i] + n>>]
<1> DEFINE S == Range(s)
           rank(q) == Styled!Cardinality({x \in S : x <= q})
<1>0. s \in Seq(Nat) /\ Len(s) \in Nat /\ DOMAIN s = 1..Len(s)
      /\ \A j \in 1..Len(s) : s[j] \in Nat
  BY DEF AreRising
<1>1. \A x : x \in S <=> \E j \in 1..Len(s) : x = s[j]
  BY <1>0 DEF Range
<1>2. Styled!Cardinality(S) = Len(s)
  <2>1. S = FirstOf(s, Len(s))
    BY <1>1 DEF FirstOf
  <2> QED BY <1>0, <2>1, FirstCounted, CountedAlike
<1>3. \A j \in 1..Len(s) : rank(s[j]) = j
  <2> TAKE j \in 1..Len(s)
  <2>1. {x \in S : x <= s[j]} = FirstOf(s, j)
    BY FirstAre
  <2>2. j \in Nat /\ j <= Len(s)
    BY <1>0
  <2>3. Cardinality(FirstOf(s, j)) = j
    BY <2>2, FirstCounted
  <2> QED BY <2>1, <2>3, CountedAlike
<1> HIDE DEF S, rank
<1>4. ASSUME NEW i \in 1..Len(s) PROVE (CHOOSE q \in S : rank(q) = i) = s[i]
  <2>1. s[i] \in S /\ rank(s[i]) = i
    BY <1>1, <1>3
  <2>2. ASSUME NEW q \in S, rank(q) = i PROVE q = s[i]
    <3>1. PICK j \in 1..Len(s) : q = s[j]
      BY <1>1
    <3>2. rank(q) = j
      BY <1>3, <3>1
    <3> QED BY <2>2, <3>1, <3>2
  <2> QED BY <2>1, <2>2
<1> DEFINE c(i) == CHOOSE q \in S : rank(q) = i
<1>5. Styled!Ranges(S, n) = [i \in 1..Styled!Cardinality(S) |-> <<c(i), c(i) + n>>]
  BY DEF Styled!Ranges, rank
<1>6. \A i \in 1..Len(s) : c(i) = s[i]
  BY <1>4
<1> HIDE DEF c
<1>7. Styled!Ranges(S, n) = [i \in 1..Len(s) |-> <<s[i], s[i] + n>>]
  BY <1>2, <1>5, <1>6
<1> QED BY <1>7 DEF S

\* One range is in order, and so are ranges at places one behind the other.
LEMMA OrderedRanges ==
  /\ AreOrdered(<<>>)
  /\ \A x \in Nat \X Nat : AreOrdered(<<x>>)
<1>1. AreOrdered(<<>>)
  <2>1. <<>> \in Seq(Nat \X Nat) /\ Len(<<>>) = 0
    OBVIOUS
  <2> QED BY <2>1 DEF AreOrdered
<1>2. ASSUME NEW x \in Nat \X Nat PROVE AreOrdered(<<x>>)
  <2> DEFINE s == <<x>>
  <2>1. s \in Seq(Nat \X Nat) /\ Len(s) = 1
    OBVIOUS
  <2> HIDE DEF s
  <2>2. \A i, j \in 1..Len(s) : ~(i < j)
    BY <2>1
  <2> QED BY <2>1, <2>2 DEF AreOrdered, s
<1> QED BY <1>1, <1>2

\* The ranges of a client's search are those of the abstract text.
LEMMA SearchedRanges ==
  ASSUME NEW seen \in Texts, NEW needle \in Needles, NEW all, NEW m,
         m = FindAll(seen, needle), all = [i \in 1..Len(m) |-> <<m[i], m[i] + Len(needle)>>]
  PROVE  /\ all = Styled!Ranges(Styled!Matches(seen, needle), Len(needle))
         /\ AreOrdered(all) /\ Len(all) \in Nat /\ DOMAIN all = 1..Len(all)
         /\ \A i \in 1..Len(all) : all[i] \in Nat \X Nat
<1> DEFINE k == Len(needle)
<1>1. Len(seen) \in Nat /\ k \in Nat /\ k # 0
  <2>1. Len(seen) \in Nat /\ needle \in Seq(Written) /\ Len(needle) \in Nat
    BY ClientTexts
  <2>2. needle # <<>>
    BY TextLayerAssumption
  <2> QED BY <2>1, <2>2
<1>2. Styled!Matches(seen, needle) = Range(m)
  BY <1>1, MatchesAreFound
<1>3. /\ m \in Seq(Nat) /\ Len(m) \in Nat
      /\ \A i \in 1..Len(m) : m[i] \in Nat
      /\ \A i, j \in 1..Len(m) : i < j => m[i] + k <= m[j]
  BY <1>1, FoundPlaces
<1>4. AreRising(m)
  <2>1. ASSUME NEW i \in 1..Len(m), NEW j \in 1..Len(m), i < j PROVE m[i] < m[j]
    <3>1. m[i] + k <= m[j] /\ m[i] \in Nat /\ m[j] \in Nat
      BY <1>3, <2>1
    <3> QED BY <1>1, <3>1
  <2> QED BY <1>3, <2>1 DEF AreRising
<1> HIDE DEF k
<1>5. Styled!Ranges(Range(m), k) = [i \in 1..Len(m) |-> <<m[i], m[i] + k>>]
  BY <1>4, RangesAre
<1>6. all = [i \in 1..Len(m) |-> <<m[i], m[i] + k>>]
  BY DEF k
<1>7. \A i \in 1..Len(m) : all[i][1] = m[i] /\ all[i][2] = m[i] + k /\ all[i] \in Nat \X Nat
  BY <1>1, <1>3, <1>6
<1>8. all \in Seq(Nat \X Nat) /\ Len(all) = Len(m) /\ DOMAIN all = 1..Len(m)
  BY <1>3, <1>6, <1>7, SMTT(20)
<1>9. AreOrdered(all)
  <2>1. \A i, j \in 1..Len(all) : i < j => all[i][2] <= all[j][1]
    BY <1>3, <1>7, <1>8
  <2> QED BY <1>8, <2>1 DEF AreOrdered
<1> QED BY <1>2, <1>3, <1>5, <1>6, <1>7, <1>8, <1>9 DEF k

\* A proxy has ranges in order and is one of the abstract text.
LEMMA ProxyShows ==
  ASSUME NEW proxy \in Proxies
  PROVE  proxy \in Styled!Proxies /\ AreOrdered(proxy)
<1>1. CASE proxy \in {<<span>> : span \in Spans}
  <2>1. PICK span \in Spans : proxy = <<span>>
    BY <1>1
  <2>2. span \in Nat \X Nat
    BY TextLayerAssumption
  <2> QED BY <2>1, <2>2, OrderedRanges DEF Styled!Proxies
<1>2. CASE proxy \in {<<<<0, Len(seen) + 1>>>> : seen \in Texts}
  <2>1. PICK seen \in Texts : proxy = <<<<0, Len(seen) + 1>>>>
    BY <1>2
  <2>2. Len(seen) \in Nat
    BY ClientTexts
  <2>3. <<0, Len(seen) + 1>> \in Nat \X Nat
    BY <2>2
  <2> QED BY <2>1, <2>3, OrderedRanges DEF Styled!Proxies
<1>3. CASE proxy \in {FindTextRanges(seen, needle, occurrence) :
                        seen \in Texts, needle \in Needles, occurrence \in 0..2}
  <2>1. PICK seen \in Texts, needle \in Needles, occurrence \in 0..2 :
             proxy = FindTextRanges(seen, needle, occurrence)
    BY <1>3
  <2> DEFINE m == FindAll(seen, needle)
             all == [i \in 1..Len(m) |-> <<m[i], m[i] + Len(needle)>>]
             abs == Styled!Ranges(Styled!Matches(seen, needle), Len(needle))
             of(x, y) == Styled!Ranges(Styled!Matches(x, y), Len(y))
             h(x, y) == {<<>>, of(x, y)} \cup {<<of(x, y)[i]>> : i \in DOMAIN of(x, y)}
             here == {<<>>, abs} \cup {<<abs[i]>> : i \in DOMAIN abs}
  <2>2. \/ proxy = all
        \/ occurrence \in DOMAIN all /\ proxy = <<all[occurrence]>>
        \/ proxy = <<>>
    BY <2>1 DEF FindTextRanges
  <2>3. here \subseteq Styled!Proxies
    <3>1. UNION {h(x, y) : x \in Texts, y \in Needles} \subseteq Styled!Proxies
      BY DEF Styled!Proxies
    <3>2. here = h(seen, needle)
      OBVIOUS
    <3> HIDE DEF h, here
    <3> QED BY <3>1, <3>2
  <2> HIDE DEF m
  <2>4. /\ all = abs /\ AreOrdered(all) /\ DOMAIN all = 1..Len(all)
        /\ \A i \in 1..Len(all) : all[i] \in Nat \X Nat
    BY SearchedRanges DEF m
  <2> HIDE DEF all, abs
  <2>5. proxy \in here
    BY <2>2, <2>4
  <2>6. AreOrdered(proxy)
    BY <2>2, <2>4, OrderedRanges
  <2> QED BY <2>3, <2>5, <2>6
<1> QED BY <1>1, <1>2, <1>3 DEF Proxies

\* The cells of n units are a sequence.
LEMMA CellsAreSeq ==
  ASSUME NEW n \in Nat, NEW units, NEW styles, NEW fonts, NEW paras,
         NEW c, c = CellsFrom(n, units, styles, fonts, paras)
  PROVE  c \in Seq(Range(c)) /\ Len(c) = n /\ DOMAIN c = 1..n
<1> DEFINE e(k) == [unit |-> units[k], font |-> fonts[styles[k]], para |-> paras[k]]
<1>1. c = [k \in 1..n |-> e(k)]
  BY DEF CellsFrom
<1> HIDE DEF e
<1>2. DOMAIN c = 1..n
  BY <1>1
<1>3. \A k \in 1..n : c[k] \in Range(c)
  BY <1>2 DEF Range
<1>4. c = [k \in 1..n |-> c[k]]
  BY <1>1, <1>2
<1> DEFINE V == Range(c)
<1> HIDE DEF V
<1>5. c \in Seq(V)
  BY <1>3, <1>4 DEF V
<1> QED BY <1>2, <1>5 DEF V

\* So are those of a layer.
LEMMA LayerCells ==
  ASSUME TextInv, NEW n, n = Len(plain) + 1
  PROVE  Cells \in Seq(Range(Cells)) /\ Len(Cells) = n /\ DOMAIN Cells = 1..n
<1>1. n \in Nat
  BY LayerSpread
<1>2. Cells = CellsFrom(n, literal, Spread(style), fontSet, Spread(para))
  BY CellsShown
<1> QED BY <1>1, <1>2, CellsAreSeq

\* The places of a proxy in the text are the covered ones.
LEMMA CoveredPlaces ==
  ASSUME TextInv, NEW proxy, proxy \in Seq(Nat \X Nat), NEW n, n = Len(plain) + 1
  PROVE  \A p \in 0..n - 1 : p \in Over(proxy, Len(proxy)) <=> p \in Styled!Covered(proxy)
<1>1. n \in Nat /\ Styled!Positions = 0..n - 1
  BY LayerPositions, LayerSpread
<1>2. DOMAIN proxy = 1..Len(proxy)
  OBVIOUS
<1> DEFINE within(p) == \E i \in 1..Len(proxy) : proxy[i][1] <= p /\ p < proxy[i][2]
<1>3. Styled!Covered(proxy) = {p \in Styled!Positions : within(p)}
  BY <1>2 DEF Styled!Covered
<1>4. Over(proxy, Len(proxy)) = {p \in Nat : within(p)}
  BY DEF Over
<1>5. \A p \in 0..n - 1 : p \in Nat
  BY <1>1
<1> HIDE DEF within
<1> QED BY <1>1, <1>3, <1>4, <1>5

\* set_font of a CharacterStyleRange styles what the proxy covers.
LEMMA StyleRangeShows ==
  ASSUME TextInv, TextInv', NEW proxy \in Proxies, NEW f \in Fonts, StyleRangeSetFont(proxy, f)
  PROVE  Styled!Style(proxy, f)
<1> DEFINE n == Len(plain) + 1
           V == 1..Len(fontSet)
           i == IndexIn(f)
           m == Len(proxy)
           done == ApplyStyle(style, proxy, i, {})
           sp == Spread(style)
           P == Over(proxy, m)
<1>1. /\ lastCall' = <<"style", proxy, f>> /\ style' = done.runs
      /\ fontSet' = IF done.called THEN FontSetWith(f) ELSE fontSet
      /\ UNCHANGED <<text, para>>
  BY DEF StyleRangeSetFont
<1>2. n \in Nat /\ IsRuns(style, n, V) /\ fontSet \in Seq(Fonts)
  BY LayerStyled
<1>3. AreOrdered(proxy) /\ proxy \in Seq(Nat \X Nat)
  BY ProxyShows DEF AreOrdered
<1>4. DOMAIN sp = 1..n /\ \A k \in 1..n : sp[k] \in 1..Len(fontSet)
  BY LayerSpread
<1>5. \A p \in 0..n - 1 : p \in P <=> p \in Styled!Covered(proxy)
  BY <1>3, CoveredPlaces
<1>6. Spread(done.runs) = Painted(sp, P, i) /\ (done.called \/ \A p \in 0..n - 1 : p \notin P)
  <2> HIDE DEF n, V, i
  <2>1. ShowsSoFar(done, style, proxy, m, i, n)
    BY <1>2, <1>3, StyledShows
  <2>2. done.threw = FALSE
    BY <1>2, <1>3, NothingThrows
  <2> HIDE DEF done
  <2> QED BY <2>1, <2>2 DEF ShowsSoFar
<1>7. \A k \in 1..Len(fontSet) : fontSet'[k] = fontSet[k]
  BY <1>1, <1>2, FontIsListed
<1>8. \A k \in 1..n : k - 1 \in P => fontSet'[i] = f
  <2> SUFFICES ASSUME NEW k \in 1..n, k - 1 \in P PROVE fontSet'[i] = f
    OBVIOUS
  <2>1. k - 1 \in 0..n - 1
    BY <1>2
  <2>2. done.called
    <3> HIDE DEF P, done, n
    <3> QED BY <1>6, <2>1
  <2> QED BY <1>1, <1>2, <2>2, FontIsListed
<1> DEFINE list == fontSet'
           C == Styled!Covered(proxy)
           old == FontsAt(n, fontSet, sp)
           new == FontsAt(n, list, Painted(sp, P, i))
<1>9. DiffersAt(new, old, n, P, f)
  <2> DEFINE q == Len(fontSet)
  <2>1. \A k \in 1..q : list[k] = fontSet[k]
    BY <1>7
  <2>2. \A k \in 1..n : k - 1 \in P => list[i] = f
    BY <1>8
  <2>3. DOMAIN sp = 1..n /\ \A k \in 1..n : sp[k] \in 1..q
    BY <1>4
  <2> HIDE DEF n, sp, list, P, i, q
  <2> QED BY <1>2, <2>1, <2>2, <2>3, PaintedFonts
<1>10. DiffersAt(new, old, n, C, f)
  <2> HIDE DEF n, new, old, P, C
  <2>1. \A p \in 0..n - 1 : p \in P <=> p \in C
    BY <1>5 DEF C
  <2> QED BY <1>2, <1>9, <2>1, DiffersWithin
<1>11. Styled!SetOver(C, "font", f)
  <2>1. DiffersAt(FontsAt(n, fontSet', Spread(style')), FontsAt(n, fontSet, sp), n, C, f)
    <3> HIDE DEF C
    <3> QED BY <1>1, <1>6, <1>10
  <2> HIDE DEF C
  <2> QED BY <1>1, <2>1, LayerFontsPainted
<1> QED BY <1>1, <1>11 DEF Styled!Style

\* set_justification of a ParagraphStyleRange gives the property to what the
\* proxy covers, or to the front part of it before it throws.
LEMMA ParagraphRangeShows ==
  ASSUME TextInv, TextInv', NEW proxy \in Proxies, NEW v \in Paras,
         ParagraphRangeSetJustification(proxy, v)
  PROVE  Styled!Paragraph(proxy, v) \/ Styled!ParagraphThrew(proxy, v)
<1> DEFINE n == Len(plain) + 1
           V == Paras \cup {Absent}
           m == Len(proxy)
           done == ApplyStyle(para, proxy, v, {Absent})
           pa == Spread(para)
           P == Over(proxy, m)
           C == Styled!Covered(proxy)
<1>1. /\ lastCall' = <<IF done.threw THEN "paragraph_threw" ELSE "paragraph", proxy, v>>
      /\ para' = done.runs
      /\ UNCHANGED <<text, style, fontSet>>
  BY DEF ParagraphRangeSetJustification
<1>2. n \in Nat /\ IsRuns(para, n, V)
  BY LayerStyled
<1>3. AreOrdered(proxy) /\ proxy \in Seq(Nat \X Nat)
  BY ProxyShows DEF AreOrdered
<1>4. DOMAIN pa = 1..n
  BY LayerSpread
<1>5. \A p \in 0..n - 1 : p \in P <=> p \in C
  BY <1>3, CoveredPlaces
<1>6. ShowsSoFar(done, para, proxy, m, v, n)
  <2> DEFINE refused == {Absent}
  <2> HIDE DEF n, V, refused
  <2>1. ShowsSoFar(ApplyStyle(para, proxy, v, refused), para, proxy, Len(proxy), v, n)
    BY <1>2, <1>3, StyledShows
  <2> QED BY <2>1 DEF refused
<1>7. ASSUME NEW Q, NEW R, Spread(done.runs) = Painted(pa, Q, v),
             \A p \in 0..n - 1 : p \in Q <=> p \in R
      PROVE  Styled!SetOver(R, "para", v)
  <2> DEFINE new == Painted(pa, Q, v)
  <2>1. DiffersAt(new, pa, n, R, v)
    <3> HIDE DEF n, pa, new
    <3>1. DiffersAt(Painted(pa, Q, v), pa, n, Q, v)
      BY <1>2, <1>4, PaintedDiffers
    <3>2. DiffersAt(new, pa, n, Q, v)
      BY <3>1 DEF new
    <3> QED BY <1>2, <1>7, <3>2, DiffersWithin
  <2>2. DiffersAt(Spread(para'), pa, n, R, v)
    <3> HIDE DEF pa, done
    <3> QED BY <1>1, <1>7, <2>1
  <2> QED BY <1>1, <2>2, LayerParasPainted
<1>8. CASE ~done.threw
  <2>1. Spread(done.runs) = Painted(pa, P, v)
    <3> HIDE DEF done
    <3> QED BY <1>6, <1>8 DEF ShowsSoFar
  <2>2. Styled!SetOver(C, "para", v)
    <3> HIDE DEF done, pa, P, C, n
    <3> QED BY <1>5, <1>7, <2>1
  <2> QED BY <1>1, <1>8, <2>2 DEF Styled!Paragraph
<1>9. CASE done.threw
  <2>1. PICK e : StopsAt(done, para, proxy, m, v, e)
    <3> HIDE DEF done
    <3> QED BY <1>6, <1>9 DEF ShowsSoFar
  <2>2. e \in Nat /\ Spread(done.runs) = Painted(pa, P \cap 0..(e - 1), v)
    BY <2>1 DEF StopsAt
  <2> DEFINE reached == IF e <= n THEN e ELSE n
             Q == P \cap 0..(e - 1)
             R == C \cap 0..(reached - 1)
  <2>3. reached \in 0..n
    BY <1>2, <2>2
  <2>4. \A p \in 0..n - 1 : p \in Q <=> p \in R
    <3> HIDE DEF P, C, n
    <3> QED BY <1>2, <1>5, <2>2
  <2>5. Styled!SetOver(R, "para", v)
    <3> HIDE DEF done, pa, Q, R, n
    <3> QED BY <1>7, <2>2, <2>4 DEF Q
  <2>6. Len(Cells) = n
    BY LayerCells
  <2>7. lastCall' = <<"paragraph_threw", proxy, v>>
    BY <1>1, <1>9
  <2> HIDE DEF n, reached, C
  <2>8. \E x \in 0..Len(Cells) : Styled!SetOver(C \cap 0..(x - 1), "para", v)
    BY <2>3, <2>5, <2>6
  <2> QED BY <2>7, <2>8 DEF C, Styled!ParagraphThrew
<1> QED BY <1>8, <1>9

-----------------------------------------------------------------------------
(* Edits of the text.                                                      *)

\* The cell c with another unit.
WithUnit(c, u) == [unit |-> u, font |-> c.font, para |-> c.para]

\* A cell keeps its styles.
LEMMA UnitChanged ==
  ASSUME NEW u, NEW f, NEW v, NEW x, NEW c, c = [unit |-> u, font |-> f, para |-> v]
  PROVE  /\ [c EXCEPT !.unit = x] = WithUnit(c, x)
         /\ x = u => WithUnit(c, x) = c
BY DEF WithUnit

\* An edit takes the styles of the places p to the places q.
LEMMA EditRestyles ==
  ASSUME TextInv, TextInv', NEW new, NEW R, IsEdit(R, Len(plain)),
         Len(plain') = Len(plain) + Delta(R, Len(R)), ApplyTextMutation(new, R),
         NEW p, NEW q, Straddles(R, Len(plain), p, q)
  PROVE  q \in 0..Len(plain') /\ Cells'[q + 1] = WithUnit(Cells[p + 1], literal'[q + 1])
<1> DEFINE n == Len(plain)
           P == Paras \cup {Absent}
           Q == 1..Len(fontSet)
           m == n + Delta(R, Len(R))
<1>1. /\ IsRuns(style, n + 1, Q) /\ IsRuns(para, n + 1, P) /\ n \in Nat
  BY LayerSeen DEF TextInv, RunsFit
<1>2. /\ fontSet' = fontSet
      /\ style' = [style EXCEPT !.lengths = RemapRunLengths(@, n, R)]
      /\ para' = [para EXCEPT !.lengths = RemapRunLengths(@, n, R)]
  BY TextBrought
<1>3. IsRuns(style', m + 1, Q) /\ IsRuns(para', m + 1, P)
  <2>1. IsRuns(style', Len(plain') + 1, 1..Len(fontSet')) /\ IsRuns(para', Len(plain') + 1, P)
    BY DEF TextInv, RunsFit
  <2> QED BY <1>2, <2>1
<1>4. ASSUME NEW runs, NEW k, NEW V, IsRuns(runs, k, V), NEW then,
             then = [runs EXCEPT !.lengths = RemapRunLengths(@, n, R)]
      PROVE  then.lengths = RemapRunLengths(runs.lengths, n, R) /\ then.values = runs.values
  <2>1. runs = [lengths |-> runs.lengths, values |-> runs.values]
    BY <1>4 DEF IsRuns
  <2> DEFINE t == RemapRunLengths(runs.lengths, n, R)
  <2>2. then = [runs EXCEPT !.lengths = t]
    BY <1>4
  <2> HIDE DEF t
  <2>3. then.lengths = t /\ then.values = runs.values
    BY <2>1, <2>2
  <2> QED BY <2>3 DEF t
<1>5. style'.lengths = RemapRunLengths(style.lengths, n, R) /\ style'.values = style.values
  <2> DEFINE s == style'
  <2>1. s = [style EXCEPT !.lengths = RemapRunLengths(@, n, R)]
    BY <1>2
  <2> HIDE DEF s, n, Q
  <2>2. s.lengths = RemapRunLengths(style.lengths, n, R) /\ s.values = style.values
    BY <1>1, <1>4, <2>1
  <2> QED BY <2>2 DEF s
<1>6. para'.lengths = RemapRunLengths(para.lengths, n, R) /\ para'.values = para.values
  <2> DEFINE s == para'
  <2>1. s = [para EXCEPT !.lengths = RemapRunLengths(@, n, R)]
    BY <1>2
  <2> HIDE DEF s, n, P
  <2>2. s.lengths = RemapRunLengths(para.lengths, n, R) /\ s.values = para.values
    BY <1>1, <1>4, <2>1
  <2> QED BY <2>2 DEF s
<1>7. q \in 0..m /\ Spread(style')[q + 1] = Spread(style)[p + 1]
  <2> DEFINE s == style'
  <2>1. s.lengths = RemapRunLengths(style.lengths, n, R) /\ s.values = style.values
        /\ IsRuns(s, n + Delta(R, Len(R)) + 1, Q) /\ IsEdit(R, n) /\ Straddles(R, n, p, q)
    BY <1>3, <1>5
  <2> HIDE DEF s, n, Q
  <2>2. q \in 0..n + Delta(R, Len(R)) /\ Spread(s)[q + 1] = Spread(style)[p + 1]
    BY <1>1, <2>1, RemappedShows
  <2> QED BY <2>2 DEF s
<1>8. Spread(para')[q + 1] = Spread(para)[p + 1]
  <2> DEFINE s == para'
  <2>1. s.lengths = RemapRunLengths(para.lengths, n, R) /\ s.values = para.values
        /\ IsRuns(s, n + Delta(R, Len(R)) + 1, P) /\ IsEdit(R, n) /\ Straddles(R, n, p, q)
    BY <1>3, <1>6
  <2> HIDE DEF s, n, P
  <2>2. Spread(s)[q + 1] = Spread(para)[p + 1]
    BY <1>1, <2>1, RemappedShows
  <2> QED BY <2>2 DEF s
<1>9. q \in 0..Len(plain') /\ q + 1 \in 1..Len(plain') + 1
  <2>1. m = Len(plain') /\ Len(plain') \in Nat
    BY LayerSeen DEF TextInv, TextIsOrdinary
  <2> HIDE DEF m
  <2> QED BY <1>7, <2>1
<1>10. p + 1 \in 1..n + 1
  BY <1>1 DEF Straddles
<1>11. Cells[p + 1] = [unit |-> literal[p + 1], font |-> fontSet[Spread(style)[p + 1]],
                       para |-> Spread(para)[p + 1]]
  BY <1>10, CellsShown DEF CellsFrom
<1>12. Cells'[q + 1] = [unit |-> literal'[q + 1], font |-> fontSet'[Spread(style')[q + 1]],
                        para |-> Spread(para')[q + 1]]
  BY <1>9, CellsShownThen DEF CellsFrom
<1>13. Cells'[q + 1] = [unit |-> literal'[q + 1], font |-> fontSet[Spread(style)[p + 1]],
                        para |-> Spread(para)[p + 1]]
  BY <1>2, <1>7, <1>8, <1>12
<1> DEFINE f == fontSet[Spread(style)[p + 1]]
           v == Spread(para)[p + 1]
           u == literal[p + 1]
           x == literal'[q + 1]
           c == Cells[p + 1]
           d == Cells'[q + 1]
<1>14. c = [unit |-> u, font |-> f, para |-> v] /\ d = [unit |-> x, font |-> f, para |-> v]
  BY <1>11, <1>13
<1> HIDE DEF f, v, u, x, c, d
<1>15. d = WithUnit(c, x)
  BY <1>14 DEF WithUnit
<1> QED BY <1>9, <1>15 DEF c, d, x

\* A cell is a record, and its unit is the literal's.
LEMMA CellWith ==
  ASSUME TextInv, NEW k, k \in 1..Len(plain) + 1
  PROVE  /\ \A x : [Cells[k] EXCEPT !.unit = x] = WithUnit(Cells[k], x)
         /\ WithUnit(Cells[k], literal[k]) = Cells[k]
<1> DEFINE u == literal[k]
           f == fontSet[Spread(style)[k]]
           v == Spread(para)[k]
           c == Cells[k]
<1>1. c = [unit |-> u, font |-> f, para |-> v]
  BY CellsShown DEF CellsFrom
<1> HIDE DEF u, f, v, c
<1>2. ASSUME NEW x PROVE [c EXCEPT !.unit = x] = WithUnit(c, x)
  BY <1>1, UnitChanged
<1>3. WithUnit(c, u) = c
  BY <1>1, UnitChanged
<1> QED BY <1>2, <1>3 DEF c, u

\* The text that is promised has the cells but the last.
LEMMA BodyIs ==
  ASSUME TextInv, NEW n, n = Len(plain)
  PROVE  /\ Styled!Body \in Seq(Range(Cells)) /\ Len(Styled!Body) = n
         /\ \A k \in 1..n : Styled!Body[k] = Cells[k]
         /\ Styled!Closing = <<Cells[n + 1]>>
<1> DEFINE c == Cells
           T == Range(Cells)
<1>1. n \in Nat
  BY LayerSeen DEF TextInv
<1>2. c \in Seq(T) /\ Len(c) = n + 1
  <2> DEFINE m == n + 1
  <2> HIDE DEF c, T
  <2>1. c \in Seq(T) /\ Len(c) = m
    BY LayerCells DEF c, T
  <2> QED BY <2>1
<1>3. Styled!Body = SubSeq(c, 1, Len(c) - 1) /\ Styled!Closing = <<c[Len(c)]>>
  BY DEF Styled!Body, Styled!Front, Styled!Closing, Styled!Last
<1> HIDE DEF c, T
<1> DEFINE b == Styled!Body
<1>4. b = SubSeq(c, 0 + 1, n)
  <2>1. Len(c) - 1 = n
    BY <1>1, <1>2
  <2> QED BY <1>3, <2>1
<1> HIDE DEF b
<1>5. b \in Seq(T) /\ Len(b) = n - 0 /\ \A t \in 1..n - 0 : b[t] = c[0 + t]
  BY <1>1, <1>2, <1>4, PartOf
<1>6. Len(b) = n /\ \A k \in 1..n : b[k] = c[k]
  BY <1>1, <1>5
<1> QED BY <1>2, <1>3, <1>5, <1>6 DEF b, c, T

\* The lesser of two.
LEMMA LesserIs ==
  ASSUME NEW k \in Nat, NEW n \in Nat
  PROVE  Styled!Min({k, n}) = IF k <= n THEN k ELSE n
<1>1. Styled!Min({k, n}) = CHOOSE x \in {k, n} : \A y \in {k, n} : x =< y
  BY DEF Styled!Min
<1> DEFINE m == IF k <= n THEN k ELSE n
<1>2. m \in {k, n} /\ \A y \in {k, n} : m =< y
  OBVIOUS
<1>3. ASSUME NEW x \in {k, n}, \A y \in {k, n} : x =< y PROVE x = m
  BY <1>3
<1> HIDE DEF m
<1>4. (CHOOSE x \in {k, n} : \A y \in {k, n} : x =< y) = m
  BY <1>2, <1>3
<1> QED BY <1>1, <1>4 DEF m

\* The cell whose styles the k-th new unit takes.
OldOf(k, n) == IF k <= n THEN k ELSE n

\* New units in place of some cells.
LEMMA RestyledIs ==
  ASSUME NEW old, NEW new, Len(old) \in Nat, Len(new) \in Nat, NEW s, s = Styled!Restyled(old, new)
  PROVE  /\ Len(s) = Len(new) /\ DOMAIN s = 1..Len(new) /\ s \in Seq(Range(s))
         /\ \A k \in 1..Len(new) : s[k] = [old[OldOf(k, Len(old))] EXCEPT !.unit = new[k]]
<1> DEFINE g(k) == [old[Styled!Min({k, Len(old)})] EXCEPT !.unit = new[k]]
           m == Len(new)
<1>1. s = [k \in 1..m |-> g(k)]
  BY DEF Styled!Restyled
<1>2. \A k \in 1..m : g(k) = [old[OldOf(k, Len(old))] EXCEPT !.unit = new[k]]
  <2> TAKE k \in 1..m
  <2>1. k \in Nat
    OBVIOUS
  <2>2. Styled!Min({k, Len(old)}) = OldOf(k, Len(old))
    BY <2>1, LesserIs DEF OldOf
  <2> QED BY <2>2
<1> HIDE DEF g, m
<1>3. DOMAIN s = 1..m /\ \A k \in 1..m : s[k] = g(k)
  BY <1>1
<1>4. m \in Nat
  BY DEF m
<1>5. \A k \in 1..m : s[k] \in Range(s)
  BY <1>3 DEF Range
<1>6. s \in Seq(Range(s)) /\ Len(s) = m
  <2> DEFINE T == Range(s)
  <2> HIDE DEF T
  <2>1. s = [k \in 1..m |-> g(k)] /\ \A k \in 1..m : g(k) \in T
    BY <1>1, <1>3, <1>5 DEF T
  <2>2. s \in Seq(T) /\ Len(s) = m
    BY <1>4, <2>1
  <2> QED BY <2>2 DEF T
<1> QED BY <1>2, <1>3, <1>6 DEF m

\* The cells that set_text leaves: those of t have the styles of the cells in
\* their places, and the closing one is as it was.
HasText(d, c, n, t) ==
  /\ Len(d) = Len(t) + 1 /\ DOMAIN d = 1..Len(t) + 1
  /\ \A k \in 1..Len(t) : d[k] = WithUnit(c[OldOf(k, n)], t[k])
  /\ d[Len(t) + 1] = c[n + 1]

\* They are those that are promised.
LEMMA TextIsSet ==
  ASSUME TextInv, NEW t, t \in Seq(Written), NEW n, n = Len(plain), NEW d, HasText(d, Cells, n, t),
         d \in Seq(Range(d))
  PROVE  d = Styled!Restyled(Styled!Body, t) \o Styled!Closing
<1> DEFINE c == Cells
           b == Styled!Body
           s == Styled!Restyled(b, t)
           z == Styled!Closing
           m == Len(t)
<1>1. n \in Nat /\ n # 0 /\ m \in Nat
  BY LayerSeen DEF TextInv
<1>2. Len(b) = n /\ (\A k \in 1..n : b[k] = c[k]) /\ z = <<c[n + 1]>>
  BY BodyIs
<1>3. ASSUME NEW k \in 1..n, NEW x PROVE [c[k] EXCEPT !.unit = x] = WithUnit(c[k], x)
  <2>1. k \in 1..Len(plain) + 1
    BY <1>1
  <2> QED BY <2>1, CellWith
<1>4. /\ Len(d) = m + 1 /\ DOMAIN d = 1..m + 1
      /\ \A k \in 1..m : d[k] = WithUnit(c[OldOf(k, n)], t[k])
      /\ d[m + 1] = c[n + 1]
  BY DEF HasText
<1> HIDE DEF c, z, b
<1>5. /\ Len(s) = m /\ s \in Seq(Range(s))
      /\ \A k \in 1..m : s[k] = [b[OldOf(k, n)] EXCEPT !.unit = t[k]]
  BY <1>1, <1>2, RestyledIs
<1> HIDE DEF s, m
<1>6. \A k \in 1..m : s[k] = d[k]
  <2> TAKE k \in 1..m
  <2> DEFINE i == OldOf(k, n)
  <2>1. i \in 1..n
    BY <1>1 DEF OldOf
  <2> HIDE DEF i
  <2>2. s[k] = [b[i] EXCEPT !.unit = t[k]] /\ d[k] = WithUnit(c[i], t[k])
    BY <1>4, <1>5 DEF i
  <2>3. b[i] = c[i] /\ [c[i] EXCEPT !.unit = t[k]] = WithUnit(c[i], t[k])
    BY <1>2, <1>3, <2>1
  <2> QED BY <2>2, <2>3
<1> DEFINE e == c[n + 1]
           T == Range(s) \cup {e}
<1>7. s \in Seq(T) /\ <<e>> \in Seq(T) /\ z = <<e>> /\ d[m + 1] = e
  BY <1>2, <1>4, <1>5
<1> HIDE DEF e, T
<1> DEFINE w == s \o <<e>>
<1>8. w \in Seq(T) /\ Len(w) = m + 1 /\ (\A k \in 1..m : w[k] = s[k]) /\ w[m + 1] = e
  BY <1>1, <1>5, <1>7
<1> HIDE DEF w
<1>9. ASSUME NEW k \in 1..m + 1 PROVE w[k] = d[k]
  <2>1. k \in 1..m \/ k = m + 1
    BY <1>1
  <2> QED BY <1>6, <1>7, <1>8, <2>1
<1>10. d = w
  BY <1>1, <1>4, <1>8, <1>9
<1> QED BY <1>7, <1>10 DEF w, s, b, z

\* A new text.
LEMMA TextSetAnew ==
  ASSUME TextInv, TextInv', NEW t, t \in Seq(Written), NEW R, IsWhole(R, Len(plain), Len(t)),
         ApplyTextMutation(t, R)
  PROVE  HasText(Cells', Cells, Len(plain), t)
<1> DEFINE n == Len(plain)
           m == Len(t)
           c == Cells
           d == Cells'
<1>1. n \in Nat /\ n # 0 /\ m \in Nat
  BY LayerSeen DEF TextInv
<1>2. plain' = t /\ literal' = t \o <<Return>>
  BY TextBrought
<1>3. IsEdit(R, n) /\ Len(R) = 1 /\ R[1].start = 0 /\ R[1].old = n /\ R[1].new = m
      /\ m = n + Delta(R, Len(R))
  BY <1>1, WholeIsAnEdit
<1>4. Delta(R, 0) = 0 /\ CopyPos(R, 1) = n
  <2>1. Delta(R, 0) = 0
    BY <1>1, <1>3, Deltas
  <2>2. CopyPos(R, 1) = R[1].start + R[1].old
    BY DEF CopyPos, End
  <2> QED BY <1>1, <1>3, <2>1, <2>2
<1>5. (\A k \in 1..m : literal'[k] = t[k]) /\ literal'[m + 1] = Return
  <2> DEFINE l == literal'
             T == Written \cup {Return}
  <2>1. l = t \o <<Return>> /\ t \in Seq(T) /\ <<Return>> \in Seq(T)
    BY <1>2
  <2> HIDE DEF l, T
  <2>2. (\A k \in 1..m : l[k] = t[k]) /\ l[m + 1] = Return
    BY <2>1
  <2> QED BY <2>2 DEF l
<1>6. literal[n + 1] = Return
  <2>1. literal = plain \o <<Return>> /\ plain \in Seq(Letters)
    BY DEF TextInv, TextIsOrdinary
  <2> QED BY <2>1
<1>7. Len(d) = m + 1 /\ DOMAIN d = 1..m + 1
  <2>1. d = CellsFrom(m + 1, literal', Spread(style'), fontSet', Spread(para'))
    BY <1>2, CellsShownThen
  <2> QED BY <1>1, <2>1, CellsAreSeq
<1> HIDE DEF c, d
<1>8. ASSUME NEW p, NEW q, Straddles(R, n, p, q)
      PROVE  d[q + 1] = WithUnit(c[p + 1], literal'[q + 1])
  <2>1. Len(plain') = n + Delta(R, Len(R))
    BY <1>2, <1>3
  <2>2. IsEdit(R, Len(plain)) /\ Straddles(R, Len(plain), p, q)
    BY <1>3, <1>8
  <2> QED BY <2>1, <2>2, EditRestyles DEF c, d
<1>9. ASSUME NEW k \in 1..m PROVE d[k] = WithUnit(c[OldOf(k, n)], t[k])
  <2> DEFINE j == k - 1
  <2>1. j \in Nat /\ j < m /\ j + 1 = k /\ 1 \in 1..Len(R)
    BY <1>1, <1>3
  <2> HIDE DEF j
  <2>2. Straddles(R, n, ReplacedPlace(R[1], j), R[1].start + Delta(R, 1 - 1) + j)
    BY <1>1, <1>3, <2>1, NewStraddles
  <2>3. R[1].start + Delta(R, 1 - 1) + j = j
    BY <1>3, <1>4, <2>1
  <2>4. ReplacedPlace(R[1], j) + 1 = OldOf(k, n)
    BY <1>1, <1>3, <2>1 DEF ReplacedPlace, OldOf
  <2>5. d[j + 1] = WithUnit(c[ReplacedPlace(R[1], j) + 1], literal'[j + 1])
    BY <1>8, <2>2, <2>3
  <2> QED BY <1>5, <2>1, <2>4, <2>5
<1>10. d[m + 1] = c[n + 1]
  <2>1. InGap(R, n, 1, n) /\ KeptPlace(R, n, 1, n)
    BY <1>1, <1>3, <1>4 DEF InGap, KeptPlace
  <2>2. Straddles(R, n, n, n + Delta(R, 1))
    BY <1>1, <1>3, <2>1, KeptStraddles
  <2>3. n + Delta(R, 1) = m
    BY <1>3
  <2>4. d[m + 1] = WithUnit(c[n + 1], Return)
    BY <1>5, <1>8, <2>2, <2>3
  <2>5. n + 1 \in 1..Len(plain) + 1
    BY <1>1
  <2>6. WithUnit(c[n + 1], literal[n + 1]) = c[n + 1]
    BY <2>5, CellWith DEF c
  <2> QED BY <1>6, <2>4, <2>6
<1> QED BY <1>7, <1>9, <1>10 DEF HasText, c, d

\* The text that is there.
LEMMA TextIsThere ==
  ASSUME TextInv
  PROVE  HasText(Cells, Cells, Len(plain), plain)
<1> DEFINE n == Len(plain)
           c == Cells
<1>1. n \in Nat /\ plain \in Seq(Letters) /\ literal = plain \o <<Return>>
  BY LayerSeen DEF TextInv, TextIsOrdinary
<1>2. ASSUME NEW k \in 1..n PROVE c[k] = WithUnit(c[OldOf(k, n)], plain[k])
  <2>1. k \in 1..Len(plain) + 1 /\ OldOf(k, n) = k
    BY <1>1 DEF OldOf
  <2>2. literal[k] = plain[k]
    BY <1>1
  <2> QED BY <2>1, <2>2, CellWith
<1>3. Len(c) = n + 1 /\ DOMAIN c = 1..n + 1
  <2> DEFINE m == n + 1
  <2> HIDE DEF c
  <2>1. Len(c) = m /\ DOMAIN c = 1..m
    BY LayerCells DEF c
  <2> QED BY <2>1
<1> QED BY <1>2, <1>3 DEF HasText

\* set_text.
LEMMA SetTextShows ==
  ASSUME TextInv, TextInv', NEW t \in Texts, SetText(t)
  PROVE  Styled!SetText(t)
<1> DEFINE d == Cells'
<1>1. t \in Seq(Written)
  BY ClientTexts
<1>2. lastCall' = <<"set_text", t>>
  BY DEF SetText
<1>3. HasText(Cells', Cells, Len(plain), t)
  <2>1. CASE t = plain
    <3>1. UNCHANGED <<text, style, para, fontSet>>
      BY <2>1 DEF SetText
    <3>2. Cells' = Cells
      <4>1. plain' = plain /\ literal' = literal /\ style' = style /\ para' = para
            /\ fontSet' = fontSet
        BY <3>1 DEF text
      <4>2. Cells = CellsFrom(Len(plain) + 1, literal, Spread(style), fontSet, Spread(para))
        BY CellsShown
      <4>3. Cells' = CellsFrom(Len(plain') + 1, literal', Spread(style'), fontSet', Spread(para'))
        BY CellsShownThen
      <4> QED BY <4>1, <4>2, <4>3
    <3> QED BY <2>1, <3>2, TextIsThere
  <2>2. CASE t # plain
    <3> DEFINE R == <<[start |-> 0, old |-> Len(plain), new |-> Len(t)]>>
    <3>1. ApplyTextMutation(t, R) /\ IsWhole(R, Len(plain), Len(t))
      BY <2>2 DEF SetText, IsWhole
    <3> HIDE DEF R
    <3> QED BY <1>1, <3>1, TextSetAnew
  <2> QED BY <2>1, <2>2
<1>4. d \in Seq(Range(d))
  <2> DEFINE m == Len(plain') + 1
  <2>1. d = CellsFrom(m, literal', Spread(style'), fontSet', Spread(para'))
    BY CellsShownThen
  <2>2. m \in Nat
    BY DEF TextInv, TextIsOrdinary
  <2> HIDE DEF m, d
  <2> QED BY <2>1, <2>2, CellsAreSeq
<1>5. HasText(d, Cells, Len(plain), t)
  BY <1>3
<1> HIDE DEF d
<1>6. d = Styled!Restyled(Styled!Body, t) \o Styled!Closing
  BY <1>1, <1>4, <1>5, TextIsSet
<1> QED BY <1>2, <1>6 DEF Styled!SetText, d

-----------------------------------------------------------------------------
(* A text that is put together around its replacements.                    *)

\* p is behind the start of the i-th replacement and not yet behind its end.
Inside(R, i, p) == R[i].start < p /\ p < End(R[i])

\* p is in no replacement.
Outside(R, p) == \A j \in 1..Len(R) : p < R[j].start \/ End(R[j]) <= p

\* What is kept is in no replacement.
LEMMA KeptIsOutside ==
  ASSUME NEW n \in Nat, NEW R, IsEdit(R, n), NEW i, NEW p, KeptPlace(R, n, i, p)
  PROVE  Outside(R, p)
<1>1. i \in 0..Len(R) /\ p \in 0..n /\ CopyPos(R, i) <= p
      /\ (i + 1 \in 1..Len(R) => p < R[i + 1].start)
  BY DEF KeptPlace, InGap
<1> SUFFICES ASSUME NEW j \in 1..Len(R) PROVE p < R[j].start \/ End(R[j]) <= p
  BY DEF Outside
<1>2. Len(R) \in Nat
  BY EditParts
<1>3. /\ End(R[j]) = CopyPos(R, j) /\ CopyPos(R, j) \in Nat
      /\ CopyPos(R, j - 1) \in Nat /\ R[j].start \in Nat /\ CopyPos(R, j - 1) <= R[j].start
  <2>1. j \in 0..Len(R) /\ j - 1 \in 0..Len(R)
    BY <1>2
  <2> QED BY <2>1, EditParts
<1>4. CASE j <= i
  <2>1. CopyPos(R, j) <= CopyPos(R, i)
    BY <1>1, <1>2, <1>4, CopyPosGrows
  <2>2. CopyPos(R, i) \in Nat
    BY <1>1, EditParts
  <2> QED BY <1>1, <1>3, <2>1, <2>2
<1>5. CASE j = i + 1
  BY <1>1, <1>5
<1>6. CASE j > i + 1
  <2>1. i + 1 \in 1..Len(R) /\ i + 1 \in 0..Len(R) /\ j - 1 \in 0..Len(R) /\ i + 1 <= j - 1
    BY <1>1, <1>2, <1>6
  <2>2. CopyPos(R, i + 1) <= CopyPos(R, j - 1)
    BY <2>1, CopyPosGrows
  <2>3. CopyPos(R, i + 1) = R[i + 1].start + R[i + 1].old /\ R[i + 1].start \in Nat
        /\ R[i + 1].old \in Nat
    BY <2>1, EditParts
  <2> QED BY <1>1, <1>3, <2>1, <2>2, <2>3, SMTT(20)
<1> QED BY <1>1, <1>2, <1>4, <1>5, <1>6

\* What is put in the place of p, where a replacement starts.
IsPut(s, b, p, r, new) ==
  /\ Len(s) = Len(new)
  /\ \A t \in 1..Len(new) : s[t] = [b[p + OldOf(t, r.old)] EXCEPT !.unit = new[t]]

\* What is put in the place of every cell of b.
IsCut(ss, b, R, n, new) ==
  \A p \in 0..n - 1 :
    /\ \A i \in 1..Len(R) : p = R[i].start => IsPut(ss[p + 1], b, p, R[i], new)
    /\ \A i \in 1..Len(R) : Inside(R, i, p) => ss[p + 1] = <<>>
    /\ Outside(R, p) => ss[p + 1] = <<b[p + 1]>>

\* So much is put before p.
IsOff(R, n, p, o) ==
  \/ \E i \in 0..Len(R) : InGap(R, n, i, p) /\ o = p + Delta(R, i)
  \/ \E i \in 1..Len(R) : Inside(R, i, p) /\ o = R[i].start + Delta(R, i - 1) + R[i].new

\* A place is kept, or a replacement starts there.
LEMMA GapEnds ==
  ASSUME NEW n \in Nat, NEW R, IsEdit(R, n), NEW i, NEW p, InGap(R, n, i, p)
  PROVE  KeptPlace(R, n, i, p) \/ (i + 1 \in 1..Len(R) /\ p = R[i + 1].start)
<1>1. i + 1 \in 1..Len(R) => R[i + 1].start \in Nat
  BY EditParts
<1> QED BY <1>1 DEF InGap, KeptPlace

\* One more place.
LEMMA OneMorePiece ==
  ASSUME NEW n \in Nat, NEW R, IsEdit(R, n), NEW new, \A i \in 1..Len(R) : R[i].new = Len(new),
         NEW b, NEW ss, IsCut(ss, b, R, n, new), NEW p \in 0..n - 1, NEW o, IsOff(R, n, p, o)
  PROVE  IsOff(R, n, p + 1, o + Len(ss[p + 1]))
<1> DEFINE s == ss[p + 1]
<1>1. Len(R) \in Nat /\ p + 1 \in 0..n
  BY EditParts
<1>2. ASSUME NEW i \in 1..Len(R), p + 1 <= End(R[i]), R[i].start <= p,
             o + Len(s) = R[i].start + Delta(R, i - 1) + R[i].new
      PROVE  IsOff(R, n, p + 1, o + Len(s))
  <2>1. /\ R[i].start \in Nat /\ R[i].old \in Nat /\ R[i].new \in Nat
        /\ End(R[i]) = R[i].start + R[i].old /\ CopyPos(R, i) = R[i].start + R[i].old
        /\ Delta(R, i) = Delta(R, i - 1) + R[i].new - R[i].old
    BY EditParts, Deltas
  <2>2. Delta(R, i - 1) \in Int
    <3>1. i - 1 \in 0..Len(R)
      BY <1>1
    <3> QED BY <3>1, Deltas
  <2>3. CASE p + 1 = End(R[i])
    <3>1. i + 1 \in 1..Len(R) => p + 1 <= R[i + 1].start
      <4> SUFFICES ASSUME i + 1 \in 1..Len(R) PROVE p + 1 <= R[i + 1].start
        OBVIOUS
      <4>1. CopyPos(R, (i + 1) - 1) <= R[i + 1].start
        BY EditParts
      <4>2. (i + 1) - 1 = i
        OBVIOUS
      <4> QED BY <2>1, <2>3, <4>1, <4>2
    <3>2. i \in 0..Len(R) /\ CopyPos(R, i) <= p + 1
      BY <1>1, <2>1, <2>3
    <3>3. InGap(R, n, i, p + 1)
      BY <1>1, <3>1, <3>2 DEF InGap
    <3>4. o + Len(s) = (p + 1) + Delta(R, i)
      BY <1>2, <2>1, <2>2, <2>3, SMTT(20)
    <3> QED BY <3>2, <3>3, <3>4 DEF IsOff
  <2>4. CASE p + 1 # End(R[i])
    <3>1. Inside(R, i, p + 1)
      BY <1>2, <2>1, <2>4 DEF Inside
    <3> QED BY <1>2, <3>1 DEF IsOff
  <2> QED BY <2>3, <2>4
<1>3. ASSUME NEW i \in 0..Len(R), InGap(R, n, i, p), o = p + Delta(R, i)
      PROVE  IsOff(R, n, p + 1, o + Len(s))
  <2>1. CASE KeptPlace(R, n, i, p)
    <3>1. s = <<b[p + 1]>>
      BY <2>1, KeptIsOutside DEF IsCut
    <3>2. Len(s) = 1
      BY <3>1
    <3>3. InGap(R, n, i, p + 1)
      <4>1. CopyPos(R, i) \in Nat /\ (i + 1 \in 1..Len(R) => R[i + 1].start \in Nat)
        BY EditParts
      <4> QED BY <1>1, <2>1, <4>1 DEF InGap, KeptPlace
    <3>4. Delta(R, i) \in Int
      BY Deltas
    <3> HIDE DEF s
    <3>5. o + Len(s) = (p + 1) + Delta(R, i)
      BY <1>3, <3>2, <3>4
    <3> QED BY <3>3, <3>5 DEF IsOff
  <2>2. CASE i + 1 \in 1..Len(R) /\ p = R[i + 1].start
    <3> DEFINE j == i + 1
    <3>1. j \in 1..Len(R) /\ p = R[j].start /\ j - 1 = i
      BY <2>2
    <3> HIDE DEF j
    <3>2. Len(s) = R[j].new
      BY <3>1 DEF IsCut, IsPut
    <3>3. p + 1 <= End(R[j])
      <4>1. /\ R[j].start \in Nat /\ R[j].old \in Nat /\ R[j].old # 0
            /\ End(R[j]) = R[j].start + R[j].old
        BY <3>1, EditParts
      <4> QED BY <3>1, <4>1, SMTT(20)
    <3>4. o + Len(s) = R[j].start + Delta(R, j - 1) + R[j].new
      BY <1>3, <3>1, <3>2
    <3> HIDE DEF s
    <3> QED BY <1>2, <3>1, <3>3, <3>4
  <2> QED BY <1>3, <2>1, <2>2, GapEnds
<1>4. ASSUME NEW i \in 1..Len(R), Inside(R, i, p),
             o = R[i].start + Delta(R, i - 1) + R[i].new
      PROVE  IsOff(R, n, p + 1, o + Len(s))
  <2>1. s = <<>>
    BY <1>4 DEF IsCut
  <2>2. Len(s) = 0
    BY <2>1
  <2>3. R[i].start \in Nat /\ End(R[i]) = R[i].start + R[i].old /\ R[i].old \in Nat
        /\ R[i].new \in Nat
    BY EditParts
  <2>4. p + 1 <= End(R[i]) /\ R[i].start <= p
    BY <1>4, <2>3, SMTT(20) DEF Inside
  <2>5. Delta(R, i - 1) \in Int
    <3>1. i - 1 \in 0..Len(R)
      BY <1>1
    <3> QED BY <3>1, Deltas
  <2> HIDE DEF s
  <2>6. o + Len(s) = R[i].start + Delta(R, i - 1) + R[i].new
    BY <1>4, <2>2, <2>3, <2>5
  <2> QED BY <1>2, <2>4, <2>6
<1> HIDE DEF s
<1>5. IsOff(R, n, p + 1, o + Len(s))
  BY <1>3, <1>4 DEF IsOff
<1> QED BY <1>5 DEF s

\* FlattenSeq puts pieces together.
LEMMA FlattenedPieces ==
  ASSUME NEW T, NEW ss \in Seq(Seq(T)), Len(ss) # 0
  PROVE  \E f : IsLayout(f, ss) /\ f[Len(ss)] = Styled!FlattenSeq(ss)
<1> DEFINE N == Len(ss)
<1>1. Styled!FlattenSeq(ss) = FlattenSeq(ss)
  BY DEF Styled!FlattenSeq, FlattenSeq
<1>2. N \in Nat /\ N \in 1..N /\ \A i \in 1..N : ss[i] \in Seq(T)
  OBVIOUS
<1>3. PICK g \in [1..N -> Seq(T)] :
        g[1] = ss[1] /\ (\A i \in 2..N : g[i] = g[i - 1] \o ss[i]) /\ FlattenSeq(ss) = g[N]
  BY PrefixesOfFlattened
<1> DEFINE f == [i \in 0..N |-> IF i = 0 THEN <<>> ELSE g[i]]
<1>4. ASSUME NEW i \in 0..N, i # 0 PROVE g[i] = f[i - 1] \o ss[i]
  <2>1. i \in 1..N /\ i - 1 \in 0..N
    BY <1>2, <1>4
  <2>2. CASE i = 1
    <3> DEFINE x == ss[1]
    <3>1. f[i - 1] = <<>> /\ g[i] = x /\ x \in Seq(T)
      BY <1>2, <1>3, <2>1, <2>2
    <3> HIDE DEF x
    <3>2. <<>> \o x = x
      BY <3>1
    <3> QED BY <2>2, <3>1, <3>2 DEF x
  <2>3. CASE i # 1
    <3>1. i \in 2..N /\ f[i - 1] = g[i - 1]
      BY <2>1, <2>3
    <3>2. g[i] = g[i - 1] \o ss[i]
      BY <1>3, <3>1
    <3> HIDE DEF f
    <3> QED BY <3>1, <3>2
  <2> QED BY <2>2, <2>3
<1>5. f = [i \in 0..N |-> IF i = 0 THEN <<>> ELSE f[i - 1] \o ss[i]]
  <2> DEFINE h(i) == IF i = 0 THEN <<>> ELSE f[i - 1] \o ss[i]
  <2>1. ASSUME NEW i \in 0..N PROVE f[i] = h(i)
    BY <1>4
  <2>2. f = [i \in 0..N |-> f[i]]
    OBVIOUS
  <2> HIDE DEF f, h
  <2>3. f = [i \in 0..N |-> h(i)]
    BY <2>1, <2>2
  <2> QED BY <2>3 DEF h
<1>6. f[N] = g[N]
  BY <1>2
<1> HIDE DEF f
<1>7. IsLayout(f, ss)
  BY <1>5 DEF IsLayout
<1> QED BY <1>1, <1>3, <1>6, <1>7

\* The q-th element comes from a piece.
IsFromPiece(f, ss, q) ==
  \E x \in 1..Len(ss) : \E t \in 1..Len(ss[x]) :
    q = Len(f[x - 1]) + t /\ f[Len(ss)][q] = ss[x][t]

\* Between the ends of the pieces there is nothing else.
LEMMA PieceFound ==
  ASSUME NEW T, NEW ss \in Seq(Seq(T)), NEW f, IsLaidOut(f, ss, T), NEW q \in 1..Len(f[Len(ss)])
  PROVE  IsFromPiece(f, ss, q)
<1> DEFINE N == Len(ss)
           FoundIn(q1, x) == \E t \in 1..Len(ss[x]) : q1 = Len(f[x - 1]) + t
           S == {n \in Nat : n <= N => \A q1 \in 1..Len(f[n]) : \E x \in 1..n : FoundIn(q1, x)}
<1>1. N \in Nat /\ (\A n \in 1..N : ss[n] \in Seq(T)) /\ (\A n \in 0..N : f[n] \in Seq(T))
      /\ f[0] = <<>> /\ (\A n \in 1..N : f[n] = f[n - 1] \o ss[n])
  <2>1. N \in Nat /\ \A n \in 1..N : ss[n] \in Seq(T)
    OBVIOUS
  <2>2. (\A n \in 0..N : f[n] \in Seq(T)) /\ f[0] = <<>>
        /\ \A n \in 1..N : f[n] = f[n - 1] \o ss[n]
    BY DEF IsLaidOut
  <2> HIDE DEF N
  <2> QED BY <2>1, <2>2
<1>2. 0 \in S
  <2>1. Len(f[0]) = 0
    BY <1>1
  <2> QED BY <2>1
<1>3. ASSUME NEW n \in Nat, n \in S PROVE n + 1 \in S
  <2> SUFFICES ASSUME n + 1 <= N, NEW q1 \in 1..Len(f[n + 1])
               PROVE  \E x \in 1..n + 1 : FoundIn(q1, x)
    OBVIOUS
  <2>1. n \in 0..N /\ n + 1 \in 1..N /\ (n + 1) - 1 = n /\ n <= N
    BY <1>1
  <2> DEFINE a == f[n]
             b == ss[n + 1]
  <2>2. a \in Seq(T) /\ b \in Seq(T) /\ f[n + 1] = a \o b
    <3>1. f[n + 1] = f[(n + 1) - 1] \o ss[n + 1]
      BY <1>1, <2>1
    <3> QED BY <1>1, <2>1, <3>1
  <2> DEFINE la == Len(a)
             lb == Len(b)
             m == Len(f[n + 1])
  <2>3. la \in Nat /\ lb \in Nat /\ m = la + lb /\ q1 \in 1..m
    <3>1. q1 \in 1..m
      OBVIOUS
    <3> DEFINE y == f[n + 1]
    <3> HIDE DEF a, b, y
    <3>2. y = a \o b
      BY <2>2 DEF y
    <3>3. Len(y) = Len(a) + Len(b) /\ Len(a) \in Nat /\ Len(b) \in Nat
      BY <2>2, <3>2
    <3> QED BY <3>1, <3>3 DEF y
  <2> HIDE DEF la, lb, m
  <2>4. q1 \in Nat /\ 1 <= q1 /\ q1 <= la + lb
    BY <2>3
  <2>5. CASE q1 <= la
    <3>1. q1 \in 1..Len(f[n])
      BY <2>3, <2>4, <2>5 DEF la
    <3>2. PICK x \in 1..n : FoundIn(q1, x)
      BY <1>3, <2>1, <3>1
    <3> HIDE DEF FoundIn
    <3> QED BY <3>2
  <2>6. CASE la < q1
    <3>1. q1 - la \in 1..lb /\ q1 = la + (q1 - la)
      BY <2>3, <2>4, <2>6
    <3>2. FoundIn(q1, n + 1)
      <4> DEFINE t == q1 - la
      <4>1. t \in 1..Len(ss[n + 1]) /\ q1 = Len(f[(n + 1) - 1]) + t
        BY <2>1, <3>1 DEF la, lb
      <4> HIDE DEF t
      <4> QED BY <4>1
    <3> HIDE DEF FoundIn
    <3> QED BY <3>2
  <2> QED BY <2>3, <2>4, <2>5, <2>6
<1> HIDE DEF S
<1>4. Nat \subseteq S
  BY <1>2, <1>3, SetInduction
<1>5. \E x \in 1..N : FoundIn(q, x)
  <2>1. N \in S /\ N <= N
    BY <1>1, <1>4
  <2> HIDE DEF FoundIn
  <2> QED BY <2>1 DEF S
<1>6. PICK x \in 1..N : \E t \in 1..Len(ss[x]) : q = Len(f[x - 1]) + t
  BY <1>5
<1>8. PICK t \in 1..Len(ss[x]) : q = Len(f[x - 1]) + t
  BY <1>6
<1>9. f[N][Len(f[x - 1]) + t] = ss[x][t]
  BY <1>8 DEF IsLaidOut
<1> QED BY <1>8, <1>9 DEF IsFromPiece

\* Replacements do not overlap: none starts inside another.
LEMMA NoneStartsInside ==
  ASSUME NEW n \in Nat, NEW R, IsEdit(R, n), NEW i \in 1..Len(R), NEW p \in Nat,
         Inside(R, i, p), NEW j \in 1..Len(R)
  PROVE  p # R[j].start
<1>1. Len(R) \in Nat /\ i \in 0..Len(R) /\ j \in 0..Len(R) /\ i - 1 \in 0..Len(R)
      /\ j - 1 \in 0..Len(R)
  <2>1. Len(R) \in Nat
    BY EditParts
  <2> QED BY <2>1
<1>2. /\ R[i].start < p /\ p < CopyPos(R, i)
      /\ R[i].start \in Nat /\ R[j].start \in Nat /\ R[j].old \in Nat
      /\ CopyPos(R, j) = R[j].start + R[j].old
      /\ CopyPos(R, i) \in Nat /\ CopyPos(R, i - 1) \in Nat /\ CopyPos(R, j - 1) \in Nat
      /\ CopyPos(R, i - 1) <= R[i].start /\ CopyPos(R, j - 1) <= R[j].start
  <2>1. R[i].start < p /\ p < End(R[i]) /\ End(R[i]) = CopyPos(R, i)
    BY EditParts DEF Inside
  <2> QED BY <1>1, <2>1, EditParts
<1>3. CASE j <= i - 1
  <2>1. CopyPos(R, j) <= CopyPos(R, i - 1)
    BY <1>1, <1>3, CopyPosGrows
  <2> QED BY <1>2, <2>1, SMTT(20)
<1>4. CASE j = i
  BY <1>2, <1>4
<1>5. CASE i <= j - 1
  <2>1. CopyPos(R, i) <= CopyPos(R, j - 1)
    BY <1>1, <1>5, CopyPosGrows
  <2> QED BY <1>2, <2>1
<1> QED BY <1>1, <1>3, <1>4, <1>5

\* Every replacement has k units, and starts at a place of P.
IsOver(R, P, k, new) ==
  /\ \A i \in 1..Len(R) : R[i].old = k /\ R[i].new = Len(new)
  /\ P = {R[i].start : i \in 1..Len(R)}

\* What stands in the place of the x-th cell of b.
PieceAt(b, P, k, new, x) ==
  IF x - 1 \in P THEN Styled!Restyled(SubSeq(b, x, x + k - 1), new)
  ELSE IF \E p \in P : p < x - 1 /\ x - 1 < p + k THEN <<>>
  ELSE <<b[x]>>

\* New units where a replacement starts.
LEMMA PieceIsPut ==
  ASSUME NEW n \in Nat, NEW R, IsEdit(R, n), NEW P, NEW k, NEW new, Len(new) \in Nat,
         IsOver(R, P, k, new), NEW U, NEW b \in Seq(U), Len(b) = n,
         NEW i \in 1..Len(R), NEW p \in 0..n - 1, p = R[i].start,
         NEW s, s = PieceAt(b, P, k, new, p + 1)
  PROVE  IsPut(s, b, p, R[i], new) /\ s \in Seq(Range(s))
<1>1. /\ R[i].start \in Nat /\ R[i].old \in Nat /\ R[i].old # 0 /\ R[i].start + R[i].old <= n
  BY EditParts
<1>2. R[i].old = k /\ p \in P
  BY DEF IsOver
<1>3. k \in Nat /\ k # 0 /\ p + k <= n
  BY <1>1, <1>2
<1> DEFINE v == SubSeq(b, p + 1, p + k)
<1>4. s = Styled!Restyled(v, new)
  <2>1. (p + 1) - 1 = p /\ (p + 1) + k - 1 = p + k
    BY <1>3
  <2> QED BY <1>2, <2>1 DEF PieceAt
<1>5. Len(v) = (p + k) - p /\ \A t \in 1..(p + k) - p : v[t] = b[p + t]
  <2> DEFINE e == p + k
             a == p
  <2>1. a \in Nat /\ e \in Nat /\ a <= e /\ e <= Len(b) /\ v = SubSeq(b, a + 1, e)
    BY <1>3
  <2> HIDE DEF e, v, a
  <2>2. Len(v) = e - a /\ \A t \in 1..e - a : v[t] = b[a + t]
    BY ONLY <2>1, PartOf, b \in Seq(U)
  <2> QED BY <2>2 DEF e, a
<1> HIDE DEF v
<1>6. Len(v) = k /\ \A t \in 1..k : v[t] = b[p + t]
  <2>1. (p + k) - p = k
    BY <1>3
  <2> QED BY <1>5, <2>1
<1>7. /\ Len(s) = Len(new) /\ s \in Seq(Range(s))
      /\ \A t \in 1..Len(new) : s[t] = [v[OldOf(t, k)] EXCEPT !.unit = new[t]]
  BY <1>3, <1>4, <1>6, RestyledIs, SMTT(20)
<1>8. ASSUME NEW t \in 1..Len(new) PROVE s[t] = [b[p + OldOf(t, R[i].old)] EXCEPT !.unit = new[t]]
  <2> DEFINE j == OldOf(t, k)
  <2>1. j \in 1..k
    BY <1>3 DEF OldOf
  <2>2. s[t] = [v[j] EXCEPT !.unit = new[t]]
    BY <1>7
  <2> HIDE DEF j
  <2>3. v[j] = b[p + j]
    BY <1>6, <2>1
  <2>4. s[t] = [b[p + j] EXCEPT !.unit = new[t]]
    BY <2>2, <2>3
  <2> QED BY <1>2, <2>4 DEF j
<1> QED BY <1>7, <1>8 DEF IsPut

\* Nothing inside a replacement.
LEMMA PieceIsGone ==
  ASSUME NEW n \in Nat, NEW R, IsEdit(R, n), NEW P, NEW k, NEW new, IsOver(R, P, k, new), NEW b,
         NEW i \in 1..Len(R), NEW p \in 0..n - 1, Inside(R, i, p)
  PROVE  PieceAt(b, P, k, new, p + 1) = <<>>
<1>1. p \in Nat /\ (p + 1) - 1 = p
  OBVIOUS
<1>2. p \notin P
  <2>1. \A j \in 1..Len(R) : p # R[j].start
    BY <1>1, NoneStartsInside
  <2> QED BY <2>1 DEF IsOver
<1>3. \E q \in P : q < p /\ p < q + k
  <2>1. R[i].start \in P /\ R[i].old = k
    BY DEF IsOver
  <2>2. R[i].start < p /\ p < R[i].start + R[i].old
    BY DEF Inside, End
  <2> QED BY <2>1, <2>2
<1>4. \E q \in P : q < (p + 1) - 1 /\ (p + 1) - 1 < q + k
  BY <1>1, <1>3
<1> QED BY <1>1, <1>2, <1>4 DEF PieceAt

\* The cell itself outside of all replacements.
LEMMA PieceIsKept ==
  ASSUME NEW n \in Nat, NEW R, IsEdit(R, n), NEW P, NEW k, NEW new, IsOver(R, P, k, new), NEW b,
         NEW p \in 0..n - 1, Outside(R, p)
  PROVE  PieceAt(b, P, k, new, p + 1) = <<b[p + 1]>>
<1>1. p \in Nat /\ (p + 1) - 1 = p
  OBVIOUS
<1>2. ASSUME NEW q \in P PROVE q # p /\ ~(q < p /\ p < q + k)
  <2>1. PICK j \in 1..Len(R) : q = R[j].start
    BY DEF IsOver
  <2>2. R[j].start \in Nat /\ R[j].old \in Nat /\ R[j].old # 0 /\ R[j].old = k
        /\ End(R[j]) = R[j].start + R[j].old
    BY EditParts DEF IsOver
  <2>3. p < R[j].start \/ End(R[j]) <= p
    BY DEF Outside
  <2> QED BY <1>1, <2>1, <2>2, <2>3
<1>3. p \notin P /\ ~ \E q \in P : q < (p + 1) - 1 /\ (p + 1) - 1 < q + k
  <2>1. p \notin P
    BY <1>2
  <2>2. ~ \E q \in P : q < p /\ p < q + k
    BY <1>2
  <2> QED BY <1>1, <2>1, <2>2
<1> QED BY <1>1, <1>3 DEF PieceAt

\* The pieces that are put together.
LEMMA SplicedIs ==
  ASSUME TextInv, NEW n, n = Len(plain), NEW R, IsEdit(R, n), NEW P, NEW k, NEW new,
         Len(new) \in Nat, IsOver(R, P, k, new)
  PROVE  \E T : \E ss \in Seq(Seq(T)) :
           /\ Len(ss) = n /\ IsCut(ss, Styled!Body, R, n, new)
           /\ Styled!Spliced(P, k, new) = Styled!FlattenSeq(ss)
<1> DEFINE b == Styled!Body
           U == Range(Cells)
           PieceHere(x) == PieceAt(b, P, k, new, x)
           ss == [x \in 1..n |-> PieceHere(x)]
           T == UNION {Range(PieceHere(x)) : x \in 1..n}
<1>1. n \in Nat /\ b \in Seq(U) /\ Len(b) = n
  <2>1. n \in Nat
    BY LayerSeen DEF TextInv
  <2> QED BY <2>1, BodyIs
<1>2. Styled!Spliced(P, k, new) = Styled!FlattenSeq(ss)
  <2>1. Styled!Spliced(P, k, new) = Styled!FlattenSeq([x \in 1..Len(b) |-> PieceHere(x)])
    BY DEF Styled!Spliced, PieceAt
  <2> QED BY <1>1, <2>1
<1> HIDE DEF b, U
<1>3. ASSUME NEW p \in 0..n - 1, NEW i \in 1..Len(R), p = R[i].start
      PROVE  IsPut(PieceHere(p + 1), b, p, R[i], new) /\ PieceHere(p + 1) \in Seq(Range(PieceHere(p + 1)))
  BY <1>1, <1>3, PieceIsPut
<1>4. ASSUME NEW p \in 0..n - 1, NEW i \in 1..Len(R), Inside(R, i, p) PROVE PieceHere(p + 1) = <<>>
  BY <1>1, <1>4, PieceIsGone
<1>5. ASSUME NEW p \in 0..n - 1, Outside(R, p) PROVE PieceHere(p + 1) = <<b[p + 1]>>
  BY <1>1, <1>5, PieceIsKept
<1> HIDE DEF PieceHere
<1>6. ASSUME NEW x \in 1..n PROVE PieceHere(x) \in Seq(Range(PieceHere(x)))
  <2> DEFINE p == x - 1
  <2>1. p \in 0..n - 1 /\ p + 1 = x /\ p \in Nat
    BY <1>1
  <2> HIDE DEF p
  <2>2. CASE Outside(R, p)
    <3> DEFINE e == b[p + 1]
               a == PieceHere(x)
    <3>1. a = <<e>>
      BY <1>5, <2>1, <2>2
    <3> HIDE DEF e, a
    <3>2. a \in Seq(Range(a))
      BY <3>1 DEF Range
    <3> QED BY <3>2 DEF a
  <2>3. CASE ~Outside(R, p)
    <3>1. PICK j \in 1..Len(R) : ~(p < R[j].start) /\ ~(End(R[j]) <= p)
      BY <2>3 DEF Outside
    <3>2. R[j].start \in Nat /\ End(R[j]) \in Nat
      BY EditParts, SMTT(20)
    <3>3. p = R[j].start \/ Inside(R, j, p)
      BY <2>1, <3>1, <3>2 DEF Inside
    <3>4. CASE p = R[j].start
      BY <1>3, <2>1, <3>4
    <3>5. CASE Inside(R, j, p)
      <4> DEFINE a == PieceHere(x)
      <4>1. a = <<>>
        BY <1>4, <2>1, <3>5
      <4> HIDE DEF a
      <4>2. a \in Seq(Range(a))
        BY <4>1
      <4> QED BY <4>2 DEF a
    <3> QED BY <3>3, <3>4, <3>5
  <2> QED BY <2>2, <2>3
<1>7. ASSUME NEW x \in 1..n PROVE PieceHere(x) \in Seq(T)
  <2> DEFINE a == PieceHere(x)
             A == Range(a)
  <2>1. A \subseteq T
    OBVIOUS
  <2>2. a \in Seq(A)
    BY <1>6
  <2> HIDE DEF a, A, T
  <2>3. a \in Seq(T)
    BY <2>1, <2>2
  <2> QED BY <2>3 DEF a
<1> HIDE DEF T
<1>8. ss \in Seq(Seq(T)) /\ Len(ss) = n
  <2> DEFINE W == Seq(T)
  <2>1. \A x \in 1..n : PieceHere(x) \in W
    BY <1>7
  <2> HIDE DEF W
  <2>2. ss \in Seq(W) /\ Len(ss) = n
    BY <1>1, <2>1
  <2> QED BY <2>2 DEF W
<1>9. IsCut(ss, b, R, n, new)
  <2>1. ASSUME NEW p \in 0..n - 1 PROVE ss[p + 1] = PieceHere(p + 1)
    BY <1>1
  <2> HIDE DEF ss
  <2> QED BY <1>3, <1>4, <1>5, <2>1 DEF IsCut
<1> HIDE DEF ss
<1> QED BY <1>2, <1>8, <1>9 DEF b

\* How far the pieces reach.
LEMMA PiecesReach ==
  ASSUME NEW n \in Nat, NEW R, IsEdit(R, n), NEW new, \A i \in 1..Len(R) : R[i].new = Len(new),
         NEW b, NEW T, NEW ss \in Seq(Seq(T)), Len(ss) = n, IsCut(ss, b, R, n, new),
         NEW f, IsLaidOut(f, ss, T), NEW p \in 0..n
  PROVE  IsOff(R, n, p, Len(f[p]))
<1> DEFINE S == {x \in Nat : x <= n => IsOff(R, n, x, Len(f[x]))}
<1>1. 0 \in S
  <2>1. Len(f[0]) = 0
    BY DEF IsLaidOut
  <2>2. 0 \in 0..Len(R) /\ 0 \in 0..n
    BY EditParts
  <2>3. CopyPos(R, 0) <= 0 /\ (1 \in 1..Len(R) => 0 <= R[1].start)
    BY EditParts
  <2>4. InGap(R, n, 0, 0)
    BY <2>2, <2>3 DEF InGap
  <2>5. Delta(R, 0) = 0
    BY Deltas
  <2>6. IsOff(R, n, 0, 0)
    BY <2>2, <2>4, <2>5 DEF IsOff
  <2> QED BY <2>1, <2>6
<1>2. ASSUME NEW x \in Nat, x \in S PROVE x + 1 \in S
  <2> SUFFICES ASSUME x + 1 <= n PROVE IsOff(R, n, x + 1, Len(f[x + 1]))
    OBVIOUS
  <2>1. x \in 0..n - 1 /\ x \in 0..n /\ x + 1 \in 1..n /\ x <= n /\ (x + 1) - 1 = x
    OBVIOUS
  <2>2. IsOff(R, n, x, Len(f[x]))
    BY <1>2, <2>1
  <2>3. Len(f[x + 1]) = Len(f[x]) + Len(ss[x + 1])
    <3> DEFINE a == f[x]
               c == ss[x + 1]
               e == f[x + 1]
    <3>1. a \in Seq(T) /\ c \in Seq(T)
      BY <2>1 DEF IsLaidOut
    <3>2. f[x + 1] = f[(x + 1) - 1] \o ss[x + 1]
      BY <2>1 DEF IsLaidOut
    <3>3. e = a \o c
      BY <2>1, <3>2
    <3> HIDE DEF a, c, e
    <3>4. Len(e) = Len(a) + Len(c)
      BY <3>1, <3>3
    <3> QED BY <3>4 DEF a, c, e
  <2> HIDE DEF S
  <2> QED BY <2>1, <2>2, <2>3, OneMorePiece
<1> HIDE DEF S
<1>3. Nat \subseteq S
  BY <1>1, <1>2, SetInduction
<1>4. p \in S /\ p <= n
  BY <1>3
<1> QED BY <1>4 DEF S

\* All of them reach to the end of the new text.
LEMMA LastReach ==
  ASSUME NEW n \in Nat, NEW R, IsEdit(R, n), NEW o, IsOff(R, n, n, o)
  PROVE  o = n + Delta(R, Len(R))
<1>1. Len(R) \in Nat
  BY EditParts
<1>2. ASSUME NEW i \in 1..Len(R) PROVE R[i].start < n /\ ~Inside(R, i, n)
  <2>1. R[i].start \in Nat /\ R[i].old \in Nat /\ R[i].old # 0 /\ R[i].start + R[i].old <= n
        /\ End(R[i]) = R[i].start + R[i].old
    BY EditParts
  <2> QED BY <2>1 DEF Inside
<1>3. PICK i \in 0..Len(R) : InGap(R, n, i, n) /\ o = n + Delta(R, i)
  BY <1>2 DEF IsOff
<1>4. ~(i + 1 \in 1..Len(R))
  <2> SUFFICES ASSUME i + 1 \in 1..Len(R) PROVE FALSE
    OBVIOUS
  <2>1. n <= R[i + 1].start
    BY <1>3 DEF InGap
  <2>2. R[i + 1].start \in Nat
    BY EditParts
  <2>3. R[i + 1].start < n
    BY <1>2
  <2> QED BY <2>1, <2>2, <2>3
<1>5. i = Len(R)
  BY <1>1, <1>4
<1> QED BY <1>3, <1>5

\* The cells that replace_text leaves: those outside of all replacements, and
\* the new ones with the styles of those they replace.
HasReplaced(d, c, R, n, new) ==
  /\ Len(d) = n + Delta(R, Len(R)) + 1
  /\ DOMAIN d = 1..n + Delta(R, Len(R)) + 1
  /\ \A i, p : KeptPlace(R, n, i, p) => d[p + Delta(R, i) + 1] = c[p + 1]
  /\ \A i \in 1..Len(R) : \A t \in 1..Len(new) :
       d[R[i].start + Delta(R, i - 1) + t] = WithUnit(c[R[i].start + OldOf(t, R[i].old)], new[t])

\* The piece s is in d behind the place o.
IsPieceOf(s, d, o) == \A t \in 1..Len(s) : s[t] = d[o + t]

\* Every piece is in the new text.
LEMMA PieceShows ==
  ASSUME TextInv, NEW n, n = Len(plain), NEW R, IsEdit(R, n), NEW P, NEW k, NEW new,
         Len(new) \in Nat, IsOver(R, P, k, new), NEW d, HasReplaced(d, Cells, R, n, new),
         NEW s, NEW p \in 0..n - 1, NEW o, IsOff(R, n, p, o), NEW ss,
         IsCut(ss, Styled!Body, R, n, new), s = ss[p + 1]
  PROVE  IsPieceOf(s, d, o)
<1> SUFFICES ASSUME NEW t \in 1..Len(s) PROVE s[t] = d[o + t]
  BY DEF IsPieceOf
<1> DEFINE b == Styled!Body
           c == Cells
<1>1. n \in Nat /\ \A j \in 1..n : b[j] = c[j]
  <2>1. n \in Nat
    BY LayerSeen DEF TextInv
  <2> QED BY <2>1, BodyIs
<1>2. ASSUME NEW j \in 1..n, NEW x PROVE [c[j] EXCEPT !.unit = x] = WithUnit(c[j], x)
  <2>1. j \in 1..Len(plain) + 1
    BY <1>1
  <2> QED BY <2>1, CellWith
<1> HIDE DEF b, c
<1>3. ASSUME NEW i \in 0..Len(R), InGap(R, n, i, p), o = p + Delta(R, i) PROVE s[t] = d[o + t]
  <2>1. CASE KeptPlace(R, n, i, p)
    <3>1. s = <<b[p + 1]>>
      BY <2>1, KeptIsOutside DEF IsCut, b
    <3>2. t = 1 /\ s[t] = b[p + 1]
      <4> DEFINE e == b[p + 1]
      <4> HIDE DEF e
      <4>1. s = <<e>>
        BY <3>1 DEF e
      <4> QED BY <4>1 DEF e
    <3>3. d[p + Delta(R, i) + 1] = c[p + 1]
      BY <2>1 DEF HasReplaced, c
    <3>4. o + t = p + Delta(R, i) + 1
      BY <1>3, <3>2
    <3>5. b[p + 1] = c[p + 1]
      BY <1>1
    <3> QED BY <3>2, <3>3, <3>4, <3>5
  <2>2. CASE i + 1 \in 1..Len(R) /\ p = R[i + 1].start
    <3> DEFINE j == i + 1
    <3>1. j \in 1..Len(R) /\ p = R[j].start /\ j - 1 = i
      BY <2>2
    <3> HIDE DEF j
    <3>2. IsPut(s, b, p, R[j], new)
      BY <3>1 DEF IsCut, b
    <3>3. t \in 1..Len(new)
      BY <3>2 DEF IsPut
    <3> DEFINE y == p + OldOf(t, R[j].old)
    <3>4. s[t] = [b[y] EXCEPT !.unit = new[t]]
      BY <3>2, <3>3 DEF IsPut
    <3>5. y \in 1..n
      <4>1. R[j].start \in Nat /\ R[j].old \in Nat /\ R[j].old # 0 /\ R[j].start + R[j].old <= n
        BY <1>1, <3>1, EditParts
      <4>2. OldOf(t, R[j].old) \in 1..R[j].old
        BY <3>3, <4>1, SMTT(20) DEF OldOf
      <4> QED BY <1>1, <3>1, <4>1, <4>2, SMTT(20)
    <3>6. d[R[j].start + Delta(R, j - 1) + t] = WithUnit(c[y], new[t])
      BY <3>1, <3>3 DEF HasReplaced, c
    <3>7. o + t = R[j].start + Delta(R, j - 1) + t
      BY <1>3, <3>1
    <3> HIDE DEF y
    <3>8. s[t] = WithUnit(c[y], new[t])
      <4>1. b[y] = c[y] /\ [c[y] EXCEPT !.unit = new[t]] = WithUnit(c[y], new[t])
        BY <1>1, <1>2, <3>5
      <4> QED BY <3>4, <4>1
    <3> QED BY <3>6, <3>7, <3>8
  <2> QED BY <1>1, <1>3, <2>1, <2>2, GapEnds
<1>4. ASSUME NEW i \in 1..Len(R), Inside(R, i, p) PROVE FALSE
  <2>1. s = <<>>
    BY <1>4 DEF IsCut
  <2> QED BY <2>1
<1> QED BY <1>3, <1>4 DEF IsOff

\* The cells are those that are promised.
LEMMA TextIsSpliced ==
  ASSUME TextInv, NEW n, n = Len(plain), NEW R, IsEdit(R, n), NEW P, NEW k, NEW new,
         Len(new) \in Nat, IsOver(R, P, k, new), NEW d, HasReplaced(d, Cells, R, n, new),
         d \in Seq(Range(d))
  PROVE  d = Styled!Spliced(P, k, new) \o Styled!Closing
<1> DEFINE b == Styled!Body
           c == Cells
           w == Styled!Spliced(P, k, new)
           z == Styled!Closing
           m == n + Delta(R, Len(R))
<1>1. n \in Nat /\ n # 0
  BY LayerSeen DEF TextInv
<1>2. z = <<c[n + 1]>>
  BY BodyIs
<1>3. \E T : \E ss \in Seq(Seq(T)) :
        Len(ss) = n /\ IsCut(ss, b, R, n, new) /\ w = Styled!FlattenSeq(ss)
  BY <1>1, SplicedIs
<1>4. PICK T : \E ss \in Seq(Seq(T)) :
        Len(ss) = n /\ IsCut(ss, b, R, n, new) /\ w = Styled!FlattenSeq(ss)
  BY <1>3
<1> HIDE DEF w, z
<1>5. PICK ss \in Seq(Seq(T)) :
        Len(ss) = n /\ IsCut(ss, b, R, n, new) /\ w = Styled!FlattenSeq(ss)
  BY <1>4
<1>6. PICK f : IsLayout(f, ss) /\ f[n] = w
  BY <1>1, <1>5, FlattenedPieces
<1>7. IsLaidOut(f, ss, T)
  BY <1>6, LaidOut
<1>8. \A i \in 1..Len(R) : R[i].new = Len(new)
  BY DEF IsOver
<1>9. ASSUME NEW p \in 0..n PROVE IsOff(R, n, p, Len(f[p]))
  BY <1>1, <1>5, <1>7, <1>8, PiecesReach
<1>10. w \in Seq(T) /\ Len(w) = m /\ m \in Nat
  <2>1. n \in 0..n
    BY <1>1
  <2>2. w \in Seq(T)
    BY <1>5, <1>6, <1>7, <2>1 DEF IsLaidOut
  <2>3. Len(w) = m
    BY <1>1, <1>6, <1>9, <2>1, LastReach
  <2>4. Len(w) \in Nat
    BY <2>2
  <2> QED BY <2>2, <2>3, <2>4
<1> HIDE DEF b, c
<1>11. Len(d) = m + 1 /\ DOMAIN d = 1..m + 1
  BY DEF HasReplaced
<1>12. d[m + 1] = c[n + 1]
  <2>1. PICK i \in 0..Len(R) : InGap(R, n, i, n) /\ m = n + Delta(R, i)
    <3>1. IsOff(R, n, n, m)
      <4>1. n \in 0..n
        BY <1>1
      <4> QED BY <1>6, <1>9, <1>10, <4>1
    <3>2. \A i \in 1..Len(R) : ~Inside(R, i, n)
      <4> TAKE i \in 1..Len(R)
      <4>1. End(R[i]) = R[i].start + R[i].old /\ R[i].start + R[i].old <= n
            /\ R[i].start \in Nat /\ R[i].old \in Nat
        BY <1>1, EditParts
      <4> QED BY <1>1, <4>1 DEF Inside
    <3> HIDE DEF m
    <3> QED BY <3>1, <3>2 DEF IsOff
  <2>2. KeptPlace(R, n, i, n)
    <3>1. ~(i + 1 \in 1..Len(R) /\ n = R[i + 1].start)
      <4> SUFFICES ASSUME i + 1 \in 1..Len(R), n = R[i + 1].start PROVE FALSE
        OBVIOUS
      <4>1. R[i + 1].start \in Nat /\ R[i + 1].old \in Nat /\ R[i + 1].old # 0
            /\ R[i + 1].start + R[i + 1].old <= n
        BY <1>1, EditParts
      <4> QED BY <4>1
    <3> QED BY <1>1, <2>1, <3>1, GapEnds
  <2>3. d[n + Delta(R, i) + 1] = c[n + 1]
    BY <2>2 DEF HasReplaced, c
  <2> QED BY <2>1, <2>3
<1>13. ASSUME NEW q \in 1..m PROVE w[q] = d[q]
  <2>1. q \in 1..Len(f[Len(ss)]) /\ w = f[Len(ss)]
    BY <1>5, <1>6, <1>10
  <2>2. IsFromPiece(f, ss, q)
    BY <1>7, <2>1, PieceFound
  <2>3. PICK x \in 1..Len(ss) : \E t \in 1..Len(ss[x]) :
          q = Len(f[x - 1]) + t /\ f[Len(ss)][q] = ss[x][t]
    BY <2>2 DEF IsFromPiece
  <2>4. PICK t \in 1..Len(ss[x]) : q = Len(f[x - 1]) + t /\ f[Len(ss)][q] = ss[x][t]
    BY <2>3
  <2> DEFINE p == x - 1
             o == Len(f[p])
             s == ss[p + 1]
  <2>5. p \in 0..n - 1 /\ p \in 0..n /\ p + 1 = x
    BY <1>1, <1>5
  <2>6. IsOff(R, n, p, o)
    BY <1>9, <2>5
  <2>7. t \in 1..Len(s) /\ w[q] = s[t] /\ q = o + t
    BY <2>1, <2>4, <2>5
  <2> HIDE DEF p, o
  <2>8. IsCut(ss, Styled!Body, R, n, new)
    BY <1>5 DEF b
  <2>9. s[t] = d[o + t]
    <3> HIDE DEF s
    <3>1. s = ss[p + 1]
      BY DEF s
    <3>2. IsPieceOf(s, d, o)
      BY <2>5, <2>6, <2>8, <3>1, PieceShows
    <3> QED BY <2>7, <3>2 DEF IsPieceOf
  <2> QED BY <2>7, <2>9
<1> DEFINE e == c[n + 1]
           W == T \cup {e}
           v == w \o <<e>>
<1> HIDE DEF m
<1>14. v \in Seq(W) /\ Len(v) = m + 1 /\ (\A q \in 1..m : v[q] = w[q]) /\ v[m + 1] = e
  <2> HIDE DEF e
  <2>1. w \in Seq(W) /\ <<e>> \in Seq(W)
    BY <1>10
  <2> HIDE DEF W
  <2> QED BY <1>10, <2>1
<1> HIDE DEF v, e, W
<1>15. ASSUME NEW q \in 1..m + 1 PROVE v[q] = d[q]
  <2>1. q \in 1..m \/ q = m + 1
    BY <1>10
  <2>2. CASE q \in 1..m
    BY <1>13, <1>14, <2>2, SMTT(20)
  <2>3. CASE q = m + 1
    BY <1>12, <1>14, <2>3 DEF e
  <2> QED BY <2>1, <2>2, <2>3
<1>16. d = v
  BY <1>10, <1>11, <1>14, <1>15
<1> QED BY <1>2, <1>16 DEF v, e, w, z

\* What comes from the text does not go to its closing unit.
LEMMA TextStaysBefore ==
  ASSUME NEW n \in Nat, NEW R, IsEdit(R, n), NEW p, NEW q, Straddles(R, n, p, q), p < n
  PROVE  q < n + Delta(R, Len(R))
<1> DEFINE m == n + Delta(R, Len(R))
           g(x) == RemapEngineIndex(x, n, R)
<1>1. p \in 0..n /\ q \in Int /\ q < g(p + 1)
  BY DEF Straddles
<1>2. p + 1 \in 0..n + 1 /\ n \in 0..n + 1 /\ p + 1 <= n
  BY <1>1
<1>3. g(p + 1) \in Int /\ g(n) \in Int /\ g(p + 1) <= g(n)
  BY <1>2, EnginePlaces
<1>4. g(n) = m
  <2>1. g(n) = RemapPlainIndex(n, R)
    BY DEF RemapEngineIndex
  <2> QED BY <2>1, EndStays
<1> HIDE DEF g, m
<1>5. q < m
  BY <1>1, <1>3, <1>4
<1> QED BY <1>5 DEF m

\* An edit of the text leaves the cells that replace_text leaves.
LEMMA TextIsReplaced ==
  ASSUME TextInv, TextInv', NEW n, n = Len(plain), NEW R, IsEdit(R, n), NEW new \in Seq(Written),
         \A i \in 1..Len(R) : R[i].new = Len(new), NEW t, t = ReplacedText(plain, R, new),
         ApplyTextMutation(t, R)
  PROVE  HasReplaced(Cells', Cells, R, n, new)
<1> DEFINE m == n + Delta(R, Len(R))
           c == Cells
           d == Cells'
           l == literal'
<1>1. n \in Nat /\ n # 0 /\ plain \in Seq(Written) /\ literal = plain \o <<Return>>
  <2>1. n \in Nat /\ n # 0
    BY LayerSeen DEF TextInv
  <2>2. plain \in Seq(Letters) /\ literal = plain \o <<Return>>
    BY DEF TextInv, TextIsOrdinary
  <2>3. Letters \subseteq Written
    BY DEF Letters
  <2> QED BY <2>1, <2>2, <2>3
<1>2. t \in Seq(Written) /\ Len(t) = m /\ m \in Nat
  <2>1. t \in Seq(Written) /\ Len(t) = m
    BY <1>1, TextReplaced
  <2>2. Len(t) \in Nat
    BY <2>1
  <2> QED BY <2>1, <2>2
<1>3. plain' = t /\ l = t \o <<Return>>
  BY TextBrought
<1> HIDE DEF l
<1>4. (\A k \in 1..m : l[k] = t[k]) /\ l[m + 1] = Return
  <2> HIDE DEF m
  <2> DEFINE T == Written \cup {Return}
  <2>1. t \in Seq(T) /\ <<Return>> \in Seq(T)
    BY <1>2
  <2> HIDE DEF T
  <2> QED BY <1>2, <1>3, <2>1
<1>5. (\A k \in 1..n : literal[k] = plain[k]) /\ literal[n + 1] = Return
  <2> DEFINE T == Written \cup {Return}
  <2>1. plain \in Seq(T) /\ <<Return>> \in Seq(T)
    BY <1>1
  <2> HIDE DEF T
  <2> QED BY <1>1, <2>1
<1>6. Len(d) = m + 1 /\ DOMAIN d = 1..m + 1
  <2> DEFINE k == m + 1
  <2>1. d = CellsFrom(k, l, Spread(style'), fontSet', Spread(para'))
    BY <1>2, <1>3, CellsShownThen DEF l
  <2>2. k \in Nat
    BY <1>2
  <2> HIDE DEF k, d
  <2>3. Len(d) = k /\ DOMAIN d = 1..k
    BY <2>1, <2>2, CellsAreSeq
  <2> QED BY <2>3 DEF k
<1> HIDE DEF c, d
<1>7. ASSUME NEW p, NEW q, Straddles(R, n, p, q)
      PROVE  q \in 0..m /\ d[q + 1] = WithUnit(c[p + 1], l[q + 1]) /\ (p < n => q < m)
  <2>1. Len(plain') = n + Delta(R, Len(R))
    BY <1>2, <1>3
  <2>2. IsEdit(R, Len(plain)) /\ Straddles(R, Len(plain), p, q)
    BY <1>7
  <2>3. q \in 0..Len(plain') /\ d[q + 1] = WithUnit(c[p + 1], l[q + 1])
    BY <2>1, <2>2, EditRestyles DEF c, d, l
  <2>4. p < n => q < m
    BY <1>1, <1>7, TextStaysBefore
  <2> QED BY <2>1, <2>3, <2>4
<1>8. ASSUME NEW i, NEW p, KeptPlace(R, n, i, p) PROVE d[p + Delta(R, i) + 1] = c[p + 1]
  <2> DEFINE q == p + Delta(R, i)
  <2>1. Straddles(R, n, p, q)
    BY <1>1, <1>8, KeptStraddles
  <2>2. p \in 0..n
    BY <1>8 DEF KeptPlace, InGap
  <2>3. l[q + 1] = literal[p + 1]
    <3>1. CASE p < n
      <4>1. q \in 0..m /\ q < m
        BY <1>7, <2>1, <3>1
      <4>2. q + 1 \in 1..m
        BY <1>2, <4>1
      <4>3. l[q + 1] = t[q + 1]
        BY <1>4, <4>2
      <4>4. t[q + 1] = plain[p + 1]
        BY <1>1, <1>8, <3>1, KeptUnits
      <4>5. p + 1 \in 1..n
        BY <1>1, <2>2, <3>1
      <4> QED BY <1>5, <4>3, <4>4, <4>5
    <3>2. CASE p = n
      <4>1. i \in 0..Len(R) /\ InGap(R, n, i, n)
        BY <1>8, <3>2 DEF KeptPlace, InGap
      <4>2. IsOff(R, n, n, n + Delta(R, i))
        BY <4>1 DEF IsOff
      <4>3. n + Delta(R, i) = m
        BY <1>1, <4>2, LastReach
      <4>4. l[q + 1] = l[m + 1]
        BY <3>2, <4>3
      <4> QED BY <1>4, <1>5, <3>2, <4>4
    <3> QED BY <1>1, <2>2, <3>1, <3>2
  <2>4. d[q + 1] = WithUnit(c[p + 1], l[q + 1])
    BY <1>7, <2>1
  <2>5. p + 1 \in 1..Len(plain) + 1
    BY <1>1, <2>2
  <2>6. WithUnit(c[p + 1], literal[p + 1]) = c[p + 1]
    BY <2>5, CellWith DEF c
  <2> QED BY <2>3, <2>4, <2>6
<1>9. ASSUME NEW i \in 1..Len(R), NEW x \in 1..Len(new)
      PROVE  d[R[i].start + Delta(R, i - 1) + x]
               = WithUnit(c[R[i].start + OldOf(x, R[i].old)], new[x])
  <2> DEFINE j == x - 1
             p == ReplacedPlace(R[i], j)
             q == R[i].start + Delta(R, i - 1) + j
  <2>1. j \in Nat /\ j < Len(new) /\ j + 1 = x /\ x \in Nat /\ j < R[i].new
    <3>1. Len(new) \in Nat /\ R[i].new = Len(new)
      OBVIOUS
    <3> QED BY <3>1
  <2>2. /\ R[i].start \in Nat /\ R[i].old \in Nat /\ R[i].old # 0 /\ R[i].start + R[i].old <= n
    BY <1>1, EditParts
  <2>3. p < n /\ p + 1 = R[i].start + OldOf(x, R[i].old)
    <3> DEFINE s == R[i].start
               o == R[i].old
    <3>1. p = s + (IF j < o THEN j ELSE o - 1) /\ OldOf(x, o) = IF x <= o THEN x ELSE o
      BY DEF ReplacedPlace, OldOf
    <3>2. s \in Nat /\ o \in Nat /\ o # 0 /\ s + o <= n
      BY <2>2
    <3> HIDE DEF s, o, j, p
    <3>3. p < n /\ p + 1 = s + OldOf(x, o)
      BY <1>1, <2>1, <3>1, <3>2
    <3> QED BY <3>3 DEF s, o
  <2> HIDE DEF j
  <2>4. Straddles(R, n, p, q)
    BY <1>1, <2>1, NewStraddles
  <2>5. l[q + 1] = new[x]
    <3>1. q \in 0..m /\ q < m
      BY <1>7, <2>3, <2>4
    <3> HIDE DEF q
    <3>2. q + 1 \in 1..m
      BY <1>2, <3>1
    <3>3. l[q + 1] = t[q + 1]
      BY <1>4, <3>2
    <3>4. t[R[i].start + Delta(R, i - 1) + j + 1] = new[j + 1]
      <4>1. IsEdit(R, Len(plain)) /\ j \in Nat /\ j < Len(new) /\ plain \in Seq(Written)
        BY <1>1, <2>1
      <4>2. ReplacedText(plain, R, new)[R[i].start + Delta(R, i - 1) + j + 1] = new[j + 1]
        BY <4>1, NewUnits
      <4> QED BY <4>2
    <3> QED BY <2>1, <3>3, <3>4 DEF q
  <2>6. d[q + 1] = WithUnit(c[p + 1], l[q + 1])
    BY <1>7, <2>4
  <2>7. q + 1 = R[i].start + Delta(R, i - 1) + x
    <3>1. Delta(R, i - 1) \in Int
      <4>1. i - 1 \in 0..Len(R)
        BY <1>1, EditParts
      <4> QED BY <1>1, <4>1, Deltas
    <3> DEFINE e == Delta(R, i - 1)
               s == R[i].start
    <3>2. e \in Int /\ s \in Nat
      BY <2>2, <3>1
    <3> HIDE DEF e, s
    <3>3. s + e + j + 1 = s + e + x
      BY <2>1, <3>2
    <3> QED BY <3>3 DEF e, s
  <2> HIDE DEF p, q
  <2> QED BY <2>3, <2>5, <2>6, <2>7
<1> HIDE DEF m
<1>10. Len(d) = m + 1 /\ DOMAIN d = 1..m + 1
  BY <1>6
<1> QED BY <1>8, <1>9, <1>10 DEF HasReplaced, c, d, m

\* So does an edit of nothing.
LEMMA NothingIsReplaced ==
  ASSUME TextInv, NEW n, n = Len(plain), NEW new
  PROVE  IsEdit(<<>>, n) /\ HasReplaced(Cells, Cells, <<>>, n, new)
<1> DEFINE R == <<>>
           c == Cells
<1>1. n \in Nat
  BY LayerSeen DEF TextInv
<1>2. Len(R) = 0 /\ IsEdit(R, n)
  BY DEF IsEdit
<1> HIDE DEF R
<1>3. Delta(R, 0) = 0
  BY <1>1, <1>2, Deltas
<1>4. Len(c) = n + 1 /\ DOMAIN c = 1..n + 1
  <2> DEFINE m == n + 1
  <2> HIDE DEF c
  <2>1. Len(c) = m /\ DOMAIN c = 1..m
    BY LayerCells DEF c
  <2> QED BY <2>1
<1> HIDE DEF c
<1>5. ASSUME NEW i, NEW p, KeptPlace(R, n, i, p) PROVE c[p + Delta(R, i) + 1] = c[p + 1]
  <2>1. i = 0 /\ p \in 0..n
    BY <1>2, <1>5 DEF KeptPlace, InGap
  <2>2. p + Delta(R, i) + 1 = p + 1
    BY <1>1, <1>3, <2>1
  <2> QED BY <2>2
<1>6. n + Delta(R, Len(R)) + 1 = n + 1
  BY <1>1, <1>2, <1>3
<1>7. HasReplaced(c, c, R, n, new)
  BY <1>2, <1>4, <1>5, <1>6 DEF HasReplaced
<1> QED BY <1>2, <1>7 DEF c, R

\* The units of the cells are the text.
LEMMA UnitsAre == TextInv => Styled!Units(Styled!Body) = plain
<1> SUFFICES ASSUME TextInv PROVE Styled!Units(Styled!Body) = plain
  OBVIOUS
<1> DEFINE n == Len(plain)
           b == Styled!Body
           c == Cells
<1>1. n \in Nat /\ plain \in Seq(Letters) /\ literal = plain \o <<Return>>
  BY LayerSeen DEF TextInv, TextIsOrdinary
<1>2. Len(b) = n /\ \A k \in 1..n : b[k] = c[k]
  BY BodyIs
<1>3. ASSUME NEW k \in 1..n PROVE b[k].unit = plain[k]
  <2>1. k \in 1..Len(plain) + 1
    BY <1>1
  <2>2. c[k] = [unit |-> literal[k], font |-> fontSet[Spread(style)[k]], para |-> Spread(para)[k]]
    BY <2>1, CellsShown DEF CellsFrom
  <2>3. c[k].unit = literal[k]
    BY <2>2
  <2>4. literal[k] = plain[k]
    BY <1>1
  <2> QED BY <1>2, <2>3, <2>4
<1> HIDE DEF b
<1>4. Styled!Units(b) = [k \in 1..n |-> b[k].unit]
  BY <1>2 DEF Styled!Units
<1>5. plain = [k \in 1..n |-> plain[k]]
  BY <1>1
<1>6. Styled!Units(b) = [k \in 1..n |-> plain[k]]
  BY <1>3, <1>4
<1> QED BY <1>5, <1>6 DEF b

\* The places of the matches that are replaced.
ReplacedPlaces(M, replaceAll) == IF replaceAll \/ M = {} THEN M ELSE {Styled!Min(M)}

\* They are where the replacements start.
LEMMA ReplacedAreOver ==
  ASSUME NEW m, AreRising(m), NEW replaceAll \in BOOLEAN, NEW k, NEW new, NEW R,
         AreReplacements(R, m, k, Len(new), replaceAll)
  PROVE  IsOver(R, ReplacedPlaces(Range(m), replaceAll), k, new)
<1> DEFINE M == Range(m)
           P == ReplacedPlaces(M, replaceAll)
           n == Len(m)
<1>1. /\ Len(R) = HowMany(n, replaceAll)
      /\ \A i \in 1..Len(R) : R[i].start = m[i] /\ R[i].old = k /\ R[i].new = Len(new)
  BY DEF AreReplacements
<1>2. n \in Nat /\ M = {m[i] : i \in 1..n} /\ (\A i \in 1..n : m[i] \in Nat)
      /\ \A i, j \in 1..n : i < j => m[i] < m[j]
  <2>1. m \in Seq(Nat)
    BY DEF AreRising
  <2>2. n \in Nat /\ DOMAIN m = 1..n /\ \A i \in 1..n : m[i] \in Nat
    BY <2>1
  <2>3. M = {m[i] : i \in 1..n}
    BY <2>2 DEF Range
  <2>4. \A i, j \in 1..n : i < j => m[i] < m[j]
    BY DEF AreRising
  <2> QED BY <2>2, <2>3, <2>4
<1> HIDE DEF M
<1>3. CASE replaceAll \/ n = 0
  <2>1. Len(R) = n
    BY <1>1, <1>3 DEF HowMany
  <2>2. P = M
    <3>1. n = 0 => M = {}
      BY <1>2
    <3> QED BY <1>3, <3>1 DEF ReplacedPlaces
  <2> HIDE DEF P, n
  <2>3. P = {R[i].start : i \in 1..Len(R)}
    BY <1>1, <1>2, <2>1, <2>2
  <2> QED BY <1>1, <2>3 DEF IsOver, P, M
<1>4. CASE ~replaceAll /\ n # 0
  <2>1. Len(R) = 1
    BY <1>1, <1>4 DEF HowMany
  <2>2. 1 \in 1..n
    BY <1>2, <1>4
  <2> DEFINE p == m[1]
  <2>3. p \in M /\ \A x \in M : p <= x
    <3>1. p \in M
      BY <1>2, <2>2
    <3>2. ASSUME NEW x \in M PROVE p <= x
      <4>1. PICK i \in 1..n : x = m[i]
        BY <1>2
      <4>2. i = 1 \/ 1 < i
        BY <1>2
      <4>3. i = 1 \/ m[1] < m[i]
        BY <1>2, <2>2, <4>2
      <4>4. m[i] \in Nat /\ p \in Nat
        BY <1>2, <2>2
      <4> QED BY <4>1, <4>3, <4>4
    <3> QED BY <3>1, <3>2
  <2>4. Styled!Min(M) = p
    <3>1. M \subseteq Nat
      BY <1>2
    <3> HIDE DEF p
    <3>2. ASSUME NEW y \in M, \A x \in M : y <= x PROVE y = p
      <4>1. y <= p /\ p <= y /\ y \in Nat /\ p \in Nat
        BY <2>3, <3>1, <3>2
      <4> QED BY <4>1
    <3>3. (CHOOSE y \in M : \A x \in M : y =< x) = p
      BY <2>3, <3>2
    <3> QED BY <3>3 DEF Styled!Min
  <2>5. P = {p}
    <3>1. M # {}
      BY <2>3
    <3> HIDE DEF p
    <3> QED BY <1>4, <2>4, <3>1 DEF ReplacedPlaces
  <2>6. R[1].start = p
    BY <1>1, <2>1
  <2> HIDE DEF P, p, n
  <2>7. P = {R[i].start : i \in 1..Len(R)}
    <3>1. \A i \in 1..Len(R) : i = 1
      BY <2>1
    <3>2. 1 \in 1..Len(R)
      BY <2>1
    <3> QED BY <2>5, <2>6, <3>1, <3>2
  <2> QED BY <1>1, <2>7 DEF IsOver, P, M
<1> QED BY <1>3, <1>4

\* A layer that stays as it is shows the same.
LEMMA CellsStay ==
  ASSUME TextInv, TextInv', UNCHANGED <<text, style, para, fontSet>>
  PROVE  Cells' = Cells
<1>1. plain' = plain /\ literal' = literal /\ style' = style /\ para' = para /\ fontSet' = fontSet
  BY DEF text
<1>2. Cells = CellsFrom(Len(plain) + 1, literal, Spread(style), fontSet, Spread(para))
  BY CellsShown
<1>3. Cells' = CellsFrom(Len(plain') + 1, literal', Spread(style'), fontSet', Spread(para'))
  BY CellsShownThen
<1> QED BY <1>1, <1>2, <1>3

\* replace_text.
LEMMA ReplaceTextShows ==
  ASSUME TextInv, TextInv', NEW old \in Needles, NEW new \in News, NEW all \in BOOLEAN,
         ReplaceText(old, new, all)
  PROVE  Styled!ReplaceText(old, new, all)
<1> DEFINE n == Len(plain)
           k == Len(old)
           R == Replacements(plain, old, new, all)
           m == FindAll(plain, old)
           P == ReplacedPlaces(Range(m), all)
           d == Cells'
<1>1. lastCall' = <<"replace_text", old, new, all>>
  BY DEF ReplaceText
<1>2. old \in Seq(Written) /\ k \in Nat /\ new \in Seq(Written) /\ Len(new) \in Nat
  BY ClientTexts
<1>3. k # 0
  <2>1. old # <<>>
    BY TextLayerAssumption
  <2> QED BY <1>2, <2>1
<1>4. n \in Nat
  BY LayerSeen DEF TextInv
<1>5. IsEdit(R, n) /\ (\A i \in 1..Len(R) : R[i].new = Len(new))
  BY <1>2, <1>3, <1>4, ReplacementsAreAnEdit
<1> HIDE DEF m, R
<1>6. AreReplacements(R, m, k, Len(new), all)
  BY <1>2, <1>4, ReplacementsAre DEF m, R
<1>7. AreRising(m)
  <2>1. /\ m \in Seq(Nat) /\ \A i \in 1..Len(m) : m[i] \in Nat
        /\ \A i, j \in 1..Len(m) : i < j => m[i] + k <= m[j]
    BY <1>2, <1>3, <1>4, FoundPlaces DEF m
  <2>2. ASSUME NEW i \in 1..Len(m), NEW j \in 1..Len(m), i < j PROVE m[i] < m[j]
    <3>1. m[i] \in Nat /\ m[j] \in Nat /\ m[i] + k <= m[j]
      BY <2>1, <2>2
    <3> QED BY <1>2, <1>3, <3>1
  <2> QED BY <2>1, <2>2 DEF AreRising
<1>8. IsOver(R, P, k, new)
  BY <1>6, <1>7, ReplacedAreOver
<1>9. HasReplaced(d, Cells, R, n, new)
  <2>1. CASE R = <<>>
    <3>1. UNCHANGED <<text, style, para, fontSet>>
      BY <2>1 DEF ReplaceText, R
    <3>2. d = Cells
      BY <3>1, CellsStay
    <3>3. HasReplaced(Cells, Cells, <<>>, n, new)
      BY NothingIsReplaced
    <3> HIDE DEF d
    <3> QED BY <2>1, <3>2, <3>3
  <2>2. CASE R # <<>>
    <3> DEFINE t == ReplacedText(plain, R, new)
    <3>1. ApplyTextMutation(t, R)
      BY <2>2 DEF ReplaceText, R
    <3> HIDE DEF t
    <3>2. t = ReplacedText(plain, R, new)
      BY DEF t
    <3> QED BY <1>2, <1>5, <3>1, <3>2, TextIsReplaced
  <2> QED BY <2>1, <2>2
<1>10. d \in Seq(Range(d))
  <2> DEFINE x == Len(plain') + 1
  <2>1. d = CellsFrom(x, literal', Spread(style'), fontSet', Spread(para'))
    BY CellsShownThen
  <2>2. x \in Nat
    BY DEF TextInv, TextIsOrdinary
  <2> HIDE DEF x, d
  <2> QED BY <2>1, <2>2, CellsAreSeq
<1> HIDE DEF d, P
<1>11. d = Styled!Spliced(P, k, new) \o Styled!Closing
  BY <1>2, <1>5, <1>8, <1>9, <1>10, TextIsSpliced
<1>12. Styled!Matches(Styled!Units(Styled!Body), old) = Range(m)
  <2>1. Styled!Matches(plain, old) = Range(m)
    BY <1>2, <1>3, <1>4, MatchesAreFound DEF m
  <2> QED BY <2>1, UnitsAre
<1>13. P = LET M == Styled!Matches(Styled!Units(Styled!Body), old)
           IN  IF all \/ M = {} THEN M ELSE {Styled!Min(M)}
  BY <1>12 DEF P, ReplacedPlaces
<1> QED BY <1>1, <1>11, <1>13 DEF Styled!ReplaceText, d

\* The layer that was created or read shows cells.
LEMMA FirstCells == CarefulTextInit => Styled!Init
<1> SUFFICES ASSUME CarefulTextInit PROVE Styled!Init
  OBVIOUS
<1>1. TextInv
  BY TextInitHolds
<1>2. lastCall = <<"none">>
  BY DEF CarefulTextInit, TextInit
<1>3. ASSUME NEW k \in DOMAIN Cells PROVE DOMAIN Cells[k] = {"unit", "font", "para"}
  <2>1. k \in 1..Len(plain) + 1
    <3> DEFINE c == Cells
               n == Len(plain) + 1
    <3> HIDE DEF c, n
    <3>1. DOMAIN c = 1..n
      BY <1>1, LayerCells DEF c, n
    <3> QED BY <3>1 DEF c, n
  <2>2. Cells[k] = [unit |-> literal[k], font |-> fontSet[Spread(style)[k]],
                    para |-> Spread(para)[k]]
    BY <1>1, <2>1, CellsShown DEF CellsFrom
  <2> QED BY <2>2
<1> QED BY <1>2, <1>3 DEF Styled!Init

\* The text calls show.
LEMMA TextCallShows ==
  ASSUME TextInv, TextInv', TextCall
  PROVE  Styled!Next
<1>1. ASSUME NEW t \in Texts, SetText(t) \/ SetTextEqualLength(t) PROVE Styled!Next
  <2>1. SetText(t)
    BY <1>1 DEF SetTextEqualLength
  <2>2. Styled!SetText(t)
    BY <2>1, SetTextShows
  <2> QED BY <2>2 DEF Styled!Next
<1>2. ASSUME NEW old \in Needles, NEW new \in News, NEW all \in BOOLEAN,
             ReplaceText(old, new, all) \/ ReplaceTextEqualLength(old, new, all)
      PROVE  Styled!Next
  <2>1. ReplaceText(old, new, all)
    BY <1>2 DEF ReplaceTextEqualLength
  <2>2. Styled!ReplaceText(old, new, all)
    BY <2>1, ReplaceTextShows
  <2> QED BY <2>2 DEF Styled!Next
<1> QED BY <1>1, <1>2 DEF TextCall

\* Calls that show nowhere.
LEMMA InvisibleIsNext == Styled!Invisible => Styled!Next
BY DEF Styled!Next

\* Calls for one run.
LEMMA SetRunIsNext ==
  ASSUME NEW field, NEW v,
         (field = "font" /\ v \in Fonts) \/ (field = "para" /\ v \in Paras),
         \E start, end \in 0..MaxText + 1 : Styled!SetRun(start, end, field, v)
  PROVE  Styled!Next
<1>1. PICK start \in 0..MaxText + 1, end \in 0..MaxText + 1 : Styled!SetRun(start, end, field, v)
  OBVIOUS
<1>2. lastCall'[1] = "set_run"
  BY <1>1 DEF Styled!SetRun
<1>3. CASE field = "font" /\ v \in Fonts
  <2>1. \E f \in Fonts : Styled!SetRun(start, end, "font", f)
    BY <1>1, <1>3
  <2> QED BY <1>2, <2>1 DEF Styled!Next
<1>4. CASE field = "para" /\ v \in Paras
  <2>1. \E x \in Paras : Styled!SetRun(start, end, "para", x)
    BY <1>1, <1>4
  <2> QED BY <1>2, <2>1 DEF Styled!Next
<1> QED BY <1>3, <1>4

\* The style calls show.
LEMMA StyleCallShows ==
  ASSUME TextInv, TextInv', StyleCall, Within'
  PROVE  Styled!Next
<1>1. ASSUME NEW f \in Fonts, AddFont(f) PROVE Styled!Next
  BY <1>1, AddFontShows, InvisibleIsNext
<1>2. ASSUME NEW f \in Fonts, SetFont(f) PROVE Styled!Next
  <2>1. Styled!SetFont(f)
    BY <1>2, SetFontShows
  <2> QED BY <2>1 DEF Styled!Next
<1>3. ASSUME NEW f \in Fonts, NEW i \in DOMAIN fontSet, SetFontPostscriptName(i, f)
      PROVE  Styled!Next
  <2>1. \E old \in Fonts : Styled!Rename(old, f)
    BY <1>3, RenameShows
  <2> QED BY <2>1 DEF Styled!Next
<1>4. ASSUME NEW r \in DOMAIN style.lengths, NEW offset \in 1..style.lengths[r],
             SplitStyleRun(r, offset)
      PROVE  Styled!Next
  BY <1>4, SplitStyleRunShows, InvisibleIsNext
<1>5. ASSUME NEW r \in DOMAIN para.lengths, NEW offset \in 1..para.lengths[r],
             SplitParagraphRun(r, offset)
      PROVE  Styled!Next
  BY <1>5, SplitParagraphRunShows, InvisibleIsNext
<1>6. ASSUME NEW r \in DOMAIN style.lengths, NEW i \in DOMAIN fontSet, SetStyleRunFont(r, i)
      PROVE  Styled!Next
  <2>1. PICK f \in Fonts : \E start, end \in 0..MaxText + 1 : Styled!SetRun(start, end, "font", f)
    BY <1>6, SetStyleRunFontShows
  <2> QED BY <2>1, SetRunIsNext
<1>7. ASSUME NEW r \in DOMAIN style.lengths, NEW f \in Fonts, SetStyleRunFontByName(r, f)
      PROVE  Styled!Next
  <2>1. \E start, end \in 0..MaxText + 1 : Styled!SetRun(start, end, "font", f)
    BY <1>7, SetStyleRunFontByNameShows
  <2> QED BY <2>1, SetRunIsNext
<1>8. ASSUME NEW r \in DOMAIN para.lengths, NEW v \in Paras, SetParagraphRunJustification(r, v)
      PROVE  Styled!Next
  <2>1. \E start, end \in 0..MaxText + 1 : Styled!SetRun(start, end, "para", v)
    BY <1>8, SetParagraphRunShows
  <2> QED BY <2>1, SetRunIsNext
<1>9. ASSUME NEW proxy \in Proxies, NEW f \in Fonts, StyleRangeSetFont(proxy, f) PROVE Styled!Next
  <2>1. Styled!Style(proxy, f) /\ proxy \in Styled!Proxies
    BY <1>9, StyleRangeShows, ProxyShows
  <2>2. lastCall'[1] = "style"
    BY <2>1 DEF Styled!Style
  <2> QED BY <2>1, <2>2 DEF Styled!Next
<1>10. ASSUME NEW proxy \in Proxies, NEW v \in Paras, ParagraphRangeSetJustification(proxy, v)
       PROVE  Styled!Next
  <2>1. (Styled!Paragraph(proxy, v) \/ Styled!ParagraphThrew(proxy, v)) /\ proxy \in Styled!Proxies
    BY <1>10, ParagraphRangeShows, ProxyShows
  <2>2. lastCall'[1] \in {"style", "paragraph", "paragraph_threw"}
    BY <2>1 DEF Styled!Paragraph, Styled!ParagraphThrew
  <2> QED BY <2>1, <2>2 DEF Styled!Next
<1> QED BY <1>1, <1>2, <1>3, <1>4, <1>5, <1>6, <1>7, <1>8, <1>9, <1>10 DEF StyleCall

\* Every step shows, or changes nothing that shows.
LEMMA TextStepShows ==
  ASSUME TextInv, TextInv', [CarefulTextNext]_textVars
  PROVE  [Styled!Next]_(Styled!vars)
<1>1. CASE UNCHANGED textVars
  <2>1. UNCHANGED <<text, style, para, fontSet>> /\ lastCall' = lastCall
    BY <1>1 DEF textVars, text
  <2>2. Cells' = Cells
    BY <2>1, CellsStay
  <2> QED BY <2>1, <2>2 DEF Styled!vars
<1>2. CASE CarefulTextNext
  BY <1>2, TextCallShows, StyleCallShows DEF CarefulTextNext, TextNext
<1> QED BY <1>1, <1>2

\* For a client that leaves no text empty and uses no text with a parenthesis,
\* the runs implement a text whose units carry their own styles: new units have
\* the style of those they replace and no other unit changes, a style call
\* changes its ranges and nothing else, splitting shows nowhere.
THEOREM RunsAreAStyledText == CarefulTextSpec => ImplementsStyledText
<1>1. CarefulTextInit => Styled!Init
  BY FirstCells
<1>2. TextInv /\ TextInv' /\ [CarefulTextNext]_textVars => [Styled!Next]_(Styled!vars)
  BY TextStepShows
<1> QED BY <1>1, <1>2, TextInvHolds, PTL DEF CarefulTextSpec, ImplementsStyledText, Styled!Spec
=============================================================================
