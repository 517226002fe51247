---------------------------- MODULE SmartObjects ----------------------------
(***************************************************************************)
(* Smart object layers and the linked images they share.                   *)
(*                                                                         *)
(* A LayeredFile keeps one LinkedLayers store, from hashes to images.  A   *)
(* SmartObjectLayer holds the hash of its image and a lazily evaluated     *)
(* copy of it, warped and scaled, one entry per channel (m_ImageData) with *)
(* a flag that says which entries are up to date (m_Cache).  Writing the   *)
(* file first forgets the images no layer of the document uses, then       *)
(* evaluates every layer; reading it again gives new layers and a store    *)
(* whose images have the paths the reader derives for them.                *)
(*                                                                         *)
(* Pixels are left out.  An evaluated channel is fresh while it shows the  *)
(* layer's present image under the layer's present warp.                   *)
(***************************************************************************)
EXTENDS Naturals, FiniteSets, Functions

CONSTANTS
  Layers,       \* the smart object layers of the client
  Hashes,       \* bounds the number of images in the store
  Paths,        \* the paths a client passes
  Absolute,     \* the file each path names, as an absolute path
  ReadPath,     \* where the reader places an embedded image of a given path
  ChannelsOf,   \* the channels of the image in each file
  Alpha,        \* the alpha channel, evaluated for every image
  Codecs,       \* the compression codecs
  DefaultCodec, \* ZipPrediction, the codec of a newly evaluated channel
  NoFile        \* there is no file to read

ASSUME SmartObjectsAssumption ==
  /\ IsFiniteSet(Layers) /\ IsFiniteSet(Hashes)
  /\ Absolute \in [Paths -> Paths]
  /\ \A p \in Paths : Absolute[Absolute[p]] = Absolute[p]
  /\ ReadPath \in [Paths -> Paths]
  /\ DOMAIN ChannelsOf = {Absolute[p] : p \in Paths}
  /\ DefaultCodec \in Codecs

VARIABLES
  store,        \* LinkedLayers: hash -> [path, image, type]
  layer,        \* the layers that exist -> [hash, image, valid]
  document,     \* the layers that are in the document
  asked,        \* layer -> the codec last asked of set_write_compression
  file,         \* the file on disk, from write until it is read
  session       \* the LayeredFile: made in memory, consumed by write, or read

vars == <<store, layer, document, asked, file, session>>

Open == session # "written"

LinkedLayerType == {"data", "external"}
Files    == DOMAIN ChannelsOf
Channels == {Alpha} \cup UNION Range(ChannelsOf)

\* An entry of a map is added or replaced.
With(f, key, value) ==
  [k \in DOMAIN f \cup {key} |-> IF k = key THEN value ELSE f[k]]

IsMap(f, D, R) == DOMAIN f \subseteq D /\ f \in [DOMAIN f -> R]

LinkedLayerData == [path : Paths, image : Files, type : LinkedLayerType]
Evaluated       == [fresh : BOOLEAN, codec : Codecs]

IsLayer(s) ==
  /\ s = [hash |-> s.hash, image |-> s.image, valid |-> s.valid]
  /\ s.hash \in Hashes
  /\ IsMap(s.image, Channels, Evaluated)
  /\ s.valid \subseteq Channels

SmartObjectsTypeOK ==
  /\ IsMap(store, Hashes, LinkedLayerData)
  /\ DOMAIN layer \subseteq Layers
  /\ layer = [l \in DOMAIN layer |-> layer[l]]
  /\ \A l \in DOMAIN layer : IsLayer(layer[l])
  /\ document \subseteq DOMAIN layer
  /\ asked \in [DOMAIN layer -> Codecs]
  /\ session \in {"new", "written", "read"}
  /\ file # NoFile =>
       /\ IsMap(file.links, Hashes, LinkedLayerData)
       /\ DOMAIN file.layers \subseteq Layers
       /\ \A l \in DOMAIN file.layers : IsMap(file.layers[l].image, Channels, Evaluated)

-----------------------------------------------------------------------------
(* The store.                                                              *)

\* Slip: external images are not searched.
EmbeddedHashesOf(path) ==
  {h \in DOMAIN store : store[h].path = path /\ store[h].type = "data"}

\* insert(path, type): the entry of that path, which keeps its type, or a new
\* one under a new hash.  When several entries have the path the last one in
\* the order of an unordered_map wins, so any of them may.
HashesOf(path) == {h \in DOMAIN store : store[h].path = path}

Loaded(path, type) == [path |-> path, image |-> Absolute[path], type |-> type]

\* Slip: the new hash may be in use.
InsertUnderAnyHash(path, type, h) ==
  \/ /\ h \in HashesOf(path)
     /\ UNCHANGED store
  \/ /\ HashesOf(path) = {}
     /\ store' = With(store, h, Loaded(path, type))

Insert(path, type, h) ==
  \/ /\ h \in HashesOf(path)
     /\ UNCHANGED store
  \/ /\ HashesOf(path) = {}
     /\ DOMAIN store # Hashes
     /\ h = CHOOSE new \in Hashes : new \notin DOMAIN store
     /\ store' = With(store, h, Loaded(path, type))

\* clear_unused_linked_layers
UsedHashes == {layer[l].hash : l \in document}
\* Slip: the sets of the difference are swapped.
ClearedOfUsed == Restrict(store, DOMAIN store \ UsedHashes)

Cleared    == Restrict(store, DOMAIN store \cap UsedHashes)

-----------------------------------------------------------------------------
(* The evaluated channels of a layer s.                                    *)

\* A change of the image or of the warp.
Outdated(s) ==
  [s EXCEPT !.image = [c \in DOMAIN s.image |-> [s.image[c] EXCEPT !.fresh = FALSE]]]

\* Slip: the cached channels stay valid.
EvaluateTransformsOnly(s) == s

\* evaluate_transforms: forgets every cached channel.
EvaluateTransforms(s) == [s EXCEPT !.valid = {}]

\* evaluate_channel for every channel of C: a cached channel is returned as
\* it is, any other is computed and keeps the codec its entry had.
Evaluate(s, C) ==
  LET missing == C \ s.valid
      codec(c) == IF c \in DOMAIN s.image THEN s.image[c].codec ELSE DefaultCodec
  IN  [s EXCEPT !.valid = s.valid \cup C,
                !.image = [c \in DOMAIN s.image \cup missing |->
                             IF c \in missing
                             THEN [fresh |-> TRUE, codec |-> codec(c)]
                             ELSE s.image[c]]]

\* The channels that can be evaluated: those of the linked image, and alpha.
AvailableChannels(s) == {Alpha} \cup ChannelsOf[store[s.hash].image]

\* to_photoshop: evaluates, then takes every channel the layer holds.
ToPhotoshop(s) ==
  LET e == Evaluate(EvaluateTransforms(s), AvailableChannels(s))
  IN  [hash |-> e.hash, image |-> e.image]

-----------------------------------------------------------------------------
(* One action per call.                                                    *)

Init ==
  /\ store = <<>>
  /\ layer = <<>>
  /\ document = {}
  /\ asked = <<>>
  /\ file = NoFile
  /\ session = "new"

\* The constructor makes the path absolute before it looks for it.
Create(l, path, type) ==
  /\ Open /\ l \notin DOMAIN layer
  /\ \E h \in Hashes :
       /\ Insert(Absolute[path], type, h)
       /\ layer' = With(layer, l, [hash |-> h, image |-> <<>>, valid |-> {}])
  /\ asked' = With(asked, l, DefaultCodec)
  /\ UNCHANGED <<document, file, session>>

\* replace looks for the path as it was passed.
Replace(l, path, type) ==
  /\ Open /\ l \in DOMAIN layer
  /\ \E h \in Hashes :
       /\ Insert(path, type, h)
       /\ layer' = [layer EXCEPT ![l] =
                      EvaluateTransforms(Outdated([@ EXCEPT !.hash = h]))]
  /\ UNCHANGED <<document, asked, file, session>>

\* warp, move, rotate, scale, transform, the size and centre setters and both
\* resets: each changes the warp and ends in evaluate_transforms.
Transform(l) ==
  /\ Open /\ l \in DOMAIN layer
  /\ layer' = [layer EXCEPT ![l] = EvaluateTransforms(Outdated(@))]
  /\ UNCHANGED <<store, document, asked, file, session>>

\* get_channel and get_image_data.
GetChannels(l, C) ==
  /\ Open /\ l \in DOMAIN layer
  /\ C \subseteq AvailableChannels(layer[l])
  /\ layer' = [layer EXCEPT ![l] = Evaluate(@, C)]
  /\ UNCHANGED <<store, document, asked, file, session>>

GetChannel(l, c) == GetChannels(l, {c})
GetImageData(l)  == l \in DOMAIN layer /\ GetChannels(l, AvailableChannels(layer[l]))

\* The codec of the channels the layer holds at this moment.
SetWriteCompression(l, codec) ==
  /\ Open /\ l \in DOMAIN layer
  /\ layer' = [layer EXCEPT ![l].image =
                 [c \in DOMAIN @ |-> [@[c] EXCEPT !.codec = codec]]]
  /\ asked' = [asked EXCEPT ![l] = codec]
  /\ UNCHANGED <<store, document, file, session>>

\* set_linkage changes the shared image, for every layer that uses it.
SetLinkage(l, type) ==
  /\ Open /\ l \in DOMAIN layer
  /\ store' = [store EXCEPT ![layer[l].hash].type = type]
  /\ UNCHANGED <<layer, document, asked, file, session>>

AddToDocument(l) ==
  /\ Open /\ l \in DOMAIN layer \ document
  /\ document' = document \cup {l}
  /\ UNCHANGED <<store, layer, asked, file, session>>

RemoveFromDocument(l) ==
  /\ Open /\ l \in document
  /\ document' = document \ {l}
  /\ UNCHANGED <<store, layer, asked, file, session>>

\* LayeredFile::write consumes the document.
Write ==
  /\ Open
  /\ store' = Cleared
  /\ file' = [links |-> Cleared,
              layers |-> [l \in document |-> ToPhotoshop(layer[l])]]
  /\ session' = "written"
  /\ UNCHANGED <<layer, document, asked>>

\* LayeredFile::read: the store of the new document keeps the path of an
\* external image and places an embedded one beside the file.
Read ==
  /\ session = "written" /\ session' = "read"
  /\ file' = NoFile
  /\ store' = [h \in DOMAIN file.links |->
                 IF file.links[h].type = "data"
                 THEN [file.links[h] EXCEPT !.path = ReadPath[@]]
                 ELSE file.links[h]]
  /\ layer' = [l \in DOMAIN file.layers |->
                 [hash |-> file.layers[l].hash, image |-> <<>>, valid |-> {}]]
  /\ document' = DOMAIN file.layers
  /\ asked' = [l \in DOMAIN file.layers |-> DefaultCodec]

Next ==
  \/ \E l \in Layers, p \in Paths, t \in LinkedLayerType :
       Create(l, p, t) \/ Replace(l, p, t)
  \/ \E l \in Layers : Transform(l) \/ GetImageData(l)
  \/ \E l \in Layers, c \in Channels : GetChannel(l, c)
  \/ \E l \in Layers, codec \in Codecs : SetWriteCompression(l, codec)
  \/ \E l \in Layers, t \in LinkedLayerType : SetLinkage(l, t)
  \/ \E l \in Layers : AddToDocument(l) \/ RemoveFromDocument(l)
  \/ Write
  \/ Read

Spec == Init /\ [][Next]_vars

-----------------------------------------------------------------------------
(* What holds for every client.                                            *)

\* A channel whose flag says it is cached is there and shows the present
\* image under the present warp, whatever was replaced, transformed or
\* evaluated in between (m_Cache against m_ImageData).
CachedIsCurrent ==
  \A l \in DOMAIN layer : \A c \in layer[l].valid :
    c \in DOMAIN layer[l].image /\ layer[l].image[c].fresh

\* The written file holds exactly the images its layers use: each written
\* layer finds its image (at() does not throw in to_photoshop or after the
\* next read), and no image of a removed or replaced layer is left in the
\* file (clear_unused_linked_layers).
WrittenIsSelfContained ==
  file # NoFile =>
    DOMAIN file.links = {file.layers[l].hash : l \in DOMAIN file.layers}

\* Until a file has been read back every path is in the store once, whatever
\* linkage the layers asked for: layers that name the same path share one
\* image (insert).
PathsAreShared ==
  session = "new" =>
    \A h, i \in DOMAIN store : store[h].path = store[i].path => h = i

ImageOf(l) == store[layer[l].hash].image

\* A layer of the document keeps its image until that layer itself is
\* replaced: not a call on another layer that shares the image, nor clearing
\* the store, nor writing the document and reading it back changes it.
LayerKeepsItsImage ==
  [][\A l \in document \cap document' :
       \/ \E p \in Paths, t \in LinkedLayerType : Replace(l, p, t)
       \/ ImageOf(l)' = ImageOf(l)]_vars

-----------------------------------------------------------------------------
(* What the comments of the code say.                                      *)

\* "Evaluate transforms and image data to be sure these are up to date":
\* to_photoshop writes only up-to-date channels (SmartObjectLayer.h).
WrittenChannelsAreUpToDate ==
  file # NoFile =>
    \A l \in DOMAIN file.layers : \A c \in DOMAIN file.layers[l].image :
      file.layers[l].image[c].fresh

\* "change the compression codec across all layers and channels": what is
\* written has the codec the client asked for last (set_compression).
WrittenAsAsked ==
  file # NoFile =>
    \A l \in DOMAIN file.layers : \A c \in DOMAIN file.layers[l].image :
      file.layers[l].image[c].codec = asked[l]

\* "Replace the smart object with the given path": after replace the layer
\* shows the image of that file (SmartObjectLayer.h).
ReplaceShowsTheFile ==
  [][\A l \in Layers, p \in Paths, t \in LinkedLayerType :
       Replace(l, p, t) => ImageOf(l)' = Absolute[p]]_vars
=============================================================================
