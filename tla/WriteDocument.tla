---------------------------- MODULE WriteDocument ----------------------------
(***************************************************************************)
(* PhotoshopFile::write.  One thread writes the sections in order; inside  *)
(* the layer info section the layers are compressed in parallel, one task  *)
(* per layer, before their records and their data are written.  8-bit      *)
(* documents have their layers in the layer info section; 16- and 32-bit   *)
(* documents (deep) have an empty one and a tagged block (Lr16, Lr32) with *)
(* the layers behind the global mask info.                                 *)
(*                                                                         *)
(* The channels of a layer are one piece of data; its compressed length is *)
(* all the format depends on.                                              *)
(***************************************************************************)
EXTENDS ProgressCallback, DocumentStream, FiniteSets

CONSTANTS
  LayerCounts,     \* the numbers of layer records a document may have
  Widths,          \* bytes of a length marker: 4 in PSD, 8 in PSB
  Lengths,         \* the lengths compressed data may come to
  OtherBlocks,     \* lengths of the other tagged blocks, 0 for none
  Callbacks        \* the <<count, max>> a callback may come with

ASSUME WriteDocumentAssumption ==
  /\ LayerCounts \subseteq Nat
  /\ Widths \subseteq {4, 8}
  /\ Lengths \subseteq Nat
  /\ OtherBlocks \subseteq Nat
  /\ Callbacks \subseteq Nat \X (Nat \ {0})

VARIABLES
  pc,              \* what the writing thread does next
  n,               \* the number of layer records
  deep,            \* 16 or 32 bits per channel
  width,           \* bytes of a length marker
  blocks,          \* length of the tagged blocks other than Lr16 and Lr32
  doc,             \* the stream
  sectionMark,     \* offset of the length marker of the section
  infoMark,        \* offset of the length marker of the layer info
  task,            \* the parallel task of each layer
  data,            \* compressedData, by layer
  infos,           \* channelInfos, by layer: the size a record states
  next             \* index of the sequential loop

document == <<n, deep, width, blocks>>
progress == <<count, max>>
stream   == <<doc, sectionMark, infoMark>>
layers   == <<task, data, infos, next>>
vars     == <<pc, document, progress, stream, layers>>

Phases == {"reset", "header", "section", "info", "compress", "records", "data",
           "patch_info", "mask", "blocks", "patch_section", "image", "last",
           "done", "failed"}
TaskStates == {"waiting", "compressed", "counted"}

Indices == 1..n

WriteTypeOK ==
  /\ pc \in Phases
  /\ n \in LayerCounts
  /\ deep \in BOOLEAN
  /\ width \in Widths
  /\ blocks \in OtherBlocks
  /\ count \in Nat
  /\ max \in Nat \ {0}
  /\ task \in [Indices -> TaskStates]
  /\ data \in [Indices -> Lengths \cup {0}]
  /\ infos \in [Indices -> Nat]
  /\ next \in 1..(n + 1)

\* Lengths of the parts whose content does not matter here.  The front is the
\* header, of which only the version counts, color mode data and resources.
FrontLength     == 34
RecordLength    == 36 + width
MaskLength      == 4
SignatureAndKey == 8
ImageLength     == 2

Init ==
  /\ pc = "reset"
  /\ n \in LayerCounts
  /\ deep \in BOOLEAN
  /\ width \in Widths
  /\ blocks \in OtherBlocks
  /\ \E c \in Callbacks : count = c[1] /\ max = c[2]
  /\ doc = EmptyDocument
  /\ sectionMark = 0
  /\ infoMark = 0
  /\ task = [k \in Indices |-> "waiting"]
  /\ data = [k \in Indices |-> 0]
  /\ infos = [k \in Indices |-> 0]
  /\ next = 1

Goto(from, to) == pc = from /\ pc' = to

\* Slip: the count of an earlier operation is kept.
ResetNothing ==
  /\ Goto("reset", "header")
  /\ UNCHANGED <<document, progress, stream, layers>>

Reset ==
  /\ Goto("reset", "header")
  /\ ResetCount
  /\ UNCHANGED <<document, stream, layers>>

WriteFront ==
  /\ Goto("header", "section")
  /\ doc' = Put(doc, "front", width, FrontLength)
  /\ UNCHANGED <<document, progress, sectionMark, infoMark, layers>>

-----------------------------------------------------------------------------
(* LayerAndMaskInformation::write                                          *)

\* A deep document has an empty layer info section, then the global mask
\* info and the signature and key of the tagged block, and only then a layer
\* info with the layers.
BeginSection ==
  LET marked == Put(doc, "length", 0, width)
      tagged == Put(Put(Put(marked, "length", 0, width), "mask", 0, MaskLength),
                    "key", 0, SignatureAndKey)
  IN  /\ Goto("section", "info")
      /\ sectionMark' = doc.offset
      /\ doc' = IF deep THEN tagged ELSE marked
      /\ UNCHANGED <<document, progress, infoMark, layers>>

WriteMask ==
  /\ Goto("mask", "blocks")
  /\ doc' = Put(doc, "mask", 0, MaskLength)
  /\ UNCHANGED <<document, progress, sectionMark, infoMark, layers>>

WriteBlocks ==
  /\ Goto("blocks", "patch_section")
  /\ doc' = IF blocks = 0 THEN doc ELSE Put(doc, "block", 0, blocks)
  /\ UNCHANGED <<document, progress, sectionMark, infoMark, layers>>

\* Slip: the length counts its own marker.
PatchSectionWithMarker ==
  LET size    == doc.offset - sectionMark
      rounded == RoundUpToMultiple(size, 4)
  IN  /\ Goto("patch_section", "image")
      /\ doc' = Patch(doc, sectionMark, width, rounded, rounded - size)
      /\ UNCHANGED <<document, progress, sectionMark, infoMark, layers>>

PatchSection ==
  LET size    == (doc.offset - sectionMark) - width
      rounded == RoundUpToMultiple(size, 4)
  IN  /\ Goto("patch_section", "image")
      /\ doc' = Patch(doc, sectionMark, width, rounded, rounded - size)
      /\ UNCHANGED <<document, progress, sectionMark, infoMark, layers>>

-----------------------------------------------------------------------------
(* LayerInfo::write                                                        *)

\* Without layers a deep document has an empty marker, as if this were the
\* layer info section.
EmptyLayerInfo ==
  /\ n = 0
  /\ deep
  /\ Goto("info", "blocks")
  /\ doc' = Put(doc, "length", 0, width)
  /\ UNCHANGED <<document, progress, sectionMark, infoMark, layers>>

\* "Photoshop files must contain at least one layer"
RefuseNoLayers ==
  /\ n = 0
  /\ ~deep
  /\ Goto("info", "failed")
  /\ UNCHANGED <<document, progress, stream, layers>>

\* Slip: the merged image is left out of the maximum.
BeginLayerInfoWithoutImage ==
  /\ n # 0
  /\ Goto("info", "compress")
  /\ SetMax(2 * n)
  /\ infoMark' = doc.offset
  /\ doc' = Put(Put(doc, "length", 0, width), "count", n, 2)
  /\ UNCHANGED <<document, sectionMark, layers>>

BeginLayerInfo ==
  /\ n # 0
  /\ Goto("info", "compress")
  /\ SetMax(2 * n + 1)
  /\ infoMark' = doc.offset
  /\ doc' = Put(Put(doc, "length", 0, width), "count", n, 2)
  /\ UNCHANGED <<document, sectionMark, layers>>

\* The body of the parallel loop for layer k, up to the increment.
Compress(k) ==
  /\ pc = "compress"
  /\ task[k] = "waiting"
  /\ \E len \in Lengths :
       /\ data' = [data EXCEPT ![k] = len]
       /\ infos' = [infos EXCEPT ![k] = len + 2]
  /\ task' = [task EXCEPT ![k] = "compressed"]
  /\ UNCHANGED <<pc, document, progress, stream, next>>

CountCompressed(k) ==
  /\ pc = "compress"
  /\ task[k] = "compressed"
  /\ Increment
  /\ task' = [task EXCEPT ![k] = "counted"]
  /\ UNCHANGED <<pc, document, stream, data, infos, next>>

Task(k) == Compress(k) \/ CountCompressed(k)

\* Slip: each of the two loops counts from 0.
JoinResetting ==
  /\ \A k \in Indices : task[k] = "counted"
  /\ Goto("compress", "records")
  /\ ResetCount
  /\ next' = 1
  /\ UNCHANGED <<document, stream, task, data, infos>>

\* Slip: waits for tasks that have not counted themselves yet.
JoinOnCompressed ==
  /\ \A k \in Indices : task[k] = "compressed"
  /\ Goto("compress", "records")
  /\ next' = 1
  /\ UNCHANGED <<document, progress, stream, task, data, infos>>

Join ==
  /\ \A k \in Indices : task[k] = "counted"
  /\ Goto("compress", "records")
  /\ next' = 1
  /\ UNCHANGED <<document, progress, stream, task, data, infos>>

\* LayerRecord::write with the size of the layer's data.
WriteRecord ==
  /\ pc = "records"
  /\ next <= n
  /\ doc' = Put(doc, "record", [layer |-> next, size |-> infos[next]], RecordLength)
  /\ next' = next + 1
  /\ UNCHANGED <<pc, document, progress, sectionMark, infoMark, task, data, infos>>

EndRecords ==
  /\ next > n
  /\ Goto("records", "data")
  /\ next' = 1
  /\ UNCHANGED <<document, progress, stream, task, data, infos>>

\* ChannelImageData::write: a compression marker of 2 bytes and the data.
WriteData ==
  /\ pc = "data"
  /\ next <= n
  /\ doc' = Put(doc, "data", next, 2 + data[next])
  /\ Increment
  /\ next' = next + 1
  /\ UNCHANGED <<pc, document, sectionMark, infoMark, task, data, infos>>

EndData ==
  /\ next > n
  /\ Goto("data", "patch_info")
  /\ UNCHANGED <<document, progress, stream, layers>>

PatchLayerInfo ==
  LET size    == doc.offset - infoMark
      rounded == RoundUpToMultiple(size, 4)
  IN  /\ Goto("patch_info", IF deep THEN "blocks" ELSE "mask")
      /\ doc' = Patch(doc, infoMark, width, rounded - width, rounded - size)
      /\ UNCHANGED <<document, progress, sectionMark, infoMark, layers>>

-----------------------------------------------------------------------------
(* ImageData::write and the last increment                                 *)

WriteImage ==
  /\ Goto("image", "last")
  /\ doc' = Put(doc, "image", 0, ImageLength)
  /\ UNCHANGED <<document, progress, sectionMark, infoMark, layers>>

\* A merged image that does not fit the document is noticed only here, after
\* the compression marker was written.
RefuseImage ==
  /\ Goto("image", "failed")
  /\ doc' = Put(doc, "marker", 0, 2)
  /\ UNCHANGED <<document, progress, sectionMark, infoMark, layers>>

CountImage ==
  /\ Goto("last", "done")
  /\ Increment
  /\ UNCHANGED <<document, stream, layers>>

Writer ==
  \/ Reset \/ WriteFront
  \/ BeginSection \/ WriteMask \/ WriteBlocks \/ PatchSection
  \/ EmptyLayerInfo \/ RefuseNoLayers \/ BeginLayerInfo
  \/ Join \/ WriteRecord \/ EndRecords \/ WriteData \/ EndData \/ PatchLayerInfo
  \/ WriteImage \/ RefuseImage \/ CountImage

Next == Writer \/ \E k \in Indices : Task(k)

Spec == Init /\ [][Next]_vars

MaxLayers == CHOOSE m \in LayerCounts : \A c \in LayerCounts : c <= m

\* The writing thread runs, and the loop runs every task it has started.
FairSpec ==
  /\ Spec
  /\ WF_vars(Writer)
  /\ \A k \in 1..MaxLayers : WF_vars(k \in Indices /\ Task(k))

-----------------------------------------------------------------------------
(* What a write keeps.                                                     *)

Written == pc \in {"last", "done"}

\* Where the count stands in every phase: the layers counted by the parallel
\* loop, then one more for every layer whose data was written, then the merged
\* image; and the maximum it is held against.  This is what makes the two
\* properties below true, and it is inductive.
Counted     == {k \in Indices : task[k] = "counted"}
BeforeInfo  == {"header", "section", "info"}
Sequential  == {"patch_info", "mask", "blocks", "patch_section", "image", "last"}
WithLayers  == {"compress", "records", "data", "patch_info"}

ProgressAccounting ==
  /\ pc \in BeforeInfo => count = 0
  /\ pc \in BeforeInfo \cup {"reset"} => Counted = {}
  /\ pc = "compress" => count = Cardinality(Counted)
  /\ pc = "records" => count = n
  /\ pc = "data" => count = n + (next - 1)
  /\ pc \in Sequential => count = 2 * n
  /\ pc = "failed" => count < max
  /\ pc = "done" /\ n # 0 => count = max
  /\ pc \in WithLayers => n # 0
  /\ n # 0 /\ pc \in WithLayers \cup Sequential => max = 2 * n + 1

\* Once the callback was reset it says complete only when everything was
\* written, the merged image last: no stale maximum of an earlier operation,
\* and no order of the parallel increments, makes it complete before.
CompleteMeansWritten == (pc # "reset" /\ IsComplete) => Written

\* A write that returns leaves the callback complete: every increment of the
\* parallel loop and of the sequential one was counted once, and none was
\* refused (~ProgressCallback warns otherwise).
DoneMeansComplete == (pc = "done" /\ n # 0) => IsComplete

\* Progress never goes back while the layers are written.
ProgressOnlyGrows ==
  [][pc \notin {"reset", "info"} => count' >= count /\ max' = max]_vars

\* The length markers of a written document lead from section to section:
\* from the section's marker to the image data, from the layer info's to what
\* follows it, and every length is a multiple of 4 where padding is due.
MarkersDelimitSections ==
  (pc = "done" /\ n # 0) =>
    LET after(mark) == mark + width + doc.blocks[mark].val
        behindInfo  == IF ~deep THEN "mask" ELSE IF blocks # 0 THEN "block" ELSE "image"
    IN  /\ HasBlock(doc.blocks, after(sectionMark), "image")
        /\ HasBlock(doc.blocks, after(infoMark), behindInfo)
        /\ doc.blocks[sectionMark].val % 4 = 0
        /\ (width + doc.blocks[infoMark].val) % 4 = 0

\* Every write comes to an end.
WriteEnds == <>(pc \in {"done", "failed"})

-----------------------------------------------------------------------------
(* What the code says of itself.                                           *)

\* "Photoshop files must contain at least one layer" (LayerInfo::write): no
\* document without layers is written.
DocumentsHaveLayers == pc = "done" => n # 0
=============================================================================
