------------------------ MODULE DocumentRoundTrip_proofs ------------------------
(***************************************************************************)
(* What TLAPS proves of a document that is written and read again, for     *)
(* every number of layers, every length their data is compressed to and    *)
(* every state a callback comes in.                                        *)
(*                                                                         *)
(* Of the write: the types, the progress accounting, that a callback says  *)
(* complete only when the document is written and always when the write    *)
(* has returned, and the layout of the file.  Of the read: the reader      *)
(* takes every part for what it is, and returns the layers that were       *)
(* written, in their order.                                                *)
(*                                                                         *)
(* The second half rests on the layout: the reader's offset is, in every   *)
(* phase, one that the layout has the expected part at, although the       *)
(* reader knows only what it has read.                                     *)
(***************************************************************************)
EXTENDS DocumentRoundTrip, FiniteSetTheorems, TLAPS

-----------------------------------------------------------------------------
(* Counting the layers.                                                    *)

\* A layer that was not counted makes the count one larger, and it still
\* does not exceed the number of layers.
LEMMA CountingOne ==
  ASSUME NEW m \in Nat, NEW S \in SUBSET (1..m), NEW k \in 1..m, k \notin S
  PROVE  /\ Cardinality(S) \in Nat
         /\ Cardinality(S \cup {k}) = Cardinality(S) + 1
         /\ Cardinality(S) + 1 <= m
<1>1. IsFiniteSet(1..m) /\ Cardinality(1..m) = m
  <2>1. CASE m = 0
    BY <2>1
  <2>2. CASE m # 0
    BY <2>2, FS_Interval, m \in Int, 1 \in Int
  <2> QED BY <2>1, <2>2
<1>2. IsFiniteSet(S)
  BY <1>1, FS_Subset
<1>3. Cardinality(S \cup {k}) = Cardinality(S) + 1
  BY <1>2, FS_AddElement
<1>4. Cardinality(S \cup {k}) <= Cardinality(1..m)
  <2>1. S \cup {k} \in SUBSET (1..m)
    OBVIOUS
  <2> QED BY <2>1, <1>1, FS_Subset
<1> QED BY <1>1, <1>2, <1>3, <1>4, FS_CardinalityType

\* All layers together are as many as there are.
LEMMA CountingAll ==
  ASSUME NEW m \in Nat
  PROVE  Cardinality(1..m) = m
BY FS_Interval, m \in Int, 1 \in Int

-----------------------------------------------------------------------------
(* Types.                                                                  *)

\* Every step keeps the types.
LEMMA TypeStep ==
  ASSUME WriteTypeOK, [Next]_vars
  PROVE  WriteTypeOK'
<1> USE WriteDocumentAssumption DEF WriteTypeOK, Phases, TaskStates, Indices, document,
        progress, stream, layers
<1>1. CASE Reset
  BY <1>1 DEF Reset, Goto, ResetCount
<1>2. CASE WriteFront
  BY <1>2 DEF WriteFront, Goto
<1>3. CASE BeginSection
  BY <1>3 DEF BeginSection, Goto
<1>4. CASE WriteMask
  BY <1>4 DEF WriteMask, Goto
<1>5. CASE WriteBlocks
  BY <1>5 DEF WriteBlocks, Goto
<1>6. CASE PatchSection
  BY <1>6 DEF PatchSection, Goto
<1>7. CASE EmptyLayerInfo
  BY <1>7 DEF EmptyLayerInfo, Goto
<1>8. CASE RefuseNoLayers
  BY <1>8 DEF RefuseNoLayers, Goto
<1>9. CASE BeginLayerInfo
  BY <1>9 DEF BeginLayerInfo, Goto, SetMax
<1>10. CASE Join
  BY <1>10 DEF Join, Goto
<1>11. CASE WriteRecord
  BY <1>11 DEF WriteRecord
<1>12. CASE EndRecords
  BY <1>12 DEF EndRecords, Goto
<1>13. CASE WriteData
  BY <1>13 DEF WriteData, Increment
<1>14. CASE EndData
  BY <1>14 DEF EndData, Goto
<1>15. CASE PatchLayerInfo
  BY <1>15 DEF PatchLayerInfo, Goto
<1>16. CASE WriteImage
  BY <1>16 DEF WriteImage, Goto
<1>17. CASE RefuseImage
  BY <1>17 DEF RefuseImage, Goto
<1>18. CASE CountImage
  BY <1>18 DEF CountImage, Goto, Increment
<1>19. ASSUME NEW k \in Indices, Compress(k) PROVE WriteTypeOK'
  BY <1>19 DEF Compress
<1>20. ASSUME NEW k \in Indices, CountCompressed(k) PROVE WriteTypeOK'
  BY <1>20 DEF CountCompressed, Increment
<1>21. CASE UNCHANGED vars
  BY <1>21 DEF vars
<1> QED
  BY <1>1, <1>2, <1>3, <1>4, <1>5, <1>6, <1>7, <1>8, <1>9, <1>10, <1>11, <1>12,
     <1>13, <1>14, <1>15, <1>16, <1>17, <1>18, <1>19, <1>20, <1>21
     DEF Next, Writer, Task

\* Every variable keeps its type throughout a write.
THEOREM WriteTypes == Spec => []WriteTypeOK
<1>1. Init => WriteTypeOK
  BY WriteDocumentAssumption
     DEF Init, WriteTypeOK, Phases, TaskStates, Indices
<1>2. WriteTypeOK /\ [Next]_vars => WriteTypeOK'
  BY TypeStep
<1> QED BY <1>1, <1>2, PTL DEF Spec

-----------------------------------------------------------------------------
(* The progress accounting.                                                *)

\* The accounting holds after a step of the writing thread that changes
\* neither the counter nor the tasks: it only moves to a phase with the same
\* account.
LEMMA SilentStep ==
  ASSUME WriteTypeOK, ProgressAccounting,
         UNCHANGED <<count, max, n, task>>,
         \/ pc = "header" /\ pc' = "section"
         \/ pc = "section" /\ pc' = "info"
         \/ pc = "info" /\ n = 0 /\ pc' \in {"blocks", "failed"}
         \/ pc = "records" /\ pc' = "data" /\ next' = 1
         \/ pc = "records" /\ pc' = "records"
         \/ pc = "data" /\ next > n /\ pc' = "patch_info"
         \/ pc = "patch_info" /\ pc' \in {"blocks", "mask"}
         \/ pc = "mask" /\ pc' = "blocks"
         \/ pc = "blocks" /\ pc' = "patch_section"
         \/ pc = "patch_section" /\ pc' = "image"
         \/ pc = "image" /\ pc' \in {"last", "failed"}
  PROVE  ProgressAccounting'
<1>1. n \in Nat /\ max \in Nat \ {0} /\ count \in Nat /\ next \in 1..(n + 1)
  BY WriteDocumentAssumption DEF WriteTypeOK
<1>2. UNCHANGED Counted
  BY DEF Counted, Indices
<1> QED
  BY <1>1, <1>2 DEF ProgressAccounting, BeforeInfo, Sequential, WithLayers

\* Every step keeps the accounting.
LEMMA AccountingStep ==
  ASSUME WriteTypeOK, ProgressAccounting, [Next]_vars
  PROVE  ProgressAccounting'
<1>1. n \in Nat /\ max \in Nat \ {0} /\ count \in Nat /\ next \in 1..(n + 1)
  BY WriteDocumentAssumption DEF WriteTypeOK
<1>2. Counted \in SUBSET (1..n)
  BY DEF Counted, Indices
<1> USE DEF document, progress, stream, layers, Goto
<1>3. CASE Reset
  <2>1. /\ pc = "reset" /\ pc' = "header" /\ count' = 0
        /\ UNCHANGED <<n, Counted>>
    BY <1>3 DEF Reset, ResetCount, Counted, Indices
  <2> QED BY <2>1 DEF ProgressAccounting, BeforeInfo, Sequential, WithLayers
<1>4. CASE WriteFront \/ BeginSection
  BY <1>4, SilentStep DEF WriteFront, BeginSection
<1>5. CASE WriteMask \/ WriteBlocks \/ PatchSection
  BY <1>5, SilentStep DEF WriteMask, WriteBlocks, PatchSection
<1>6. CASE EmptyLayerInfo \/ RefuseNoLayers
  BY <1>6, SilentStep DEF EmptyLayerInfo, RefuseNoLayers
<1>7. CASE BeginLayerInfo
  <2>1. Counted' = {} /\ n' = n
    BY <1>7 DEF BeginLayerInfo, ProgressAccounting, BeforeInfo, Counted, Indices
  <2> QED BY <2>1, <1>7, <1>1, FS_EmptySet
        DEF BeginLayerInfo, SetMax, ProgressAccounting, BeforeInfo, Sequential, WithLayers
<1>8. ASSUME NEW k \in Indices, Compress(k) PROVE ProgressAccounting'
  <2>1. UNCHANGED <<Counted, count, max, n, pc>> /\ pc = "compress"
    BY <1>8 DEF Compress, Counted, Indices, WriteTypeOK
  <2> QED BY <2>1 DEF ProgressAccounting, BeforeInfo, Sequential, WithLayers
<1>9. ASSUME NEW k \in Indices, CountCompressed(k) PROVE ProgressAccounting'
  <2>1. /\ pc = "compress" /\ pc' = "compress" /\ UNCHANGED <<max, n>>
        /\ k \in 1..n /\ k \notin Counted
    BY <1>9 DEF CountCompressed, Increment, Counted, Indices
  <2>2. Counted' = Counted \cup {k}
    BY <1>9 DEF CountCompressed, Counted, Indices, WriteTypeOK
  <2>3. count = Cardinality(Counted) /\ max = 2 * n + 1 /\ n # 0
    BY <2>1 DEF ProgressAccounting, WithLayers, Sequential
  <2>4. Cardinality(Counted') = count + 1 /\ count + 1 <= n
    BY <2>1, <2>2, <2>3, <1>1, <1>2, CountingOne
  <2>5. count' = count + 1
    BY <1>9, <2>3, <2>4, <1>1 DEF CountCompressed, Increment
  <2> QED BY <2>1, <2>3, <2>4, <2>5
        DEF ProgressAccounting, BeforeInfo, Sequential, WithLayers
<1>10. CASE Join
  <2>1. pc = "compress" /\ pc' = "records" /\ UNCHANGED <<count, max, n>>
    BY <1>10 DEF Join
  <2>2. Counted = 1..n
    BY <1>10 DEF Join, Counted, Indices
  <2>3. count = n /\ max = 2 * n + 1 /\ n # 0
    BY <2>1, <2>2, <1>1, CountingAll DEF ProgressAccounting, WithLayers, Sequential
  <2> QED BY <2>1, <2>3 DEF ProgressAccounting, BeforeInfo, Sequential, WithLayers
<1>11. CASE WriteRecord \/ EndRecords \/ EndData
  BY <1>11, SilentStep DEF WriteRecord, EndRecords, EndData
<1>12. CASE WriteData
  <2>1. /\ pc = "data" /\ pc' = "data" /\ next <= n /\ next' = next + 1
        /\ UNCHANGED <<max, n>>
    BY <1>12 DEF WriteData, Increment
  <2>2. count = n + (next - 1) /\ max = 2 * n + 1 /\ n # 0
    BY <2>1 DEF ProgressAccounting, WithLayers, Sequential
  <2>3. count' = n' + (next' - 1)
    BY <1>12, <1>1, <2>1, <2>2 DEF WriteData, Increment
  <2> QED BY <2>1, <2>2, <2>3
        DEF ProgressAccounting, BeforeInfo, Sequential, WithLayers
<1>13. CASE PatchLayerInfo
  BY <1>13, SilentStep DEF PatchLayerInfo
<1>14. CASE WriteImage \/ RefuseImage
  BY <1>14, SilentStep DEF WriteImage, RefuseImage
<1>15. CASE CountImage
  <2>1. pc = "last" /\ pc' = "done" /\ UNCHANGED <<max, n>>
    BY <1>15 DEF CountImage, Increment
  <2>2. n # 0 => count' = max'
    BY <1>15, <1>1, <2>1
       DEF CountImage, Increment, ProgressAccounting, Sequential, WithLayers
  <2> QED BY <2>1, <2>2 DEF ProgressAccounting, BeforeInfo, Sequential, WithLayers
<1>16. CASE UNCHANGED vars
  <2>1. UNCHANGED <<pc, count, max, n, next, task, Counted>>
    BY <1>16 DEF vars, Counted, Indices
  <2> QED BY <2>1 DEF ProgressAccounting, BeforeInfo, Sequential, WithLayers
<1> QED
  BY <1>3, <1>4, <1>5, <1>6, <1>7, <1>8, <1>9, <1>10, <1>11, <1>12, <1>13, <1>14,
     <1>15, <1>16 DEF Next, Writer, Task

\* The accounting holds throughout a write.
THEOREM WriteAccounting == Spec => []ProgressAccounting
<1>1. Init => WriteTypeOK /\ ProgressAccounting
  <2>1. Init => WriteTypeOK
    BY WriteDocumentAssumption
       DEF Init, WriteTypeOK, Phases, TaskStates, Indices
  <2>2. Init => ProgressAccounting
    BY DEF Init, ProgressAccounting, Counted, Indices, BeforeInfo, Sequential, WithLayers
  <2> QED BY <2>1, <2>2
<1>2. WriteTypeOK /\ ProgressAccounting /\ [Next]_vars
        => WriteTypeOK' /\ ProgressAccounting'
  BY TypeStep, AccountingStep
<1> QED BY <1>1, <1>2, PTL DEF Spec

\* After the reset the callback says complete only once the merged image,
\* the last part of the document, is written.
THEOREM CompleteImpliesWritten == Spec => []CompleteMeansWritten
<1>1. WriteTypeOK /\ ProgressAccounting => CompleteMeansWritten
  <2>1. ASSUME WriteTypeOK, ProgressAccounting, pc # "reset", ~Written
        PROVE  count # max
    <3>1. n \in Nat /\ max \in Nat \ {0} /\ count \in Nat /\ next \in 1..(n + 1)
      BY <2>1, WriteDocumentAssumption DEF WriteTypeOK
    <3>2. CASE pc \in BeforeInfo
      BY <2>1, <3>1, <3>2 DEF ProgressAccounting
    <3>3. CASE pc = "compress"
      <4>1. Counted \in SUBSET (1..n)
        BY DEF Counted, Indices
      <4>2. IsFiniteSet(1..n) /\ Cardinality(1..n) = n
        BY <3>1, CountingAll, FS_Interval, n \in Int, 1 \in Int
      <4>3. Cardinality(Counted) <= n
        BY <4>1, <4>2, FS_Subset
      <4> QED BY <2>1, <3>1, <3>3, <4>3
            DEF ProgressAccounting, WithLayers, Sequential
    <3>4. CASE pc \in {"records", "data"}
      BY <2>1, <3>1, <3>4 DEF ProgressAccounting, WithLayers, Sequential
    <3>5. CASE pc \in Sequential \ {"last"}
      BY <2>1, <3>1, <3>5 DEF ProgressAccounting, WithLayers, Sequential
    <3>6. CASE pc = "failed"
      BY <2>1, <3>1, <3>6 DEF ProgressAccounting
    <3> QED BY <2>1, <3>2, <3>3, <3>4, <3>5, <3>6
          DEF WriteTypeOK, Phases, Written, BeforeInfo, Sequential
  <2> QED BY <2>1 DEF CompleteMeansWritten, IsComplete
<1> QED BY <1>1, WriteTypes, WriteAccounting, PTL

\* A write that has returned leaves the callback complete.
THEOREM DoneImpliesComplete == Spec => []DoneMeansComplete
<1>1. ProgressAccounting => DoneMeansComplete
  BY DEF ProgressAccounting, DoneMeansComplete, IsComplete
<1> QED BY <1>1, WriteAccounting, PTL

\* While the layers are written progress never goes back and the maximum
\* stays.
THEOREM ProgressGrows == Spec => ProgressOnlyGrows
<1>1. ASSUME WriteTypeOK, [Next]_vars, pc \notin {"reset", "info"}
      PROVE  count' >= count /\ max' = max
  <2>1. count \in Nat /\ max \in Nat
    BY <1>1 DEF WriteTypeOK
  <2> USE DEF document, progress, stream, layers, Goto
  <2>2. CASE WriteFront \/ BeginSection \/ WriteMask \/ WriteBlocks \/ PatchSection
    BY <2>1, <2>2 DEF WriteFront, BeginSection, WriteMask, WriteBlocks, PatchSection
  <2>3. CASE Join \/ WriteRecord \/ EndRecords \/ EndData \/ PatchLayerInfo
    BY <2>1, <2>3 DEF Join, WriteRecord, EndRecords, EndData, PatchLayerInfo
  <2>4. CASE WriteImage \/ RefuseImage
    BY <2>1, <2>4 DEF WriteImage, RefuseImage
  <2>5. CASE WriteData \/ CountImage
    BY <2>1, <2>5 DEF WriteData, CountImage, Increment
  <2>6. ASSUME NEW k \in Indices, Task(k) PROVE count' >= count /\ max' = max
    BY <2>1, <2>6 DEF Task, Compress, CountCompressed, Increment
  <2>7. CASE UNCHANGED vars
    BY <2>1, <2>7 DEF vars
  <2>8. ~Reset /\ ~EmptyLayerInfo /\ ~RefuseNoLayers /\ ~BeginLayerInfo
    BY <1>1 DEF Reset, EmptyLayerInfo, RefuseNoLayers, BeginLayerInfo
  <2> QED BY <1>1, <2>2, <2>3, <2>4, <2>5, <2>6, <2>7, <2>8 DEF Next, Writer
<1>2. WriteTypeOK /\ [Next]_vars
        => [pc \notin {"reset", "info"} => count' >= count /\ max' = max]_vars
  BY <1>1
<1> QED BY <1>2, WriteTypes, PTL DEF Spec, ProgressOnlyGrows

-----------------------------------------------------------------------------
(* The layout of the document.  What a phase wrote stays where it is: the  *)
(* only bytes that are written again are those of the two length markers.  *)

Laid(o, kind, val, len) ==
  o \in DOMAIN doc.blocks /\ doc.blocks[o] = Block(kind, val, len)

\* Nothing was written at or behind the offset.
Grown(d) ==
  /\ d = [blocks |-> d.blocks, offset |-> d.offset]
  /\ d.offset \in Nat
  /\ \A o \in DOMAIN d.blocks : o \in Nat /\ o < d.offset

StreamOK == Grown(doc)

Without(kinds) == \A o \in DOMAIN doc.blocks : doc.blocks[o].kind \notin kinds

SectionStart == FrontLength
InfoStart    == IF deep THEN SectionStart + 2 * width + MaskLength + SignatureAndKey
                ELSE SectionStart + width
RecordsStart == infoMark + width + 2

\* A record or the data of a layer, as it is written.
LinkValue(kind, k)  == IF kind = "record" THEN [layer |-> k, size |-> infos[k]] ELSE k
LinkLength(kind, k) == IF kind = "record" THEN RecordLength ELSE 2 + data[k]
Link(kind, o, k)    == Laid(o, kind, LinkValue(kind, k), LinkLength(kind, k))

\* The records, or the data, of the first m layers: each is followed by the
\* next one's, and the last one's ends at `to'.  There is none of other layers.
Chain(kind, from, m, to) ==
  /\ IF m = 0 THEN to = from ELSE Link(kind, from, 1)
  /\ \A o \in DOMAIN doc.blocks, k \in Indices :
       Link(kind, o, k) =>
         /\ k <= m
         /\ IF k < m THEN Link(kind, o + LinkLength(kind, k), k + 1)
            ELSE o + LinkLength(kind, k) = to

\* What follows once the length markers are filled in.
SectionLength == doc.blocks[sectionMark].val
InfoLength    == doc.blocks[infoMark].val
SectionEnd    == sectionMark + width + SectionLength
InfoEnd       == infoMark + width + InfoLength
BlocksStart   == IF deep THEN InfoEnd ELSE InfoEnd + MaskLength

IsLengthAt(mark) ==
  Laid(mark, "length", doc.blocks[mark].val, width) /\ doc.blocks[mark].val \in Nat

Closing  == {"image", "last", "done"}
Tailing  == {"blocks", "patch_section"} \cup Closing
Ended    == {"mask"} \cup Tailing
Filled   == {"patch_info"} \cup Ended
Recorded == {"data"} \cup Filled
Joined   == {"records"} \cup Recorded
Listed   == {"compress"} \cup Joined
Marked   == {"info"} \cup Listed

\* The tasks: a layer that was compressed has the size its record will state.
TasksOK ==
  /\ \A k \in Indices : task[k] # "waiting" => infos[k] = data[k] + 2
  /\ pc \in Joined /\ n # 0 => \A k \in Indices : task[k] = "counted"

FrontLaid ==
  /\ pc \in {"reset", "header"} => doc.offset = 0 /\ DOMAIN doc.blocks = {}
  /\ pc = "section" => doc.offset = FrontLength
  /\ pc \in {"section"} \cup Marked => Laid(0, "front", width, FrontLength)
  /\ pc \in {"reset", "header", "section", "info"}
       => Without({"count", "record", "data"})
  /\ n = 0 => Without({"count"})

SectionLaid ==
  pc \in Marked =>
    /\ sectionMark = SectionStart
    /\ IsLengthAt(sectionMark)
    /\ doc.offset >= SectionStart + width
    /\ deep => /\ Laid(SectionStart + width, "length", 0, width)
               /\ Laid(SectionStart + 2 * width, "mask", 0, MaskLength)
               /\ Laid(SectionStart + 2 * width + MaskLength, "key", 0, SignatureAndKey)
    /\ pc = "info" => doc.offset = InfoStart

InfoLaid ==
  (pc \in Listed /\ n # 0) =>
    /\ infoMark = InfoStart
    /\ IsLengthAt(infoMark)
    /\ Laid(infoMark + width, "count", n, 2)
    /\ pc = "compress" => doc.offset = RecordsStart
    /\ pc = "compress" => Without({"record", "data"})
    /\ pc = "records" => Without({"data"}) /\ Chain("record", RecordsStart, next - 1, doc.offset)

DataLaid ==
  (pc \in Recorded /\ n # 0) =>
    \E start, end \in Nat :
      /\ Chain("record", RecordsStart, n, start)
      /\ Chain("data", start, IF pc = "data" THEN next - 1 ELSE n, end)
      /\ pc \in {"data", "patch_info"} => end = doc.offset
      /\ pc \in Ended => /\ InfoEnd - end \in 0..3
                         /\ InfoLength # 0

TailLaid ==
  n # 0 =>
    /\ pc \in Ended => InfoLength % 4 = 0
    /\ pc = "mask" => ~deep /\ doc.offset = InfoEnd
    /\ pc = "blocks" => doc.offset = BlocksStart
    /\ pc \in Tailing /\ ~deep => Laid(InfoEnd, "mask", 0, MaskLength)
    /\ pc = "patch_section" => doc.offset = BlocksStart + blocks
    /\ pc \in {"patch_section"} \cup Closing /\ blocks # 0
         => Laid(BlocksStart, "block", 0, blocks)
    /\ pc \in Closing => /\ SectionEnd - (BlocksStart + blocks) \in 0..3
                         /\ SectionLength % 4 = 0
    /\ pc = "image" => doc.offset = SectionEnd
    /\ pc \in {"last", "done"} => Laid(SectionEnd, "image", 0, ImageLength)

Layout ==
  /\ StreamOK /\ TasksOK /\ FrontLaid /\ SectionLaid /\ InfoLaid /\ DataLaid /\ TailLaid

\* Writing at the end moves nothing.
LEMMA PutKeeps ==
  ASSUME NEW d, Grown(d), NEW kind, NEW val, NEW len \in Nat, len # 0,
         NEW e, e = Put(d, kind, val, len)
  PROVE  /\ Grown(e)
         /\ e.offset = d.offset + len
         /\ DOMAIN e.blocks = DOMAIN d.blocks \cup {d.offset}
         /\ e.blocks[d.offset] = Block(kind, val, len)
         /\ \A o \in DOMAIN d.blocks : o # d.offset /\ e.blocks[o] = d.blocks[o]
<1>1. e.offset = d.offset + len
  BY DEF Put
<1>2. e.blocks = [o \in DOMAIN d.blocks \cup {d.offset} |->
                    IF o = d.offset THEN Block(kind, val, len) ELSE d.blocks[o]]
  BY DEF Put
<1>3. d.offset \in Nat /\ \A o \in DOMAIN d.blocks : o \in Nat /\ o < d.offset
  BY DEF Grown
<1>4. Grown(e)
  <2>1. e = [blocks |-> e.blocks, offset |-> e.offset]
    BY DEF Put
  <2> QED BY <1>1, <1>2, <1>3, <2>1 DEF Grown
<1> QED BY <1>1, <1>2, <1>3, <1>4

\* Filling in a length marker changes that block only; padding goes to the end.
LEMMA PatchKeeps ==
  ASSUME StreamOK, NEW mark \in DOMAIN doc.blocks, NEW length, NEW padding \in Nat,
         doc' = Patch(doc, mark, width, length, padding)
  PROVE  /\ StreamOK'
         /\ doc'.offset = doc.offset + padding
         /\ DOMAIN doc'.blocks
              = DOMAIN doc.blocks \cup (IF padding = 0 THEN {} ELSE {doc.offset})
         /\ doc'.blocks[mark] = Block("length", length, width)
         /\ padding # 0 => doc'.blocks[doc.offset] = Block("padding", 0, padding)
         /\ \A o \in DOMAIN doc.blocks \ {mark} : doc'.blocks[o] = doc.blocks[o]
<1> DEFINE patched == [o \in DOMAIN doc.blocks \cup {mark} |->
                         IF o = mark THEN Block("length", length, width) ELSE doc.blocks[o]]
           back    == [blocks |-> patched, offset |-> doc.offset]
<1>1. SetOffset(Put(SetOffset(doc, mark), "length", length, width), doc.offset) = back
  <2>1. SetOffset(doc, mark) = [blocks |-> doc.blocks, offset |-> mark]
    BY DEF SetOffset, StreamOK, Grown
  <2>2. Put([blocks |-> doc.blocks, offset |-> mark], "length", length, width)
          = [blocks |-> patched, offset |-> mark + width]
    BY DEF Put
  <2> QED BY <2>1, <2>2 DEF SetOffset
<1>2. doc' = PutPadding(back, padding)
  BY <1>1 DEF Patch
<1>3. doc.offset \in Nat /\ \A o \in DOMAIN doc.blocks : o \in Nat /\ o < doc.offset
  BY DEF StreamOK, Grown
<1>4. DOMAIN patched = DOMAIN doc.blocks
  OBVIOUS
<1>5. CASE padding = 0
  <2>1. doc' = back
    BY <1>2, <1>5 DEF PutPadding
  <2> QED BY <1>3, <1>4, <1>5, <2>1 DEF StreamOK, Grown
<1>6. CASE padding # 0
  <2>1. doc' = [blocks |-> [o \in DOMAIN patched \cup {doc.offset} |->
                              IF o = doc.offset THEN Block("padding", 0, padding)
                              ELSE patched[o]],
                offset |-> doc.offset + padding]
    BY <1>2, <1>6 DEF PutPadding, Put
  <2> QED BY <1>3, <1>4, <1>6, <2>1 DEF StreamOK, Grown
<1> QED BY <1>5, <1>6

\* Rounding up to 4 adds at most 3.
LEMMA RoundingUp ==
  ASSUME NEW size \in Nat
  PROVE  LET rounded == RoundUpToMultiple(size, 4)
         IN  /\ rounded \in Nat /\ rounded - size \in 0..3 /\ rounded % 4 = 0
BY DEF RoundUpToMultiple

\* A step that leaves the blocks of a kind alone keeps their chain.
LEMMA ChainKept ==
  ASSUME NEW kind, NEW from, NEW m, NEW to, Chain(kind, from, m, to),
         UNCHANGED <<n, width, data, infos>>,
         \A o \in DOMAIN doc.blocks :
           doc.blocks[o].kind = kind
             => o \in DOMAIN doc'.blocks /\ doc'.blocks[o] = doc.blocks[o],
         \A o \in DOMAIN doc'.blocks :
           doc'.blocks[o].kind = kind
             => o \in DOMAIN doc.blocks /\ doc'.blocks[o] = doc.blocks[o]
  PROVE  Chain(kind, from, m, to)'
<1>1. \A k : LinkLength(kind, k)' = LinkLength(kind, k) /\ LinkValue(kind, k)' = LinkValue(kind, k)
  BY DEF LinkLength, LinkValue, RecordLength
<1>2. \A o, k : Link(kind, o, k)' <=> Link(kind, o, k)
  <2> SUFFICES ASSUME NEW o, NEW k PROVE Link(kind, o, k)' <=> Link(kind, o, k)
    OBVIOUS
  <2> DEFINE block == Block(kind, LinkValue(kind, k), LinkLength(kind, k))
  <2>1. block.kind = kind
    BY DEF Block
  <2>2. Link(kind, o, k) <=> o \in DOMAIN doc.blocks /\ doc.blocks[o] = block
    BY DEF Link, Laid
  <2>3. Link(kind, o, k)' <=> o \in DOMAIN doc'.blocks /\ doc'.blocks[o] = block
    BY <1>1 DEF Link, Laid
  <2> HIDE DEF block
  <2> QED BY <2>1, <2>2, <2>3
<1>3. ASSUME NEW o \in DOMAIN doc'.blocks, NEW k \in Indices', Link(kind, o, k)'
      PROVE  o \in DOMAIN doc.blocks /\ k \in Indices /\ Link(kind, o, k)
  BY <1>2, <1>3 DEF Link, Laid, Indices
<1> QED BY <1>1, <1>2, <1>3 DEF Chain

\* The chain of no layers.
LEMMA ChainStarts ==
  ASSUME NEW kind, NEW from, Without({kind})
  PROVE  Chain(kind, from, 0, from)
<1>1. \A o \in DOMAIN doc.blocks, k \in Indices : ~Link(kind, o, k)
  BY DEF Without, Link, Laid, Block
<1> QED BY <1>1 DEF Chain

\* Writing the next layer's link at the end makes the chain longer.
LEMMA ChainGrows ==
  ASSUME StreamOK, n \in Nat, NEW kind, NEW from, NEW m \in Nat, m < n,
         doc' = Put(doc, kind, LinkValue(kind, m + 1), LinkLength(kind, m + 1)),
         Chain(kind, from, m, doc.offset),
         \A k \in Indices : LinkLength(kind, k) \in Nat \ {0},
         \A j, k \in Indices : LinkValue(kind, j) = LinkValue(kind, k) => j = k,
         UNCHANGED <<n, width, data, infos>>
  PROVE  Chain(kind, from, m + 1, doc.offset)'
<1>1. m + 1 \in Indices
  BY DEF Indices
<1>2. \A k : LinkLength(kind, k)' = LinkLength(kind, k) /\ LinkValue(kind, k)' = LinkValue(kind, k)
  BY DEF LinkLength, LinkValue, RecordLength
<1>3. /\ doc'.offset = doc.offset + LinkLength(kind, m + 1)
      /\ DOMAIN doc'.blocks = DOMAIN doc.blocks \cup {doc.offset}
      /\ doc'.blocks[doc.offset] = Block(kind, LinkValue(kind, m + 1), LinkLength(kind, m + 1))
      /\ \A o \in DOMAIN doc.blocks : doc'.blocks[o] = doc.blocks[o]
      /\ doc.offset \notin DOMAIN doc.blocks
  BY <1>1, PutKeeps DEF StreamOK, Grown
<1>5. \A o, k : Link(kind, o, k)' <=>
        \/ Link(kind, o, k)
        \/ o = doc.offset /\ Block(kind, LinkValue(kind, k), LinkLength(kind, k))
                              = Block(kind, LinkValue(kind, m + 1), LinkLength(kind, m + 1))
  BY <1>2, <1>3 DEF Link, Laid
<1>6. \A k \in Indices :
        Block(kind, LinkValue(kind, k), LinkLength(kind, k))
          = Block(kind, LinkValue(kind, m + 1), LinkLength(kind, m + 1)) <=> k = m + 1
  BY <1>1 DEF Block
<1>7. \A o, k : k \in Indices =>
        (Link(kind, o, k)' <=> Link(kind, o, k) \/ (o = doc.offset /\ k = m + 1))
  BY <1>5, <1>6
<1>8. IF m + 1 = 0 THEN doc'.offset = from ELSE Link(kind, from, 1)'
  BY <1>1, <1>7 DEF Chain, Indices
<1>9. ASSUME NEW o \in DOMAIN doc'.blocks, NEW k \in Indices, Link(kind, o, k)'
      PROVE  /\ k <= m + 1
             /\ IF k < m + 1 THEN Link(kind, o + LinkLength(kind, k), k + 1)'
                ELSE o + LinkLength(kind, k) = doc'.offset
  <2>1. CASE o = doc.offset /\ k = m + 1
    BY <1>3, <2>1
  <2>2. CASE Link(kind, o, k)
    <3>1. o \in DOMAIN doc.blocks
      BY <2>2 DEF Link, Laid
    <3>2. k <= m /\ IF k < m THEN Link(kind, o + LinkLength(kind, k), k + 1)
                    ELSE o + LinkLength(kind, k) = doc.offset
      BY <2>2, <3>1 DEF Chain
    <3>3. k \in Nat /\ k + 1 \in Indices
      BY <3>2 DEF Indices
    <3>4. LinkLength(kind, k)' = LinkLength(kind, k)
      BY <1>2
    <3>5. \A after : Link(kind, after, k + 1)' <=>
             Link(kind, after, k + 1) \/ (after = doc.offset /\ k = m)
      BY <1>7, <3>3
    <3>6. Link(kind, o + LinkLength(kind, k), k + 1)'
      BY <3>2, <3>3, <3>4, <3>5
    <3>7. k < m + 1
      BY <3>2, <3>3
    <3> QED BY <3>3, <3>6, <3>7
  <2> QED BY <1>7, <1>9, <2>1, <2>2
<1>10. Indices' = Indices
  BY DEF Indices
<1> QED BY <1>2, <1>8, <1>9, <1>10 DEF Chain

\* The numbers the layout is made of.
LEMMA Sizes ==
  ASSUME WriteTypeOK
  PROVE  /\ n \in Nat /\ width \in {4, 8} /\ blocks \in Nat /\ next \in 1..(n + 1)
         /\ \A k \in Indices : data[k] \in Nat /\ infos[k] \in Nat
<1>1. n \in Nat /\ width \in {4, 8} /\ blocks \in Nat /\ next \in 1..(n + 1)
  BY WriteDocumentAssumption DEF WriteTypeOK
<1>2. \A k \in Indices : data[k] \in Nat /\ infos[k] \in Nat
  <2>1. data \in [Indices -> Lengths \cup {0}] /\ infos \in [Indices -> Nat]
    BY DEF WriteTypeOK
  <2>2. Lengths \cup {0} \subseteq Nat
    BY WriteDocumentAssumption
  <2> QED BY <2>1, <2>2
<1> QED BY <1>1, <1>2

\* A step that changes neither the stream nor the lengths of the layers, and
\* moves between phases with the same layout.
LEMMA SilentLayout ==
  ASSUME WriteTypeOK, Layout,
         UNCHANGED <<document, stream, data, infos>>,
         \/ pc = "reset" /\ pc' = "header"
         \/ pc = "compress" /\ pc' = "compress"
         \/ pc = "compress" /\ pc' = "records" /\ next' = 1
         \/ pc = "records" /\ next = n + 1 /\ pc' = "data" /\ next' = 1
         \/ pc = "data" /\ next = n + 1 /\ pc' = "patch_info"
         \/ pc = "last" /\ pc' = "done"
         \/ pc' = "failed"
         \/ UNCHANGED <<pc, next>>,
         TasksOK'
  PROVE  Layout'
<1>1. UNCHANGED <<n, width, deep, blocks, doc, data, infos, sectionMark, infoMark>>
  BY DEF document, stream
<1>2. \A kind, from, m, to : Chain(kind, from, m, to) => Chain(kind, from, m, to)'
  BY <1>1, ChainKept
<1>3. n \in Nat /\ next \in 1..(n + 1) /\ width \in {4, 8}
  BY Sizes
<1>4. StreamOK' /\ FrontLaid' /\ SectionLaid'
  BY <1>1 DEF Layout, StreamOK, Grown, FrontLaid, SectionLaid, Laid, Without, IsLengthAt, InfoStart,
     SectionStart, Marked, Listed, Joined, Recorded, Filled, Ended, Tailing, Closing
<1>5. InfoLaid'
  BY <1>1, <1>2, <1>3, ChainStarts
     DEF Layout, InfoLaid, Laid, Without, IsLengthAt, InfoStart, RecordsStart, SectionStart,
     Listed, Joined, Recorded, Filled, Ended, Tailing, Closing
<1>6. DataLaid'
  <2> SUFFICES ASSUME pc' \in Recorded, n # 0 PROVE DataLaid'
    BY <1>1 DEF DataLaid
  <2>1. CASE pc = "records"
    <3>1. pc' = "data" /\ next' = 1 /\ next = n + 1
      BY <2>1 DEF Recorded, Filled, Ended, Tailing, Closing
    <3>2. Chain("record", RecordsStart, n, doc.offset) /\ Without({"data"})
      BY <1>3, <2>1, <3>1 DEF Layout, InfoLaid, Listed, Joined
    <3>3. Chain("data", doc.offset, 0, doc.offset)
      BY <3>2, ChainStarts
    <3>4. doc.offset \in Nat
      BY DEF Layout, StreamOK, Grown
    <3> QED
      BY <1>1, <1>2, <3>1, <3>2, <3>3, <3>4
         DEF DataLaid, RecordsStart, Recorded, Filled, Ended, Tailing, Closing
  <2>2. CASE pc # "records"
    <3>1. pc \in Recorded
      BY <2>2 DEF Recorded, Filled, Ended, Tailing, Closing
    <3>2. PICK start, end \in Nat :
            /\ Chain("record", RecordsStart, n, start)
            /\ Chain("data", start, IF pc = "data" THEN next - 1 ELSE n, end)
            /\ pc \in {"data", "patch_info"} => end = doc.offset
            /\ pc \in Ended => InfoEnd - end \in 0..3 /\ InfoLength # 0
      BY <3>1 DEF Layout, DataLaid
    <3>3. (IF pc = "data" THEN next - 1 ELSE n) = (IF pc' = "data" THEN next' - 1 ELSE n)
      BY <1>3, <2>2, <3>1 DEF Recorded, Filled, Ended, Tailing, Closing
    <3>4. /\ Chain("record", RecordsStart, n, start)'
          /\ Chain("data", start, IF pc = "data" THEN next - 1 ELSE n, end)'
      BY <1>1, <1>2, <3>2, <3>3 DEF RecordsStart
    <3>5. /\ (pc \in {"data", "patch_info"} => end = doc.offset)'
          /\ (pc \in Ended => InfoEnd - end \in 0..3 /\ InfoLength # 0)'
      BY <1>1, <2>2, <3>1, <3>2
         DEF InfoEnd, InfoLength, Recorded, Filled, Ended, Tailing, Closing
    <3> QED BY <3>4, <3>5 DEF DataLaid
  <2> QED BY <2>1, <2>2
<1>7. TailLaid'
  BY <1>1 DEF Layout, TailLaid, Laid, InfoEnd, InfoLength, SectionEnd, SectionLength,
     BlocksStart, Ended, Tailing, Closing
<1> QED BY <1>4, <1>5, <1>6, <1>7 DEF Layout

\* The front of the document and the markers of the section.
LEMMA FrontLayout ==
  ASSUME WriteTypeOK, Layout, WriteFront \/ BeginSection
  PROVE  Layout'
<1>1. n \in Nat /\ width \in {4, 8}
  BY Sizes
<1>2. CASE WriteFront
  <2>1. /\ pc = "header" /\ pc' = "section" /\ doc' = Put(doc, "front", width, FrontLength)
        /\ UNCHANGED <<n, width, deep, task, data, infos>>
    BY <1>2 DEF WriteFront, Goto, document, layers
  <2>2. FrontLength \in Nat /\ FrontLength # 0
    BY DEF FrontLength
  <2>3. /\ StreamOK'
        /\ doc'.offset = doc.offset + FrontLength
        /\ DOMAIN doc'.blocks = DOMAIN doc.blocks \cup {doc.offset}
        /\ doc'.blocks[doc.offset] = Block("front", width, FrontLength)
    BY <2>1, <2>2, PutKeeps DEF Layout, StreamOK
  <2>4. FrontLaid'
    BY <2>1, <2>2, <2>3
       DEF Layout, FrontLaid, Laid, Without, Block, FrontLength, Marked, Listed, Joined, Recorded, Filled, Ended, Tailing, Closing
  <2> QED BY <2>1, <2>3, <2>4
        DEF Layout, TasksOK, SectionLaid, InfoLaid, DataLaid, TailLaid, Indices, Marked, Listed, Joined, Recorded, Filled, Ended, Tailing, Closing
<1>3. CASE BeginSection
  <2> DEFINE marked  == Put(doc, "length", 0, width)
             listed  == Put(marked, "length", 0, width)
             masked  == Put(listed, "mask", 0, MaskLength)
             tagged  == Put(masked, "key", 0, SignatureAndKey)
             start   == FrontLength
  <2>1. /\ pc = "section" /\ pc' = "info" /\ sectionMark' = doc.offset
        /\ doc' = (IF deep THEN tagged ELSE marked)
        /\ UNCHANGED <<n, width, deep, task, data, infos>>
    BY <1>3 DEF BeginSection, Goto, document, layers
  <2>2. doc.offset = start /\ start = 34 /\ MaskLength = 4 /\ SignatureAndKey = 8
    BY <2>1 DEF Layout, FrontLaid, FrontLength, MaskLength, SignatureAndKey
  <2>3. Grown(doc)
    BY DEF Layout, StreamOK
  <2>4. /\ Grown(marked)
        /\ marked.offset = start + width
        /\ DOMAIN marked.blocks = DOMAIN doc.blocks \cup {start}
        /\ marked.blocks[start] = Block("length", 0, width)
        /\ \A o \in DOMAIN doc.blocks : marked.blocks[o] = doc.blocks[o]
    BY <1>1, <2>2, <2>3, PutKeeps
  <2> HIDE DEF marked
  <2>5. /\ Grown(listed)
        /\ listed.offset = start + 2 * width
        /\ DOMAIN listed.blocks = DOMAIN marked.blocks \cup {start + width}
        /\ listed.blocks[start + width] = Block("length", 0, width)
        /\ \A o \in DOMAIN marked.blocks : listed.blocks[o] = marked.blocks[o]
    BY <1>1, <2>2, <2>4, PutKeeps
  <2> HIDE DEF listed
  <2>6. /\ Grown(masked)
        /\ masked.offset = start + 2 * width + MaskLength
        /\ DOMAIN masked.blocks = DOMAIN listed.blocks \cup {start + 2 * width}
        /\ masked.blocks[start + 2 * width] = Block("mask", 0, MaskLength)
        /\ \A o \in DOMAIN listed.blocks : masked.blocks[o] = listed.blocks[o]
    BY <1>1, <2>2, <2>5, PutKeeps
  <2> HIDE DEF masked
  <2>7. /\ Grown(tagged)
        /\ tagged.offset = start + 2 * width + MaskLength + SignatureAndKey
        /\ DOMAIN tagged.blocks = DOMAIN masked.blocks \cup {start + 2 * width + MaskLength}
        /\ tagged.blocks[start + 2 * width + MaskLength] = Block("key", 0, SignatureAndKey)
        /\ \A o \in DOMAIN masked.blocks : tagged.blocks[o] = masked.blocks[o]
    BY <1>1, <2>2, <2>6, PutKeeps
  <2> HIDE DEF tagged
  <2>8. /\ Grown(doc')
        /\ doc'.offset = InfoStart'
        /\ start \in DOMAIN doc'.blocks /\ doc'.blocks[start] = Block("length", 0, width)
        /\ deep => /\ Laid(start + width, "length", 0, width)'
                   /\ Laid(start + 2 * width, "mask", 0, MaskLength)'
                   /\ Laid(start + 2 * width + MaskLength, "key", 0, SignatureAndKey)'
    <3>1. CASE deep
      BY <1>1, <2>1, <2>2, <2>4, <2>5, <2>6, <2>7, <3>1 DEF InfoStart, SectionStart, Laid
    <3>2. CASE ~deep
      BY <1>1, <2>1, <2>2, <2>4, <3>2 DEF InfoStart, SectionStart, Laid
    <3> QED BY <3>1, <3>2
  <2>9. ASSUME NEW o \in DOMAIN doc'.blocks
        PROVE  \/ o \in DOMAIN doc.blocks /\ doc'.blocks[o] = doc.blocks[o]
               \/ doc'.blocks[o].kind \in {"length", "mask", "key"}
    BY <1>1, <2>1, <2>2, <2>4, <2>5, <2>6, <2>7 DEF Block
  <2>10. Laid(0, "front", width, FrontLength)'
    BY <2>1, <2>4, <2>5, <2>6, <2>7
       DEF Layout, FrontLaid, Laid, FrontLength
  <2>11. FrontLaid'
    BY <2>1, <2>9, <2>10 DEF Layout, FrontLaid, Without, Marked, Listed, Joined, Recorded, Filled, Ended, Tailing, Closing
  <2>12. SectionLaid'
    <3>1. doc'.offset >= SectionStart + width
      BY <1>1, <2>1, <2>2, <2>8 DEF InfoStart, SectionStart
    <3> QED BY <2>1, <2>2, <2>8, <3>1 DEF SectionLaid, SectionStart, IsLengthAt, Laid, Block
  <2> QED BY <2>1, <2>8, <2>11, <2>12
        DEF Layout, StreamOK, TasksOK, InfoLaid, DataLaid, TailLaid, Indices, Marked, Listed, Joined, Recorded, Filled, Ended, Tailing, Closing
<1> QED BY <1>2, <1>3

\* Writing at the end after the markers of the section.
LEMMA PutLayout ==
  ASSUME WriteTypeOK, Layout, pc \in Marked, pc' \in (Marked \ {"info"}) \cup {"failed"},
         NEW kind, NEW val, NEW len \in Nat, len # 0, doc' = Put(doc, kind, val, len),
         n # 0 \/ kind # "count",
         UNCHANGED <<document, sectionMark>>
  PROVE  /\ doc'.offset = doc.offset + len
         /\ doc.offset \in DOMAIN doc'.blocks
         /\ doc'.blocks[doc.offset] = Block(kind, val, len)
         /\ \A o \in DOMAIN doc.blocks : o \in DOMAIN doc'.blocks /\ doc'.blocks[o] = doc.blocks[o]
         /\ \A o \in DOMAIN doc'.blocks : o \in DOMAIN doc.blocks \/ o = doc.offset
         /\ StreamOK' /\ FrontLaid' /\ SectionLaid'
<1>1. /\ StreamOK'
      /\ doc'.offset = doc.offset + len
      /\ DOMAIN doc'.blocks = DOMAIN doc.blocks \cup {doc.offset}
      /\ doc'.blocks[doc.offset] = Block(kind, val, len)
      /\ \A o \in DOMAIN doc.blocks : doc'.blocks[o] = doc.blocks[o]
  BY PutKeeps DEF Layout, StreamOK
<1>2. UNCHANGED <<n, width, deep, sectionMark>>
  BY DEF document
<1>3. FrontLaid'
  <2>1. pc' \notin {"reset", "header", "section", "info"}
    BY DEF Marked, Listed, Joined, Recorded, Filled, Ended, Tailing, Closing
  <2>2. Laid(0, "front", width, FrontLength)'
    BY <1>1, <1>2 DEF Layout, FrontLaid, Laid, FrontLength
  <2>3. (n = 0 => Without({"count"}))'
    BY <1>1, <1>2 DEF Layout, FrontLaid, Without, Block
  <2> QED BY <2>1, <2>2, <2>3 DEF FrontLaid
<1>4. SectionLaid'
  <2>1. pc' # "info"
    BY DEF Marked, Listed, Joined, Recorded, Filled, Ended, Tailing, Closing
  <2>2. /\ sectionMark' = SectionStart /\ IsLengthAt(sectionMark)'
        /\ (doc.offset >= SectionStart + width)'
    <3>1. doc.offset \in Nat /\ width \in {4, 8}
      BY Sizes DEF Layout, StreamOK, Grown
    <3> QED BY <1>1, <1>2, <3>1
          DEF Layout, SectionLaid, IsLengthAt, Laid, SectionStart, FrontLength
  <2>3. (deep => /\ Laid(SectionStart + width, "length", 0, width)
                 /\ Laid(SectionStart + 2 * width, "mask", 0, MaskLength)
                 /\ Laid(SectionStart + 2 * width + MaskLength, "key", 0, SignatureAndKey))'
    BY <1>1, <1>2
       DEF Layout, SectionLaid, Laid, SectionStart, FrontLength, MaskLength, SignatureAndKey
  <2> QED BY <2>1, <2>2, <2>3 DEF SectionLaid, SectionStart, FrontLength
<1> QED BY <1>1, <1>3, <1>4

\* The layer info begins, or there are no layers.
LEMMA InfoLayout ==
  ASSUME WriteTypeOK, Layout, EmptyLayerInfo \/ RefuseNoLayers \/ BeginLayerInfo
  PROVE  Layout'
<1>1. n \in Nat /\ width \in {4, 8}
  BY Sizes
<1>2. CASE EmptyLayerInfo
  <2>1. /\ pc = "info" /\ pc' = "blocks" /\ n = 0 /\ doc' = Put(doc, "length", 0, width)
        /\ UNCHANGED <<document, n, sectionMark, task, data, infos>>
    BY <1>2 DEF EmptyLayerInfo, Goto, document, layers
  <2>2. StreamOK' /\ FrontLaid' /\ SectionLaid'
    <3>1. pc \in Marked /\ pc' \in Marked \ {"info"}
      BY <2>1 DEF Marked, Listed, Joined, Recorded, Filled, Ended, Tailing, Closing
    <3> QED BY <1>1, <2>1, <3>1, PutLayout
  <2> QED BY <2>1, <2>2
        DEF Layout, TasksOK, InfoLaid, DataLaid, TailLaid, Indices
<1>3. CASE RefuseNoLayers
  <2>1. pc' = "failed" /\ n = 0 /\ UNCHANGED <<document, stream, data, infos, n, task>>
    BY <1>3 DEF RefuseNoLayers, Goto, document, layers
  <2>2. TasksOK'
    BY <2>1 DEF TasksOK, Indices
  <2> QED BY <2>1, <2>2, SilentLayout
<1>4. CASE BeginLayerInfo
  <2> DEFINE marked == Put(doc, "length", 0, width)
             start  == InfoStart
  <2>1. /\ pc = "info" /\ pc' = "compress" /\ n # 0 /\ infoMark' = doc.offset
        /\ doc' = Put(marked, "count", n, 2)
        /\ UNCHANGED <<document, n, width, deep, sectionMark, task, data, infos>>
    BY <1>4 DEF BeginLayerInfo, Goto, document, layers
  <2>2. /\ doc.offset = start /\ start \in Nat
        /\ Without({"count", "record", "data"})
        /\ Grown(doc)
    BY <2>1 DEF Layout, FrontLaid, SectionLaid, StreamOK, Grown, Marked
  <2>3. /\ Grown(marked)
        /\ marked.offset = start + width
        /\ DOMAIN marked.blocks = DOMAIN doc.blocks \cup {start}
        /\ marked.blocks[start] = Block("length", 0, width)
        /\ \A o \in DOMAIN doc.blocks : o # start /\ marked.blocks[o] = doc.blocks[o]
    BY <1>1, <2>2, PutKeeps
  <2> HIDE DEF marked, start
  <2>4. /\ Grown(doc')
        /\ doc'.offset = start + width + 2
        /\ DOMAIN doc'.blocks = DOMAIN marked.blocks \cup {start + width}
        /\ doc'.blocks[start + width] = Block("count", n, 2)
        /\ \A o \in DOMAIN marked.blocks : doc'.blocks[o] = marked.blocks[o]
    BY <1>1, <2>1, <2>3, PutKeeps
  <2>5. start' = start
    BY <2>1 DEF start, InfoStart, SectionStart, FrontLength, MaskLength, SignatureAndKey
  <2>6. /\ start \in DOMAIN doc'.blocks
        /\ doc'.blocks[start] = Block("length", 0, width)
        /\ start + width \in DOMAIN doc'.blocks
        /\ doc'.blocks[start + width] = Block("count", n, 2)
    BY <1>1, <2>3, <2>4
  <2>7. \A o \in DOMAIN doc.blocks : o \in DOMAIN doc'.blocks /\ doc'.blocks[o] = doc.blocks[o]
    BY <2>3, <2>4
  <2>8. Without({"record", "data"})'
    BY <2>2, <2>3, <2>4 DEF Without, Block
  <2>9. FrontLaid'
    BY <2>1, <2>7 DEF Layout, FrontLaid, Laid, FrontLength, Marked, Listed, Joined, Recorded, Filled, Ended, Tailing, Closing
  <2>10. SectionLaid'
    <3>1. doc.offset \in Nat /\ doc'.offset = doc.offset + width + 2
      BY <2>2, <2>4
    <3>2. doc'.offset >= SectionStart + width
      <4>1. doc.offset >= SectionStart + width
        BY <2>1 DEF Layout, SectionLaid, Marked
      <4> QED BY <1>1, <3>1, <4>1 DEF SectionStart, FrontLength
    <3> QED BY <2>1, <2>7, <3>2
       DEF Layout, SectionLaid, IsLengthAt, Laid, SectionStart, FrontLength, MaskLength,
           SignatureAndKey, Marked, Listed, Joined, Recorded, Filled, Ended, Tailing, Closing
  <2>11. InfoLaid'
    <3>1. infoMark' = start /\ infoMark' = InfoStart'
      BY <2>1, <2>2, <2>5 DEF start
    <3>2. IsLengthAt(infoMark)' /\ Laid(infoMark + width, "count", n, 2)'
      <4>1. infoMark' + width' = start + width
        BY <2>1, <3>1
      <4> QED BY <2>1, <2>6, <3>1, <4>1 DEF IsLengthAt, Laid, Block
    <3> QED BY <2>1, <2>4, <2>8, <3>1, <3>2
          DEF InfoLaid, RecordsStart, Marked, Listed, Joined, Recorded, Filled, Ended, Tailing, Closing
  <2>12. TasksOK' /\ DataLaid' /\ TailLaid'
    BY <2>1 DEF Layout, TasksOK, DataLaid, TailLaid, Indices, Marked, Listed, Joined, Recorded, Filled, Ended, Tailing, Closing
  <2> QED BY <2>4, <2>9, <2>10, <2>11, <2>12 DEF Layout, StreamOK
<1> QED BY <1>2, <1>3, <1>4

\* The parallel loop: only the lengths of the task's own layer change.
LEMMA TaskLayout ==
  ASSUME WriteTypeOK, ProgressAccounting, Layout, NEW k \in Indices, Task(k)
  PROVE  Layout'
<1>1. CASE Compress(k)
  <2>1. /\ pc = "compress" /\ UNCHANGED <<pc, document, stream, n, width, deep, blocks, doc,
                                          sectionMark, infoMark>>
    BY <1>1 DEF Compress, document, stream
  <2>2. TasksOK'
    <3>1. PICK len \in Lengths : /\ data' = [data EXCEPT ![k] = len]
                                 /\ infos' = [infos EXCEPT ![k] = len + 2]
      BY <1>1 DEF Compress
    <3>2. task' = [task EXCEPT ![k] = "compressed"]
      BY <1>1 DEF Compress
    <3> QED BY <2>1, <3>1, <3>2 DEF Layout, TasksOK, WriteTypeOK, Indices, Marked, Listed, Joined, Recorded, Filled, Ended, Tailing, Closing
  <2>3. StreamOK' /\ FrontLaid' /\ SectionLaid' /\ InfoLaid'
    BY <2>1 DEF Layout, StreamOK, Grown, FrontLaid, SectionLaid, InfoLaid, Laid, Without,
       IsLengthAt, InfoStart, RecordsStart, SectionStart, Marked, Listed, Joined, Recorded, Filled, Ended, Tailing, Closing
  <2>4. DataLaid' /\ TailLaid'
    BY <2>1 DEF DataLaid, TailLaid, Marked, Listed, Joined, Recorded, Filled, Ended, Tailing, Closing
  <2> QED BY <2>2, <2>3, <2>4 DEF Layout
<1>2. CASE CountCompressed(k)
  <2>1. pc = "compress" /\ UNCHANGED <<pc, document, stream, n, data, infos, next>>
    BY <1>2 DEF CountCompressed, document, stream
  <2>2. TasksOK'
    BY <1>2, <2>1 DEF Layout, TasksOK, CountCompressed, WriteTypeOK, Indices, Marked, Listed, Joined, Recorded, Filled, Ended, Tailing, Closing
  <2> QED BY <2>1, <2>2, SilentLayout
<1> QED BY <1>1, <1>2 DEF Task

\* The steps that move between phases and write nothing.
LEMMA QuietLayout ==
  ASSUME WriteTypeOK, ProgressAccounting, Layout,
         Reset \/ Join \/ EndRecords \/ EndData \/ CountImage \/ UNCHANGED vars
  PROVE  Layout'
<1>1. UNCHANGED <<document, stream, data, infos, n, task>>
  BY DEF Reset, Join, EndRecords, EndData, CountImage, Goto, vars, document, layers
<1>2. n \in Nat /\ next \in 1..(n + 1)
  BY Sizes
<1>3. CASE Reset \/ UNCHANGED vars
  <2>1. TasksOK'
    BY <1>1, <1>3 DEF Reset, Goto, vars, Layout, TasksOK, Indices, Marked, Listed, Joined, Recorded, Filled, Ended, Tailing, Closing
  <2> QED BY <1>1, <1>3, <2>1, SilentLayout DEF Reset, Goto, vars, layers
<1>4. CASE Join
  <2>1. TasksOK'
    BY <1>1, <1>4 DEF Join, Goto, Layout, TasksOK, Indices, Marked, Listed, Joined, Recorded, Filled, Ended, Tailing, Closing
  <2> QED BY <1>1, <1>4, <2>1, SilentLayout DEF Join, Goto
<1>5. CASE EndRecords \/ EndData \/ CountImage
  <2>1. TasksOK'
    BY <1>1, <1>5 DEF EndRecords, EndData, CountImage, Goto, Layout, TasksOK, Indices, Marked, Listed, Joined, Recorded, Filled, Ended, Tailing, Closing
  <2> QED BY <1>1, <1>2, <1>5, <2>1, SilentLayout DEF EndRecords, EndData, CountImage, Goto
<1> QED BY <1>3, <1>4, <1>5

\* A record and the data of a layer are written behind the one of the layer
\* before.
LEMMA LayerLayout ==
  ASSUME WriteTypeOK, ProgressAccounting, Layout, WriteRecord \/ WriteData
  PROVE  Layout'
<1>1. n \in Nat /\ width \in {4, 8} /\ next \in 1..(n + 1)
  BY Sizes
<1>2. \A k \in Indices : data[k] \in Nat /\ infos[k] \in Nat
  BY Sizes
<1>3. /\ pc' = pc /\ pc \in {"records", "data"} /\ next <= n /\ next' = next + 1
      /\ UNCHANGED <<document, n, width, deep, blocks, sectionMark, infoMark, task, data, infos>>
  BY DEF WriteRecord, WriteData, document
<1>4. next \in Indices /\ n # 0 /\ next - 1 \in Nat /\ next - 1 < n /\ (next - 1) + 1 = next
      /\ next' - 1 = next
  BY <1>1, <1>3 DEF Indices
<1> PICK kind, m : kind = (IF pc = "records" THEN "record" ELSE "data") /\ m = next - 1
  OBVIOUS
<1> PICK val, len : val = LinkValue(kind, next) /\ len = LinkLength(kind, next)
  OBVIOUS
<1>5. doc' = Put(doc, kind, val, len)
  BY <1>3, <1>4 DEF WriteRecord, WriteData, LinkValue, LinkLength
<1>6. \A k \in Indices : LinkLength(kind, k) \in Nat \ {0}
  BY <1>1, <1>2 DEF LinkLength, RecordLength
<1>7. \A j, k \in Indices : LinkValue(kind, j) = LinkValue(kind, k) => j = k
  BY DEF LinkValue
<1>8. /\ StreamOK' /\ FrontLaid' /\ SectionLaid'
      /\ \A o \in DOMAIN doc.blocks : o \in DOMAIN doc'.blocks /\ doc'.blocks[o] = doc.blocks[o]
      /\ \A o \in DOMAIN doc'.blocks :
           \/ o \in DOMAIN doc.blocks /\ doc'.blocks[o] = doc.blocks[o]
           \/ doc'.blocks[o].kind = kind
  <2>1. pc \in Marked /\ pc' \in (Marked \ {"info"}) \cup {"failed"}
    BY <1>3 DEF Marked, Listed, Joined, Recorded, Filled, Ended, Tailing, Closing
  <2>2. len \in Nat /\ len # 0
    BY <1>4, <1>6
  <2>3. UNCHANGED <<document, sectionMark>>
    BY <1>3
  <2>4. Block(kind, val, len).kind = kind
    BY DEF Block
  <2> QED BY <1>4, <1>5, <2>1, <2>2, <2>3, <2>4, PutLayout
<1>9. TasksOK'
  BY <1>3 DEF Layout, TasksOK, Indices
<1>10. ASSUME NEW from, Chain(kind, from, m, doc.offset)
       PROVE  Chain(kind, from, m + 1, doc.offset)'
  <2>1. m \in Nat /\ m < n /\ m + 1 = next
    BY <1>4
  <2>2. doc' = Put(doc, kind, LinkValue(kind, m + 1), LinkLength(kind, m + 1))
    BY <1>5, <2>1
  <2>3. StreamOK /\ UNCHANGED <<n, width, data, infos>>
    BY <1>3 DEF Layout
  <2> QED BY <1>1, <1>6, <1>7, <1>10, <2>1, <2>2, <2>3, ChainGrows
<1>11. ASSUME NEW other, other # kind, NEW from, NEW q, NEW to, Chain(other, from, q, to)
       PROVE  Chain(other, from, q, to)'
  BY <1>3, <1>8, <1>11, ChainKept
<1>12. InfoLaid'
  <2>1. /\ infoMark' = InfoStart' /\ IsLengthAt(infoMark)' /\ Laid(infoMark + width, "count", n, 2)'
        /\ RecordsStart' = RecordsStart
    BY <1>3, <1>4, <1>8
       DEF Layout, InfoLaid, IsLengthAt, Laid, InfoStart, SectionStart, RecordsStart, Marked, Listed, Joined, Recorded, Filled, Ended, Tailing, Closing
  <2>2. CASE pc = "records"
    <3>1. Without({"data"}) /\ Chain("record", RecordsStart, m, doc.offset)
      BY <1>4, <2>2 DEF Layout, InfoLaid, Listed, Joined
    <3>2. Chain("record", RecordsStart, next - 1, doc.offset)'
      <4> PICK from : from = RecordsStart
        OBVIOUS
      <4>1. Chain("record", from, m + 1, doc.offset)'
        BY <1>10, <2>2, <3>1
      <4> QED BY <1>4, <2>1, <4>1
    <3>3. Without({"data"})'
      BY <1>8, <2>2, <3>1 DEF Without
    <3> QED BY <1>3, <2>1, <2>2, <3>2, <3>3 DEF InfoLaid
  <2>3. CASE pc = "data"
    BY <1>3, <2>1, <2>3 DEF InfoLaid
  <2> QED BY <1>3, <2>2, <2>3
<1>13. DataLaid'
  <2>1. CASE pc = "records"
    BY <1>3, <2>1 DEF DataLaid, Marked, Listed, Joined, Recorded, Filled, Ended, Tailing, Closing
  <2>2. CASE pc = "data"
    <3>1. PICK start \in Nat : /\ Chain("record", RecordsStart, n, start)
                              /\ Chain("data", start, m, doc.offset)
      BY <1>4, <2>2 DEF Layout, DataLaid, Recorded
    <3>2. RecordsStart' = RecordsStart
      BY <1>3 DEF RecordsStart
    <3>3. Chain("record", RecordsStart, n, start)'
      <4> PICK from, q : from = RecordsStart /\ q = n
        OBVIOUS
      <4>1. Chain("record", from, q, start)'
        BY <1>11, <2>2, <3>1
      <4> QED BY <1>3, <3>2, <4>1
    <3>4. Chain("data", start, m + 1, doc.offset)'
      BY <1>10, <2>2, <3>1
    <3>5. doc'.offset \in Nat
      BY <1>8 DEF StreamOK, Grown
    <3> QED BY <1>3, <1>4, <2>2, <3>3, <3>4, <3>5 DEF DataLaid, Marked, Listed, Joined, Recorded, Filled, Ended, Tailing, Closing
  <2> QED BY <1>3, <2>1, <2>2
<1>14. TailLaid'
  BY <1>3 DEF TailLaid, Marked, Listed, Joined, Recorded, Filled, Ended, Tailing, Closing
<1> QED BY <1>8, <1>9, <1>12, <1>13, <1>14 DEF Layout

\* Where the two length markers are.
LEMMA MarksApart ==
  ASSUME WriteTypeOK, Layout, n # 0, pc \in Listed
  PROVE  /\ sectionMark = 34 /\ sectionMark \in DOMAIN doc.blocks
         /\ infoMark = IF deep THEN 46 + 2 * width ELSE 34 + width
         /\ infoMark \in DOMAIN doc.blocks
         /\ infoMark + width \in DOMAIN doc.blocks
         /\ infoMark + width < doc.offset /\ doc.offset \in Nat
<1>1. n \in Nat /\ width \in {4, 8}
  BY Sizes
<1>2. pc \in Marked
  BY DEF Marked
<1>3. SectionLaid /\ InfoLaid /\ StreamOK
  BY DEF Layout
<1>4. sectionMark = 34 /\ sectionMark \in DOMAIN doc.blocks
  BY <1>2, <1>3 DEF SectionLaid, IsLengthAt, Laid, SectionStart, FrontLength
<1>5. infoMark = InfoStart /\ infoMark \in DOMAIN doc.blocks /\ infoMark + width \in DOMAIN doc.blocks
  BY <1>3 DEF InfoLaid, IsLengthAt, Laid
<1>6. InfoStart = IF deep THEN 46 + 2 * width ELSE 34 + width
  BY <1>1 DEF InfoStart, SectionStart, FrontLength, MaskLength, SignatureAndKey
<1> QED BY <1>3, <1>4, <1>5, <1>6 DEF StreamOK, Grown

\* The layer info ends: its length is known.
LEMMA InfoEndLayout ==
  ASSUME WriteTypeOK, ProgressAccounting, Layout, PatchLayerInfo
  PROVE  Layout'
<1> DEFINE size    == doc.offset - infoMark
           rounded == RoundUpToMultiple(size, 4)
<1>1. n \in Nat /\ width \in {4, 8} /\ n # 0
  BY Sizes DEF ProgressAccounting, WithLayers, PatchLayerInfo, Goto
<1>2. /\ pc = "patch_info" /\ pc' = (IF deep THEN "blocks" ELSE "mask")
      /\ doc' = Patch(doc, infoMark, width, rounded - width, rounded - size)
      /\ UNCHANGED <<document, n, width, deep, blocks, sectionMark, infoMark, task, data, infos>>
  BY DEF PatchLayerInfo, Goto, document, layers
<1>3. /\ sectionMark = 34 /\ infoMark \in DOMAIN doc.blocks
      /\ infoMark = IF deep THEN 46 + 2 * width ELSE 34 + width
      /\ infoMark + width \in DOMAIN doc.blocks
      /\ infoMark + width < doc.offset /\ doc.offset \in Nat
  BY <1>1, <1>2, MarksApart DEF Marked, Listed, Joined, Recorded, Filled, Ended, Tailing, Closing
<1>4. size \in Nat /\ size > width
  BY <1>1, <1>3
<1>5. rounded \in Nat /\ rounded - size \in 0..3 /\ rounded % 4 = 0
  BY <1>4, RoundingUp
<1> HIDE DEF rounded
<1>6. rounded - size \in Nat
  BY <1>5
<1>7. /\ StreamOK'
      /\ doc'.offset = infoMark + rounded
      /\ DOMAIN doc'.blocks
           = DOMAIN doc.blocks \cup (IF rounded = size THEN {} ELSE {doc.offset})
      /\ doc'.blocks[infoMark] = Block("length", rounded - width, width)
      /\ rounded # size => doc'.blocks[doc.offset].kind = "padding"
      /\ \A o \in DOMAIN doc.blocks \ {infoMark} : doc'.blocks[o] = doc.blocks[o]
  <2> PICK length, padding : length = rounded - width /\ padding = rounded - size
    OBVIOUS
  <2>1. StreamOK /\ padding \in Nat /\ doc' = Patch(doc, infoMark, width, length, padding)
    BY <1>2, <1>6 DEF Layout
  <2>2. /\ StreamOK'
        /\ doc'.offset = doc.offset + padding
        /\ DOMAIN doc'.blocks
             = DOMAIN doc.blocks \cup (IF padding = 0 THEN {} ELSE {doc.offset})
        /\ doc'.blocks[infoMark] = Block("length", length, width)
        /\ padding # 0 => doc'.blocks[doc.offset] = Block("padding", 0, padding)
        /\ \A o \in DOMAIN doc.blocks \ {infoMark} : doc'.blocks[o] = doc.blocks[o]
    <3> PICK mark : mark = infoMark
      OBVIOUS
    <3> QED BY <1>3, <2>1, PatchKeeps
  <2>3. doc.offset + padding = infoMark + rounded /\ (padding = 0 <=> rounded = size)
    BY <1>3, <1>4, <1>5, <1>1
  <2>4. Block("padding", 0, padding).kind = "padding"
    BY DEF Block
  <2> QED BY <2>2, <2>3, <2>4
<1>8. \A o \in DOMAIN doc'.blocks :
        \/ o \in DOMAIN doc.blocks /\ doc'.blocks[o] = doc.blocks[o]
        \/ doc'.blocks[o].kind \in {"length", "padding"}
  BY <1>7 DEF Block
<1>9. doc.blocks[infoMark].kind = "length"
  BY <1>1, <1>2 DEF Layout, InfoLaid, IsLengthAt, Laid, Block, Marked, Listed, Joined, Recorded, Filled, Ended, Tailing, Closing
<1>10. FrontLaid' /\ SectionLaid' /\ TasksOK'
  <2>1. Laid(0, "front", width, FrontLength)'
    BY <1>1, <1>2, <1>3, <1>7 DEF Layout, FrontLaid, Laid, FrontLength, Marked, Listed, Joined, Recorded, Filled, Ended, Tailing, Closing
  <2>2. SectionLaid'
    <3>1. doc'.offset >= SectionStart + width
      BY <1>1, <1>3, <1>4, <1>5, <1>7 DEF SectionStart, FrontLength
    <3> QED BY <1>1, <1>2, <1>3, <1>7, <3>1
       DEF Layout, SectionLaid, IsLengthAt, Laid, SectionStart, FrontLength, MaskLength,
           SignatureAndKey, Marked, Listed, Joined, Recorded, Filled, Ended, Tailing, Closing
  <2> QED BY <1>1, <1>2, <2>1, <2>2 DEF Layout, FrontLaid, TasksOK, Indices, Marked, Listed, Joined, Recorded, Filled, Ended, Tailing, Closing
<1>11. InfoLength' = rounded - width /\ InfoEnd' = infoMark + rounded
  BY <1>1, <1>2, <1>3, <1>5, <1>7 DEF InfoLength, InfoEnd, Block
<1>12. InfoLaid'
  <2>1. infoMark' = InfoStart'
    BY <1>1, <1>2 DEF Layout, InfoLaid, InfoStart, SectionStart, Marked, Listed, Joined, Recorded, Filled, Ended, Tailing, Closing
  <2>2. rounded - width \in Nat
    BY <1>1, <1>4, <1>5
  <2>3. IsLengthAt(infoMark)'
    BY <1>2, <1>3, <1>7, <2>2 DEF IsLengthAt, Laid, Block
  <2>4. Laid(infoMark + width, "count", n, 2)'
    <3>1. Laid(infoMark + width, "count", n, 2)
      BY <1>1, <1>2 DEF Layout, InfoLaid, Marked, Listed, Joined, Recorded, Filled, Ended, Tailing, Closing
    <3> QED BY <1>1, <1>2, <1>3, <1>7, <3>1 DEF Laid
  <2> QED BY <1>2, <2>1, <2>3, <2>4 DEF InfoLaid, Marked, Listed, Joined, Recorded, Filled, Ended, Tailing, Closing
<1>13. DataLaid'
  <2>1. PICK start, end \in Nat : /\ Chain("record", RecordsStart, n, start)
                                 /\ Chain("data", start, n, end)
                                 /\ end = doc.offset
    BY <1>1, <1>2 DEF Layout, DataLaid, Marked, Listed, Joined, Recorded, Filled, Ended, Tailing, Closing
  <2>2. ASSUME NEW kind \in {"record", "data"}, NEW from, NEW m, NEW to,
               Chain(kind, from, m, to)
        PROVE  Chain(kind, from, m, to)'
    <3>1. \A o \in DOMAIN doc.blocks :
            doc.blocks[o].kind = kind
              => o \in DOMAIN doc'.blocks /\ doc'.blocks[o] = doc.blocks[o]
      BY <1>7, <1>9
    <3>2. \A o \in DOMAIN doc'.blocks :
            doc'.blocks[o].kind = kind
              => o \in DOMAIN doc.blocks /\ doc'.blocks[o] = doc.blocks[o]
      BY <1>8
    <3> QED BY <1>2, <2>2, <3>1, <3>2, ChainKept
  <2>3. Chain("record", RecordsStart, n, start)'
    <3> PICK from, q : from = RecordsStart /\ q = n
      OBVIOUS
    <3>1. Chain("record", from, q, start)'
      BY <2>1, <2>2
    <3>2. RecordsStart' = RecordsStart
      BY <1>2 DEF RecordsStart
    <3> QED BY <1>2, <3>1, <3>2
  <2>4. Chain("data", start, n, end)'
    <3> PICK q : q = n
      OBVIOUS
    <3>1. Chain("data", start, q, end)'
      BY <2>1, <2>2
    <3> QED BY <1>2, <3>1
  <2>5. InfoEnd' - end \in 0..3 /\ InfoLength' # 0
    BY <1>1, <1>3, <1>4, <1>5, <1>11, <2>1
  <2>6. pc' \notin {"data", "patch_info"}
    BY <1>2
  <2> QED BY <2>3, <2>4, <2>5, <2>6 DEF DataLaid
<1>14. TailLaid'
  <2>1. InfoLength' % 4 = 0
    BY <1>1, <1>4, <1>5, <1>11
  <2>2. doc'.offset = InfoEnd'
    BY <1>7, <1>11
  <2> QED BY <1>2, <2>1, <2>2 DEF TailLaid, BlocksStart, Marked, Listed, Joined, Recorded, Filled, Ended, Tailing, Closing
<1> QED BY <1>7, <1>10, <1>12, <1>13, <1>14 DEF Layout

\* Behind the layer info nothing changes it, nor the layers in it.
LEMMA InfoKept ==
  ASSUME WriteTypeOK, Layout, n # 0, pc \in Ended, pc' \in Ended,
         UNCHANGED <<document, infoMark, data, infos>>,
         \A o \in DOMAIN doc.blocks :
           o # sectionMark => o \in DOMAIN doc'.blocks /\ doc'.blocks[o] = doc.blocks[o],
         \A o \in DOMAIN doc'.blocks :
           \/ o \in DOMAIN doc.blocks /\ doc'.blocks[o] = doc.blocks[o]
           \/ doc'.blocks[o].kind \notin {"record", "data"}
  PROVE  /\ InfoLaid' /\ DataLaid'
         /\ UNCHANGED <<InfoLength, InfoEnd, BlocksStart>>
         /\ InfoEnd \in Nat /\ InfoEnd > sectionMark /\ BlocksStart \in Nat
         /\ InfoEnd > infoMark /\ infoMark > sectionMark
<1>1. /\ pc \in Listed /\ pc \in Recorded /\ pc' \in Recorded
      /\ pc \notin {"compress", "records", "data", "patch_info"}
      /\ pc' \notin {"compress", "records", "data", "patch_info"}
  BY DEF Marked, Listed, Joined, Recorded, Filled, Ended, Tailing, Closing
<1>2. n \in Nat /\ width \in {4, 8} /\ UNCHANGED <<n, width, deep>>
  BY Sizes DEF document
<1>3. /\ sectionMark = 34 /\ sectionMark \in DOMAIN doc.blocks /\ infoMark \in DOMAIN doc.blocks
      /\ infoMark = IF deep THEN 46 + 2 * width ELSE 34 + width
      /\ infoMark + width \in DOMAIN doc.blocks
  BY <1>1, MarksApart
<1>4. doc'.blocks[infoMark] = doc.blocks[infoMark] /\ infoMark \in DOMAIN doc'.blocks
  BY <1>2, <1>3
<1>5. InfoLaid
  BY DEF Layout
<1>6. UNCHANGED <<InfoLength, InfoEnd, BlocksStart>>
  BY <1>2, <1>4 DEF InfoLength, InfoEnd, BlocksStart, MaskLength
<1>7. /\ InfoEnd \in Nat /\ InfoEnd > sectionMark /\ BlocksStart \in Nat
      /\ InfoEnd > infoMark /\ infoMark > sectionMark
  BY <1>1, <1>2, <1>3, <1>5
     DEF InfoLaid, IsLengthAt, Laid, InfoEnd, InfoLength, BlocksStart, MaskLength
<1>8. InfoLaid'
  <2>1. infoMark' = InfoStart'
    BY <1>1, <1>2, <1>5 DEF InfoLaid, InfoStart, SectionStart
  <2>2. IsLengthAt(infoMark)'
    BY <1>1, <1>2, <1>4, <1>5 DEF InfoLaid, IsLengthAt, Laid
  <2>3. Laid(infoMark + width, "count", n, 2)'
    <3>1. Laid(infoMark + width, "count", n, 2)
      BY <1>1, <1>5 DEF InfoLaid
    <3>2. infoMark + width # sectionMark
      BY <1>2, <1>3
    <3> QED BY <1>2, <3>1, <3>2 DEF Laid
  <2> QED BY <1>1, <2>1, <2>2, <2>3 DEF InfoLaid
<1>9. ASSUME NEW kind \in {"record", "data"}, NEW from, NEW m, NEW to,
             Chain(kind, from, m, to)
      PROVE  Chain(kind, from, m, to)'
  <2>1. doc.blocks[sectionMark].kind = "length"
    BY <1>1 DEF Layout, SectionLaid, IsLengthAt, Laid, Block, Marked
  <2>2. \A o \in DOMAIN doc.blocks :
          doc.blocks[o].kind = kind
            => o \in DOMAIN doc'.blocks /\ doc'.blocks[o] = doc.blocks[o]
    BY <2>1
  <2>3. \A o \in DOMAIN doc'.blocks :
          doc'.blocks[o].kind = kind
            => o \in DOMAIN doc.blocks /\ doc'.blocks[o] = doc.blocks[o]
    OBVIOUS
  <2> QED BY <1>2, <1>9, <2>2, <2>3, ChainKept
<1>10. DataLaid'
  <2>1. PICK start, end \in Nat : /\ Chain("record", RecordsStart, n, start)
                                 /\ Chain("data", start, n, end)
                                 /\ InfoEnd - end \in 0..3 /\ InfoLength # 0
    BY <1>1 DEF Layout, DataLaid
  <2>2. Chain("record", RecordsStart, n, start)'
    <3> PICK from, q : from = RecordsStart /\ q = n
      OBVIOUS
    <3>1. Chain("record", from, q, start)'
      BY <1>9, <2>1
    <3>2. RecordsStart' = RecordsStart
      BY <1>2 DEF RecordsStart
    <3> QED BY <1>2, <3>1, <3>2
  <2>3. Chain("data", start, n, end)'
    <3> PICK q : q = n
      OBVIOUS
    <3>1. Chain("data", start, q, end)'
      BY <1>9, <2>1
    <3> QED BY <1>2, <3>1
  <2> QED BY <1>1, <1>6, <2>1, <2>2, <2>3 DEF DataLaid
<1> QED BY <1>6, <1>7, <1>8, <1>10

\* The global mask info, the tagged blocks and the merged image.
LEMMA TailLayout ==
  ASSUME WriteTypeOK, Layout, WriteMask \/ WriteBlocks \/ WriteImage \/ RefuseImage
  PROVE  Layout'
<1>1. n \in Nat /\ width \in {4, 8} /\ blocks \in Nat
  BY Sizes
<1>2. UNCHANGED <<document, n, width, deep, blocks, sectionMark, infoMark, task, data, infos>>
  BY DEF WriteMask, WriteBlocks, WriteImage, RefuseImage, document, layers
<1>3. CASE WriteBlocks /\ blocks = 0
  <2>1. pc = "blocks" /\ pc' = "patch_section" /\ doc' = doc
    BY <1>3 DEF WriteBlocks, Goto
  <2>2. StreamOK' /\ TasksOK' /\ FrontLaid' /\ SectionLaid'
    BY <1>2, <2>1
       DEF Layout, StreamOK, Grown, TasksOK, FrontLaid, SectionLaid, IsLengthAt, Laid, Without,
           Indices, SectionStart, Marked, Listed, Joined, Recorded, Filled, Ended, Tailing, Closing
  <2>3. CASE n = 0
    BY <1>2, <2>2, <2>3 DEF Layout, InfoLaid, DataLaid, TailLaid
  <2>4. CASE n # 0
    <3>1. pc \in Ended /\ pc' \in Ended
      BY <2>1 DEF Marked, Listed, Joined, Recorded, Filled, Ended, Tailing, Closing
    <3>2. InfoLaid' /\ DataLaid' /\ UNCHANGED <<InfoLength, InfoEnd, BlocksStart>>
          /\ BlocksStart \in Nat
      BY <1>2, <2>1, <2>4, <3>1, InfoKept
    <3>3. TailLaid'
      BY <1>1, <1>2, <1>3, <2>1, <2>4, <3>2 DEF Layout, TailLaid, Laid, Marked, Listed, Joined, Recorded, Filled, Ended, Tailing, Closing
    <3> QED BY <2>2, <3>2, <3>3 DEF Layout
  <2> QED BY <2>3, <2>4
<1>4. CASE ~(WriteBlocks /\ blocks = 0)
  <2> PICK kind, len : /\ kind = IF pc = "mask" THEN "mask" ELSE IF pc = "blocks" THEN "block"
                                 ELSE IF pc' = "failed" THEN "marker" ELSE "image"
                       /\ len = IF pc = "mask" THEN MaskLength
                                ELSE IF pc = "blocks" THEN blocks ELSE 2
    OBVIOUS
  <2>1. /\ \/ pc = "mask" /\ pc' = "blocks"
           \/ pc = "blocks" /\ pc' = "patch_section"
           \/ pc = "image" /\ pc' = "last"
           \/ pc = "image" /\ pc' = "failed"
        /\ doc' = Put(doc, kind, 0, len)
    BY <1>4 DEF WriteMask, WriteBlocks, WriteImage, RefuseImage, Goto, ImageLength
  <2>2. /\ len \in Nat /\ len # 0
        /\ kind \notin {"count", "record", "data", "length"}
    BY <1>1, <1>4, <2>1 DEF WriteMask, WriteBlocks, WriteImage, RefuseImage, Goto, MaskLength
  <2>3. /\ doc'.offset = doc.offset + len
        /\ doc.offset \in DOMAIN doc'.blocks
        /\ doc'.blocks[doc.offset] = Block(kind, 0, len)
        /\ \A o \in DOMAIN doc.blocks : o \in DOMAIN doc'.blocks /\ doc'.blocks[o] = doc.blocks[o]
        /\ \A o \in DOMAIN doc'.blocks : o \in DOMAIN doc.blocks \/ o = doc.offset
        /\ StreamOK' /\ FrontLaid' /\ SectionLaid'
    <3>1. pc \in Marked /\ pc' \in (Marked \ {"info"}) \cup {"failed"}
      BY <2>1 DEF Marked, Listed, Joined, Recorded, Filled, Ended, Tailing, Closing
    <3> QED BY <1>2, <2>1, <2>2, <3>1, PutLayout
  <2>4. TasksOK'
    BY <1>2, <2>1 DEF Layout, TasksOK, Indices, Marked, Listed, Joined, Recorded, Filled, Ended, Tailing, Closing
  <2>5. CASE n = 0 \/ pc' = "failed"
    BY <1>2, <2>3, <2>4, <2>5 DEF Layout, InfoLaid, DataLaid, TailLaid, Marked, Listed, Joined, Recorded, Filled, Ended, Tailing, Closing
  <2>6. CASE n # 0 /\ pc' # "failed"
    <3>1. pc \in Ended /\ pc' \in Ended
      BY <2>1, <2>6 DEF Marked, Listed, Joined, Recorded, Filled, Ended, Tailing, Closing
    <3>2. Block(kind, 0, len).kind = kind
      BY DEF Block
    <3>3. InfoLaid' /\ DataLaid' /\ UNCHANGED <<InfoLength, InfoEnd, BlocksStart>>
          /\ InfoEnd \in Nat /\ BlocksStart \in Nat
      BY <1>2, <2>2, <2>3, <2>6, <3>1, <3>2, InfoKept
    <3>4. doc.offset \in Nat
      BY DEF Layout, StreamOK, Grown
    <3>5. SectionLength' = SectionLength /\ SectionEnd' = SectionEnd
      <4>1. sectionMark \in DOMAIN doc.blocks
        BY <2>1 DEF Layout, SectionLaid, IsLengthAt, Laid, Marked, Listed, Joined, Recorded, Filled, Ended, Tailing, Closing
      <4> QED BY <1>2, <2>3, <4>1 DEF SectionLength, SectionEnd
    <3>6. TailLaid
      BY DEF Layout
    <3>7. ASSUME pc = "mask" PROVE TailLaid'
      BY <1>1, <1>2, <2>1, <2>3, <2>6, <3>3, <3>6, <3>7
         DEF TailLaid, Laid, BlocksStart, MaskLength, Marked, Listed, Joined, Recorded, Filled, Ended, Tailing, Closing
    <3>8. ASSUME pc = "blocks" PROVE TailLaid'
      BY <1>1, <1>2, <2>1, <2>3, <2>6, <3>3, <3>6, <3>8 DEF TailLaid, Laid, Marked, Listed, Joined, Recorded, Filled, Ended, Tailing, Closing
    <3>9. ASSUME pc = "image" PROVE TailLaid'
      BY <1>1, <1>2, <2>1, <2>3, <2>6, <3>3, <3>5, <3>6, <3>9
         DEF TailLaid, Laid, ImageLength, Marked, Listed, Joined, Recorded, Filled, Ended, Tailing, Closing
    <3> QED BY <2>1, <2>3, <2>4, <3>3, <3>7, <3>8, <3>9 DEF Layout
  <2> QED BY <2>5, <2>6
<1> QED BY <1>3, <1>4

\* The section ends: its length is known.
LEMMA SectionEndLayout ==
  ASSUME WriteTypeOK, Layout, PatchSection
  PROVE  Layout'
<1>0. PICK size, rounded : /\ size = (doc.offset - sectionMark) - width
                           /\ rounded = RoundUpToMultiple(size, 4)
  OBVIOUS
<1>1. n \in Nat /\ width \in {4, 8} /\ blocks \in Nat
  BY Sizes
<1>2. /\ pc = "patch_section" /\ pc' = "image"
      /\ doc' = Patch(doc, sectionMark, width, rounded, rounded - size)
      /\ UNCHANGED <<document, n, width, deep, blocks, sectionMark, infoMark, task, data, infos>>
  BY <1>0 DEF PatchSection, Goto, document, layers
<1>3. /\ sectionMark = 34 /\ sectionMark \in DOMAIN doc.blocks
      /\ doc.offset \in Nat /\ doc.offset >= 34 + width
  BY <1>2 DEF Layout, StreamOK, Grown, SectionLaid, IsLengthAt, Laid, SectionStart, FrontLength,
     Marked, Listed, Joined, Recorded, Filled, Ended, Tailing, Closing
<1>4. size \in Nat /\ rounded \in Nat /\ rounded - size \in 0..3 /\ rounded % 4 = 0
  <2>1. size \in Nat
    BY <1>0, <1>1, <1>3
  <2> QED BY <1>0, <2>1, RoundingUp
<1>5. /\ StreamOK'
      /\ doc'.offset = sectionMark + width + rounded
      /\ DOMAIN doc'.blocks
           = DOMAIN doc.blocks \cup (IF rounded = size THEN {} ELSE {doc.offset})
      /\ doc'.blocks[sectionMark] = Block("length", rounded, width)
      /\ rounded # size => doc'.blocks[doc.offset].kind = "padding"
      /\ \A o \in DOMAIN doc.blocks \ {sectionMark} : doc'.blocks[o] = doc.blocks[o]
  <2>0. PICK padding, mark : padding = rounded - size /\ mark = sectionMark
    OBVIOUS
  <2>1. StreamOK /\ padding \in Nat /\ doc' = Patch(doc, mark, width, rounded, padding)
    BY <1>2, <1>4, <2>0 DEF Layout
  <2>2. /\ StreamOK'
        /\ doc'.offset = doc.offset + padding
        /\ DOMAIN doc'.blocks
             = DOMAIN doc.blocks \cup (IF padding = 0 THEN {} ELSE {doc.offset})
        /\ doc'.blocks[mark] = Block("length", rounded, width)
        /\ padding # 0 => doc'.blocks[doc.offset] = Block("padding", 0, padding)
        /\ \A o \in DOMAIN doc.blocks \ {mark} : doc'.blocks[o] = doc.blocks[o]
    BY <1>3, <2>0, <2>1, PatchKeeps
  <2>3. doc.offset + padding = sectionMark + width + rounded /\ (padding = 0 <=> rounded = size)
    <3>1. padding = rounded - size /\ size = (doc.offset - 34) - width
      BY <1>0, <1>3, <2>0
    <3>2. width \in Nat /\ doc.offset \in Nat /\ rounded \in Nat /\ sectionMark = 34
      BY <1>1, <1>3, <1>4
    <3> QED BY <3>1, <3>2
  <2>4. Block("padding", 0, padding).kind = "padding"
    BY DEF Block
  <2> QED BY <2>0, <2>2, <2>3, <2>4
<1>6. \A o \in DOMAIN doc'.blocks :
        \/ o \in DOMAIN doc.blocks /\ doc'.blocks[o] = doc.blocks[o]
        \/ doc'.blocks[o].kind \in {"length", "padding"}
  BY <1>5 DEF Block
<1>7. TasksOK' /\ FrontLaid'
  <2>1. Laid(0, "front", width, FrontLength)'
    BY <1>1, <1>2, <1>3, <1>5 DEF Layout, FrontLaid, Laid, FrontLength, Marked, Listed, Joined, Recorded, Filled, Ended, Tailing, Closing
  <2> QED BY <1>2, <1>6, <2>1 DEF Layout, FrontLaid, TasksOK, Without, Indices, Marked, Listed, Joined, Recorded, Filled, Ended, Tailing, Closing
<1>8. SectionLaid'
  <2>1. (deep => /\ Laid(SectionStart + width, "length", 0, width)
                 /\ Laid(SectionStart + 2 * width, "mask", 0, MaskLength)
                 /\ Laid(SectionStart + 2 * width + MaskLength, "key", 0, SignatureAndKey))'
    BY <1>1, <1>2, <1>3, <1>5
       DEF Layout, SectionLaid, Laid, SectionStart, FrontLength, MaskLength, SignatureAndKey,
           Marked, Listed, Joined, Recorded, Filled, Ended, Tailing, Closing
  <2>2. IsLengthAt(sectionMark)' /\ sectionMark' = SectionStart
    BY <1>2, <1>3, <1>4, <1>5 DEF IsLengthAt, Laid, Block, SectionStart, FrontLength
  <2>3. doc'.offset >= SectionStart + width'
    BY <1>1, <1>2, <1>3, <1>4, <1>5 DEF SectionStart, FrontLength
  <2> QED BY <1>2, <2>1, <2>2, <2>3 DEF SectionLaid, SectionStart, FrontLength
<1>9. CASE n = 0
  BY <1>2, <1>5, <1>7, <1>8, <1>9 DEF Layout, InfoLaid, DataLaid, TailLaid
<1>10. CASE n # 0
  <2>1. pc \in Ended /\ pc' \in Ended
    BY <1>2 DEF Marked, Listed, Joined, Recorded, Filled, Ended, Tailing, Closing
  <2>2. /\ InfoLaid' /\ DataLaid'
        /\ UNCHANGED <<InfoLength, InfoEnd, BlocksStart>>
        /\ InfoEnd \in Nat /\ InfoEnd > sectionMark /\ BlocksStart \in Nat
    <3>1. \A o \in DOMAIN doc.blocks :
            o # sectionMark => o \in DOMAIN doc'.blocks /\ doc'.blocks[o] = doc.blocks[o]
      BY <1>5
    <3>2. \A o \in DOMAIN doc'.blocks :
            \/ o \in DOMAIN doc.blocks /\ doc'.blocks[o] = doc.blocks[o]
            \/ doc'.blocks[o].kind \notin {"record", "data"}
      BY <1>6
    <3> QED BY <1>2, <1>10, <2>1, <3>1, <3>2, InfoKept
  <2>3. TailLaid'
    <3>1. SectionLength' = rounded /\ SectionEnd' = doc'.offset
      BY <1>2, <1>3, <1>5 DEF SectionLength, SectionEnd, Block
    <3>2. doc.offset = BlocksStart + blocks
      BY <1>2, <1>10 DEF Layout, TailLaid
    <3>3. BlocksStart > sectionMark
      BY <1>3, <2>2 DEF BlocksStart, MaskLength
    <3>4. SectionEnd' - (BlocksStart + blocks) \in 0..3
      BY <1>0, <1>1, <1>3, <1>4, <1>5, <3>1, <3>2
    <3>5. (~deep => Laid(InfoEnd, "mask", 0, MaskLength))'
      BY <1>2, <1>5, <1>10, <2>2 DEF Layout, TailLaid, Laid, MaskLength, Marked, Listed, Joined, Recorded, Filled, Ended, Tailing, Closing
    <3>6. (blocks # 0 => Laid(BlocksStart, "block", 0, blocks))'
      BY <1>2, <1>5, <1>10, <2>2, <3>3 DEF Layout, TailLaid, Laid, Marked, Listed, Joined, Recorded, Filled, Ended, Tailing, Closing
    <3>7. InfoLength' % 4 = 0
      BY <1>10, <2>1, <2>2 DEF Layout, TailLaid
    <3> QED BY <1>2, <1>4, <2>2, <3>1, <3>4, <3>5, <3>6, <3>7 DEF TailLaid, Marked, Listed, Joined, Recorded, Filled, Ended, Tailing, Closing
  <2> QED BY <1>5, <1>7, <1>8, <2>2, <2>3 DEF Layout
<1> QED BY <1>9, <1>10

\* Every step keeps the layout.
LEMMA LayoutStep ==
  ASSUME WriteTypeOK, ProgressAccounting, Layout, [Next]_vars
  PROVE  Layout'
<1>1. CASE WriteFront \/ BeginSection
  BY <1>1, FrontLayout
<1>2. CASE EmptyLayerInfo \/ RefuseNoLayers \/ BeginLayerInfo
  BY <1>2, InfoLayout
<1>3. CASE Reset \/ Join \/ EndRecords \/ EndData \/ CountImage \/ UNCHANGED vars
  BY <1>3, QuietLayout
<1>4. CASE WriteRecord \/ WriteData
  BY <1>4, LayerLayout
<1>5. CASE PatchLayerInfo
  BY <1>5, InfoEndLayout
<1>6. CASE WriteMask \/ WriteBlocks \/ WriteImage \/ RefuseImage
  BY <1>6, TailLayout
<1>7. CASE PatchSection
  BY <1>7, SectionEndLayout
<1>8. ASSUME NEW k \in Indices, Task(k) PROVE Layout'
  BY <1>8, TaskLayout
<1> QED BY <1>1, <1>2, <1>3, <1>4, <1>5, <1>6, <1>7, <1>8 DEF Next, Writer

\* The first state has an empty stream.
LEMMA LayoutInit == Init => WriteTypeOK /\ ProgressAccounting /\ Layout
<1> SUFFICES ASSUME Init PROVE WriteTypeOK /\ ProgressAccounting /\ Layout
  OBVIOUS
<1>1. WriteTypeOK
  BY WriteDocumentAssumption DEF Init, WriteTypeOK, Phases, TaskStates, Indices
<1>2. ProgressAccounting
  BY DEF Init, ProgressAccounting, Counted, Indices, BeforeInfo, Sequential, WithLayers
<1>3. pc = "reset" /\ doc = EmptyDocument /\ \A k \in Indices : task[k] = "waiting"
  BY DEF Init
<1>4. doc = [blocks |-> doc.blocks, offset |-> 0] /\ doc.offset = 0 /\ DOMAIN doc.blocks = {}
  BY <1>3 DEF EmptyDocument
<1>5. StreamOK /\ FrontLaid /\ TasksOK
  BY <1>3, <1>4 DEF StreamOK, Grown, FrontLaid, TasksOK, Without, Marked, Listed, Joined, Recorded, Filled, Ended, Tailing, Closing
<1>6. SectionLaid /\ InfoLaid /\ DataLaid /\ TailLaid
  BY <1>3 DEF SectionLaid, InfoLaid, DataLaid, TailLaid, Marked, Listed, Joined, Recorded, Filled, Ended, Tailing, Closing
<1> QED BY <1>1, <1>2, <1>5, <1>6 DEF Layout

\* At every moment of every write the parts that were written are where the
\* markers, the records and the phases say.
THEOREM WriteLayout == Spec => []Layout
<1>1. WriteTypeOK /\ ProgressAccounting /\ Layout /\ [Next]_vars
        => WriteTypeOK' /\ ProgressAccounting' /\ Layout'
  BY TypeStep, AccountingStep, LayoutStep
<1> QED BY LayoutInit, <1>1, PTL DEF Spec

\* The length markers of a written document lead from section to section.
THEOREM MarkersLead == Spec => []MarkersDelimitSections
<1>1. WriteTypeOK /\ Layout => MarkersDelimitSections
  <2> SUFFICES ASSUME WriteTypeOK, Layout, pc = "done", n # 0
               PROVE  MarkersDelimitSections
    BY DEF MarkersDelimitSections
  <2>1. n \in Nat /\ width \in {4, 8} /\ blocks \in Nat
    BY Sizes
  <2>2. /\ pc \in Listed /\ pc \in Ended /\ pc \in Tailing /\ pc \in Closing /\ pc \in Recorded
        /\ pc \in Marked
    BY DEF Marked, Listed, Joined, Recorded, Filled, Ended, Tailing, Closing
  <2>3. /\ InfoLength \in Nat /\ SectionLength \in Nat
        /\ infoMark + width \in DOMAIN doc.blocks
    BY <2>2 DEF Layout, SectionLaid, InfoLaid, IsLengthAt, Laid, InfoLength, SectionLength
  <2>4. /\ InfoLength % 4 = 0 /\ SectionLength % 4 = 0
        /\ ~deep => Laid(InfoEnd, "mask", 0, MaskLength)
        /\ blocks # 0 => Laid(BlocksStart, "block", 0, blocks)
        /\ Laid(SectionEnd, "image", 0, ImageLength)
        /\ SectionEnd - (BlocksStart + blocks) \in 0..3
    BY <2>2 DEF Layout, TailLaid
  <2>5. /\ sectionMark = 34
        /\ infoMark = IF deep THEN 46 + 2 * width ELSE 34 + width
    BY <2>2, MarksApart
  <2>6. /\ HasBlock(doc.blocks, SectionEnd, "image")
        /\ ~deep => HasBlock(doc.blocks, InfoEnd, "mask")
        /\ deep /\ blocks # 0 => HasBlock(doc.blocks, InfoEnd, "block")
    BY <2>4 DEF HasBlock, Laid, Block, BlocksStart
  <2>7. ASSUME deep, blocks = 0 PROVE SectionEnd = InfoEnd
    <3>1. SectionEnd = 34 + width + SectionLength /\ InfoEnd = 46 + 3 * width + InfoLength
      BY <2>1, <2>3, <2>5, <2>7 DEF SectionEnd, InfoEnd
    <3>2. SectionEnd - InfoEnd \in 0..3
      BY <2>1, <2>3, <2>4, <2>7, <3>1 DEF BlocksStart
    <3> QED BY <2>1, <2>3, <2>4, <3>1, <3>2
  <2>8. (width + InfoLength) % 4 = 0
    BY <2>1, <2>3, <2>4
  <2> QED BY <2>4, <2>6, <2>7, <2>8
        DEF MarkersDelimitSections, SectionEnd, InfoEnd, SectionLength, InfoLength
<1> QED BY <1>1, WriteTypes, WriteLayout, PTL

-----------------------------------------------------------------------------
(* Where the reader is.                                                    *)

KeyStart == SectionStart + 2 * width + MaskLength

\* The records read so far are those of the first layers, and the next one,
\* or the first layer's data, is at the offset.
RecordsFound ==
  /\ recs \in Seq([layer : Nat, size : Nat])
  /\ Len(recs) <= n
  /\ \A k \in 1..Len(recs) : recs[k] = [layer |-> k, size |-> infos[k]]

\* The slices planned so far are the data of the first layers.
SlicesFound ==
  /\ slices \in Seq(Nat)
  /\ Len(slices) <= Len(recs)
  /\ \A k \in 1..Len(slices) : Link("data", slices[k], k)

\* What is at the offset while the records are read and the slices planned.
PlanFollows ==
  /\ Len(recs) < n => slices = <<>> /\ Link("record", at, Len(recs) + 1)
  /\ Len(recs) = n /\ Len(slices) < n => Link("data", at, Len(slices) + 1)
  /\ Len(slices) = n => InfoEnd - at \in 0..3

TasksRead ==
  /\ reading \in [Indices -> {"waiting", "read", "counted"}]
  /\ DOMAIN results = Indices
  /\ \A k \in Indices : reading[k] # "waiting" => results[k] = k

\* The layers that were written are the layers that were read.
ReadBack ==
  Len(recs) = n /\ \A k \in Indices : recs[k].layer = k /\ results[k] = k

InSection == {"info", "layers", "records", "slices", "mask", "blocks"}

\* With layers in the document.
LayersRead ==
  /\ rpc # "failed"
  /\ rpc = "section" => at = sectionMark
  /\ rpc = "info" => at = sectionMark + width
  /\ rpc \in InSection => section = [start |-> sectionMark + width, size |-> SectionLength]
  /\ rpc = "layers" => at = infoMark + width
  /\ rpc \in {"layers", "records", "slices"} => info.end = InfoEnd /\ info.tagged = deep
  /\ rpc \in {"records", "slices"}
       => info.layers = n /\ RecordsFound /\ SlicesFound /\ PlanFollows
  /\ rpc = "slices" => Len(slices) = n /\ Len(recs) = n /\ TasksRead
  /\ rpc = "mask" /\ deep => at = SectionStart + 2 * width
  /\ rpc = "mask" /\ ~deep => at = InfoEnd /\ ReadBack
  /\ rpc = "blocks" => \/ at = KeyStart /\ deep
                       \/ at \in {BlocksStart, BlocksStart + blocks} /\ ReadBack
  /\ rpc = "done" => ReadBack

ReaderPlace ==
  /\ rpc # "idle" => pc = "done"
  /\ rpc \in R!ReadPhases
  /\ info = [end |-> info.end, layers |-> info.layers, tagged |-> info.tagged]
  /\ rpc = "front" => at = 0
  /\ rpc \notin {"idle", "reset", "front"} => version = width
  /\ rpc # "idle" /\ n # 0 => LayersRead
  /\ n = 0 => recs = <<>> /\ rpc \notin {"records", "slices"}

-----------------------------------------------------------------------------
(* The document that was written.                                          *)

\* Where its parts are, and how long.
LEMMA WrittenParts ==
  ASSUME WriteTypeOK, Layout, pc = "done", n # 0
  PROVE  /\ n \in Nat /\ width \in {4, 8} /\ blocks \in Nat
         /\ sectionMark = 34 /\ Laid(34, "length", SectionLength, width)
         /\ SectionLength \in Nat /\ SectionEnd = 34 + width + SectionLength
         /\ SectionStart = 34 /\ KeyStart = 38 + 2 * width
         /\ deep => /\ infoMark = 46 + 2 * width
                    /\ Laid(34 + width, "length", 0, width)
                    /\ Laid(34 + 2 * width, "mask", 0, 4)
                    /\ Laid(KeyStart, "key", 0, 8)
                    /\ BlocksStart = InfoEnd
         /\ ~deep => /\ infoMark = 34 + width
                     /\ Laid(InfoEnd, "mask", 0, 4)
                     /\ BlocksStart = InfoEnd + 4
         /\ Laid(infoMark, "length", InfoLength, width)
         /\ InfoLength \in Nat /\ InfoLength # 0 /\ InfoLength % 4 = 0
         /\ InfoEnd = infoMark + width + InfoLength /\ InfoEnd \in Nat
         /\ Laid(infoMark + width, "count", n, 2)
         /\ blocks # 0 => Laid(BlocksStart, "block", 0, blocks)
         /\ SectionEnd - (BlocksStart + blocks) \in 0..3
<1>1. n \in Nat /\ width \in {4, 8} /\ blocks \in Nat
  BY Sizes
<1>2. /\ pc \in Listed /\ pc \in Ended /\ pc \in Tailing /\ pc \in Closing /\ pc \in Recorded
      /\ pc \in Marked
  BY DEF Marked, Listed, Joined, Recorded, Filled, Ended, Tailing, Closing
<1>3. sectionMark = 34 /\ infoMark = IF deep THEN 46 + 2 * width ELSE 34 + width
  BY <1>2, MarksApart
<1>4. SectionStart = 34 /\ KeyStart = 38 + 2 * width
  BY <1>1 DEF SectionStart, KeyStart, FrontLength, MaskLength
<1>5. /\ IsLengthAt(sectionMark)
      /\ deep => /\ Laid(34 + width, "length", 0, width)
                 /\ Laid(34 + 2 * width, "mask", 0, 4)
                 /\ Laid(KeyStart, "key", 0, 8)
  BY <1>2, <1>4
     DEF Layout, SectionLaid, SectionStart, KeyStart, FrontLength, MaskLength, SignatureAndKey
<1>6. IsLengthAt(infoMark) /\ Laid(infoMark + width, "count", n, 2)
  BY <1>2 DEF Layout, InfoLaid
<1>7. InfoLength # 0
  BY <1>2 DEF Layout, DataLaid
<1>8. /\ InfoLength % 4 = 0
      /\ ~deep => Laid(InfoEnd, "mask", 0, 4)
      /\ blocks # 0 => Laid(BlocksStart, "block", 0, blocks)
      /\ SectionEnd - (BlocksStart + blocks) \in 0..3
  BY <1>2 DEF Layout, TailLaid, MaskLength
<1>9. SectionLength \in Nat /\ Laid(34, "length", SectionLength, width)
  BY <1>3, <1>5 DEF IsLengthAt, SectionLength
<1>10. InfoLength \in Nat /\ Laid(infoMark, "length", InfoLength, width)
  BY <1>6 DEF IsLengthAt, InfoLength
<1>11. /\ SectionEnd = 34 + width + SectionLength
       /\ InfoEnd = infoMark + width + InfoLength /\ InfoEnd \in Nat
       /\ BlocksStart = IF deep THEN InfoEnd ELSE InfoEnd + 4
  BY <1>1, <1>3, <1>10 DEF SectionEnd, InfoEnd, BlocksStart, MaskLength
<1> QED BY <1>1, <1>3, <1>4, <1>5, <1>6, <1>7, <1>8, <1>9, <1>10, <1>11

\* One record leads to the next, the last one to the data, and the data of a
\* layer, by the size its record states, to the next layer's.
LEMMA WrittenLayers ==
  ASSUME WriteTypeOK, Layout, pc = "done", n # 0
  PROVE  /\ \A k \in Indices : infos[k] \in Nat
         /\ Link("record", infoMark + width + 2, 1)
         /\ \A o, k : k \in Indices /\ k < n /\ Link("record", o, k)
                        => Link("record", o + RecordLength, k + 1)
         /\ \A o : Link("record", o, n) => Link("data", o + RecordLength, 1)
         /\ \A o, k : k \in Indices /\ Link("data", o, k)
                        => /\ doc.blocks[o] = Block("data", k, infos[k])
                           /\ IF k < n THEN Link("data", o + infos[k], k + 1)
                              ELSE InfoEnd - (o + infos[k]) \in 0..3
<1>1. n \in Nat /\ 1 \in Indices /\ n \in Indices
  BY Sizes DEF Indices
<1>2. pc \in Ended /\ pc \in Recorded /\ pc \in Joined /\ pc # "data"
  BY DEF Listed, Joined, Recorded, Filled, Ended, Tailing, Closing
<1>3. \A k \in Indices : data[k] \in Nat /\ infos[k] = data[k] + 2
  <2>1. \A k \in Indices : task[k] # "waiting"
    BY <1>2 DEF Layout, TasksOK
  <2> QED BY <2>1, Sizes DEF Layout, TasksOK
<1>4. PICK start, end \in Nat : /\ Chain("record", RecordsStart, n, start)
                               /\ Chain("data", start, n, end)
                               /\ InfoEnd - end \in 0..3
  BY <1>2 DEF Layout, DataLaid
<1>5. \A o, k : Link("record", o, k) \/ Link("data", o, k) => o \in DOMAIN doc.blocks
  BY DEF Link, Laid
<1>6. \A k : LinkLength("record", k) = RecordLength
  BY DEF LinkLength
<1>7. \A k \in Indices : LinkLength("data", k) = infos[k]
  BY <1>3 DEF LinkLength
<1>8. Link("record", RecordsStart, 1) /\ Link("data", start, 1)
  BY <1>4 DEF Chain
<1>9. ASSUME NEW o, NEW k \in Indices, Link("record", o, k)
      PROVE  IF k < n THEN Link("record", o + RecordLength, k + 1)
             ELSE o + RecordLength = start
  BY <1>4, <1>5, <1>6, <1>9 DEF Chain
<1>10. ASSUME NEW o, NEW k \in Indices, Link("data", o, k)
       PROVE  IF k < n THEN Link("data", o + infos[k], k + 1) ELSE o + infos[k] = end
  BY <1>4, <1>5, <1>7, <1>10 DEF Chain
<1>11. \A o, k : k \in Indices /\ Link("data", o, k)
                   => doc.blocks[o] = Block("data", k, infos[k])
  BY <1>7 DEF Link, Laid, LinkValue
<1>12. \A o : Link("record", o, n) => Link("data", o + RecordLength, 1)
  BY <1>1, <1>8, <1>9
<1> QED BY <1>3, <1>4, <1>8, <1>9, <1>10, <1>11, <1>12 DEF RecordsStart

-----------------------------------------------------------------------------
(* The steps of the reader.                                                *)

\* A step of the reader leaves the document alone.
LEMMA DocumentStays ==
  ASSUME WriteTypeOK, Layout, UNCHANGED unread, count' \in Nat, max' \in Nat \ {0}
  PROVE  WriteTypeOK' /\ Layout'
<1>1. UNCHANGED <<pc, document, stream, task, data, infos, next, n, width, deep, blocks>>
  BY DEF unread, document, layers
<1>2. TasksOK'
  BY <1>1 DEF Layout, TasksOK, Indices
<1>3. Layout'
  BY <1>1, <1>2, SilentLayout
<1>4. WriteTypeOK'
  BY <1>1 DEF WriteTypeOK, Indices
<1> QED BY <1>3, <1>4

\* What the layout gives is the same after a step of the reader.
LEMMA PlacesStay ==
  ASSUME UNCHANGED unread
  PROVE  /\ UNCHANGED <<pc, n, width, deep, blocks, sectionMark, infoMark, infos, data, doc>>
         /\ UNCHANGED <<SectionLength, InfoEnd, SectionStart, KeyStart, BlocksStart, Indices>>
         /\ \A kind, o, k : Link(kind, o, k)' <=> Link(kind, o, k)
BY DEF unread, document, stream, layers, SectionLength, InfoLength, InfoEnd, SectionStart, KeyStart,
   BlocksStart, MaskLength, FrontLength, Indices, Link, Laid, LinkValue, LinkLength, RecordLength

\* The steps up to the layers.
LEMMA FrontRead ==
  ASSUME WriteTypeOK, Layout, ReaderPlace, UNCHANGED unread, rpc # "idle",
         R!ResetRead \/ R!ReadFront \/ R!BeginReadSection \/ R!NoLayerInfo \/ R!BeginReadLayerInfo
  PROVE  ReaderPlace'
<1>1. pc = "done" /\ pc' = "done" /\ n' = n
  BY PlacesStay DEF ReaderPlace
<1>2. CASE R!ResetRead
  <2>1. rpc = "reset" /\ rpc' = "front" /\ at' = 0 /\ UNCHANGED <<info, recs>>
    BY <1>2 DEF R!ResetRead, R!Step, R!plan, R!found
  <2> QED BY <1>1, <2>1 DEF ReaderPlace, LayersRead, InSection, R!ReadPhases
<1>3. CASE R!ReadFront
  <2>1. /\ rpc = "front" /\ rpc' = "section" /\ at = 0 /\ UNCHANGED <<info, recs>>
        /\ version' = doc.blocks[at].val /\ at' = at + doc.blocks[at].len
    BY <1>3 DEF R!ReadFront, R!Step, R!plan, R!found, ReaderPlace
  <2>2. doc.blocks[0] = Block("front", width, 34)
    BY <1>1 DEF Layout, FrontLaid, Laid, FrontLength, Marked, Listed, Joined, Recorded, Filled,
       Ended, Tailing, Closing
  <2>3. version' = width' /\ at' = 34
    BY <2>1, <2>2, PlacesStay DEF Block
  <2>4. n # 0 => sectionMark' = 34
    BY <1>1, WrittenParts, PlacesStay
  <2> QED BY <1>1, <2>1, <2>3, <2>4 DEF ReaderPlace, LayersRead, InSection, R!ReadPhases
<1>4. CASE R!BeginReadSection
  <2>1. /\ rpc = "section" /\ rpc' = "info" /\ UNCHANGED <<info, recs, version>>
        /\ section' = [start |-> at + version, size |-> doc.blocks[at].val]
        /\ at' = at + version
    BY <1>4 DEF R!BeginReadSection, R!Step, R!plan, R!found
  <2>2. version = width /\ width' = width
    BY <2>1, PlacesStay DEF ReaderPlace
  <2>3. n # 0 => at = sectionMark /\ sectionMark' = sectionMark /\ SectionLength' = SectionLength
    BY <2>1, PlacesStay DEF ReaderPlace, LayersRead
  <2> QED BY <1>1, <2>1, <2>2, <2>3
        DEF ReaderPlace, LayersRead, InSection, SectionLength, R!ReadPhases
<1>5. CASE R!NoLayerInfo
  <2>1. /\ rpc = "info" /\ rpc' = "mask" /\ UNCHANGED <<section, info, recs, version>>
        /\ doc.blocks[at].val = 0 /\ at' = at + version
    BY <1>5 DEF R!NoLayerInfo, R!Step, R!plan, R!found
  <2>2. version = width /\ UNCHANGED <<width, deep, sectionMark, SectionLength, SectionStart>>
    BY <2>1, PlacesStay DEF ReaderPlace
  <2>3. CASE n = 0
    BY <1>1, <2>1, <2>2, <2>3 DEF ReaderPlace, R!ReadPhases
  <2>4. CASE n # 0
    <3>1. at = 34 + width /\ section = [start |-> sectionMark + width, size |-> SectionLength]
      BY <1>1, <2>1, <2>4, WrittenParts DEF ReaderPlace, LayersRead, InSection
    <3>2. deep
      <4>1. ASSUME ~deep PROVE FALSE
        <5>1. Laid(34 + width, "length", InfoLength, width) /\ InfoLength # 0
          BY <1>1, <2>4, <4>1, WrittenParts
        <5> QED BY <2>1, <3>1, <5>1 DEF Laid, Block
      <4> QED BY <4>1
    <3>3. at' = SectionStart + 2 * width
      BY <1>1, <2>1, <2>2, <2>4, <3>1, WrittenParts
    <3> QED BY <1>1, <2>1, <2>2, <2>4, <3>1, <3>2, <3>3
          DEF ReaderPlace, LayersRead, InSection, R!ReadPhases
  <2> QED BY <2>3, <2>4
<1>6. CASE R!BeginReadLayerInfo
  <2>1. /\ rpc = "info" /\ rpc' = "layers" /\ UNCHANGED <<section, recs, version>>
        /\ doc.blocks[at].val # 0 /\ at' = at + version
        /\ info' = [info EXCEPT !.end = at + version + doc.blocks[at].val, !.tagged = FALSE]
    BY <1>6 DEF R!BeginReadLayerInfo, R!Step, R!found
  <2>2. version = width
        /\ UNCHANGED <<width, deep, sectionMark, infoMark, SectionLength, InfoEnd>>
    BY <2>1, PlacesStay DEF ReaderPlace
  <2>3. info' = [end |-> at + version + doc.blocks[at].val, layers |-> info.layers,
                 tagged |-> FALSE]
    BY <2>1 DEF ReaderPlace
  <2>4. CASE n = 0
    BY <1>1, <2>1, <2>2, <2>3, <2>4 DEF ReaderPlace, R!ReadPhases
  <2>5. CASE n # 0
    <3>1. at = 34 + width /\ section = [start |-> sectionMark + width, size |-> SectionLength]
      BY <1>1, <2>1, <2>5, WrittenParts DEF ReaderPlace, LayersRead, InSection
    <3>2. ~deep
      <4>1. ASSUME deep PROVE FALSE
        <5>1. Laid(34 + width, "length", 0, width)
          BY <1>1, <2>5, <4>1, WrittenParts
        <5> QED BY <2>1, <3>1, <5>1 DEF Laid, Block
      <4> QED BY <4>1
    <3>3. at = infoMark /\ doc.blocks[at].val = InfoLength
      BY <1>1, <2>5, <3>1, <3>2, WrittenParts DEF InfoLength
    <3>4. info'.end = InfoEnd /\ info'.tagged = FALSE /\ at' = infoMark + width
      BY <2>1, <2>2, <2>3, <3>3 DEF InfoEnd
    <3>5. info'.tagged = deep
      <4>1. deep = FALSE
        BY <3>2 DEF WriteTypeOK
      <4> QED BY <3>4, <4>1
    <3> QED BY <1>1, <2>1, <2>2, <2>3, <2>5, <3>1, <3>4, <3>5
          DEF ReaderPlace, LayersRead, InSection, R!ReadPhases
  <2> QED BY <2>4, <2>5
<1> QED BY <1>2, <1>3, <1>4, <1>5, <1>6

\* At the tagged blocks with enough to read, the reader is at one.
LEMMA AtBlock ==
  ASSUME WriteTypeOK, Layout, ReaderPlace, n # 0, rpc = "blocks", R!ToRead >= 12
  PROVE  \/ deep /\ at = KeyStart /\ HasBlock(doc.blocks, at, "key")
         \/ /\ at = BlocksStart /\ HasBlock(doc.blocks, at, "block")
            /\ doc.blocks[at] = Block("block", 0, blocks)
            /\ ReadBack
<1>1. pc = "done" /\ LayersRead
  BY DEF ReaderPlace
<1>2. R!ToRead = SectionLength - (at - (34 + width))
  BY <1>1, WrittenParts DEF LayersRead, InSection, R!ToRead
<1>3. CASE at = KeyStart /\ deep
  BY <1>1, <1>3, WrittenParts DEF Laid, HasBlock, Block
<1>4. CASE at \in {BlocksStart, BlocksStart + blocks} /\ ReadBack
  <2>1. /\ SectionEnd = 34 + width + SectionLength /\ SectionEnd - (BlocksStart + blocks) \in 0..3
        /\ width \in Nat /\ SectionLength \in Nat /\ BlocksStart \in Nat /\ blocks \in Nat
    <3>1. /\ SectionEnd = 34 + width + SectionLength /\ SectionEnd - (BlocksStart + blocks) \in 0..3
          /\ width \in {4, 8} /\ SectionLength \in Nat /\ blocks \in Nat /\ InfoEnd \in Nat
          /\ BlocksStart = IF deep THEN InfoEnd ELSE InfoEnd + 4
      BY <1>1, WrittenParts
    <3>2. width \in Nat /\ BlocksStart \in Nat
      BY <3>1
    <3> QED BY <3>1, <3>2
  <2>2. at = BlocksStart /\ blocks # 0
    BY <1>2, <1>4, <2>1
  <2>3. Laid(BlocksStart, "block", 0, blocks)
    BY <1>1, <2>2, WrittenParts
  <2> QED BY <1>4, <2>2, <2>3 DEF Laid, HasBlock, Block
<1> QED BY <1>1, <1>3, <1>4 DEF LayersRead

\* The global mask info and the tagged blocks.
LEMMA BlocksRead ==
  ASSUME WriteTypeOK, Layout, ReaderPlace, UNCHANGED unread, rpc # "idle",
         R!ReadMask \/ R!ReadBlock \/ R!ReadLayerBlock \/ R!EndRead
  PROVE  ReaderPlace'
<1>1. pc = "done" /\ pc' = "done" /\ n' = n
  BY PlacesStay DEF ReaderPlace
<1>2. UNCHANGED <<width, deep, blocks, sectionMark, infoMark, SectionLength, InfoEnd, KeyStart,
                  BlocksStart, Indices>>
  BY PlacesStay
<1>3. CASE R!ReadMask
  <2>1. /\ rpc = "mask" /\ rpc' = "blocks"
        /\ UNCHANGED <<section, info, recs, results, version>>
        /\ at' = at + doc.blocks[at].len
    BY <1>3 DEF R!ReadMask, R!Step, R!plan, R!found
  <2>2. CASE n # 0
    <3>1. LayersRead
      BY <2>1, <2>2 DEF ReaderPlace
    <3>2. CASE deep
      <4>1. at = 34 + 2 * width /\ doc.blocks[at] = Block("mask", 0, 4)
        BY <1>1, <2>1, <2>2, <3>1, <3>2, WrittenParts DEF LayersRead, Laid
      <4>2. at' = KeyStart
        BY <1>1, <2>1, <2>2, <4>1, WrittenParts DEF Block
      <4> QED BY <1>1, <1>2, <2>1, <2>2, <3>1, <3>2, <4>2
            DEF ReaderPlace, LayersRead, InSection, R!ReadPhases
    <3>3. CASE ~deep
      <4>1. at = InfoEnd /\ doc.blocks[at] = Block("mask", 0, 4) /\ ReadBack
        BY <1>1, <2>1, <2>2, <3>1, <3>3, WrittenParts DEF LayersRead, Laid
      <4>2. at' = BlocksStart
        BY <1>1, <2>1, <2>2, <3>3, <4>1, WrittenParts DEF Block
      <4>3. ReadBack'
        BY <1>1, <1>2, <2>1, <4>1 DEF ReadBack
      <4> QED BY <1>1, <1>2, <2>1, <2>2, <3>1, <4>2, <4>3
            DEF ReaderPlace, LayersRead, InSection, R!ReadPhases
    <3> QED BY <3>2, <3>3
  <2> QED BY <1>1, <1>2, <2>1, <2>2 DEF ReaderPlace, R!ReadPhases
<1>4. CASE R!ReadBlock
  <2>1. /\ rpc = "blocks" /\ rpc' = "blocks"
        /\ UNCHANGED <<section, info, recs, results, version>>
        /\ at' = at + doc.blocks[at].len /\ R!ToRead >= 12 /\ HasBlock(doc.blocks, at, "block")
    BY <1>4 DEF R!ReadBlock, R!Step, R!plan, R!found, R!IsNext, R!HasBlock, HasBlock
  <2>2. CASE n # 0
    <3>1. LayersRead
      BY <2>1, <2>2 DEF ReaderPlace
    <3>2. at = BlocksStart /\ doc.blocks[at] = Block("block", 0, blocks) /\ ReadBack
      BY <2>1, <2>2, AtBlock DEF HasBlock
    <3>3. at' = BlocksStart + blocks
      BY <2>1, <3>2 DEF Block
    <3>4. ReadBack'
      BY <1>1, <1>2, <2>1, <3>2 DEF ReadBack
    <3> QED BY <1>1, <1>2, <2>1, <2>2, <3>1, <3>3, <3>4
          DEF ReaderPlace, LayersRead, InSection, R!ReadPhases
  <2> QED BY <1>1, <1>2, <2>1, <2>2 DEF ReaderPlace, R!ReadPhases
<1>5. CASE R!ReadLayerBlock
  <2> DEFINE marker == at + doc.blocks[at].len
             length == RoundUpToMultiple(doc.blocks[marker].val, 4)
  <2>1. /\ rpc = "blocks" /\ rpc' = "layers" /\ UNCHANGED <<section, recs, version>>
        /\ R!ToRead >= 12 /\ HasBlock(doc.blocks, at, "key")
        /\ at' = marker + version
        /\ info' = [info EXCEPT !.end = marker + version + length, !.tagged = TRUE]
    BY <1>5 DEF R!ReadLayerBlock, R!Step, R!found, R!IsNext, R!HasBlock, HasBlock,
       R!RoundUpToMultiple, RoundUpToMultiple
  <2>2. info' = [end |-> marker + version + length, layers |-> info.layers, tagged |-> TRUE]
    BY <2>1 DEF ReaderPlace
  <2>3. CASE n # 0
    <3>1. LayersRead /\ version = width
      BY <2>1, <2>3 DEF ReaderPlace
    <3>2. deep /\ at = KeyStart
      BY <2>1, <2>3, AtBlock DEF HasBlock
    <3>3. doc.blocks[at] = Block("key", 0, 8) /\ at = 38 + 2 * width
      BY <1>1, <2>3, <3>2, WrittenParts DEF Laid
    <3>4. doc.blocks[at].len = 8
      BY <3>3 DEF Block
    <3>5. marker = infoMark
      <4>1. width \in {4, 8} /\ infoMark = 46 + 2 * width
        BY <1>1, <2>3, <3>2, WrittenParts
      <4> QED BY <3>3, <3>4, <4>1
    <3>6. length = InfoLength
      <4>1. InfoLength \in Nat /\ InfoLength % 4 = 0
        BY <1>1, <2>3, WrittenParts
      <4>2. length = RoundUpToMultiple(InfoLength, 4)
        BY <3>5 DEF InfoLength
      <4>3. RoundUpToMultiple(InfoLength, 4) = InfoLength
        BY <4>1 DEF RoundUpToMultiple
      <4> QED BY <4>2, <4>3
    <3>7. info'.end = InfoEnd /\ at' = infoMark + width
      BY <2>1, <2>2, <3>1, <3>5, <3>6 DEF InfoEnd
    <3>8. info'.tagged = deep
      <4>1. deep = TRUE
        BY <3>2 DEF WriteTypeOK
      <4>2. info'.tagged = TRUE
        BY <2>2
      <4> QED BY <4>1, <4>2
    <3> HIDE DEF marker, length
    <3> QED BY <1>1, <1>2, <2>1, <2>2, <2>3, <3>1, <3>7, <3>8
          DEF ReaderPlace, LayersRead, InSection, R!ReadPhases
  <2> QED BY <1>1, <1>2, <2>1, <2>2, <2>3 DEF ReaderPlace, R!ReadPhases
<1>6. CASE R!EndRead
  <2>1. /\ rpc = "blocks" /\ rpc' = "done" /\ R!ToRead < 12
        /\ UNCHANGED <<section, info, recs, results, version>>
    BY <1>6 DEF R!EndRead, R!Step, R!plan, R!found
  <2>2. CASE n # 0
    <3>1. LayersRead
      BY <2>1, <2>2 DEF ReaderPlace
    <3>2. R!ToRead = SectionLength - (at - (34 + width))
      BY <1>1, <2>1, <2>2, <3>1, WrittenParts DEF LayersRead, InSection, R!ToRead
    <3>3. ~(at = KeyStart /\ deep)
      <4>1. ASSUME at = KeyStart, deep PROVE FALSE
        <5>1. /\ SectionEnd - (InfoEnd + blocks) \in 0..3 /\ at = 38 + 2 * width
              /\ InfoEnd = (46 + 2 * width) + width + InfoLength
              /\ SectionEnd = 34 + width + SectionLength
              /\ InfoLength \in Nat /\ width \in {4, 8} /\ SectionLength \in Nat /\ blocks \in Nat
          BY <1>1, <2>2, <4>1, WrittenParts
        <5> QED BY <2>1, <3>2, <5>1
      <4> QED BY <4>1
    <3>4. ReadBack
      BY <2>1, <3>1, <3>3 DEF LayersRead
    <3>5. ReadBack'
      BY <1>1, <1>2, <2>1, <3>4 DEF ReadBack
    <3> QED BY <1>1, <1>2, <2>1, <2>2, <3>5
          DEF ReaderPlace, LayersRead, InSection, R!ReadPhases
  <2> QED BY <1>1, <1>2, <2>1, <2>2 DEF ReaderPlace, R!ReadPhases
<1> QED BY <1>3, <1>4, <1>5, <1>6

\* The number of layers is read: a document without layers has none.
LEMMA CountRead ==
  ASSUME WriteTypeOK, Layout, ReaderPlace, UNCHANGED unread, rpc # "idle", R!ReadLayerCount
  PROVE  ReaderPlace' /\ count' \in Nat /\ max' \in Nat \ {0}
<1>1. pc = "done" /\ pc' = "done" /\ n' = n /\ UNCHANGED <<width, deep, blocks, sectionMark,
        infoMark, infos, doc, SectionLength, InfoEnd>>
  BY PlacesStay DEF ReaderPlace
<1>2. /\ rpc = "layers" /\ rpc' = "records" /\ recs' = <<>> /\ slices' = <<>>
      /\ HasBlock(doc.blocks, at, "count") /\ UNCHANGED <<section, version, count>>
      /\ info' = [info EXCEPT !.layers = doc.blocks[at].val] /\ max' = doc.blocks[at].val
      /\ at' = at + doc.blocks[at].len
  BY DEF R!ReadLayerCount, R!Step, R!IsNext, R!HasBlock, HasBlock, R!SetMax
<1>3. n # 0
  <2>1. n = 0 => Without({"count"})
    BY DEF Layout, FrontLaid
  <2> QED BY <1>2, <2>1 DEF HasBlock, Without
<1>4. LayersRead /\ version = width
  BY <1>2, <1>3 DEF ReaderPlace
<1>5. at = infoMark + width /\ doc.blocks[at] = Block("count", n, 2)
  BY <1>1, <1>2, <1>3, <1>4, WrittenParts DEF LayersRead, Laid
<1>6. info' = [end |-> info.end, layers |-> n, tagged |-> info.tagged] /\ max' = n
      /\ at' = infoMark + width + 2
  BY <1>2, <1>5 DEF ReaderPlace, Block
<1>7. n \in Nat
  BY <1>1, <1>3, WrittenParts
<1>8. RecordsFound' /\ SlicesFound'
  BY <1>1, <1>2, <1>7 DEF RecordsFound, SlicesFound
<1>9. PlanFollows'
  <2>1. Link("record", infoMark + width + 2, 1)
    BY <1>1, <1>3, WrittenLayers
  <2>2. Link("record", at, Len(recs) + 1)'
    BY <1>1, <1>2, <1>6, <2>1 DEF Link, Laid, LinkValue, LinkLength, RecordLength
  <2>3. Len(recs') = 0 /\ Len(slices') = 0
    BY <1>2
  <2> QED BY <1>1, <1>2, <1>3, <1>7, <2>2, <2>3 DEF PlanFollows
<1>10. LayersRead'
  BY <1>1, <1>2, <1>4, <1>6, <1>8, <1>9 DEF LayersRead, InSection
<1>11. ReaderPlace'
  BY <1>1, <1>2, <1>3, <1>4, <1>6, <1>10 DEF ReaderPlace, R!ReadPhases
<1>12. count' \in Nat /\ max' \in Nat \ {0}
  BY <1>2, <1>3, <1>6, <1>7 DEF WriteTypeOK
<1> QED BY <1>11, <1>12

\* A record is read, or a layer is given its slice: the next one follows.
LEMMA PlanRead ==
  ASSUME WriteTypeOK, Layout, ReaderPlace, UNCHANGED unread, rpc # "idle",
         R!ReadRecord \/ R!PlanSlice
  PROVE  ReaderPlace'
<1>1. pc = "done" /\ pc' = "done" /\ n' = n /\ UNCHANGED <<width, deep, blocks, sectionMark,
        infoMark, infos, data, doc, SectionLength, InfoEnd>>
  BY PlacesStay DEF ReaderPlace
<1>2. /\ rpc = "records" /\ rpc' = "records" /\ UNCHANGED <<section, info, version>>
  BY DEF R!ReadRecord, R!PlanSlice, R!Step, R!plan
<1>3. n # 0 /\ LayersRead /\ version = width
  BY <1>2 DEF ReaderPlace
<1>4. info.layers = n /\ RecordsFound /\ SlicesFound /\ PlanFollows
  BY <1>2, <1>3 DEF LayersRead
<1>5. n \in Nat /\ width \in {4, 8} /\ \A k \in Indices : infos[k] \in Nat
  BY <1>1, <1>3, WrittenParts, WrittenLayers
<1>6. Len(recs) \in Nat /\ Len(slices) \in Nat
  BY <1>4 DEF RecordsFound, SlicesFound
<1>7. ASSUME R!ReadRecord PROVE RecordsFound' /\ SlicesFound' /\ PlanFollows'
  <2>1. /\ Len(recs) < n /\ UNCHANGED slices
        /\ recs' = Append(recs, doc.blocks[at].val) /\ at' = at + doc.blocks[at].len
    BY <1>4, <1>7 DEF R!ReadRecord
  <2> PICK k : k = Len(recs) + 1
    OBVIOUS
  <2>2. k \in Indices /\ k \in Nat /\ slices = <<>> /\ Link("record", at, k)
    BY <1>4, <1>5, <1>6, <2>1 DEF PlanFollows, Indices
  <2>3. doc.blocks[at] = Block("record", [layer |-> k, size |-> infos[k]], RecordLength)
    BY <2>2 DEF Link, Laid, LinkValue, LinkLength
  <2>4. recs' = Append(recs, [layer |-> k, size |-> infos[k]]) /\ at' = at + RecordLength
    BY <2>1, <2>3 DEF Block
  <2>5. RecordsFound'
    <3>1. [layer |-> k, size |-> infos[k]] \in [layer : Nat, size : Nat]
      BY <1>5, <2>2
    <3>2. Len(recs') = k /\ recs' \in Seq([layer : Nat, size : Nat]) /\ k <= n
      BY <1>4, <1>5, <2>1, <2>4, <3>1, <1>6 DEF RecordsFound
    <3>3. \A j \in 1..k : recs'[j] = [layer |-> j, size |-> infos[j]]
      BY <1>4, <1>6, <2>4 DEF RecordsFound
    <3> QED BY <1>1, <3>2, <3>3 DEF RecordsFound
  <2>6. Len(recs') = k
    BY <1>4, <1>6, <2>4 DEF RecordsFound
  <2>7. SlicesFound'
    BY <1>6, <2>1, <2>2, <2>6 DEF SlicesFound
  <2>8. Len(slices') = 0
    BY <2>1, <2>2
  <2>9. k < n => Link("record", at, Len(recs) + 1)'
    <3>1. k < n => Link("record", at + RecordLength, k + 1)
      BY <1>1, <1>3, <2>2, WrittenLayers
    <3> QED BY <1>1, <2>4, <2>6, <3>1 DEF Link, Laid, LinkValue, LinkLength, RecordLength
  <2>10. k = n => Link("data", at, Len(slices) + 1)'
    <3>1. k = n => Link("data", at + RecordLength, 1)
      BY <1>1, <1>3, <2>2, WrittenLayers
    <3> QED BY <1>1, <2>4, <2>8, <3>1 DEF Link, Laid, LinkValue, LinkLength, RecordLength
  <2>11. k <= n
    BY <1>5, <2>2 DEF Indices
  <2> QED BY <1>1, <1>3, <1>5, <2>1, <2>2, <2>5, <2>6, <2>7, <2>8, <2>9, <2>10, <2>11
        DEF PlanFollows
<1>8. ASSUME R!PlanSlice PROVE RecordsFound' /\ SlicesFound' /\ PlanFollows'
  <2>1. /\ Len(recs) = n /\ Len(slices) < n /\ UNCHANGED recs
        /\ slices' = Append(slices, at) /\ at' = at + recs[Len(slices) + 1].size
    BY <1>4, <1>8 DEF R!PlanSlice
  <2> PICK k : k = Len(slices) + 1
    OBVIOUS
  <2>2. k \in Indices /\ k \in Nat /\ Link("data", at, k)
    BY <1>4, <1>5, <1>6, <2>1 DEF PlanFollows, Indices
  <2>3. recs[k] = [layer |-> k, size |-> infos[k]]
    BY <1>4, <2>1, <2>2 DEF RecordsFound, Indices
  <2>4. at' = at + infos[k]
    BY <2>1, <2>3
  <2>5. RecordsFound'
    BY <1>1, <1>4, <2>1 DEF RecordsFound
  <2>6. at \in Nat
    BY <2>2 DEF Link, Laid, Layout, StreamOK, Grown
  <2>7. Len(slices') = k /\ slices' \in Seq(Nat) /\ k <= n
    BY <1>4, <1>5, <2>1, <2>2, <2>6 DEF SlicesFound, Indices
  <2>8. \A j \in 1..k : Link("data", slices'[j], j)
    <3>1. \A j \in 1..(k - 1) : slices'[j] = slices[j] /\ Link("data", slices[j], j)
      BY <1>4, <1>6, <2>1 DEF SlicesFound
    <3>2. slices'[k] = at
      BY <1>4, <1>6, <2>1 DEF SlicesFound
    <3>3. \A j \in 1..k : j = k \/ j \in 1..(k - 1)
      BY <2>2
    <3> QED BY <2>2, <3>1, <3>2, <3>3
  <2>9. SlicesFound'
    BY <1>1, <2>1, <2>7, <2>8 DEF SlicesFound, Link, Laid, LinkValue, LinkLength
  <2>10. k < n => Link("data", at, Len(slices) + 1)'
    <3>1. k < n => Link("data", at + infos[k], k + 1)
      BY <1>1, <1>3, <2>2, WrittenLayers
    <3> QED BY <1>1, <2>4, <2>7, <3>1 DEF Link, Laid, LinkValue, LinkLength
  <2>11. k = n => InfoEnd - at' \in 0..3
    BY <1>1, <1>3, <1>5, <2>2, <2>4, WrittenLayers
  <2> QED BY <1>1, <1>3, <1>5, <2>1, <2>5, <2>7, <2>9, <2>10, <2>11 DEF PlanFollows
<1>9. LayersRead'
  BY <1>1, <1>2, <1>3, <1>7, <1>8 DEF LayersRead, InSection
<1> QED BY <1>1, <1>2, <1>3, <1>9 DEF ReaderPlace, R!ReadPhases

\* The slices are read in any order, and the padding behind them is skipped.
LEMMA SlicesRead ==
  ASSUME WriteTypeOK, Layout, ReaderPlace, UNCHANGED unread, rpc # "idle",
         \/ R!StartSlices \/ R!EndLayerInfo
         \/ \E k \in DOMAIN reading : R!ReadTask(k)
  PROVE  ReaderPlace'
<1>1. pc = "done" /\ pc' = "done" /\ n' = n /\ UNCHANGED <<width, deep, blocks, sectionMark,
        infoMark, infos, data, doc, SectionLength, InfoEnd, BlocksStart, Indices>>
  BY PlacesStay DEF ReaderPlace
<1>2. rpc \in {"records", "slices"} /\ UNCHANGED <<section, info, version, recs, slices>>
  BY DEF R!StartSlices, R!EndLayerInfo, R!ReadTask, R!ReadSlice, R!CountSlice, R!Step, R!plan,
     R!place, R!found
<1>3. n # 0 /\ LayersRead /\ version = width
  BY <1>2 DEF ReaderPlace
<1>4. info.layers = n /\ RecordsFound /\ SlicesFound /\ PlanFollows
  BY <1>2, <1>3 DEF LayersRead
<1>5. RecordsFound' /\ SlicesFound'
  BY <1>1, <1>2, <1>4
     DEF RecordsFound, SlicesFound, Link, Laid, LinkValue, LinkLength
<1>6. n \in Nat /\ \A k \in Indices : infos[k] \in Nat
  BY <1>1, <1>3, WrittenParts, WrittenLayers
<1>7. CASE R!StartSlices
  <2>1. /\ rpc = "records" /\ rpc' = "slices" /\ UNCHANGED at /\ Len(recs) = n /\ Len(slices) = n
        /\ reading' = [k \in DOMAIN recs |-> "waiting"]
        /\ results' = [k \in DOMAIN recs |-> R!Nothing]
    BY <1>4, <1>7 DEF R!StartSlices, R!Step, R!place
  <2>2. DOMAIN recs = Indices
    BY <1>4, <1>6, <2>1 DEF RecordsFound, Indices
  <2>3. TasksRead'
    BY <1>1, <2>1, <2>2 DEF TasksRead
  <2>4. PlanFollows'
    BY <1>1, <1>2, <1>4, <1>6, <2>1 DEF PlanFollows
  <2>5. LayersRead'
    BY <1>1, <1>2, <1>3, <1>5, <2>1, <2>3, <2>4 DEF LayersRead, InSection
  <2> QED BY <1>1, <1>2, <1>3, <2>1, <2>5 DEF ReaderPlace, R!ReadPhases
<1>8. ASSUME rpc = "slices"
      PROVE  /\ Len(slices) = n /\ Len(recs) = n /\ TasksRead /\ InfoEnd - at \in 0..3
             /\ info.end = InfoEnd /\ info.tagged = deep
  BY <1>3, <1>4, <1>8 DEF LayersRead, PlanFollows
<1>9. ASSUME NEW k \in DOMAIN reading, R!ReadTask(k) PROVE ReaderPlace'
  <2>1. rpc = "slices" /\ rpc' = "slices" /\ UNCHANGED at
    BY <1>9 DEF R!ReadTask, R!ReadSlice, R!CountSlice, R!Step, R!place
  <2>2. k \in Indices
    BY <1>8, <2>1 DEF TasksRead
  <2>3. TasksRead'
    <3>1. CASE R!ReadSlice(k)
      <4>1. /\ results' = [results EXCEPT ![k] = R!Slice(k)]
            /\ reading' = [reading EXCEPT ![k] = "read"]
        BY <3>1 DEF R!ReadSlice
      <4>2. Link("data", slices[k], k)
        BY <1>4, <1>8, <2>1, <2>2 DEF SlicesFound, Indices
      <4>3. doc.blocks[slices[k]] = Block("data", k, infos[k]) /\ slices[k] \in DOMAIN doc.blocks
        BY <1>1, <1>3, <2>2, <4>2, WrittenLayers DEF Link, Laid
      <4>4. recs[k] = [layer |-> k, size |-> infos[k]]
        BY <1>4, <1>8, <2>1, <2>2 DEF RecordsFound, Indices
      <4>5. R!Slice(k) = k
        BY <4>3, <4>4 DEF R!Slice, R!HasBlock, Block
      <4> QED BY <1>1, <1>8, <2>1, <2>2, <4>1, <4>5 DEF TasksRead
    <3>2. CASE R!CountSlice(k)
      <4>1. /\ reading[k] = "read" /\ results' = results
            /\ reading' = [reading EXCEPT ![k] = "counted"]
        BY <3>2 DEF R!CountSlice
      <4> QED BY <1>1, <1>8, <2>1, <2>2, <4>1 DEF TasksRead
    <3> QED BY <1>9, <3>1, <3>2 DEF R!ReadTask
  <2>4. PlanFollows'
    BY <1>1, <1>2, <1>4, <1>6, <1>8, <2>1 DEF PlanFollows
  <2>5. LayersRead'
    BY <1>1, <1>2, <1>3, <1>5, <1>8, <2>1, <2>3, <2>4 DEF LayersRead, InSection
  <2> QED BY <1>1, <1>2, <1>3, <2>1, <2>5 DEF ReaderPlace, R!ReadPhases
<1>10. CASE R!EndLayerInfo
  <2>1. rpc = "slices" /\ (\A k \in DOMAIN reading : reading[k] = "counted") /\ results' = results
    BY <1>10 DEF R!EndLayerInfo, R!Step, R!found
  <2>2. R!ToSkip \in -4..4
    <3>1. R!ToSkip \in 0..3
      BY <1>8, <2>1 DEF R!ToSkip
    <3> QED BY <3>1
  <2>3. rpc' = (IF info.tagged THEN "blocks" ELSE "mask") /\ at' = info.end
    BY <1>10, <2>2 DEF R!EndLayerInfo, R!Step
  <2>4. ReadBack
    <3>1. \A k \in Indices : results[k] = k
      BY <1>8, <2>1 DEF TasksRead
    <3>2. \A k \in Indices : recs[k].layer = k
      <4>1. Len(recs) = n
        BY <1>8, <2>1
      <4>2. \A k \in Indices : recs[k] = [layer |-> k, size |-> infos[k]]
        BY <1>4, <4>1 DEF RecordsFound, Indices
      <4>3. ASSUME NEW k \in Indices PROVE recs[k].layer = k
        <5> PICK size : recs[k] = [layer |-> k, size |-> size]
          BY <4>2
        <5> QED OBVIOUS
      <4> QED BY <4>3
    <3> QED BY <1>8, <2>1, <3>1, <3>2 DEF ReadBack
  <2>5. ReadBack'
    BY <1>1, <1>2, <2>1, <2>4 DEF ReadBack
  <2>6. CASE deep
    <3>1. rpc' = "blocks" /\ at' = BlocksStart
      BY <1>1, <1>3, <1>8, <2>1, <2>3, <2>6, WrittenParts
    <3>2. LayersRead'
      BY <1>1, <1>2, <1>3, <2>1, <2>5, <3>1 DEF LayersRead, InSection
    <3> QED BY <1>1, <1>2, <1>3, <3>1, <3>2 DEF ReaderPlace, R!ReadPhases
  <2>7. CASE ~deep
    <3>1. rpc' = "mask" /\ at' = InfoEnd
      BY <1>8, <2>1, <2>3, <2>7
    <3>2. LayersRead'
      BY <1>1, <1>2, <1>3, <2>1, <2>5, <2>7, <3>1 DEF LayersRead, InSection
    <3> QED BY <1>1, <1>2, <1>3, <3>1, <3>2 DEF ReaderPlace, R!ReadPhases
  <2> QED BY <2>6, <2>7
<1> QED BY <1>7, <1>9, <1>10

-----------------------------------------------------------------------------
(* Writing, then reading.                                                  *)

\* Until it is read the document is being written; from then on it stays.
TripInv ==
  /\ WriteTypeOK /\ Layout /\ ReaderPlace
  /\ rpc = "idle" => ProgressAccounting

\* A step of the reader changes the callback only to a count and a maximum.
LEMMA ReaderCounts ==
  ASSUME WriteTypeOK,
         \/ R!Reader /\ ~R!ReadLayerCount
         \/ \E k \in DOMAIN reading : R!ReadTask(k)
  PROVE  count' \in Nat /\ max' \in Nat \ {0}
<1>1. count \in Nat /\ max \in Nat \ {0}
  BY DEF WriteTypeOK
<1>2. \/ count' = 0 /\ max' = max
      \/ UNCHANGED <<count, max>>
      \/ R!Increment
  BY DEF R!Reader, R!ResetRead, R!ReadFront, R!BeginReadSection, R!ReadMask, R!ReadBlock,
     R!ReadLayerBlock, R!EndRead, R!NoLayerInfo, R!BeginReadLayerInfo, R!ReadRecord,
     R!PlanSlice, R!StartSlices, R!EndLayerInfo, R!ReadTask, R!ReadSlice, R!CountSlice,
     R!progressRead, R!ResetCount
<1> QED BY <1>1, <1>2 DEF R!Increment

\* Every step of the round trip keeps the layout and the reader's place in it.
LEMMA TripStep ==
  ASSUME TripInv, [TripNext]_tripVars
  PROVE  TripInv'
<1>1. WriteTypeOK /\ Layout /\ ReaderPlace
  BY DEF TripInv
<1>2. CASE WriteStep
  <2>1. Next /\ UNCHANGED <<rpc, at, version, section, info, recs, slices, reading, results>>
    BY <1>2 DEF WriteStep, reader
  <2>2. pc # "done"
    BY <2>1 DEF Next, Writer, Task, Reset, WriteFront, BeginSection, WriteMask, WriteBlocks,
       PatchSection, EmptyLayerInfo, RefuseNoLayers, BeginLayerInfo, Join, WriteRecord, EndRecords,
       WriteData, EndData, PatchLayerInfo, WriteImage, RefuseImage, CountImage, Compress,
       CountCompressed, Goto
  <2>3. rpc = "idle" /\ ProgressAccounting
    BY <2>2 DEF TripInv, ReaderPlace
  <2>4. WriteTypeOK' /\ ProgressAccounting' /\ Layout'
    BY <1>1, <2>1, <2>3, TypeStep, AccountingStep, LayoutStep
  <2>5. n' = n
    BY <2>1 DEF Next, Writer, Task, Reset, WriteFront, BeginSection, WriteMask, WriteBlocks,
       PatchSection, EmptyLayerInfo, RefuseNoLayers, BeginLayerInfo, Join, WriteRecord, EndRecords,
       WriteData, EndData, PatchLayerInfo, WriteImage, RefuseImage, CountImage, Compress,
       CountCompressed, document
  <2>6. ReaderPlace'
    BY <1>1, <2>1, <2>3, <2>5 DEF ReaderPlace, R!ReadPhases
  <2> QED BY <2>4, <2>6 DEF TripInv
<1>3. CASE StartRead
  <2>1. /\ rpc = "idle" /\ rpc' = "reset" /\ pc = "done"
        /\ UNCHANGED <<vars, unread, pc, n, count, max, info, recs>>
    BY <1>3 DEF StartRead, R!BeginRead, R!Step, R!plan, R!found, vars, unread, document, progress
  <2>2. WriteTypeOK' /\ Layout'
    <3>1. count' \in Nat /\ max' \in Nat \ {0}
      BY <1>1, <2>1 DEF WriteTypeOK
    <3> QED BY <1>1, <2>1, <3>1, DocumentStays
  <2>3. ReaderPlace'
    BY <1>1, <2>1 DEF ReaderPlace, R!ReadPhases, LayersRead, InSection
  <2> QED BY <2>1, <2>2, <2>3 DEF TripInv
<1>4. ASSUME UNCHANGED unread,
             R!Reader \/ \E k \in DOMAIN reading : R!ReadTask(k)
      PROVE  TripInv'
  <2>1. rpc # "idle" /\ rpc' # "idle"
    BY <1>4 DEF R!Reader, R!ResetRead, R!ReadFront, R!BeginReadSection, R!ReadMask, R!ReadBlock,
       R!ReadLayerBlock, R!EndRead, R!NoLayerInfo, R!BeginReadLayerInfo, R!ReadLayerCount,
       R!ReadRecord, R!PlanSlice, R!StartSlices, R!EndLayerInfo, R!ReadTask, R!ReadSlice,
       R!CountSlice, R!Step
  <2>2. ReaderPlace'
    BY <1>1, <1>4, <2>1, FrontRead, BlocksRead, CountRead, PlanRead, SlicesRead DEF R!Reader
  <2>3. count' \in Nat /\ max' \in Nat \ {0}
    BY <1>1, <1>4, <2>1, CountRead, ReaderCounts
  <2>4. WriteTypeOK' /\ Layout'
    BY <1>1, <1>4, <2>3, DocumentStays
  <2> QED BY <2>1, <2>2, <2>4 DEF TripInv
<1>5. CASE UNCHANGED tripVars
  <2>1. UNCHANGED vars /\ UNCHANGED <<rpc, at, version, section, info, recs, slices, reading, results>>
    BY <1>5 DEF tripVars, reader
  <2>2. WriteTypeOK' /\ Layout' /\ (rpc = "idle" => ProgressAccounting')
    <3>1. WriteTypeOK' /\ UNCHANGED unread /\ count' \in Nat /\ max' \in Nat \ {0}
      BY <1>1, <2>1, TypeStep DEF WriteTypeOK, vars, unread
    <3> QED BY <1>1, <2>1, <3>1, DocumentStays, AccountingStep DEF TripInv
  <2>3. UNCHANGED unread /\ pc' = pc
    BY <2>1 DEF vars, unread
  <2>4. LayersRead => LayersRead'
    BY <2>1, <2>3, PlacesStay
       DEF LayersRead, RecordsFound, SlicesFound, PlanFollows, TasksRead, ReadBack, InSection,
           Link, Laid, LinkValue, LinkLength, RecordLength
  <2>5. ReaderPlace'
    BY <1>1, <2>1, <2>3, <2>4, PlacesStay DEF ReaderPlace, R!ReadPhases
  <2> QED BY <2>1, <2>2, <2>5 DEF TripInv
<1> QED BY <1>2, <1>3, <1>4, <1>5 DEF TripNext, ReadStep, ReadTaskStep

\* The round trip begins with nothing written and nothing read.
LEMMA TripStart == TripInit => TripInv
<1>1. TripInit => WriteTypeOK /\ ProgressAccounting /\ Layout
  BY LayoutInit DEF TripInit
<1>2. TripInit => ReaderPlace
  BY DEF TripInit, R!ReadInit, ReaderPlace, R!ReadPhases
<1> QED BY <1>1, <1>2 DEF TripInv

\* The reader stays within the layout of the document, whatever the schedule.
THEOREM ReaderFollowsLayout == TripSpec => []TripInv
<1>1. TripInv /\ [TripNext]_tripVars => TripInv'
  BY TripStep
<1> QED BY TripStart, <1>1, PTL DEF TripSpec

\* The reader never takes one part for another.
THEOREM KeepsItsPlace == TripSpec => []ReaderKeepsItsPlace
<1>1. TripInv => ReaderKeepsItsPlace
  <2> SUFFICES ASSUME TripInv, rpc # "idle", n # 0
               PROVE  R!InPlace /\ rpc # "failed"
    BY DEF ReaderKeepsItsPlace
  <2>1. WriteTypeOK /\ Layout /\ ReaderPlace /\ LayersRead /\ pc = "done"
    BY DEF TripInv, ReaderPlace
  <2>2. rpc \in {"section", "info"} => R!IsNext("length")
    <3>1. rpc = "section" => at = 34 /\ Laid(34, "length", SectionLength, width)
      BY <2>1, WrittenParts DEF LayersRead
    <3>2. rpc = "info" => /\ at = 34 + width
                          /\ deep => Laid(34 + width, "length", 0, width)
                          /\ ~deep => Laid(34 + width, "length", InfoLength, width)
      BY <2>1, WrittenParts DEF LayersRead
    <3> QED BY <3>1, <3>2 DEF R!IsNext, R!HasBlock, Laid, Block
  <2>3. rpc = "layers" => R!IsNext("count")
    <3>1. Laid(infoMark + width, "count", n, 2)
      BY <2>1, WrittenParts
    <3> QED BY <2>1, <3>1 DEF LayersRead, R!IsNext, R!HasBlock, Laid, Block
  <2>4. rpc = "records" /\ Len(recs) < info.layers => R!IsNext("record")
    BY <2>1 DEF LayersRead, PlanFollows, R!IsNext, R!HasBlock, Link, Laid, Block
  <2>5. rpc = "mask" => R!IsNext("mask")
    <3>1. /\ deep => Laid(34 + 2 * width, "mask", 0, 4) /\ SectionStart = 34
          /\ ~deep => Laid(InfoEnd, "mask", 0, 4)
      BY <2>1, WrittenParts
    <3> QED BY <2>1, <3>1 DEF LayersRead, R!IsNext, R!HasBlock, Laid, Block
  <2>6. rpc = "blocks" /\ R!ToRead >= 12 => R!IsNext("block") \/ R!IsNext("key")
    BY <2>1, AtBlock DEF R!IsNext, R!HasBlock, HasBlock
  <2>7. rpc # "failed"
    BY <2>1 DEF LayersRead
  <2> QED BY <2>2, <2>3, <2>4, <2>5, <2>6, <2>7 DEF R!InPlace
<1> QED BY <1>1, ReaderFollowsLayout, PTL

\* A read returns the layers that were written.
THEOREM WhatWasWrittenIsRead == TripSpec => []ReadReturnsWhatWasWritten
<1>1. TripInv => ReadReturnsWhatWasWritten
  <2> SUFFICES ASSUME TripInv, rpc = "done"
               PROVE  /\ Len(recs) = n
                      /\ \A k \in Indices : recs[k].layer = k /\ results[k] = k
    BY DEF ReadReturnsWhatWasWritten
  <2>1. CASE n = 0
    BY <2>1 DEF TripInv, ReaderPlace, Indices
  <2>2. CASE n # 0
    BY <2>2 DEF TripInv, ReaderPlace, LayersRead, ReadBack
  <2> QED BY <2>1, <2>2
<1> QED BY <1>1, ReaderFollowsLayout, PTL

=============================================================================
