----------------------------- MODULE ReadDocument -----------------------------
(***************************************************************************)
(* PhotoshopFile::read.  One thread reads the sections in order; once the  *)
(* layer records are read, the data of all layers is read in parallel, one *)
(* task per layer, each from the slice that the records' sizes give it.    *)
(* A deep document's layers are in a tagged block, found only after the    *)
(* global mask info.  What a reader does once it takes one part of the     *)
(* document for another is not modelled: it stops there.                   *)
(***************************************************************************)
EXTENDS ProgressCallback, DocumentStream, Integers, Sequences

VARIABLES
  disk,            \* the document: the blocks by offset
  rpc,             \* what the reading thread does next
  at,              \* offset in the document
  version,         \* bytes of a length marker
  section,         \* where the section starts and its size
  info,            \* end of the layer info and whether it is in a tagged block
  recs,            \* m_LayerRecords
  slices,          \* channelImageDataOffsets
  reading,         \* the parallel task of each layer
  results          \* localResults, by layer

progressRead == <<count, max>>
place    == <<at, version>>
plan     == <<section, info>>
found    == <<recs, slices, reading, results>>
readVars == <<disk, rpc, progressRead, place, plan, found>>

ReadPhases == {"idle", "reset", "front", "section", "info", "layers", "records",
               "slices", "mask", "blocks", "done", "failed"}

Nothing == 0         \* not the index of a layer

ReadInit ==
  /\ rpc = "idle"
  /\ at = 0
  /\ version = 0
  /\ section = [start |-> 0, size |-> 0]
  /\ info = [end |-> 0, layers |-> 0, tagged |-> FALSE]
  /\ recs = <<>>
  /\ slices = <<>>
  /\ reading = <<>>
  /\ results = <<>>

ReadTypeOK ==
  /\ rpc \in ReadPhases
  /\ at \in Nat
  /\ section \in [start : Nat, size : Nat]
  /\ info \in [end : Nat, layers : Nat, tagged : BOOLEAN]
  /\ \A k \in DOMAIN recs : recs[k].size \in Nat
  /\ slices \in Seq(Nat)
  /\ reading \in Seq({"waiting", "read", "counted"})

Step(from, to) == rpc = from /\ rpc' = to /\ UNCHANGED disk

IsNext(kind) == HasBlock(disk, at, kind)

BeginRead ==
  /\ Step("idle", "reset")
  /\ UNCHANGED <<progressRead, place, plan, found>>

ResetRead ==
  /\ Step("reset", "front")
  /\ ResetCount
  /\ at' = 0
  /\ UNCHANGED <<version, plan, found>>

ReadFront ==
  /\ IsNext("front")
  /\ Step("front", "section")
  /\ version' = disk[at].val
  /\ at' = at + disk[at].len
  /\ UNCHANGED <<progressRead, plan, found>>

-----------------------------------------------------------------------------
(* LayerAndMaskInformation::read and AdditionalLayerInfo::read             *)

BeginReadSection ==
  /\ IsNext("length")
  /\ Step("section", "info")
  /\ section' = [start |-> at + version, size |-> disk[at].val]
  /\ at' = at + version
  /\ UNCHANGED <<progressRead, version, info, found>>

ReadMask ==
  /\ IsNext("mask")
  /\ Step("mask", "blocks")
  /\ at' = at + disk[at].len
  /\ UNCHANGED <<progressRead, version, plan, found>>

ToRead == section.size - (at - section.start)

ReadBlock ==
  /\ ToRead >= 12
  /\ IsNext("block")
  /\ Step("blocks", "blocks")
  /\ at' = at + disk[at].len
  /\ UNCHANGED <<progressRead, version, plan, found>>

\* Lr16TaggedBlock::read: the payload's length is the layer info's.
ReadLayerBlock ==
  LET marker == at + disk[at].len
      length == RoundUpToMultiple(disk[marker].val, 4)
  IN  /\ ToRead >= 12
      /\ IsNext("key")
      /\ Step("blocks", "layers")
      /\ at' = marker + version
      /\ info' = [info EXCEPT !.end = marker + version + length, !.tagged = TRUE]
      /\ UNCHANGED <<progressRead, version, section, found>>

EndRead ==
  /\ ToRead < 12
  /\ Step("blocks", "done")
  /\ at' = IF ToRead > 0 THEN at + ToRead ELSE at
  /\ UNCHANGED <<progressRead, version, plan, found>>

-----------------------------------------------------------------------------
(* LayerInfo::read                                                         *)

NoLayerInfo ==
  /\ IsNext("length")
  /\ disk[at].val = 0
  /\ Step("info", "mask")
  /\ at' = at + version
  /\ UNCHANGED <<progressRead, version, plan, found>>

BeginReadLayerInfo ==
  /\ IsNext("length")
  /\ disk[at].val # 0
  /\ Step("info", "layers")
  /\ info' = [info EXCEPT !.end = at + version + disk[at].val, !.tagged = FALSE]
  /\ at' = at + version
  /\ UNCHANGED <<progressRead, version, section, found>>

\* Slip: the maximum of an earlier operation is kept.
ReadLayerCountKeepingMax ==
  /\ IsNext("count")
  /\ Step("layers", "records")
  /\ info' = [info EXCEPT !.layers = disk[at].val]
  /\ at' = at + disk[at].len
  /\ recs' = <<>>
  /\ slices' = <<>>
  /\ UNCHANGED <<progressRead, version, section, reading, results>>

ReadLayerCount ==
  /\ IsNext("count")
  /\ Step("layers", "records")
  /\ SetMax(disk[at].val)
  /\ info' = [info EXCEPT !.layers = disk[at].val]
  /\ at' = at + disk[at].len
  /\ recs' = <<>>
  /\ slices' = <<>>
  /\ UNCHANGED <<version, section, reading, results>>

ReadRecord ==
  /\ Len(recs) < info.layers
  /\ IsNext("record")
  /\ Step("records", "records")
  /\ recs' = Append(recs, disk[at].val)
  /\ at' = at + disk[at].len
  /\ UNCHANGED <<progressRead, version, plan, slices, reading, results>>

\* Slip: a slice starts where the layer's data ends.
PlanSliceBehind ==
  LET size == recs[Len(slices) + 1].size
  IN  /\ Len(recs) = info.layers
      /\ Len(slices) < Len(recs)
      /\ Step("records", "records")
      /\ slices' = Append(slices, at + size)
      /\ at' = at + size
      /\ UNCHANGED <<progressRead, version, plan, recs, reading, results>>

\* One turn of the loop that gives every layer its slice; the offset moves
\* over the data, to where the sequential reading goes on.
PlanSlice ==
  LET size == recs[Len(slices) + 1].size
  IN  /\ Len(recs) = info.layers
      /\ Len(slices) < Len(recs)
      /\ Step("records", "records")
      /\ slices' = Append(slices, at)
      /\ at' = at + size
      /\ UNCHANGED <<progressRead, version, plan, recs, reading, results>>

StartSlices ==
  /\ Len(recs) = info.layers
  /\ Len(slices) = Len(recs)
  /\ Step("records", "slices")
  /\ reading' = [k \in DOMAIN recs |-> "waiting"]
  /\ results' = [k \in DOMAIN recs |-> Nothing]
  /\ UNCHANGED <<progressRead, place, plan, recs, slices>>

Slice(k) ==
  IF HasBlock(disk, slices[k], "data") /\ disk[slices[k]].len = recs[k].size
  THEN disk[slices[k]].val
  ELSE Nothing

\* The body of the parallel loop for layer k, up to the increment.
ReadSlice(k) ==
  /\ Step("slices", "slices")
  /\ reading[k] = "waiting"
  /\ results' = [results EXCEPT ![k] = Slice(k)]
  /\ reading' = [reading EXCEPT ![k] = "read"]
  /\ UNCHANGED <<progressRead, place, plan, recs, slices>>

CountSlice(k) ==
  /\ Step("slices", "slices")
  /\ reading[k] = "read"
  /\ Increment
  /\ reading' = [reading EXCEPT ![k] = "counted"]
  /\ UNCHANGED <<place, plan, recs, slices, results>>

ReadTask(k) == ReadSlice(k) \/ CountSlice(k)

\* The rest of the section may be the padding, nothing else.
ToSkip == info.end - at

\* Slip: the padding is not skipped.
EndLayerInfoAtData ==
  /\ \A k \in DOMAIN reading : reading[k] = "counted"
  /\ Step("slices", IF info.tagged THEN "blocks" ELSE "mask")
  /\ UNCHANGED <<progressRead, place, plan, found>>

EndLayerInfo ==
  /\ \A k \in DOMAIN reading : reading[k] = "counted"
  /\ IF ToSkip \in -4..4
     THEN /\ Step("slices", IF info.tagged THEN "blocks" ELSE "mask")
          /\ at' = info.end
     ELSE /\ Step("slices", "failed")
          /\ UNCHANGED at
  /\ UNCHANGED <<progressRead, version, plan, found>>

Reader ==
  \/ ResetRead \/ ReadFront
  \/ BeginReadSection \/ ReadMask \/ ReadBlock \/ ReadLayerBlock \/ EndRead
  \/ NoLayerInfo \/ BeginReadLayerInfo \/ ReadLayerCount \/ ReadRecord
  \/ PlanSlice \/ StartSlices \/ EndLayerInfo

-----------------------------------------------------------------------------
\* The document has what the reader takes the bytes at its offset for.
InPlace ==
  /\ rpc \in {"section", "info"} => IsNext("length")
  /\ rpc = "layers" => IsNext("count")
  /\ rpc = "records" /\ Len(recs) < info.layers => IsNext("record")
  /\ rpc = "mask" => IsNext("mask")
  /\ rpc = "blocks" /\ ToRead >= 12 => IsNext("block") \/ IsNext("key")
=============================================================================
