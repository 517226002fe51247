---------------------------- MODULE DocumentStream ----------------------------
(***************************************************************************)
(* A document as the stream the sections are written to.  The bytes are    *)
(* abstracted to blocks: what was written at an offset, what it says and   *)
(* how long it is.  A length marker is written as 0 first and written      *)
(* again, at the same offset and with the same width, once the length is   *)
(* known.                                                                  *)
(***************************************************************************)
EXTENDS Naturals

Block(kind, val, len) == [kind |-> kind, val |-> val, len |-> len]

EmptyDocument == [blocks |-> <<>>, offset |-> 0]

\* WriteBinaryData and its siblings: write at the offset and move past it.
Put(d, kind, val, len) ==
  [blocks |-> [o \in DOMAIN d.blocks \cup {d.offset} |->
                 IF o = d.offset THEN Block(kind, val, len) ELSE d.blocks[o]],
   offset |-> d.offset + len]

SetOffset(d, offset) == [d EXCEPT !.offset = offset]

\* WritePadddingBytes
PutPadding(d, len) == IF len = 0 THEN d ELSE Put(d, "padding", 0, len)

RoundUpToMultiple(value, padding) == ((value + padding - 1) \div padding) * padding

\* Go back to a length marker of the given width, fill it in, return to the
\* end and pad the section there.
Patch(d, marker, width, length, padding) ==
  PutPadding(SetOffset(Put(SetOffset(d, marker), "length", length, width), d.offset),
             padding)

HasBlock(blocks, offset, kind) ==
  offset \in DOMAIN blocks /\ blocks[offset].kind = kind
=============================================================================
