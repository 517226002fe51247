----------------------------- MODULE TaggedBlocks -----------------------------
(***************************************************************************)
(* The tagged blocks at the end of a layer record or of the layer and mask  *)
(* information: AdditionalLayerInfo reads block after block, whoever wrote  *)
(* them; a layer keeps what it understands as settings and the blocks       *)
(* nobody understands as they are, and writes both again.                   *)
(*                                                                         *)
(* A block is a signature, a key, a length and as many bytes.  The loop     *)
(* does not trust the length: every kind of block has a reader of its own,  *)
(* which moves the file's offset as it reads and throws where it meets what *)
(* it does not know.  Whatever is thrown is caught, and the loop goes on    *)
(* wherever the offset is by then.  A read, a skip or a jump beyond the     *)
(* file throws and leaves the offset alone (File.cpp).                      *)
(*                                                                         *)
(* Offsets count from the start of the section.  A byte is one of the four  *)
(* of a text or a number, or data; four bytes read from anywhere else are   *)
(* no signature, no key, and a number larger than the file.                 *)
(***************************************************************************)
EXTENDS Integers, Sequences, FiniteSets

CONSTANTS
  Sections,   \* what the file may hold: [bytes, readable, padding, wide]
  Trailer,    \* the bytes that follow the section
  Cuts,       \* how many bytes the end of the file may be missing
  Beyond,     \* a length no file has
  Texts       \* what four characters, or a byte of data, may say

Byte == [txt : Texts, num : Nat, part : 0..4]

Text(s)   == [i \in 1..4 |-> [txt |-> s, num |-> 0, part |-> i]]
Number(n) == [i \in 1..4 |-> [txt |-> "number", num |-> n, part |-> i]]
Data(d)   == [txt |-> d, num |-> 0, part |-> 0]
Zeros(n)  == [i \in 1..n |-> Data("zero")]

\* Enum::taggedBlockMap, for the keys modelled here.
TaggedBlockMap ==
  [lsct |-> "lrSectionDivider", lsdk |-> "lrSectionDivider", lspf |-> "lrProtectedSetting",
   lclr |-> "lrSheetColorSetting", iOpa |-> "lrBlendFill", fxrp |-> "lrReferencePoint",
   luni |-> "lrUnicodeName", PlLd |-> "lrPlaced", plLd |-> "lrPlaced",
   SoLd |-> "lrPlacedData", SoLE |-> "lrPlacedData",
   lnkD |-> "lrLinked", lnkE |-> "lrLinked", lnk3 |-> "lrLinked", lnk2 |-> "lrLinked_8Byte",
   artb |-> "lrArtboard", artd |-> "lrArtboard", abdd |-> "lrArtboard",
   lyid |-> "lrId", FMsk |-> "lrFilterMask", TySh |-> "lrTypeTool"]

TaggedBlockKey(name) ==
  IF name \in DOMAIN TaggedBlockMap THEN TaggedBlockMap[name] ELSE "Unknown"
NamesOf(key)  == {name \in DOMAIN TaggedBlockMap : TaggedBlockMap[name] = key}
Keys          == {TaggedBlockMap[name] : name \in DOMAIN TaggedBlockMap}

IsTaggedBlockSizeUint64(key) == key \in {"lrLinked_8Byte", "lrFilterMask"}

\* The keys TaggedBlock::read takes as they are.
BaseKeys == {"lrArtboard", "lrId", "lrFilterMask", "lrTypeTool"}

BlockTypes ==
  {"Base", "TypeTool", "LrSection", "ReferencePoint", "SheetColor", "BlendFill",
   "ProtectedSetting", "UnicodeLayerName", "PlacedLayer", "PlacedLayerData", "LinkedLayer"}

Block == [type : BlockTypes, key : Keys, signature : Texts, data : Seq(Byte)]

RoundUp(n, padding) == ((n + padding - 1) \div padding) * padding

IsSection(s) ==
  /\ s.bytes \in Seq(Byte)
  /\ s.readable \in Seq(Block)
  /\ s.padding \in {1, 4}
  /\ s.wide \in BOOLEAN

ASSUME TaggedBlocksAssumption ==
  /\ \A s \in Sections : IsSection(s)
  /\ Trailer \in Seq(Byte)
  /\ Cuts \subseteq Nat
  /\ Beyond \in Nat
  /\ DOMAIN TaggedBlockMap \subseteq Texts
  /\ {"number", "?", "8BIM", "zero", "record's", "pascal"} \subseteq Texts

VARIABLES
  section,    \* the section that was in the file
  file,       \* its bytes, and what follows them
  maxLength,  \* the length of the section
  start,      \* start_offset: where the block that is read starts
  at,         \* the file's offset
  toRead,     \* what is left of the section, negative after a block that ran over
  storage,    \* m_TaggedBlocks
  linked,     \* the block of linked layers that is read: [end, key, data]
  layer,      \* the settings of the layer
  next,       \* the unparsed block that is written next
  round,      \* 1: reads the foreign section, 2: reads what it wrote
  phase

vars == <<section, file, maxLength, start, at, toRead, storage, linked, layer, next, round, phase>>
document == <<section, file, maxLength, round>>
kept     == <<layer, next>>

NoLinked == [end |-> 0, key |-> "none", data |-> <<>>]

\* The settings a layer record has without any tagged block.  No constructor
\* sets the fill: it is the 0 it is declared with, not 255.
DefaultLayer ==
  [unparsed |-> <<>>, blend |-> <<Data("record's")>>, locked |-> <<Data("zero")>>,
   color |-> <<Data("zero"), Data("zero")>>, reference |-> <<>>,
   name |-> <<Data("pascal"), Data("pascal")>>, fill |-> <<Data("zero")>>]

-----------------------------------------------------------------------------
(* What the file has at an offset.                                          *)

InFile(p) == p <= Len(file)

IsWord(p) ==
  InFile(p + 4) /\ \A i \in 1..4 : file[p + i] = [file[p + 1] EXCEPT !.part = i]

TextAt(p)   == IF IsWord(p) THEN file[p + 1].txt ELSE "?"
NumberAt(p) == IF IsWord(p) /\ file[p + 1].txt = "number" THEN file[p + 1].num ELSE Beyond

BytesAt(p, n) == SubSeq(file, p + 1, p + n)

\* A marker of 4 bytes, or of 8.
LengthAt(p, size) ==
  IF size = 4 THEN NumberAt(p) ELSE IF NumberAt(p) = 0 THEN NumberAt(p + 4) ELSE Beyond

IsSigned == TextAt(start) \in {"8BIM", "8B64"}
Key      == TaggedBlockKey(TextAt(start + 4))
Payload  == start + 12
Length   == NumberAt(start + 8)

-----------------------------------------------------------------------------
(* One turn of the loop.  A reader stops at some offsets, one after the     *)
(* other, before it jumps to the one where the block ends for it.           *)

IsReading == phase = "reading" /\ toRead >= 12

\* The turn is over: the offset is `to', and `blocks' were stored.
Leave(to, blocks) ==
  /\ at' = to
  /\ start' = to
  /\ toRead' = toRead - (to - start)
  /\ storage' = storage \o blocks
  /\ linked' = NoLinked
  /\ phase' = "reading"
  /\ UNCHANGED <<document, kept>>

\* The turn is over by an exception after the last of the stops, or after
\* the last one before the end of the file.
Throw(stops) ==
  \E stop \in stops \cup {at} :
    /\ stop = at \/ InFile(stop)
    /\ \A s \in stops : InFile(s) => s <= stop
    /\ Leave(stop, <<>>)

ReadTo(stops, end, blocks) ==
  IF InFile(end) /\ \A s \in stops : InFile(s)
  THEN Leave(end, blocks)
  ELSE Throw(stops)

Header == {start + 4, start + 8, start + 12}

Stored(type, key, data) ==
  <<[type |-> type, key |-> key, signature |-> TextAt(start), data |-> data]>>

\* Slip: the offset is put back.
BadSignatureRewinding ==
  /\ IsReading /\ ~IsSigned
  /\ Leave(start, <<>>)

BadSignature ==
  /\ IsReading /\ ~IsSigned
  /\ Throw({start + 4})

\* Slip: it is dropped without its bytes being read.
SkipUnknownHeader ==
  /\ IsReading /\ IsSigned
  /\ Key = "Unknown"
  /\ Throw(Header)

\* A block without a known key is read all the same, and then dropped.
SkipUnknown ==
  /\ IsReading /\ IsSigned
  /\ Key = "Unknown"
  /\ Throw(Header \cup {Payload + RoundUp(Length, section.padding)})

ReadBase ==
  /\ IsReading /\ IsSigned
  /\ Key \in BaseKeys
  /\ LET marker == IF IsTaggedBlockSizeUint64(Key) /\ section.wide THEN 8 ELSE 4
         body   == start + 8 + marker
         length == RoundUp(LengthAt(start + 8, marker), section.padding)
         type   == IF Key = "lrTypeTool" THEN "TypeTool" ELSE "Base"
     IN  ReadTo({start + 4, start + 8, body, body + length}, body + length,
                Stored(type, Key, BytesAt(body, length)))

\* A divider has a type, and if it is long enough a signature with a blend
\* mode, and a sub-type.
DividerTypeIsKnown  == NumberAt(Payload) <= 3
DividerHasBlendMode == RoundUp(Length, section.padding) >= 12

\* Enum::blendModeMap, for the modes modelled here; another one is not stored.
BlendModes == {"pass", "norm", "mul "}

ReadDivider ==
  /\ IsReading /\ IsSigned
  /\ Key = "lrSectionDivider"
  /\ DividerTypeIsKnown
  /\ DividerHasBlendMode => TextAt(Payload + 4) = "8BIM"
  /\ LET blend   == IF DividerHasBlendMode THEN {Payload + 8, Payload + 12} ELSE {}
         subtype == IF RoundUp(Length, section.padding) >= 16 THEN {Payload + 16} ELSE {}
         end     == Payload + (IF subtype # {} THEN 16 ELSE IF blend # {} THEN 12 ELSE 4)
     IN  ReadTo(Header \cup {Payload + 4} \cup blend \cup subtype, end,
                Stored("LrSection", Key,
                       IF DividerHasBlendMode /\ TextAt(Payload + 8) \in BlendModes
                       THEN BytesAt(Payload + 8, 4) ELSE <<>>))

RefuseDivider ==
  /\ IsReading /\ IsSigned
  /\ Key = "lrSectionDivider"
  /\ \/ /\ ~DividerTypeIsKnown
        /\ Throw(Header \cup {Payload + 4})
     \/ /\ DividerTypeIsKnown
        /\ DividerHasBlendMode /\ TextAt(Payload + 4) # "8BIM"
        /\ Throw(Header \cup {Payload + 4, Payload + 8})

\* Settings of one length, with their value at the start: [length, field].  The
\* fill stores the key of the color.
FixedLayout ==
  [lrReferencePoint    |-> [type |-> "ReferencePoint", length |-> 16, field |-> 16,
                            stored |-> "lrReferencePoint"],
   lrSheetColorSetting |-> [type |-> "SheetColor", length |-> 8, field |-> 2,
                            stored |-> "lrSheetColorSetting"],
   lrBlendFill         |-> [type |-> "BlendFill", length |-> 4, field |-> 1,
                            stored |-> "lrSheetColorSetting"],
   lrProtectedSetting  |-> [type |-> "ProtectedSetting", length |-> 4, field |-> 1,
                            stored |-> "lrProtectedSetting"]]

ReadFixed ==
  /\ IsReading /\ IsSigned
  /\ Key \in DOMAIN FixedLayout
  /\ Length = FixedLayout[Key].length
  /\ LET layout == FixedLayout[Key]
         stops  == {Payload + layout.field, Payload + layout.length}
                     \cup (IF layout.field = 16 THEN {Payload + 8} ELSE {})
     IN  ReadTo(Header \cup stops, Payload + layout.length,
                Stored(layout.type, layout.stored, BytesAt(Payload, layout.field)))

RefuseFixed ==
  /\ IsReading /\ IsSigned
  /\ Key \in DOMAIN FixedLayout \ {"lrProtectedSetting"}
  /\ Length # FixedLayout[Key].length
  /\ Throw(Header)

\* Slip: the signature is not counted.
SkipProtectedFromStart ==
  /\ IsReading /\ IsSigned
  /\ Key = "lrProtectedSetting"
  /\ Length # FixedLayout[Key].length
  /\ ReadTo(Header, start + Length,
            Stored("ProtectedSetting", Key, <<Data("zero")>>))

\* A protection of another length is jumped over from where the block starts,
\* and stored as unlocked.
SkipProtected ==
  /\ IsReading /\ IsSigned
  /\ Key = "lrProtectedSetting"
  /\ Length # FixedLayout[Key].length
  /\ ReadTo(Header, start + 4 + Length,
            Stored("ProtectedSetting", Key, <<Data("zero")>>))

\* The characters of a name: the nulls that end it are not part of it.
Null == <<Data("zero"), Data("zero")>>
Unterminated(text) ==
  IF Len(text) >= 2 /\ SubSeq(text, Len(text) - 1, Len(text)) = Null
  THEN SubSeq(text, 1, Len(text) - 2) ELSE text

NameLength     == 2 * NumberAt(Payload)
NameIsReadable == \A i \in 1..NameLength : BytesAt(Payload + 4, NameLength)[i] # Data("lone")
NameStops      == Header \cup {Payload + 4, Payload + 4 + NameLength}

ReadName ==
  /\ IsReading /\ IsSigned
  /\ Key = "lrUnicodeName"
  /\ InFile(Payload + 4 + NameLength) => NameIsReadable
  /\ ReadTo(NameStops \cup {Payload + RoundUp(4 + NameLength, 4)},
            Payload + RoundUp(Length, section.padding),
            Stored("UnicodeLayerName", Key, Unterminated(BytesAt(Payload + 4, NameLength))))

\* No UTF-8 can be made of it: half of a surrogate pair.
RefuseName ==
  /\ IsReading /\ IsSigned
  /\ Key = "lrUnicodeName"
  /\ InFile(Payload + 4 + NameLength) /\ ~NameIsReadable
  /\ Throw(NameStops)

\* The two blocks of a smart object: an identifier, then what it announces.
Identifier == [lrPlaced |-> "plcL", lrPlacedData |-> "soLD"]

ReadPlaced ==
  /\ IsReading /\ IsSigned
  /\ Key \in DOMAIN Identifier
  /\ TextAt(Payload) = Identifier[Key]
  /\ ReadTo(Header \cup {Payload + 4, Payload + Length}, Payload + Length,
            Stored(IF Key = "lrPlaced" THEN "PlacedLayer" ELSE "PlacedLayerData", Key,
                   BytesAt(Payload, Length)))

RefusePlaced ==
  /\ IsReading /\ IsSigned
  /\ Key \in DOMAIN Identifier
  /\ TextAt(Payload) # Identifier[Key]
  /\ Throw(Header \cup {Payload + 4})

\* The block of the linked layers: items until less than 9 bytes are left.
BeginLinked ==
  /\ IsReading /\ IsSigned
  /\ Key \in {"lrLinked", "lrLinked_8Byte"}
  /\ LET marker == IF Key = "lrLinked_8Byte" /\ section.wide THEN 8 ELSE 4
         body   == start + 8 + marker
     IN  IF InFile(body)
         THEN /\ at' = body
              /\ linked' = [end  |-> body + RoundUp(LengthAt(start + 8, marker), 4),
                            key  |-> Key, data |-> <<>>]
              /\ phase' = "linked"
              /\ UNCHANGED <<document, start, toRead, storage, kept>>
         ELSE Throw({start + 4, start + 8})

HasItem   == phase = "linked" /\ at < linked.end - 8
ItemSize  == RoundUp(LengthAt(at, 8), 4)
ItemIsOurs == TextAt(at + 8) \in {"liFD", "liFE", "liFA"} /\ NumberAt(at + 12) \in 1..8

ReadItem ==
  /\ HasItem /\ ItemIsOurs
  /\ IF InFile(at + 16) /\ InFile(at + 8 + ItemSize)
     THEN /\ at' = at + 8 + ItemSize
          /\ linked' = [linked EXCEPT !.data = @ \o BytesAt(at + 8, ItemSize)]
          /\ UNCHANGED <<document, start, toRead, storage, kept, phase>>
     ELSE Throw({at + 8, at + 12, at + 16})

\* The block is lost with the items that were read.
RefuseItem ==
  /\ HasItem /\ ~ItemIsOurs
  /\ Throw({at + 8, at + 12} \cup
           (IF TextAt(at + 8) \in {"liFD", "liFE", "liFA"} THEN {at + 16} ELSE {}))

EndLinked ==
  /\ phase = "linked" /\ ~HasItem
  /\ IF InFile(linked.end)
     THEN Leave(linked.end, Stored("LinkedLayer", linked.key, linked.data))
     ELSE Throw({at})

\* Too little is left for a block.  What is left is skipped; beyond the file
\* that throws, and nothing around the loop catches it.
EndSection ==
  /\ phase = "reading" /\ toRead < 12
  /\ phase' = IF toRead <= 0 \/ InFile(at + toRead) THEN "read" ELSE "failed"
  /\ at' = IF toRead > 0 /\ InFile(at + toRead) THEN at + toRead ELSE at
  /\ UNCHANGED <<document, start, toRead, storage, linked, kept>>

ReadBlock ==
  \/ BadSignature \/ SkipUnknown \/ ReadBase
  \/ ReadDivider \/ RefuseDivider
  \/ ReadFixed \/ RefuseFixed \/ SkipProtected
  \/ ReadName \/ RefuseName
  \/ ReadPlaced \/ RefusePlaced
  \/ BeginLinked \/ ReadItem \/ RefuseItem \/ EndLinked

-----------------------------------------------------------------------------
(* The layer: made of the blocks, and written as blocks.                    *)

\* Slip: where a key is asked for, the type is not.
ViewByKey(blocks, type, keys, default) ==
  LET hits  == {k \in DOMAIN blocks :
                  (blocks[k].type = type \/ keys # Keys) /\ blocks[k].key \in keys}
      first == {k \in hits : \A j \in hits : k <= j}
  IN  IF first = {} THEN default ELSE blocks[CHOOSE k \in first : TRUE].data

\* The data of the first block of a type, whose key is one of `keys'.
View(blocks, type, keys, default) ==
  LET hits  == {k \in DOMAIN blocks : blocks[k].type = type /\ blocks[k].key \in keys}
      first == {k \in hits : \A j \in hits : k <= j}
  IN  IF first = {} THEN default ELSE blocks[CHOOSE k \in first : TRUE].data

\* The settings of a record with these blocks.
Parsed(record, blocks) ==
  LET blend == View(blocks, "LrSection", {"lrSectionDivider"}, <<>>)
  IN  [unparsed  |-> record.unparsed,
       blend     |-> IF blend = <<>> THEN record.blend ELSE blend,
       locked    |-> View(blocks, "ProtectedSetting", {"lrProtectedSetting"}, record.locked),
       color     |-> View(blocks, "SheetColor", {"lrSheetColorSetting"}, record.color),
       reference |-> View(blocks, "ReferencePoint", Keys, record.reference),
       name      |-> View(blocks, "UnicodeLayerName", Keys, record.name),
       fill      |-> View(blocks, "BlendFill", Keys, record.fill)]

\* get_base_tagged_blocks goes through the blocks for those nobody parses.
PassAlong ==
  /\ phase = "read" /\ round = 1
  /\ section.padding = 1
  /\ next \in DOMAIN storage
  /\ layer' = [layer EXCEPT !.unparsed =
                 IF storage[next].type = "Base" THEN Append(@, storage[next]) ELSE @]
  /\ next' = next + 1
  /\ UNCHANGED <<document, start, at, toRead, storage, linked, phase>>

ParseLayer ==
  /\ phase = "read" /\ round = 1
  /\ section.padding = 1
  /\ next = Len(storage) + 1
  /\ layer' = Parsed(layer, storage)
  /\ file' = <<>>
  /\ next' = 1
  /\ phase' = "writing"
  /\ UNCHANGED <<section, maxLength, round, start, at, toRead, storage, linked>>

\* Slip: the length has 4 bytes for every key.
WrittenNarrow(signature, name, wide, data) ==
  Text(signature) \o Text(name) \o Number(Len(data)) \o data

Written(signature, name, wide, data) ==
  Text(signature) \o Text(name)
    \o (IF wide THEN Number(0) \o Number(Len(data)) ELSE Number(Len(data))) \o data

\* A block that was not understood: its name is any of those of its key.
WriteUnparsed ==
  /\ phase = "writing"
  /\ next \in DOMAIN layer.unparsed
  /\ LET block == layer.unparsed[next]
     IN  \E name \in NamesOf(block.key) :
           file' = file \o Written(block.signature, name,
                             IsTaggedBlockSizeUint64(block.key) /\ section.wide, block.data)
  /\ next' = next + 1
  /\ UNCHANGED <<section, maxLength, round, start, at, toRead, storage, linked, layer, phase>>

\* A name is ended by a null and filled up to a multiple of 4; the string of an
\* empty name is made without its padding.
NameWritten(name) ==
  LET text == name \o Null
      fill == IF name = <<>> THEN 0 ELSE RoundUp(4 + Len(text), 4) - 4 - Len(text)
  IN  Number(Len(text) \div 2) \o text \o Zeros(fill)

Generated(l) ==
  (IF l.reference = <<>> THEN <<>> ELSE Written("8BIM", "fxrp", FALSE, l.reference))
    \o Written("8BIM", "luni", FALSE, NameWritten(l.name))
    \o Written("8BIM", "lspf", FALSE, l.locked \o Zeros(3))
    \o Written("8BIM", "lclr", FALSE, l.color \o Zeros(6))
    \o Written("8BIM", "iOpa", FALSE, l.fill \o Zeros(3))

\* The section is filled up to a multiple of 2, and then it is read again, for
\* a record that has the blend mode of the layer.
WriteGenerated ==
  /\ phase = "writing"
  /\ next = Len(layer.unparsed) + 1
  /\ LET bytes == file \o Generated(layer)
         end   == RoundUp(Len(bytes), 2)
     IN  /\ file' = bytes \o Zeros(end - Len(bytes)) \o Trailer
         /\ maxLength' = end
         /\ toRead' = end
  /\ start' = 0
  /\ at' = 0
  /\ storage' = <<>>
  /\ round' = 2
  /\ phase' = "reading"
  /\ UNCHANGED <<section, linked, layer, next>>

-----------------------------------------------------------------------------
Init ==
  /\ section \in Sections
  /\ \E cut \in Cuts :
       file = SubSeq(section.bytes \o Trailer, 1, Len(section.bytes \o Trailer) - cut)
  /\ maxLength = Len(section.bytes)
  /\ start = 0
  /\ at = 0
  /\ toRead = maxLength
  /\ storage = <<>>
  /\ linked = NoLinked
  /\ layer = DefaultLayer
  /\ next = 1
  /\ round = 1
  /\ phase = "reading"

Read == ReadBlock \/ EndSection
Next == Read \/ PassAlong \/ ParseLayer \/ WriteUnparsed \/ WriteGenerated

\* The loop is one thread that waits for nobody.
Spec == Init /\ [][Next]_vars /\ WF_vars(Read)

-----------------------------------------------------------------------------
(* Properties.                                                              *)

Phases == {"reading", "linked", "read", "failed", "writing"}

\* The types: the offset may be beyond the section, the block that is read
\* starts before it, and what is left counts from that start.
TaggedTypeOK ==
  /\ section \in Sections
  /\ file \in Seq(Byte) /\ storage \in Seq(Block)
  /\ maxLength \in Nat /\ start \in Nat /\ at \in Nat /\ toRead \in Int /\ next \in Nat \ {0}
  /\ linked \in [end : Nat, key : Keys \cup {"none"}, data : Seq(Byte)]
  /\ layer \in [unparsed : Seq(Block), blend : Seq(Byte), locked : Seq(Byte), color : Seq(Byte),
                reference : Seq(Byte), name : Seq(Byte), fill : Seq(Byte)]
  /\ round \in {1, 2} /\ phase \in Phases
  /\ phase \in {"reading", "linked"} => start + toRead = maxLength
  /\ phase = "reading" => at = start
  /\ phase = "linked" => /\ start + 12 <= at /\ start + 12 <= linked.end
                         /\ linked.key \in Keys

\* Of a section whose unreadable blocks can be told apart (readable says which
\* these are, by the way the section was made), all others are stored, in their
\* order and with their own data, and the reader ends where the section does.
OnlyTheUnreadableIsLost ==
  round = 1 /\ phase = "read" => storage = section.readable /\ at = maxLength

\* Every setting of a layer is that of the first block of its kind, or the
\* default of the record: no other block of the file is taken for it.
SettingsFromTheirOwnBlocks ==
  phase = "writing" =>
    \A setting \in {<<"ProtectedSetting", "locked">>, <<"SheetColor", "color">>,
                    <<"ReferencePoint", "reference">>, <<"UnicodeLayerName", "name">>,
                    <<"BlendFill", "fill">>} :
      \/ \E k \in DOMAIN section.readable :
           /\ section.readable[k].type = setting[1]
           /\ section.readable[k].data = layer[setting[2]]
           /\ \A j \in 1..k - 1 : section.readable[j].type # setting[1]
      \/ /\ \A k \in DOMAIN section.readable : section.readable[k].type # setting[1]
         /\ layer[setting[2]] = DefaultLayer[setting[2]]

\* The blocks of a list that nobody parses, and no others, in their order.
AreBaseOf(passed, blocks) ==
  LET base == {k \in DOMAIN blocks : blocks[k].type = "Base"}
  IN  /\ Len(passed) = Cardinality(base)
      /\ \A k \in base : passed[Cardinality({j \in base : j <= k})] = blocks[k]

\* What a layer writes is read as the same layer, the blocks it does not
\* understand included, and the reader ends where the section does.
LayerComesBack ==
  round = 2 /\ phase = "read" =>
    /\ layer = Parsed([DefaultLayer EXCEPT !.unparsed = layer.unparsed, !.blend = layer.blend],
                      storage)
    /\ AreBaseOf(layer.unparsed, storage)
    /\ at = maxLength

\* Layer.h:443: the unparsed blocks are those "that we want to pass through on
\* read/write".  A block passes with the name it had, and not with another one
\* of the same key.
NamesAreKept ==
  round = 2 =>
    \A p \in 0..Len(file) : TaggedBlockKey(TextAt(p)) \in BaseKeys =>
      \E q \in 0..Len(section.bytes) - 4 : SubSeq(section.bytes, q + 1, q + 4) = BytesAt(p, 4)

\* Whatever a reader does, the turn it ends leaves the section with at least 4
\* bytes less to read, and a turn that goes on is further in the file: a reader
\* that jumps backwards never gets before the block it reads.
Advances ==
  phase \in {"reading", "linked"} /\ round' = round /\ phase' \in {"reading", "linked"}
    => (toRead' <= toRead - 4) \/ (toRead' = toRead /\ at' > at)

EveryReadAdvances == [][Advances]_vars

\* The reader comes to an end.  AdditionalLayerInfo.h: "we continuously read and
\* verify that we can read another TaggedBlock with the right signature".
ReadingEnds == phase \in {"reading", "linked"} ~> phase \in {"read", "failed"}
=============================================================================
