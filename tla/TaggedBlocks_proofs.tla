------------------------- MODULE TaggedBlocks_proofs -------------------------
(***************************************************************************)
(* What TLAPS proves of the tagged blocks: whatever bytes a section has, a  *)
(* reader in a file of full length advances with every block, by at least   *)
(* the signature it looks at; whatever a layer holds, what it writes is     *)
(* read back as that layer, with the blocks it passed along; and of a       *)
(* section of another program, whatever stands between them, all the blocks *)
(* that can be read are read, and a layer has its settings from them.       *)
(*                                                                         *)
(* Every reader ends in one of two ways: it throws at one of its stops or   *)
(* it jumps to the end it works out; both are lemmas, so that a step is     *)
(* proved by what its stops and its end are.                                *)
(***************************************************************************)
EXTENDS TaggedBlocks, SequenceTheorems, FiniteSetTheorems, WellFoundedInduction, TLAPS

-----------------------------------------------------------------------------
(* Bytes.                                                                   *)

\* Data, the four bytes of a text and of a number, and zeros are bytes.
LEMMA DataIsByte ==
  ASSUME NEW d \in Texts
  PROVE  Data(d) \in Byte
BY DEF Data, Byte

\* Four characters are bytes.
LEMMA TextIsBytes ==
  ASSUME NEW s \in Texts
  PROVE  Text(s) \in Seq(Byte)
<1>1. \A i \in 1..4 : [txt |-> s, num |-> 0, part |-> i] \in Byte
  BY DEF Byte
<1> QED BY <1>1 DEF Text

\* A number is bytes.
LEMMA NumberIsBytes ==
  ASSUME NEW n \in Nat
  PROVE  Number(n) \in Seq(Byte)
<1>1. \A i \in 1..4 : [txt |-> "number", num |-> n, part |-> i] \in Byte
  BY TaggedBlocksAssumption DEF Byte
<1> QED BY <1>1 DEF Number

\* Zeros are as many bytes as asked for.
LEMMA ZerosAreBytes ==
  ASSUME NEW n \in Nat
  PROVE  Zeros(n) \in Seq(Byte) /\ Len(Zeros(n)) = n
<1>1. Data("zero") \in Byte
  BY DataIsByte, TaggedBlocksAssumption
<1>2. Zeros(n) \in Seq(Byte)
  BY <1>1 DEF Zeros
<1>3. Len(Zeros(n)) = n
  BY <1>2, LenProperties DEF Zeros
<1> QED BY <1>2, <1>3

\* Rounding up does not lessen.
LEMMA RoundUpGrows ==
  ASSUME NEW n \in Nat, NEW padding \in {1, 2, 4}
  PROVE  RoundUp(n, padding) \in Nat /\ RoundUp(n, padding) >= n
<1>1. CASE padding = 1 BY <1>1 DEF RoundUp
<1>2. CASE padding = 2 BY <1>2 DEF RoundUp
<1>3. CASE padding = 4 BY <1>3 DEF RoundUp
<1> QED BY <1>1, <1>2, <1>3

\* The key that a fill is stored with is one of the map.
LEMMA ColorIsKey == "lrSheetColorSetting" \in Keys
<1>1. "lclr" \in DOMAIN TaggedBlockMap /\ TaggedBlockMap["lclr"] = "lrSheetColorSetting"
  BY DEF TaggedBlockMap
<1> QED BY <1>1 DEF Keys

\* What is found at an offset.
LEMMA WordsAt ==
  ASSUME file \in Seq(Byte), NEW p \in Nat
  PROVE  /\ NumberAt(p) \in Nat
         /\ TextAt(p) \in Texts
         /\ LengthAt(p, 4) \in Nat /\ LengthAt(p, 8) \in Nat
<1>1. \A q \in Nat : NumberAt(q) \in Nat /\ TextAt(q) \in Texts
  <2> SUFFICES ASSUME NEW q \in Nat PROVE NumberAt(q) \in Nat /\ TextAt(q) \in Texts
    OBVIOUS
  <2>1. IsWord(q) => file[q + 1] \in Byte
    BY DEF IsWord, InFile
  <2> QED BY <2>1, TaggedBlocksAssumption DEF NumberAt, TextAt, Byte
<1>2. p + 4 \in Nat
  OBVIOUS
<1>3. LengthAt(p, 4) \in Nat
  BY <1>1 DEF LengthAt
<1>4. LengthAt(p, 8) \in Nat
  BY <1>1, <1>2, TaggedBlocksAssumption DEF LengthAt
<1> QED BY <1>1, <1>3, <1>4

\* A part of the file is bytes.
LEMMA PartsOfTheFile ==
  ASSUME file \in Seq(Byte), NEW p \in Nat, NEW n \in Nat, p + n <= Len(file)
  PROVE  BytesAt(p, n) \in Seq(Byte)
BY SubSeqProperties DEF BytesAt

\* A key that is not unknown is one of the map.
LEMMA KeysAreKnown ==
  Key # "Unknown" => Key \in Keys
BY DEF Key, TaggedBlockKey, Keys

-----------------------------------------------------------------------------
(* The two ends of a turn.                                                  *)

\* What a turn that is over leaves: the types, the file, and in a file that has
\* the whole section less to read.
Turned ==
  /\ TaggedTypeOK'
  /\ UNCHANGED document
  /\ maxLength <= Len(file) => toRead' <= toRead - 4

\* Leaving a block for an offset keeps the types, and counts from the start of the block.
LEMMA LeaveTurns ==
  ASSUME TaggedTypeOK, phase \in {"reading", "linked"},
         NEW to \in Nat, NEW blocks \in Seq(Block), Leave(to, blocks)
  PROVE  /\ TaggedTypeOK'
         /\ UNCHANGED document
         /\ toRead' = toRead - (to - start)
<1>1. storage' \in Seq(Block)
  BY ConcatProperties DEF TaggedTypeOK, Leave
<1>2. linked' \in [end : Nat, key : Keys \cup {"none"}, data : Seq(Byte)]
  BY DEF Leave, NoLinked
<1>3. toRead' \in Int /\ start' + toRead' = maxLength'
  BY DEF TaggedTypeOK, Leave, document
<1> QED BY <1>1, <1>2, <1>3 DEF TaggedTypeOK, Leave, document, kept, Phases

\* An exception leaves the block after one of its stops, the first of which is after the signature.
LEMMA ThrowTurns ==
  ASSUME TaggedTypeOK, NEW stops \in SUBSET Nat, \A s \in stops : s >= start + 4,
         (IsReading /\ start + 4 \in stops) \/ phase = "linked",
         Throw(stops)
  PROVE  Turned
<1>1. PICK stop \in stops \cup {at} :
        /\ \A s \in stops : InFile(s) => s <= stop
        /\ Leave(stop, <<>>)
  BY DEF Throw
<1>2. stop \in Nat /\ phase \in {"reading", "linked"} /\ <<>> \in Seq(Block)
  BY DEF TaggedTypeOK, IsReading
<1>3. /\ TaggedTypeOK'
      /\ UNCHANGED document
      /\ toRead' = toRead - (stop - start)
  BY <1>1, <1>2, LeaveTurns
<1>4. ASSUME maxLength <= Len(file)
      PROVE  stop >= start + 4
  <2>1. CASE IsReading /\ start + 4 \in stops
    <3>1. start + 4 <= Len(file)
      BY <1>4, <2>1 DEF TaggedTypeOK, IsReading
    <3> QED BY <1>1, <2>1, <3>1 DEF InFile
  <2>2. CASE phase = "linked"
    BY <1>1, <2>2 DEF TaggedTypeOK
  <2> QED BY <2>1, <2>2
<1>5. start \in Nat /\ toRead \in Int
  BY DEF TaggedTypeOK
<1> QED BY <1>2, <1>3, <1>4, <1>5 DEF Turned

\* A block that is read ends where its reader says, or by an exception.
LEMMA ReadToTurns ==
  ASSUME TaggedTypeOK, NEW stops \in SUBSET Nat, \A s \in stops : s >= start + 4,
         IsReading, start + 4 \in stops,
         NEW end \in Nat, end >= start + 4,
         NEW blocks,
         InFile(end) /\ (\A s \in stops : InFile(s)) => blocks \in Seq(Block),
         ReadTo(stops, end, blocks)
  PROVE  Turned
<1>1. CASE InFile(end) /\ \A s \in stops : InFile(s)
  <2>1. Leave(end, blocks) /\ blocks \in Seq(Block)
    BY <1>1 DEF ReadTo
  <2>2. /\ TaggedTypeOK'
        /\ UNCHANGED document
        /\ toRead' = toRead - (end - start)
    BY <2>1, LeaveTurns DEF IsReading
  <2>3. start \in Nat /\ toRead \in Int
    BY DEF TaggedTypeOK
  <2> QED BY <2>2, <2>3 DEF Turned
<1>2. CASE ~(InFile(end) /\ \A s \in stops : InFile(s))
  BY <1>2, ThrowTurns DEF ReadTo
<1> QED BY <1>1, <1>2

\* What is stored is one block.
LEMMA StoredIsBlock ==
  ASSUME TaggedTypeOK, NEW type \in BlockTypes, NEW key \in Keys, NEW data \in Seq(Byte)
  PROVE  Stored(type, key, data) \in Seq(Block)
<1>1. TextAt(start) \in Texts
  BY WordsAt DEF TaggedTypeOK
<1>2. [type |-> type, key |-> key, signature |-> TextAt(start), data |-> data] \in Block
  BY <1>1 DEF Block
<1> QED BY <1>2 DEF Stored

-----------------------------------------------------------------------------
(* Every reader, by its stops and its end.                                  *)

\* Where the block that is read starts, and its length.
LEMMA Offsets ==
  ASSUME TaggedTypeOK, IsReading
  PROVE  /\ start \in Nat /\ at = start /\ Payload = start + 12
         /\ Header = {start + 4, start + 8, start + 12}
         /\ Length \in Nat
         /\ section.padding \in {1, 4}
         /\ file \in Seq(Byte)
<1>1. section.padding \in {1, 4}
  BY TaggedBlocksAssumption DEF TaggedTypeOK, IsSection
<1>2. start \in Nat /\ at = start /\ file \in Seq(Byte)
  BY DEF TaggedTypeOK, IsReading
<1>3. Length \in Nat
  BY <1>2, WordsAt, start + 8 \in Nat DEF Length
<1> QED BY <1>1, <1>2, <1>3 DEF Payload, Header

\* The header's stops.
LEMMA HeaderStops ==
  ASSUME TaggedTypeOK, IsReading
  PROVE  /\ Header \in SUBSET Nat /\ start + 4 \in Header
         /\ \A s \in Header : s >= start + 4
BY Offsets

\* Without a signature the turn ends by an exception after 4 bytes.
LEMMA BadSignatureTurns == TaggedTypeOK /\ BadSignature => Turned
<1> SUFFICES ASSUME TaggedTypeOK, BadSignature PROVE Turned
  OBVIOUS
<1>1. IsReading /\ Throw({start + 4}) /\ start \in Nat
  BY Offsets DEF BadSignature
<1> QED BY <1>1, ThrowTurns

\* A block without a known key ends the turn by an exception.
LEMMA SkipUnknownTurns == TaggedTypeOK /\ SkipUnknown => Turned
<1> SUFFICES ASSUME TaggedTypeOK, SkipUnknown PROVE Turned
  OBVIOUS
<1> DEFINE stops == Header \cup {Payload + RoundUp(Length, section.padding)}
<1>1. IsReading /\ Throw(stops)
  BY DEF SkipUnknown
<1>2. RoundUp(Length, section.padding) \in Nat
  BY <1>1, Offsets, RoundUpGrows
<1>3. /\ stops \in SUBSET Nat /\ start + 4 \in stops
      /\ \A s \in stops : s >= start + 4
  BY <1>1, <1>2, Offsets
<1> HIDE DEF stops
<1> QED BY <1>1, <1>3, ThrowTurns

\* A block that is taken as it is ends where its length says.
LEMMA ReadBaseTurns == TaggedTypeOK /\ ReadBase => Turned
<1> SUFFICES ASSUME TaggedTypeOK, ReadBase PROVE Turned
  OBVIOUS
<1> DEFINE marker == IF IsTaggedBlockSizeUint64(Key) /\ section.wide THEN 8 ELSE 4
           body   == start + 8 + marker
           length == RoundUp(LengthAt(start + 8, marker), section.padding)
           type   == IF Key = "lrTypeTool" THEN "TypeTool" ELSE "Base"
           stops  == {start + 4, start + 8, body, body + length}
           blocks == Stored(type, Key, BytesAt(body, length))
<1>1. IsReading /\ Key \in BaseKeys /\ ReadTo(stops, body + length, blocks)
  BY DEF ReadBase
<1>2. start \in Nat /\ body \in Nat /\ body >= start + 12
  BY <1>1, Offsets
<1>3. length \in Nat
  <2>1. LengthAt(start + 8, 4) \in Nat /\ LengthAt(start + 8, 8) \in Nat
    BY <1>1, <1>2, Offsets, WordsAt
  <2> QED BY <1>1, <2>1, Offsets, RoundUpGrows
<1>4. Key \in Keys
  BY <1>1, KeysAreKnown DEF BaseKeys
<1>5. ASSUME InFile(body + length) PROVE blocks \in Seq(Block)
  <2>1. BytesAt(body, length) \in Seq(Byte)
    BY <1>1, <1>2, <1>3, <1>5, Offsets, PartsOfTheFile DEF InFile
  <2> HIDE DEF body, length
  <2> QED BY <1>4, <2>1, StoredIsBlock DEF BlockTypes
<1>6. /\ stops \in SUBSET Nat /\ start + 4 \in stops
      /\ \A s \in stops : s >= start + 4
      /\ body + length \in Nat /\ body + length >= start + 4
  BY <1>2, <1>3
<1> HIDE DEF stops, body, length, blocks
<1> QED BY <1>1, <1>5, <1>6, ReadToTurns

\* A divider ends after its type, its blend mode or its sub-type.
LEMMA ReadDividerTurns == TaggedTypeOK /\ ReadDivider => Turned
<1> SUFFICES ASSUME TaggedTypeOK, ReadDivider PROVE Turned
  OBVIOUS
<1> DEFINE blend   == IF DividerHasBlendMode THEN {Payload + 8, Payload + 12} ELSE {}
           subtype == IF RoundUp(Length, section.padding) >= 16 THEN {Payload + 16} ELSE {}
           end     == Payload + (IF subtype # {} THEN 16 ELSE IF blend # {} THEN 12 ELSE 4)
           stops   == Header \cup {Payload + 4} \cup blend \cup subtype
           mode    == IF DividerHasBlendMode /\ TextAt(Payload + 8) \in BlendModes
                      THEN BytesAt(Payload + 8, 4) ELSE <<>>
           blocks  == Stored("LrSection", Key, mode)
<1>1. IsReading /\ Key = "lrSectionDivider" /\ ReadTo(stops, end, blocks)
  BY DEF ReadDivider
<1>2. Key \in Keys
  BY <1>1, KeysAreKnown
<1>3. ASSUME \A s \in stops : InFile(s) PROVE blocks \in Seq(Block)
  <2>1. DividerHasBlendMode => BytesAt(Payload + 8, 4) \in Seq(Byte)
    <3> SUFFICES ASSUME DividerHasBlendMode PROVE BytesAt(Payload + 8, 4) \in Seq(Byte)
      OBVIOUS
    <3>1. (Payload + 8) + 4 <= Len(file)
      BY <1>1, <1>3, Offsets DEF InFile
    <3> QED BY <1>1, <3>1, Offsets, PartsOfTheFile
  <2>2. mode \in Seq(Byte)
    BY <2>1
  <2> HIDE DEF mode
  <2> QED BY <1>2, <2>2, StoredIsBlock DEF BlockTypes
<1>4. /\ stops \in SUBSET Nat /\ start + 4 \in stops
      /\ \A s \in stops : s >= start + 4
      /\ end \in Nat /\ end >= start + 4
  <2>1. start \in Nat /\ Payload = start + 12
    BY <1>1, Offsets
  <2>2. end \in {Payload + 4, Payload + 12, Payload + 16}
    OBVIOUS
  <2>3. {Payload + 4} \cup blend \cup subtype
          \subseteq {Payload + 4, Payload + 8, Payload + 12, Payload + 16}
    OBVIOUS
  <2> HIDE DEF end, blend, subtype
  <2>4. stops \subseteq Header \cup {Payload + 4, Payload + 8, Payload + 12, Payload + 16}
    BY <2>3
  <2> QED BY <1>1, <2>1, <2>2, <2>4, HeaderStops
<1> HIDE DEF stops, end, blocks
<1> QED BY <1>1, <1>3, <1>4, ReadToTurns

\* A divider that is refused ends after what was read of it.
LEMMA RefuseDividerTurns == TaggedTypeOK /\ RefuseDivider => Turned
<1> SUFFICES ASSUME TaggedTypeOK, RefuseDivider PROVE Turned
  OBVIOUS
<1>1. IsReading /\ start \in Nat /\ Payload = start + 12
      /\ Header = {start + 4, start + 8, start + 12}
  BY Offsets DEF RefuseDivider
<1>2. CASE Throw(Header \cup {Payload + 4})
  BY <1>1, <1>2, ThrowTurns
<1>3. CASE Throw(Header \cup {Payload + 4, Payload + 8})
  BY <1>1, <1>3, ThrowTurns
<1> QED BY <1>2, <1>3 DEF RefuseDivider

\* A setting of a fixed length ends after it.
LEMMA ReadFixedTurns == TaggedTypeOK /\ ReadFixed => Turned
<1> SUFFICES ASSUME TaggedTypeOK, ReadFixed PROVE Turned
  OBVIOUS
<1> DEFINE layout == FixedLayout[Key]
           stops  == {Payload + layout.field, Payload + layout.length}
                       \cup (IF layout.field = 16 THEN {Payload + 8} ELSE {})
           blocks == Stored(layout.type, layout.stored, BytesAt(Payload, layout.field))
<1>1. /\ IsReading /\ Key \in DOMAIN FixedLayout
      /\ ReadTo(Header \cup stops, Payload + layout.length, blocks)
  BY DEF ReadFixed
<1>2. /\ layout.type \in BlockTypes
      /\ layout.field \in Nat /\ layout.length \in Nat
      /\ layout.stored \in {Key, "lrSheetColorSetting"}
      /\ Key # "Unknown"
  BY <1>1 DEF FixedLayout, BlockTypes
<1>3. layout.stored \in Keys
  BY <1>2, KeysAreKnown, ColorIsKey
<1> HIDE DEF layout
<1>4. ASSUME \A s \in stops : InFile(s) PROVE blocks \in Seq(Block)
  <2>1. Payload + layout.field <= Len(file)
    BY <1>4 DEF InFile
  <2>2. BytesAt(Payload, layout.field) \in Seq(Byte)
    BY <1>1, <1>2, <2>1, Offsets, PartsOfTheFile
  <2> QED BY <1>2, <1>3, <2>2, StoredIsBlock
<1>5. /\ Header \cup stops \in SUBSET Nat /\ start + 4 \in Header \cup stops
      /\ \A s \in Header \cup stops : s >= start + 4
      /\ Payload + layout.length \in Nat /\ Payload + layout.length >= start + 4
  <2>1. Payload \in Nat /\ Payload = start + 12 /\ start \in Nat
    BY <1>1, Offsets
  <2>2. /\ Payload + layout.field \in Nat /\ Payload + layout.field >= start + 4
        /\ Payload + layout.length \in Nat /\ Payload + layout.length >= start + 4
        /\ Payload + 8 \in Nat /\ Payload + 8 >= start + 4
    BY <1>2, <2>1
  <2>3. stops \subseteq {Payload + layout.field, Payload + layout.length, Payload + 8}
    OBVIOUS
  <2> HIDE DEF stops
  <2> QED BY <1>1, <2>2, <2>3, HeaderStops
<1> HIDE DEF stops, blocks
<1> QED BY <1>1, <1>4, <1>5, ReadToTurns

\* A setting of another length ends after its header.
LEMMA RefuseFixedTurns == TaggedTypeOK /\ RefuseFixed => Turned
<1> SUFFICES ASSUME TaggedTypeOK, RefuseFixed PROVE Turned
  OBVIOUS
<1>1. IsReading /\ Throw(Header)
  BY DEF RefuseFixed
<1> QED BY <1>1, Offsets, ThrowTurns

\* A jump over a protection of another length, even of none, is forward.
LEMMA SkipProtectedTurns == TaggedTypeOK /\ SkipProtected => Turned
<1> SUFFICES ASSUME TaggedTypeOK, SkipProtected PROVE Turned
  OBVIOUS
<1> DEFINE blocks == Stored("ProtectedSetting", Key, <<Data("zero")>>)
<1>1. /\ IsReading /\ Key = "lrProtectedSetting"
      /\ ReadTo(Header, start + 4 + Length, blocks)
  BY DEF SkipProtected
<1>2. blocks \in Seq(Block)
  <2>1. Data("zero") \in Byte
    BY DataIsByte, TaggedBlocksAssumption
  <2>2. <<Data("zero")>> \in Seq(Byte)
    BY <2>1
  <2> QED BY <1>1, <2>2, KeysAreKnown, StoredIsBlock DEF BlockTypes
<1>3. start + 4 + Length \in Nat /\ start + 4 + Length >= start + 4
  BY <1>1, Offsets
<1> HIDE DEF blocks
<1> QED BY <1>1, <1>2, <1>3, HeaderStops, ReadToTurns

\* A name has bytes, and so has what is left of it without its nulls.
LEMMA NamesAreBytes ==
  ASSUME NEW text \in Seq(Byte)
  PROVE  Unterminated(text) \in Seq(Byte)
<1>1. CASE Len(text) >= 2
  <2>1. SubSeq(text, 1, Len(text) - 2) \in Seq(Byte)
    BY <1>1, SubSeqProperties
  <2> QED BY <2>1 DEF Unterminated
<1>2. CASE ~(Len(text) >= 2)
  BY <1>2 DEF Unterminated
<1> QED BY <1>1, <1>2

\* Where a name starts, and its length.
LEMMA NameOffsets ==
  ASSUME TaggedTypeOK, IsReading
  PROVE  /\ start \in Nat /\ Payload = start + 12
         /\ NameLength \in Nat
         /\ RoundUp(4 + NameLength, 4) \in Nat
<1>1. start \in Nat /\ Payload = start + 12 /\ file \in Seq(Byte)
  BY Offsets
<1>2. Payload \in Nat
  BY <1>1
<1>3. NumberAt(Payload) \in Nat
  BY <1>1, <1>2, WordsAt
<1>4. NameLength \in Nat
  BY <1>3 DEF NameLength
<1>5. 4 + NameLength \in Nat
  BY <1>4
<1> QED BY <1>1, <1>4, <1>5, RoundUpGrows

\* A name ends where the length of the block says.
LEMMA ReadNameTurns == TaggedTypeOK /\ ReadName => Turned
<1> SUFFICES ASSUME TaggedTypeOK, ReadName PROVE Turned
  OBVIOUS
<1> DEFINE stops  == NameStops \cup {Payload + RoundUp(4 + NameLength, 4)}
           end    == Payload + RoundUp(Length, section.padding)
           text   == Unterminated(BytesAt(Payload + 4, NameLength))
           blocks == Stored("UnicodeLayerName", Key, text)
<1>1. /\ IsReading /\ Key = "lrUnicodeName"
      /\ ReadTo(stops, end, blocks)
  BY DEF ReadName
<1>2. start \in Nat /\ Payload \in Nat /\ Payload = start + 12 /\ NameLength \in Nat
  BY <1>1, NameOffsets
<1>3. ASSUME \A s \in stops : InFile(s) PROVE blocks \in Seq(Block)
  <2>1. (Payload + 4) + NameLength <= Len(file)
    BY <1>3 DEF NameStops, InFile
  <2>2. BytesAt(Payload + 4, NameLength) \in Seq(Byte)
    BY <1>1, <1>2, <2>1, Offsets, PartsOfTheFile
  <2>3. text \in Seq(Byte)
    BY <2>2, NamesAreBytes
  <2> HIDE DEF text
  <2> QED BY <1>1, <2>3, KeysAreKnown, StoredIsBlock DEF BlockTypes
<1>4. /\ stops \in SUBSET Nat /\ start + 4 \in stops
      /\ \A s \in stops : s >= start + 4
      /\ end \in Nat /\ end >= start + 4
  <2>1. /\ RoundUp(4 + NameLength, 4) \in Nat
        /\ RoundUp(Length, section.padding) \in Nat
    BY <1>1, NameOffsets, Offsets, RoundUpGrows
  <2> QED BY <1>1, <1>2, <2>1, HeaderStops DEF NameStops
<1> HIDE DEF stops, end, blocks
<1> QED BY <1>1, <1>3, <1>4, ReadToTurns

\* A name that is refused ends after its characters.
LEMMA RefuseNameTurns == TaggedTypeOK /\ RefuseName => Turned
<1> SUFFICES ASSUME TaggedTypeOK, RefuseName PROVE Turned
  OBVIOUS
<1>1. IsReading /\ Throw(NameStops)
  BY DEF RefuseName
<1>2. start \in Nat /\ Payload \in Nat /\ Payload = start + 12 /\ NameLength \in Nat
  BY <1>1, NameOffsets
<1>3. /\ NameStops \in SUBSET Nat /\ start + 4 \in NameStops
      /\ \A s \in NameStops : s >= start + 4
  BY <1>1, <1>2, HeaderStops DEF NameStops
<1> QED BY <1>1, <1>3, ThrowTurns

\* A placed layer ends where its length says.
LEMMA ReadPlacedTurns == TaggedTypeOK /\ ReadPlaced => Turned
<1> SUFFICES ASSUME TaggedTypeOK, ReadPlaced PROVE Turned
  OBVIOUS
<1> DEFINE type   == IF Key = "lrPlaced" THEN "PlacedLayer" ELSE "PlacedLayerData"
           stops  == Header \cup {Payload + 4, Payload + Length}
           blocks == Stored(type, Key, BytesAt(Payload, Length))
<1>1. /\ IsReading /\ Key \in {"lrPlaced", "lrPlacedData"}
      /\ ReadTo(stops, Payload + Length, blocks)
  BY DEF ReadPlaced, Identifier
<1>2. start \in Nat /\ Payload \in Nat /\ Payload = start + 12 /\ Length \in Nat
  BY <1>1, Offsets
<1>3. ASSUME \A s \in stops : InFile(s) PROVE blocks \in Seq(Block)
  <2>1. Payload + Length <= Len(file)
    BY <1>3 DEF InFile
  <2>2. BytesAt(Payload, Length) \in Seq(Byte)
    BY <1>1, <1>2, <2>1, Offsets, PartsOfTheFile
  <2>3. type \in BlockTypes /\ Key \in Keys
    BY <1>1, KeysAreKnown DEF BlockTypes
  <2> HIDE DEF type
  <2> QED BY <2>2, <2>3, StoredIsBlock
<1>4. /\ stops \in SUBSET Nat /\ start + 4 \in stops
      /\ \A s \in stops : s >= start + 4
      /\ Payload + Length \in Nat /\ Payload + Length >= start + 4
  BY <1>1, <1>2, HeaderStops
<1> HIDE DEF stops, blocks
<1> QED BY <1>1, <1>3, <1>4, ReadToTurns

\* A placed layer without its identifier ends after it.
LEMMA RefusePlacedTurns == TaggedTypeOK /\ RefusePlaced => Turned
<1> SUFFICES ASSUME TaggedTypeOK, RefusePlaced PROVE Turned
  OBVIOUS
<1>1. IsReading /\ Throw(Header \cup {Payload + 4})
  BY DEF RefusePlaced
<1>2. start \in Nat /\ Payload + 4 = start + 16
  BY <1>1, Offsets
<1> QED BY <1>1, <1>2, HeaderStops, ThrowTurns

-----------------------------------------------------------------------------
(* The linked layers.                                                       *)

\* A turn that goes on with the next of the linked layers.
WentOn ==
  /\ TaggedTypeOK'
  /\ UNCHANGED document
  /\ toRead' = toRead /\ at' > at
  /\ phase' = "linked"

\* The block of the linked layers is begun, or its length is beyond the file.
LEMMA BeginLinkedTurns == TaggedTypeOK /\ BeginLinked => Turned \/ WentOn
<1> SUFFICES ASSUME TaggedTypeOK, BeginLinked PROVE Turned \/ WentOn
  OBVIOUS
<1> DEFINE marker == IF Key = "lrLinked_8Byte" /\ section.wide THEN 8 ELSE 4
           body   == start + 8 + marker
           end    == body + RoundUp(LengthAt(start + 8, marker), 4)
<1>1. /\ IsReading /\ Key \in {"lrLinked", "lrLinked_8Byte"}
      /\ start \in Nat /\ at = start /\ body \in Nat /\ body >= start + 12
  BY Offsets DEF BeginLinked
<1>2. CASE InFile(body)
  <2>1. /\ at' = body
        /\ linked' = [end |-> end, key |-> Key, data |-> <<>>]
        /\ phase' = "linked"
        /\ UNCHANGED <<document, start, toRead, storage, kept>>
    BY <1>2 DEF BeginLinked
  <2>2. end \in Nat /\ end >= body
    <3>1. LengthAt(start + 8, 4) \in Nat /\ LengthAt(start + 8, 8) \in Nat
      <4>1. start + 8 \in Nat /\ file \in Seq(Byte)
        BY <1>1, Offsets
      <4> QED BY <4>1, WordsAt
    <3>2. LengthAt(start + 8, marker) \in Nat
      BY <3>1
    <3>3. RoundUp(LengthAt(start + 8, marker), 4) \in Nat
      BY <3>2, RoundUpGrows
    <3> HIDE DEF body
    <3> QED BY <1>1, <3>3
  <2>3. Key \in Keys
    BY <1>1, KeysAreKnown
  <2> HIDE DEF body, end
  <2>4. linked' \in [end : Nat, key : Keys \cup {"none"}, data : Seq(Byte)]
    BY <2>1, <2>2, <2>3
  <2>5. TaggedTypeOK'
    <3>1. /\ start + 12 <= at' /\ start + 12 <= linked'.end /\ linked'.key \in Keys
          /\ at' \in Nat /\ start + toRead = maxLength
      BY <1>1, <2>1, <2>2, <2>3 DEF TaggedTypeOK, IsReading
    <3>2. UNCHANGED <<document, start, toRead, storage, kept>> /\ phase' = "linked"
      BY <2>1
    <3> QED BY <2>4, <3>1, <3>2 DEF TaggedTypeOK, document, kept, Phases
  <2> QED BY <1>1, <2>1, <2>5 DEF WentOn
<1>3. CASE ~InFile(body)
  <2>1. Throw({start + 4, start + 8})
    BY <1>3 DEF BeginLinked
  <2> HIDE DEF body
  <2> QED BY <1>1, <2>1, ThrowTurns
<1> QED BY <1>2, <1>3

\* Where the linked layers are read.
LEMMA LinkedOffsets ==
  ASSUME TaggedTypeOK, phase = "linked"
  PROVE  /\ start \in Nat /\ at \in Nat /\ start + 12 <= at
         /\ linked.end \in Nat /\ start + 12 <= linked.end
         /\ linked.key \in Keys /\ linked.data \in Seq(Byte)
         /\ ItemSize \in Nat
<1>1. file \in Seq(Byte) /\ at \in Nat
  BY DEF TaggedTypeOK
<1>2. LengthAt(at, 8) \in Nat
  BY <1>1, WordsAt
<1>3. ItemSize \in Nat
  BY <1>2, RoundUpGrows DEF ItemSize
<1> QED BY <1>3 DEF TaggedTypeOK

\* A linked layer is read, or is beyond the file.
LEMMA ReadItemTurns == TaggedTypeOK /\ ReadItem => Turned \/ WentOn
<1> SUFFICES ASSUME TaggedTypeOK, ReadItem PROVE Turned \/ WentOn
  OBVIOUS
<1>1. /\ phase = "linked"
      /\ start \in Nat /\ at \in Nat /\ start + 12 <= at /\ ItemSize \in Nat
      /\ linked.data \in Seq(Byte)
  BY LinkedOffsets DEF ReadItem, HasItem
<1>2. CASE InFile(at + 16) /\ InFile(at + 8 + ItemSize)
  <2>1. /\ at' = at + 8 + ItemSize
        /\ linked' = [linked EXCEPT !.data = @ \o BytesAt(at + 8, ItemSize)]
        /\ UNCHANGED <<document, start, toRead, storage, kept, phase>>
    BY <1>2 DEF ReadItem
  <2>2. BytesAt(at + 8, ItemSize) \in Seq(Byte)
    <3>1. at + 8 \in Nat /\ (at + 8) + ItemSize <= Len(file) /\ file \in Seq(Byte)
      BY <1>1, <1>2 DEF InFile, TaggedTypeOK
    <3> QED BY <1>1, <3>1, PartsOfTheFile
  <2>3. linked.data \o BytesAt(at + 8, ItemSize) \in Seq(Byte)
    BY <1>1, <2>2, ConcatProperties
  <2>4. /\ linked' \in [end : Nat, key : Keys \cup {"none"}, data : Seq(Byte)]
        /\ linked'.end = linked.end /\ linked'.key = linked.key
    BY <2>1, <2>3 DEF TaggedTypeOK
  <2>5. at' \in Nat /\ at' > at
    BY <1>1, <2>1
  <2>6. TaggedTypeOK'
    <3>1. start + 12 <= at' /\ start + 12 <= linked'.end /\ linked'.key \in Keys
      BY <1>1, <2>4, <2>5, LinkedOffsets
    <3>2. UNCHANGED <<document, start, toRead, storage, kept, phase>>
      BY <2>1
    <3> QED BY <1>1, <2>4, <2>5, <3>1, <3>2 DEF TaggedTypeOK, document, kept
  <2> QED BY <1>1, <2>1, <2>5, <2>6 DEF WentOn
<1>3. CASE ~(InFile(at + 16) /\ InFile(at + 8 + ItemSize))
  <2>1. Throw({at + 8, at + 12, at + 16})
    BY <1>3 DEF ReadItem
  <2> QED BY <1>1, <2>1, ThrowTurns
<1> QED BY <1>2, <1>3

\* A linked layer that is refused ends the block.
LEMMA RefuseItemTurns == TaggedTypeOK /\ RefuseItem => Turned
<1> SUFFICES ASSUME TaggedTypeOK, RefuseItem PROVE Turned
  OBVIOUS
<1> DEFINE more  == IF TextAt(at + 8) \in {"liFD", "liFE", "liFA"} THEN {at + 16} ELSE {}
           stops == {at + 8, at + 12} \cup more
<1>1. phase = "linked" /\ Throw(stops)
  BY DEF RefuseItem, HasItem
<1>2. start \in Nat /\ at \in Nat /\ start + 12 <= at
  BY <1>1, LinkedOffsets
<1>3. stops \in SUBSET Nat /\ \A s \in stops : s >= start + 4
  <2>1. stops \subseteq {at + 8, at + 12, at + 16}
    OBVIOUS
  <2> HIDE DEF stops
  <2> QED BY <1>2, <2>1
<1> HIDE DEF stops
<1> QED BY <1>1, <1>3, ThrowTurns

\* The block of the linked layers ends where its length says.
LEMMA EndLinkedTurns == TaggedTypeOK /\ EndLinked => Turned
<1> SUFFICES ASSUME TaggedTypeOK, EndLinked PROVE Turned
  OBVIOUS
<1> DEFINE blocks == Stored("LinkedLayer", linked.key, linked.data)
<1>1. /\ phase = "linked"
      /\ start \in Nat /\ at \in Nat /\ start + 12 <= at
      /\ linked.end \in Nat /\ start + 12 <= linked.end
      /\ linked.key \in Keys /\ linked.data \in Seq(Byte)
  BY LinkedOffsets DEF EndLinked
<1>2. CASE InFile(linked.end)
  <2>1. Leave(linked.end, blocks)
    BY <1>2 DEF EndLinked
  <2>2. blocks \in Seq(Block)
    BY <1>1, StoredIsBlock DEF BlockTypes
  <2> HIDE DEF blocks
  <2>3. /\ TaggedTypeOK' /\ UNCHANGED document
        /\ toRead' = toRead - (linked.end - start)
    BY <1>1, <2>1, <2>2, LeaveTurns
  <2>4. toRead \in Int
    BY DEF TaggedTypeOK
  <2> QED BY <1>1, <2>3, <2>4 DEF Turned
<1>3. CASE ~InFile(linked.end)
  <2>1. Throw({at})
    BY <1>3 DEF EndLinked
  <2> QED BY <1>1, <2>1, ThrowTurns
<1> QED BY <1>2, <1>3

-----------------------------------------------------------------------------
(* The layer.                                                               *)

\* A setting is the data of a block, or the default.
LEMMA ViewIsBytes ==
  ASSUME NEW blocks \in Seq(Block), NEW type, NEW keys, NEW default \in Seq(Byte)
  PROVE  View(blocks, type, keys, default) \in Seq(Byte)
<1> DEFINE hits  == {k \in DOMAIN blocks : blocks[k].type = type /\ blocks[k].key \in keys}
           first == {k \in hits : \A j \in hits : k <= j}
<1>1. CASE first = {}
  BY <1>1 DEF View
<1>2. CASE first # {}
  <2>1. (CHOOSE k \in first : TRUE) \in first
    BY <1>2
  <2>2. (CHOOSE k \in first : TRUE) \in DOMAIN blocks
    BY <2>1
  <2>3. \A k \in DOMAIN blocks : blocks[k] \in Block
    OBVIOUS
  <2>4. blocks[CHOOSE k \in first : TRUE].data \in Seq(Byte)
    BY <2>2, <2>3 DEF Block
  <2> QED BY <1>2, <2>4 DEF View
<1> QED BY <1>1, <1>2

\* The settings of a layer.
Settings ==
  [unparsed : Seq(Block), blend : Seq(Byte), locked : Seq(Byte), color : Seq(Byte),
   reference : Seq(Byte), name : Seq(Byte), fill : Seq(Byte)]

\* The settings a record has by default are settings.
LEMMA DefaultsAreSettings == DefaultLayer \in Settings
<1>1. /\ Data("record's") \in Byte /\ Data("zero") \in Byte
      /\ Data("pascal") \in Byte
  BY DataIsByte, TaggedBlocksAssumption
<1> QED BY <1>1 DEF DefaultLayer, Settings

\* So are those that are taken from blocks.
LEMMA ParsedAreSettings ==
  ASSUME NEW record \in Settings, NEW blocks \in Seq(Block)
  PROVE  Parsed(record, blocks) \in Settings
<1> DEFINE blend == View(blocks, "LrSection", {"lrSectionDivider"}, <<>>)
<1>1. /\ record.unparsed \in Seq(Block)
      /\ record.blend \in Seq(Byte) /\ record.locked \in Seq(Byte)
      /\ record.color \in Seq(Byte) /\ record.reference \in Seq(Byte)
      /\ record.name \in Seq(Byte) /\ record.fill \in Seq(Byte)
  BY DEF Settings
<1>2. <<>> \in Seq(Byte)
  OBVIOUS
<1>3. blend \in Seq(Byte)
  BY <1>2, ViewIsBytes
<1>4. /\ View(blocks, "ProtectedSetting", {"lrProtectedSetting"}, record.locked) \in Seq(Byte)
      /\ View(blocks, "SheetColor", {"lrSheetColorSetting"}, record.color) \in Seq(Byte)
      /\ View(blocks, "ReferencePoint", Keys, record.reference) \in Seq(Byte)
      /\ View(blocks, "UnicodeLayerName", Keys, record.name) \in Seq(Byte)
      /\ View(blocks, "BlendFill", Keys, record.fill) \in Seq(Byte)
  BY <1>1, ViewIsBytes
<1>5. (IF blend = <<>> THEN record.blend ELSE blend) \in Seq(Byte)
  BY <1>1, <1>3
<1> QED BY <1>1, <1>4, <1>5 DEF Parsed, Settings

\* A written block is bytes.
LEMMA WrittenIsBytes ==
  ASSUME NEW signature \in Texts, NEW name \in Texts, NEW wide, NEW data \in Seq(Byte)
  PROVE  Written(signature, name, wide, data) \in Seq(Byte)
<1> DEFINE length == IF wide THEN Number(0) \o Number(Len(data)) ELSE Number(Len(data))
<1>1. Len(data) \in Nat
  OBVIOUS
<1>2. Number(0) \in Seq(Byte) /\ Number(Len(data)) \in Seq(Byte)
  BY <1>1, NumberIsBytes
<1>3. length \in Seq(Byte)
  BY <1>2, ConcatProperties
<1>4. Text(signature) \in Seq(Byte) /\ Text(name) \in Seq(Byte)
  BY TextIsBytes
<1> HIDE DEF length
<1>5. Text(signature) \o Text(name) \in Seq(Byte)
  BY <1>4, ConcatProperties
<1>6. Text(signature) \o Text(name) \o length \in Seq(Byte)
  BY <1>3, <1>5, ConcatProperties
<1>7. Text(signature) \o Text(name) \o length \o data \in Seq(Byte)
  BY <1>6, ConcatProperties
<1> QED BY <1>7 DEF Written, length

\* A written name is bytes: it is not filled up to less than it is.
LEMMA NameWrittenIsBytes ==
  ASSUME NEW name \in Seq(Byte)
  PROVE  NameWritten(name) \in Seq(Byte)
<1> DEFINE text == name \o Null
           rest == RoundUp(4 + Len(text), 4) - 4 - Len(text)
           fill == IF name = <<>> THEN 0 ELSE rest
<1>1. Null \in Seq(Byte)
  BY DataIsByte, TaggedBlocksAssumption DEF Null
<1>2. text \in Seq(Byte)
  BY <1>1, ConcatProperties
<1> HIDE DEF text
<1>3. Len(text) \in Nat
  BY <1>2
<1>4. 4 + Len(text) \in Nat /\ Len(text) \div 2 \in Nat
  BY <1>3
<1>5. RoundUp(4 + Len(text), 4) \in Nat /\ RoundUp(4 + Len(text), 4) >= 4 + Len(text)
  BY <1>4, RoundUpGrows
<1>6. fill \in Nat
  <2>1. rest \in Nat
    BY <1>3, <1>5
  <2> HIDE DEF rest
  <2> QED BY <2>1
<1> HIDE DEF rest, fill
<1>7. Number(Len(text) \div 2) \in Seq(Byte) /\ Zeros(fill) \in Seq(Byte)
  BY <1>4, <1>6, NumberIsBytes, ZerosAreBytes
<1>8. Number(Len(text) \div 2) \o text \in Seq(Byte)
  BY <1>2, <1>7, ConcatProperties
<1>9. Number(Len(text) \div 2) \o text \o Zeros(fill) \in Seq(Byte)
  BY <1>7, <1>8, ConcatProperties
<1> QED BY <1>9 DEF NameWritten, text, fill, rest

\* The blocks that are made of the settings are bytes.
LEMMA GeneratedIsBytes ==
  ASSUME NEW l \in Settings
  PROVE  Generated(l) \in Seq(Byte)
<1>1. {"8BIM", "fxrp", "luni", "lspf", "lclr", "iOpa"} \subseteq Texts
  BY TaggedBlocksAssumption DEF TaggedBlockMap
<1>2. /\ l.locked \in Seq(Byte) /\ l.color \in Seq(Byte) /\ l.fill \in Seq(Byte)
      /\ l.reference \in Seq(Byte) /\ l.name \in Seq(Byte)
  BY DEF Settings
<1>3. Zeros(3) \in Seq(Byte) /\ Zeros(6) \in Seq(Byte)
  BY ZerosAreBytes
<1>4. /\ l.locked \o Zeros(3) \in Seq(Byte)
      /\ l.color \o Zeros(6) \in Seq(Byte)
      /\ l.fill \o Zeros(3) \in Seq(Byte)
  BY <1>2, <1>3, ConcatProperties
<1> DEFINE reference == IF l.reference = <<>> THEN <<>>
                        ELSE Written("8BIM", "fxrp", FALSE, l.reference)
           name      == Written("8BIM", "luni", FALSE, NameWritten(l.name))
           locked    == Written("8BIM", "lspf", FALSE, l.locked \o Zeros(3))
           color     == Written("8BIM", "lclr", FALSE, l.color \o Zeros(6))
           fill      == Written("8BIM", "iOpa", FALSE, l.fill \o Zeros(3))
<1>5. reference \in Seq(Byte)
  BY <1>1, <1>2, WrittenIsBytes
<1>6. name \in Seq(Byte)
  BY <1>1, <1>2, NameWrittenIsBytes, WrittenIsBytes
<1>7. locked \in Seq(Byte) /\ color \in Seq(Byte) /\ fill \in Seq(Byte)
  BY <1>1, <1>4, WrittenIsBytes
<1>8. Generated(l) = reference \o name \o locked \o color \o fill
  BY DEF Generated
<1> HIDE DEF reference, name, locked, color, fill
<1>9. reference \o name \in Seq(Byte)
  BY <1>5, <1>6, ConcatProperties
<1>10. reference \o name \o locked \in Seq(Byte)
  BY <1>7, <1>9, ConcatProperties
<1>11. reference \o name \o locked \o color \in Seq(Byte)
  BY <1>7, <1>10, ConcatProperties
<1>12. reference \o name \o locked \o color \o fill \in Seq(Byte)
  BY <1>7, <1>11, ConcatProperties
<1> QED BY <1>8, <1>12

\* The end of the section reads no block.
LEMMA EndSectionTyped ==
  TaggedTypeOK /\ EndSection
    => TaggedTypeOK' /\ UNCHANGED document /\ phase' \in {"read", "failed"}
<1> SUFFICES ASSUME TaggedTypeOK, EndSection
             PROVE  TaggedTypeOK' /\ UNCHANGED document /\ phase' \in {"read", "failed"}
  OBVIOUS
<1>1. phase' \in {"read", "failed"} /\ UNCHANGED <<document, start, toRead, storage, linked, kept>>
  BY DEF EndSection
<1>2. at' \in Nat
  BY DEF EndSection, TaggedTypeOK
<1> QED BY <1>1, <1>2 DEF TaggedTypeOK, document, kept, Phases

\* An unparsed block is passed along.
LEMMA PassAlongTyped ==
  TaggedTypeOK /\ PassAlong => TaggedTypeOK' /\ UNCHANGED document /\ phase' = "read"
<1> SUFFICES ASSUME TaggedTypeOK, PassAlong
             PROVE  TaggedTypeOK' /\ UNCHANGED document /\ phase' = "read"
  OBVIOUS
<1> DEFINE unparsed == IF storage[next].type = "Base"
                       THEN Append(layer.unparsed, storage[next]) ELSE layer.unparsed
<1>1. /\ phase = "read" /\ next \in DOMAIN storage
      /\ layer' = [layer EXCEPT !.unparsed = unparsed]
      /\ next' = next + 1
      /\ UNCHANGED <<document, start, at, toRead, storage, linked, phase>>
  BY DEF PassAlong
<1>2. storage[next] \in Block /\ layer.unparsed \in Seq(Block)
  <2>1. storage \in Seq(Block) /\ layer \in Settings
    BY DEF TaggedTypeOK, Settings
  <2>2. storage[next] \in Block
    BY <1>1, <2>1
  <2> QED BY <2>1, <2>2 DEF Settings
<1>3. unparsed \in Seq(Block)
  BY <1>2, AppendProperties
<1> HIDE DEF unparsed
<1>4. layer' \in Settings
  BY <1>1, <1>3 DEF TaggedTypeOK, Settings
<1>5. next' \in Nat \ {0}
  <2>1. next \in Nat \ {0}
    BY DEF TaggedTypeOK
  <2> QED BY <1>1, <2>1
<1> QED BY <1>1, <1>4, <1>5 DEF TaggedTypeOK, Settings, document

\* The settings of the layer are taken from the blocks.
LEMMA ParseLayerTyped ==
  TaggedTypeOK /\ ParseLayer => TaggedTypeOK' /\ phase' = "writing"
<1> SUFFICES ASSUME TaggedTypeOK, ParseLayer PROVE TaggedTypeOK' /\ phase' = "writing"
  OBVIOUS
<1>1. /\ layer' = Parsed(layer, storage) /\ file' = <<>> /\ next' = 1 /\ phase' = "writing"
      /\ UNCHANGED <<section, maxLength, round, start, at, toRead, storage, linked>>
  BY DEF ParseLayer
<1>2. layer' \in Settings
  BY <1>1, ParsedAreSettings DEF TaggedTypeOK, Settings
<1> QED BY <1>1, <1>2 DEF TaggedTypeOK, Settings, Phases

\* An unparsed block is written with one of the names of its key.
LEMMA WriteUnparsedTyped ==
  TaggedTypeOK /\ WriteUnparsed => TaggedTypeOK' /\ phase' = "writing"
<1> SUFFICES ASSUME TaggedTypeOK, WriteUnparsed PROVE TaggedTypeOK' /\ phase' = "writing"
  OBVIOUS
<1> DEFINE block == layer.unparsed[next]
           wide  == IsTaggedBlockSizeUint64(block.key) /\ section.wide
<1>1. /\ phase = "writing" /\ next \in DOMAIN layer.unparsed /\ next' = next + 1
      /\ UNCHANGED <<section, maxLength, round, start, at, toRead, storage, linked, layer, phase>>
  BY DEF WriteUnparsed
<1>2. PICK name \in NamesOf(block.key) :
        file' = file \o Written(block.signature, name, wide, block.data)
  BY DEF WriteUnparsed
<1>3. name \in Texts
  BY <1>2, TaggedBlocksAssumption DEF NamesOf
<1>4. block \in Block
  BY <1>1 DEF TaggedTypeOK
<1>5. block.signature \in Texts /\ block.data \in Seq(Byte)
  BY <1>4 DEF Block
<1> HIDE DEF block, wide
<1>6. Written(block.signature, name, wide, block.data) \in Seq(Byte)
  BY <1>3, <1>5, WrittenIsBytes
<1>7. file' \in Seq(Byte)
  BY <1>2, <1>6, ConcatProperties DEF TaggedTypeOK
<1> QED BY <1>1, <1>7 DEF TaggedTypeOK

\* The section that is written is in the file as a whole.
LEMMA WriteGeneratedTyped ==
  TaggedTypeOK /\ WriteGenerated
    => TaggedTypeOK' /\ phase = "writing" /\ maxLength' <= Len(file')
<1> SUFFICES ASSUME TaggedTypeOK, WriteGenerated
             PROVE  TaggedTypeOK' /\ phase = "writing" /\ maxLength' <= Len(file')
  OBVIOUS
<1> DEFINE bytes == file \o Generated(layer)
           end   == RoundUp(Len(bytes), 2)
           fill  == Zeros(end - Len(bytes))
<1>1. /\ phase = "writing"
      /\ file' = bytes \o fill \o Trailer /\ maxLength' = end /\ toRead' = end
      /\ start' = 0 /\ at' = 0 /\ storage' = <<>> /\ round' = 2 /\ phase' = "reading"
      /\ UNCHANGED <<section, linked, layer, next>>
  BY DEF WriteGenerated
<1>2. bytes \in Seq(Byte)
  <2>1. layer \in Settings /\ file \in Seq(Byte)
    BY DEF TaggedTypeOK, Settings
  <2>2. Generated(layer) \in Seq(Byte)
    BY <2>1, GeneratedIsBytes
  <2> QED BY <2>1, <2>2, ConcatProperties
<1> HIDE DEF bytes
<1>3. Len(bytes) \in Nat
  BY <1>2
<1>4. end \in Nat /\ end >= Len(bytes)
  BY <1>3, RoundUpGrows
<1> HIDE DEF end
<1>5. end - Len(bytes) \in Nat
  BY <1>3, <1>4
<1>6. fill \in Seq(Byte) /\ Len(fill) = end - Len(bytes)
  BY <1>5, ZerosAreBytes
<1> HIDE DEF fill
<1>7. bytes \o fill \in Seq(Byte) /\ Len(bytes \o fill) = end
  <2>1. bytes \o fill \in Seq(Byte) /\ Len(bytes \o fill) = Len(bytes) + Len(fill)
    BY <1>2, <1>6, ConcatProperties
  <2> QED BY <1>3, <1>4, <1>6, <2>1
<1>8. Trailer \in Seq(Byte)
  BY TaggedBlocksAssumption
<1>9. file' \in Seq(Byte) /\ maxLength' <= Len(file')
  <2>1. /\ (bytes \o fill) \o Trailer \in Seq(Byte)
        /\ Len((bytes \o fill) \o Trailer) = end + Len(Trailer)
    BY <1>7, <1>8, ConcatProperties
  <2>2. Len(Trailer) \in Nat
    BY <1>8
  <2> QED BY <1>1, <1>4, <2>1, <2>2
<1>10. <<>> \in Seq(Block)
  OBVIOUS
<1> QED BY <1>1, <1>4, <1>9, <1>10 DEF TaggedTypeOK, Phases

-----------------------------------------------------------------------------
(* The invariant and the theorems.                                          *)

\* What every read does.
LEMMA ReadBlockAdvances == TaggedTypeOK /\ ReadBlock => Turned \/ WentOn
BY BadSignatureTurns, SkipUnknownTurns, ReadBaseTurns, ReadDividerTurns, RefuseDividerTurns,
   ReadFixedTurns, RefuseFixedTurns, SkipProtectedTurns, ReadNameTurns, RefuseNameTurns,
   ReadPlacedTurns, RefusePlacedTurns, BeginLinkedTurns, ReadItemTurns, RefuseItemTurns,
   EndLinkedTurns
   DEF ReadBlock

\* The types hold of a file that has just been opened.
LEMMA InitTyped == Init => TaggedTypeOK
<1> SUFFICES ASSUME Init PROVE TaggedTypeOK
  OBVIOUS
<1>1. section \in Sections /\ section.bytes \in Seq(Byte) /\ Trailer \in Seq(Byte)
  BY TaggedBlocksAssumption DEF Init, IsSection
<1>2. section.bytes \o Trailer \in Seq(Byte)
  BY <1>1, ConcatProperties
<1>3. file \in Seq(Byte)
  <2>1. PICK cut \in Cuts :
          file = SubSeq(section.bytes \o Trailer, 1, Len(section.bytes \o Trailer) - cut)
    BY DEF Init
  <2>2. cut \in Nat
    BY <2>1, TaggedBlocksAssumption
  <2>3. /\ Len(section.bytes \o Trailer) - cut \in Int
        /\ Len(section.bytes \o Trailer) - cut <= Len(section.bytes \o Trailer)
    BY <1>2, <2>2
  <2> QED BY <1>2, <2>1, <2>3, SubSeqProperties
<1>4. maxLength \in Nat
  BY <1>1 DEF Init
<1>5. layer \in Settings
  BY DefaultsAreSettings DEF Init
<1>6. /\ linked \in [end : Nat, key : Keys \cup {"none"}, data : Seq(Byte)]
      /\ storage \in Seq(Block)
  BY DEF Init, NoLinked
<1>7. /\ start = 0 /\ at = 0 /\ toRead = maxLength /\ next = 1 /\ round = 1
      /\ phase = "reading"
  BY DEF Init
<1> QED BY <1>1, <1>3, <1>4, <1>5, <1>6, <1>7 DEF TaggedTypeOK, Settings, Phases

\* Every step keeps the types.
LEMMA NextTyped == TaggedTypeOK /\ [Next]_vars => TaggedTypeOK'
<1> SUFFICES ASSUME TaggedTypeOK, [Next]_vars PROVE TaggedTypeOK'
  OBVIOUS
<1>1. CASE ReadBlock
  BY <1>1, ReadBlockAdvances DEF Turned, WentOn
<1>2. CASE EndSection
  BY <1>2, EndSectionTyped
<1>3. CASE PassAlong
  BY <1>3, PassAlongTyped
<1>4. CASE ParseLayer
  BY <1>4, ParseLayerTyped
<1>5. CASE WriteUnparsed
  BY <1>5, WriteUnparsedTyped
<1>6. CASE WriteGenerated
  BY <1>6, WriteGeneratedTyped
<1>7. CASE UNCHANGED vars
  BY <1>7 DEF vars, TaggedTypeOK
<1> QED BY <1>1, <1>2, <1>3, <1>4, <1>5, <1>6, <1>7 DEF Next, Read

\* The types hold, for every section, whatever the end of the file is missing:
\* the offset never falls behind the header of a block of linked layers, and
\* what is left always counts from the start of the block that is read.
THEOREM TaggedTypesHold == Spec => []TaggedTypeOK
<1>1. Init => TaggedTypeOK
  BY InitTyped
<1>2. TaggedTypeOK /\ [Next]_vars => TaggedTypeOK'
  BY NextTyped
<1> QED BY <1>1, <1>2, PTL DEF Spec

\* While blocks are read, the file has the whole section.
WholeFile == phase \in {"reading", "linked"} => maxLength <= Len(file)

\* A file that was not cut has the whole section.
LEMMA InitWhole == Init /\ Cuts = {0} => WholeFile
<1> SUFFICES ASSUME Init, Cuts = {0} PROVE WholeFile
  OBVIOUS
<1> DEFINE bytes == section.bytes \o Trailer
<1>1. section.bytes \in Seq(Byte) /\ Trailer \in Seq(Byte)
  BY TaggedBlocksAssumption DEF Init, IsSection
<1>2. /\ bytes \in Seq(Byte)
      /\ Len(bytes) = Len(section.bytes) + Len(Trailer)
  BY <1>1, ConcatProperties
<1>3. file = SubSeq(bytes, 1, Len(bytes) - 0) /\ maxLength = Len(section.bytes)
  BY DEF Init
<1>4. Len(section.bytes) \in Nat /\ Len(Trailer) \in Nat
  BY <1>1
<1> HIDE DEF bytes
<1>5. Len(bytes) - 0 = Len(bytes)
  BY <1>2
<1>6. Len(file) = Len(bytes)
  BY <1>2, <1>3, <1>5, SubSeqProperties
<1> QED BY <1>2, <1>3, <1>4, <1>6 DEF WholeFile

\* Every step keeps the whole section in the file.
LEMMA NextWhole == TaggedTypeOK /\ WholeFile /\ [Next]_vars => WholeFile'
<1> SUFFICES ASSUME TaggedTypeOK, WholeFile, [Next]_vars PROVE WholeFile'
  OBVIOUS
<1>1. CASE ReadBlock
  <2>1. UNCHANGED document
    BY <1>1, ReadBlockAdvances DEF Turned, WentOn
  <2>2. phase \in {"reading", "linked"}
    BY <1>1 DEF ReadBlock, BadSignature, SkipUnknown, ReadBase, ReadDivider, RefuseDivider,
                ReadFixed, RefuseFixed, SkipProtected, ReadName, RefuseName, ReadPlaced,
                RefusePlaced, BeginLinked, ReadItem, RefuseItem, EndLinked, IsReading, HasItem
  <2> QED BY <2>1, <2>2 DEF WholeFile, document
<1>2. CASE EndSection
  BY <1>2, EndSectionTyped DEF WholeFile
<1>3. CASE PassAlong
  BY <1>3, PassAlongTyped DEF WholeFile
<1>4. CASE ParseLayer
  BY <1>4, ParseLayerTyped DEF WholeFile
<1>5. CASE WriteUnparsed
  BY <1>5, WriteUnparsedTyped DEF WholeFile
<1>6. CASE WriteGenerated
  BY <1>6, WriteGeneratedTyped DEF WholeFile
<1>7. CASE UNCHANGED vars
  BY <1>7 DEF vars, WholeFile
<1> QED BY <1>1, <1>2, <1>3, <1>4, <1>5, <1>6, <1>7 DEF Next, Read

\* Every step that reads a block leaves less to read.
LEMMA NextAdvances ==
  TaggedTypeOK /\ WholeFile /\ [Next]_vars => [Advances]_vars
<1> SUFFICES ASSUME TaggedTypeOK, WholeFile, Next PROVE Advances
  OBVIOUS
<1>1. CASE ReadBlock
  BY <1>1, ReadBlockAdvances DEF Turned, WentOn, WholeFile, Advances
<1>2. CASE EndSection
  BY <1>2, EndSectionTyped DEF Advances
<1>3. CASE PassAlong
  BY <1>3, PassAlongTyped DEF Advances
<1>4. CASE ParseLayer
  BY <1>4, ParseLayerTyped DEF Advances
<1>5. CASE WriteUnparsed
  BY <1>5, WriteUnparsedTyped DEF Advances
<1>6. CASE WriteGenerated
  BY <1>6, WriteGeneratedTyped DEF Advances
<1> QED BY <1>1, <1>2, <1>3, <1>4, <1>5, <1>6 DEF Next, Read

\* In a file that has the whole section, every block that is read, refused or
\* jumped over leaves at least 4 bytes less to read, and every linked layer
\* moves the offset on, whatever the bytes are and whatever lengths they
\* announce: what the loop of AdditionalLayerInfo has left always gets less.
THEOREM WholeFilesAdvance ==
  ASSUME Cuts = {0}
  PROVE  Spec => EveryReadAdvances
<1>1. Init => TaggedTypeOK /\ WholeFile
  BY InitTyped, InitWhole
<1>2. TaggedTypeOK /\ WholeFile /\ [Next]_vars => (TaggedTypeOK /\ WholeFile)'
  BY NextTyped, NextWhole
<1>3. TaggedTypeOK /\ WholeFile /\ [Next]_vars => [Advances]_vars
  BY NextAdvances
<1> QED BY <1>1, <1>2, <1>3, PTL DEF Spec, EveryReadAdvances

-----------------------------------------------------------------------------
(* Bytes that stand in a file.                                              *)

\* The bytes are in f, behind the offset a.
StandsAt(f, a, bytes) ==
  /\ a + Len(bytes) <= Len(f)
  /\ \A i \in 1..Len(bytes) : f[a + i] = bytes[i]

\* Two sequences that stand one behind the other stand each for itself.
LEMMA PartsStand ==
  ASSUME NEW f, NEW a \in Nat, NEW s \in Seq(Byte), NEW t \in Seq(Byte), Len(f) \in Nat,
         StandsAt(f, a, s \o t)
  PROVE  StandsAt(f, a, s) /\ StandsAt(f, a + Len(s), t)
<1>1. Len(s) \in Nat /\ Len(t) \in Nat
  OBVIOUS
<1>2. Len(s \o t) = Len(s) + Len(t)
  BY ConcatProperties
<1>3. \A i \in 1..Len(s) : (s \o t)[i] = s[i]
  BY ConcatProperties
<1>4. \A i \in 1..Len(t) : (s \o t)[Len(s) + i] = t[i]
  BY ConcatProperties
<1> DEFINE w == s \o t
<1> HIDE DEF w
<1>5. a + Len(w) <= Len(f) /\ \A i \in 1..Len(w) : f[a + i] = w[i]
  BY DEF StandsAt, w
<1>6. Len(w) = Len(s) + Len(t)
  BY <1>2 DEF w
<1>7. \A i \in 1..Len(s) : w[i] = s[i]
  BY <1>3 DEF w
<1>8. \A i \in 1..Len(t) : w[Len(s) + i] = t[i]
  BY <1>4 DEF w
<1>9. StandsAt(f, a, s)
  <2>1. a + Len(s) <= Len(f)
    BY <1>1, <1>5, <1>6
  <2>2. ASSUME NEW i \in 1..Len(s) PROVE f[a + i] = s[i]
    <3>1. i \in 1..Len(w)
      BY <1>1, <1>6
    <3> QED BY <1>5, <1>7, <3>1
  <2> QED BY <2>1, <2>2 DEF StandsAt
<1>10. StandsAt(f, a + Len(s), t)
  <2>1. (a + Len(s)) + Len(t) <= Len(f)
    BY <1>1, <1>5, <1>6
  <2>2. ASSUME NEW i \in 1..Len(t) PROVE f[(a + Len(s)) + i] = t[i]
    <3>1. Len(s) + i \in 1..Len(w) /\ (a + Len(s)) + i = a + (Len(s) + i)
      BY <1>1, <1>6
    <3>2. f[a + (Len(s) + i)] = w[Len(s) + i]
      BY <1>5, <3>1
    <3> QED BY <1>8, <3>1, <3>2
  <2> QED BY <2>1, <2>2 DEF StandsAt
<1> QED BY <1>9, <1>10

\* What stands in a file stands in it when bytes are written behind it.
LEMMA StandsOn ==
  ASSUME NEW f \in Seq(Byte), NEW g \in Seq(Byte), NEW a \in Nat, NEW bytes, Len(bytes) \in Nat,
         StandsAt(f, a, bytes)
  PROVE  StandsAt(f \o g, a, bytes)
<1>1. Len(f) \in Nat /\ Len(g) \in Nat
  OBVIOUS
<1>2. Len(f \o g) = Len(f) + Len(g) /\ \A i \in 1..Len(f) : (f \o g)[i] = f[i]
  BY ConcatProperties
<1> DEFINE w == f \o g
<1> HIDE DEF w
<1>3. Len(w) = Len(f) + Len(g) /\ \A i \in 1..Len(f) : w[i] = f[i]
  BY <1>2 DEF w
<1>4. a + Len(bytes) <= Len(f) /\ \A i \in 1..Len(bytes) : f[a + i] = bytes[i]
  BY DEF StandsAt
<1>5. ASSUME NEW i \in 1..Len(bytes) PROVE w[a + i] = bytes[i]
  <2>1. a + i \in 1..Len(f)
    BY <1>1, <1>4
  <2> QED BY <1>3, <1>4, <2>1
<1>6. a + Len(bytes) <= Len(w)
  BY <1>1, <1>3, <1>4
<1>7. StandsAt(w, a, bytes)
  BY <1>5, <1>6 DEF StandsAt
<1> QED BY <1>7 DEF w

\* Bytes that are written behind a file stand there.
LEMMA WrittenStands ==
  ASSUME NEW f \in Seq(Byte), NEW g \in Seq(Byte)
  PROVE  StandsAt(f \o g, Len(f), g)
<1>1. /\ Len(f \o g) = Len(f) + Len(g) /\ Len(f) \in Nat /\ Len(g) \in Nat
      /\ \A i \in 1..Len(g) : (f \o g)[Len(f) + i] = g[i]
  BY ConcatProperties
<1> QED BY <1>1 DEF StandsAt

\* The length of two sequences of bytes, one behind the other.
LEMMA BothAreBytes ==
  ASSUME NEW s \in Seq(Byte), NEW t \in Seq(Byte)
  PROVE  s \o t \in Seq(Byte) /\ Len(s \o t) = Len(s) + Len(t)
BY ConcatProperties

\* Texts and numbers are four bytes.
LEMMA FourBytes ==
  /\ \A s \in Texts : Text(s) \in Seq(Byte) /\ Len(Text(s)) = 4
  /\ \A n \in Nat : Number(n) \in Seq(Byte) /\ Len(Number(n)) = 4
<1>1. ASSUME NEW s \in Texts PROVE Text(s) \in Seq(Byte) /\ Len(Text(s)) = 4
  <2>1. Text(s) \in Seq(Byte)
    BY TextIsBytes
  <2>2. Len([i \in 1..4 |-> [txt |-> s, num |-> 0, part |-> i]]) = 4
    OBVIOUS
  <2> QED BY <2>1, <2>2 DEF Text
<1>2. ASSUME NEW n \in Nat PROVE Number(n) \in Seq(Byte) /\ Len(Number(n)) = 4
  <2>1. Number(n) \in Seq(Byte)
    BY NumberIsBytes
  <2>2. Len([i \in 1..4 |-> [txt |-> "number", num |-> n, part |-> i]]) = 4
    OBVIOUS
  <2> QED BY <2>1, <2>2 DEF Number
<1> QED BY <1>1, <1>2

\* Four characters that stand somewhere are found there.
LEMMA TextStands ==
  ASSUME NEW p \in Nat, NEW s \in Texts, StandsAt(file, p, Text(s))
  PROVE  TextAt(p) = s
<1>0. Len(Text(s)) = 4
  BY FourBytes
<1>1. p + 4 <= Len(file) /\ \A i \in 1..4 : file[p + i] = Text(s)[i]
  BY <1>0 DEF StandsAt
<1>2. \A i \in 1..4 : file[p + i] = [txt |-> s, num |-> 0, part |-> i]
  BY <1>1 DEF Text
<1>3. file[p + 1] = [txt |-> s, num |-> 0, part |-> 1]
  BY <1>2
<1>4. IsWord(p)
  BY <1>1, <1>2, <1>3 DEF IsWord, InFile
<1> QED BY <1>3, <1>4 DEF TextAt

\* So is a number.
LEMMA NumberStands ==
  ASSUME NEW p \in Nat, NEW n \in Nat, StandsAt(file, p, Number(n))
  PROVE  NumberAt(p) = n
<1>0. Len(Number(n)) = 4
  BY FourBytes
<1>1. p + 4 <= Len(file) /\ \A i \in 1..4 : file[p + i] = Number(n)[i]
  BY <1>0 DEF StandsAt
<1>2. \A i \in 1..4 : file[p + i] = [txt |-> "number", num |-> n, part |-> i]
  BY <1>1 DEF Number
<1>3. file[p + 1] = [txt |-> "number", num |-> n, part |-> 1]
  BY <1>2
<1>4. IsWord(p)
  BY <1>1, <1>2, <1>3 DEF IsWord, InFile
<1> QED BY <1>3, <1>4 DEF NumberAt

\* What is found of a block that was written at an offset with a length of 4
\* The signatures of a block.
Signatures == {"8BIM", "8B64"}

\* What a block begins with; in some blocks the length takes eight bytes.
BlockHead(signature, name, length) == Text(signature) \o Text(name) \o Number(length)
\* The same with eight bytes of length.
WideBlockHead(signature, name, length) ==
  Text(signature) \o Text(name) \o (Number(0) \o Number(length))

\* What is found of a block.
LEMMA HeadIsFound ==
  ASSUME NEW a \in Nat, NEW signature \in Texts, NEW name \in Texts, NEW length \in Nat,
         NEW raw \in Seq(Byte), file \in Seq(Byte),
         StandsAt(file, a, BlockHead(signature, name, length) \o raw)
  PROVE  /\ Len(BlockHead(signature, name, length) \o raw) = 12 + Len(raw)
         /\ TextAt(a) = signature /\ TextAt(a + 4) = name
         /\ NumberAt(a + 8) = length
         /\ StandsAt(file, a + 12, raw)
<1>1. /\ Text(signature) \in Seq(Byte) /\ Len(Text(signature)) = 4
      /\ Text(name) \in Seq(Byte) /\ Len(Text(name)) = 4
      /\ Len(raw) \in Nat /\ Len(file) \in Nat
      /\ Number(length) \in Seq(Byte) /\ Len(Number(length)) = 4
  BY FourBytes
<1> DEFINE s1 == Text(signature)
           s2 == Text(name)
           s3 == Number(length)
<1> HIDE DEF s1, s2, s3
<1>2. s1 \in Seq(Byte) /\ Len(s1) = 4 /\ s2 \in Seq(Byte) /\ Len(s2) = 4
      /\ s3 \in Seq(Byte) /\ Len(s3) = 4
  BY <1>1 DEF s1, s2, s3
<1>3. BlockHead(signature, name, length) \o raw = s1 \o s2 \o s3 \o raw
  BY DEF BlockHead, s1, s2, s3
<1> DEFINE s12 == s1 \o s2
           s123 == s12 \o s3
<1>4. s12 \in Seq(Byte) /\ Len(s12) = 8
  <2>1. s1 \o s2 \in Seq(Byte)
    BY <1>2, BothAreBytes
  <2>2. Len(s1 \o s2) = Len(s1) + Len(s2)
    BY <1>2, BothAreBytes
  <2> QED BY <1>2, <2>1, <2>2
<1> HIDE DEF s12
<1>5. s123 \in Seq(Byte) /\ Len(s123) = 12
  <2>1. s12 \o s3 \in Seq(Byte)
    BY <1>2, <1>4, BothAreBytes
  <2>2. Len(s12 \o s3) = Len(s12) + Len(s3)
    BY <1>2, <1>4, BothAreBytes
  <2> QED BY <1>2, <1>4, <2>1, <2>2
<1> HIDE DEF s123
<1>6. Len(s123 \o raw) = 12 + Len(raw)
  BY <1>5, BothAreBytes
<1>7. StandsAt(file, a, s123) /\ StandsAt(file, a + 12, raw)
  <2>1. StandsAt(file, a, s123 \o raw)
    BY <1>3 DEF s123, s12
  <2>2. StandsAt(file, a, s123) /\ StandsAt(file, a + Len(s123), raw)
    BY <1>1, <1>5, <2>1, PartsStand
  <2> QED BY <1>5, <2>2
<1>8. StandsAt(file, a, s12) /\ StandsAt(file, a + 8, s3)
  <2>1. StandsAt(file, a, s12 \o s3)
    BY <1>7 DEF s123
  <2>2. StandsAt(file, a, s12) /\ StandsAt(file, a + Len(s12), s3)
    BY <1>1, <1>2, <1>4, <2>1, PartsStand
  <2> QED BY <1>4, <2>2
<1>9. StandsAt(file, a, s1) /\ StandsAt(file, a + 4, s2)
  <2>1. StandsAt(file, a, s1 \o s2)
    BY <1>8 DEF s12
  <2>2. StandsAt(file, a, s1) /\ StandsAt(file, a + Len(s1), s2)
    BY <1>1, <1>2, <2>1, PartsStand
  <2> QED BY <1>2, <2>2
<1>10. a + 4 \in Nat /\ a + 8 \in Nat
  OBVIOUS
<1>11. TextAt(a) = signature /\ TextAt(a + 4) = name
  BY <1>9, <1>10, TextStands DEF s1, s2
<1>12. NumberAt(a + 8) = length
  <2> DEFINE p == a + 8
  <2>1. p \in Nat /\ StandsAt(file, p, Number(length))
    BY <1>8, <1>10 DEF s3
  <2> HIDE DEF p
  <2>2. NumberAt(p) = length
    BY <2>1, NumberStands
  <2> QED BY <2>2 DEF p
<1>13. Len(BlockHead(signature, name, length) \o raw) = 12 + Len(raw)
  BY <1>3, <1>6 DEF s123, s12
<1> QED BY <1>7, <1>11, <1>12, <1>13

\* The same with a length of 8 bytes.
LEMMA WideHeadIsFound ==
  ASSUME NEW a \in Nat, NEW signature \in Texts, NEW name \in Texts, NEW length \in Nat,
         NEW raw \in Seq(Byte), file \in Seq(Byte),
         StandsAt(file, a, WideBlockHead(signature, name, length) \o raw)
  PROVE  /\ Len(WideBlockHead(signature, name, length) \o raw) = 16 + Len(raw)
         /\ TextAt(a) = signature /\ TextAt(a + 4) = name
         /\ LengthAt(a + 8, 8) = length
         /\ StandsAt(file, a + 16, raw)
<1>1. /\ Text(signature) \in Seq(Byte) /\ Len(Text(signature)) = 4
      /\ Text(name) \in Seq(Byte) /\ Len(Text(name)) = 4
      /\ Len(raw) \in Nat /\ Len(file) \in Nat
      /\ Number(length) \in Seq(Byte) /\ Len(Number(length)) = 4
      /\ Number(0) \in Seq(Byte) /\ Len(Number(0)) = 4
  BY FourBytes
<1> DEFINE s1 == Text(signature)
           s2 == Text(name)
           s0 == Number(0)
           s3 == Number(length)
<1> HIDE DEF s1, s2, s0, s3
<1>2. s1 \in Seq(Byte) /\ Len(s1) = 4 /\ s2 \in Seq(Byte) /\ Len(s2) = 4
      /\ s3 \in Seq(Byte) /\ Len(s3) = 4 /\ s0 \in Seq(Byte) /\ Len(s0) = 4
  BY <1>1 DEF s1, s2, s0, s3
<1>3. WideBlockHead(signature, name, length) \o raw = s1 \o s2 \o (s0 \o s3) \o raw
  BY DEF WideBlockHead, s1, s2, s0, s3
<1> DEFINE s12 == s1 \o s2
           s03 == s0 \o s3
           s1203 == s12 \o s03
<1>4. s12 \in Seq(Byte) /\ Len(s12) = 8 /\ s03 \in Seq(Byte) /\ Len(s03) = 8
  <2>1. s1 \o s2 \in Seq(Byte) /\ s0 \o s3 \in Seq(Byte)
    BY <1>2, BothAreBytes
  <2>2. Len(s1 \o s2) = Len(s1) + Len(s2)
    BY <1>2, BothAreBytes
  <2>3. Len(s0 \o s3) = Len(s0) + Len(s3)
    BY <1>2, BothAreBytes
  <2> QED BY <1>2, <2>1, <2>2, <2>3
<1> HIDE DEF s12, s03
<1>5. s1203 \in Seq(Byte) /\ Len(s1203) = 16
  <2>1. s12 \o s03 \in Seq(Byte)
    BY <1>4, BothAreBytes
  <2>2. Len(s12 \o s03) = Len(s12) + Len(s03)
    BY <1>4, BothAreBytes
  <2> QED BY <1>4, <2>1, <2>2
<1> HIDE DEF s1203
<1>6. Len(s1203 \o raw) = 16 + Len(raw)
  BY <1>5, BothAreBytes
<1>7. StandsAt(file, a, s1203) /\ StandsAt(file, a + 16, raw)
  <2>1. StandsAt(file, a, s1203 \o raw)
    BY <1>3 DEF s1203, s12, s03
  <2>2. StandsAt(file, a, s1203) /\ StandsAt(file, a + Len(s1203), raw)
    BY <1>1, <1>5, <2>1, PartsStand
  <2> QED BY <1>5, <2>2
<1>8. StandsAt(file, a, s12) /\ StandsAt(file, a + 8, s03)
  <2>1. StandsAt(file, a, s12 \o s03)
    BY <1>7 DEF s1203
  <2>2. StandsAt(file, a, s12) /\ StandsAt(file, a + Len(s12), s03)
    BY <1>1, <1>4, <2>1, PartsStand
  <2> QED BY <1>4, <2>2
<1>9. StandsAt(file, a, s1) /\ StandsAt(file, a + 4, s2)
  <2>1. StandsAt(file, a, s1 \o s2)
    BY <1>8 DEF s12
  <2>2. StandsAt(file, a, s1) /\ StandsAt(file, a + Len(s1), s2)
    BY <1>1, <1>2, <2>1, PartsStand
  <2> QED BY <1>2, <2>2
<1>10. a + 4 \in Nat /\ a + 8 \in Nat /\ (a + 8) + 4 \in Nat
  OBVIOUS
<1>11. StandsAt(file, a + 8, s0) /\ StandsAt(file, (a + 8) + 4, s3)
  <2> DEFINE p == a + 8
  <2>1. p \in Nat /\ StandsAt(file, p, s0 \o s3)
    BY <1>8 DEF s03
  <2> HIDE DEF p
  <2>2. StandsAt(file, p, s0) /\ StandsAt(file, p + Len(s0), s3)
    BY <1>1, <1>2, <2>1, PartsStand
  <2>3. StandsAt(file, p + 4, s3)
    BY <1>2, <2>2
  <2> QED BY <2>2, <2>3 DEF p
<1>12. TextAt(a) = signature /\ TextAt(a + 4) = name
  BY <1>9, <1>10, TextStands DEF s1, s2
<1>13. NumberAt(a + 8) = 0
  <2> DEFINE p == a + 8
  <2>1. p \in Nat /\ StandsAt(file, p, Number(0))
    BY <1>10, <1>11 DEF s0
  <2> HIDE DEF p
  <2>2. NumberAt(p) = 0
    BY <2>1, NumberStands
  <2> QED BY <2>2 DEF p
<1>14. NumberAt((a + 8) + 4) = length
  <2> DEFINE p == (a + 8) + 4
  <2>1. p \in Nat /\ StandsAt(file, p, Number(length))
    BY <1>1, <1>10, <1>11 DEF s3
  <2> HIDE DEF p
  <2>2. NumberAt(p) = length
    BY <2>1, NumberStands
  <2> QED BY <2>2 DEF p
<1>15. Len(WideBlockHead(signature, name, length) \o raw) = 16 + Len(raw)
  BY <1>3, <1>6 DEF s1203, s12, s03
<1>16. LengthAt(a + 8, 8) = length
  BY <1>13, <1>14 DEF LengthAt
<1> QED BY <1>7, <1>12, <1>15, <1>16

\* bytes: signature, name, length and data.
LEMMA NarrowIsFound ==
  ASSUME NEW a \in Nat, NEW signature \in Texts, NEW name \in Texts, NEW raw \in Seq(Byte),
         file \in Seq(Byte), StandsAt(file, a, Written(signature, name, FALSE, raw))
  PROVE  /\ Len(Written(signature, name, FALSE, raw)) = 12 + Len(raw)
         /\ TextAt(a) = signature /\ TextAt(a + 4) = name
         /\ NumberAt(a + 8) = Len(raw)
         /\ StandsAt(file, a + 12, raw)
<1>1. Written(signature, name, FALSE, raw) = BlockHead(signature, name, Len(raw)) \o raw
  BY DEF Written, BlockHead
<1>2. Len(raw) \in Nat
  OBVIOUS
<1> DEFINE n == Len(raw)
<1>3. n \in Nat /\ StandsAt(file, a, BlockHead(signature, name, n) \o raw)
  BY <1>1, <1>2
<1> HIDE DEF n
<1>4. /\ Len(BlockHead(signature, name, n) \o raw) = 12 + Len(raw)
      /\ TextAt(a) = signature /\ TextAt(a + 4) = name
      /\ NumberAt(a + 8) = n
      /\ StandsAt(file, a + 12, raw)
  BY <1>3, HeadIsFound
<1> QED BY <1>1, <1>4 DEF n

\* The same with a length of 8 bytes.
LEMMA WideIsFound ==
  ASSUME NEW a \in Nat, NEW signature \in Texts, NEW name \in Texts, NEW raw \in Seq(Byte),
         file \in Seq(Byte), StandsAt(file, a, Written(signature, name, TRUE, raw))
  PROVE  /\ Len(Written(signature, name, TRUE, raw)) = 16 + Len(raw)
         /\ TextAt(a) = signature /\ TextAt(a + 4) = name
         /\ LengthAt(a + 8, 8) = Len(raw)
         /\ StandsAt(file, a + 16, raw)
<1>1. Written(signature, name, TRUE, raw) = WideBlockHead(signature, name, Len(raw)) \o raw
  BY DEF Written, WideBlockHead
<1>2. Len(raw) \in Nat
  OBVIOUS
<1> DEFINE n == Len(raw)
<1>3. n \in Nat /\ StandsAt(file, a, WideBlockHead(signature, name, n) \o raw)
  BY <1>1, <1>2
<1> HIDE DEF n
<1>4. /\ Len(WideBlockHead(signature, name, n) \o raw) = 16 + Len(raw)
      /\ TextAt(a) = signature /\ TextAt(a + 4) = name
      /\ LengthAt(a + 8, 8) = n
      /\ StandsAt(file, a + 16, raw)
  BY <1>3, WideHeadIsFound
<1> QED BY <1>1, <1>4 DEF n

\* Bytes that stand in the file are read there.
LEMMA BytesStand ==
  ASSUME NEW a \in Nat, NEW raw \in Seq(Byte), file \in Seq(Byte), StandsAt(file, a, raw)
  PROVE  BytesAt(a, Len(raw)) = raw /\ InFile(a + Len(raw))
<1> DEFINE n == Len(raw)
<1>1. n \in Nat /\ Len(file) \in Nat /\ a + n <= Len(file)
      /\ \A i \in 1..n : file[a + i] = raw[i]
  BY DEF StandsAt
<1> HIDE DEF n
<1>2. \A i \in (a + 1)..(a + n) : file[i] \in Byte
  BY <1>1
<1>3. /\ SubSeq(file, a + 1, a + n) \in Seq(Byte)
      /\ Len(SubSeq(file, a + 1, a + n))
           = IF a + 1 <= a + n THEN (a + n) - (a + 1) + 1 ELSE 0
      /\ \A i \in 1..(a + n) - (a + 1) + 1 : SubSeq(file, a + 1, a + n)[i] = file[(a + 1) + i - 1]
  BY <1>1, <1>2, SubSeqProperties
<1> DEFINE b == SubSeq(file, a + 1, a + n)
<1> HIDE DEF b
<1>4. b \in Seq(Byte) /\ Len(b) = n /\ \A i \in 1..n : b[i] = file[a + i]
  <2>1. Len(b) = n
    BY <1>1, <1>3 DEF b
  <2>2. ASSUME NEW i \in 1..n PROVE b[i] = file[a + i]
    <3>1. i \in 1..(a + n) - (a + 1) + 1 /\ (a + 1) + i - 1 = a + i
      BY <1>1
    <3> QED BY <1>3, <3>1 DEF b
  <2> QED BY <1>3, <2>1, <2>2 DEF b
<1>5. \A i \in 1..n : b[i] = raw[i]
  BY <1>1, <1>4
<1>6. b = raw
  BY <1>4, <1>5, SeqEqual DEF n
<1> QED BY <1>1, <1>6 DEF b, BytesAt, InFile, n

-----------------------------------------------------------------------------
(* Blocks as a layer writes them.                                           *)

\* The name a setting is written under.
GeneratedName ==
  [ReferencePoint |-> "fxrp", UnicodeLayerName |-> "luni", ProtectedSetting |-> "lspf",
   SheetColor |-> "lclr", BlendFill |-> "iOpa"]

\* The names a block may be written under.
NamesFor(b) == IF b.type = "Base" THEN NamesOf(b.key) ELSE {GeneratedName[b.type]}

\* Whether the length of a block takes eight bytes.
WideFor(b, wide) == b.type = "Base" /\ IsTaggedBlockSizeUint64(b.key) /\ wide
\* The same in the section that is read.
IsWide(b) == WideFor(b, section.wide)

\* The data it is written with.
RawOf(b) ==
  IF b.type = "UnicodeLayerName" THEN NameWritten(b.data)
  ELSE IF b.type = "SheetColor" THEN b.data \o Zeros(6)
  ELSE IF b.type \in {"ProtectedSetting", "BlendFill"} THEN b.data \o Zeros(3)
  ELSE b.data

\* The bytes are those of the block, under one of its names.
WrittenFor(b, bytes, wide) ==
  \E name \in NamesFor(b) : bytes = Written(b.signature, name, WideFor(b, wide), RawOf(b))
\* The bytes are those of the block in this section.
IsWritten(b, bytes) == WrittenFor(b, bytes, section.wide)

\* A name of whole characters, none of them half of a pair.
IsName(text) == Len(text) % 2 = 0 /\ \A i \in 1..Len(text) : text[i] # Data("lone")

\* What a reader makes sure of, for the types a layer keeps.
IsSound(b) ==
  /\ b.type = "Base" => b.key \in BaseKeys \ {"lrTypeTool"} /\ b.signature \in {"8BIM", "8B64"}
  /\ b.type \in {"ProtectedSetting", "BlendFill"} => Len(b.data) = 1
  /\ b.type = "SheetColor" => Len(b.data) = 2
  /\ b.type = "ReferencePoint" => Len(b.data) = 16
  /\ b.type = "UnicodeLayerName" => IsName(b.data)

\* The blocks of the settings, as they are stored.
StoredKey ==
  [ReferencePoint |-> "lrReferencePoint", UnicodeLayerName |-> "lrUnicodeName",
   ProtectedSetting |-> "lrProtectedSetting", SheetColor |-> "lrSheetColorSetting",
   BlendFill |-> "lrSheetColorSetting"]

\* The block of a setting.
SettingBlock(type, data) ==
  [type |-> type, key |-> StoredKey[type], signature |-> "8BIM", data |-> data]

\* A block that a layer writes: one that nobody parses, or a setting.
IsKept(b) ==
  /\ b \in Block
  /\ IsSound(b)
  /\ b.type = "Base" \/ (b.type \in DOMAIN GeneratedName /\ b = SettingBlock(b.type, b.data))

\* What the readers are chosen by.
LEMMA ReaderByKey ==
  ASSUME phase = "reading", IsSigned, ReadBlock
  PROVE  /\ Key \in BaseKeys => ReadBase
         /\ Key \in DOMAIN FixedLayout /\ Length = FixedLayout[Key].length => ReadFixed
         /\ Key = "lrUnicodeName" => ReadName \/ RefuseName
<1>1. ~BadSignature /\ ~ReadItem /\ ~RefuseItem /\ ~EndLinked
  BY DEF BadSignature, ReadItem, RefuseItem, EndLinked, HasItem
<1>2. SkipUnknown => Key = "Unknown"
  BY DEF SkipUnknown
<1>3. ReadDivider \/ RefuseDivider => Key = "lrSectionDivider"
  BY DEF ReadDivider, RefuseDivider
<1>4. ReadFixed \/ RefuseFixed \/ SkipProtected => Key \in DOMAIN FixedLayout
  BY DEF ReadFixed, RefuseFixed, SkipProtected, FixedLayout
<1>5. RefuseFixed \/ SkipProtected => Length # FixedLayout[Key].length
  BY DEF RefuseFixed, SkipProtected
<1>6. ReadName \/ RefuseName => Key = "lrUnicodeName"
  BY DEF ReadName, RefuseName
<1>7. ReadPlaced \/ RefusePlaced => Key \in {"lrPlaced", "lrPlacedData"}
  BY DEF ReadPlaced, RefusePlaced, Identifier
<1>8. BeginLinked => Key \in {"lrLinked", "lrLinked_8Byte"}
  BY DEF BeginLinked
<1>9. ReadBase => Key \in BaseKeys
  BY DEF ReadBase
<1>10. BaseKeys = {"lrArtboard", "lrId", "lrFilterMask", "lrTypeTool"}
  BY DEF BaseKeys
<1>11. DOMAIN FixedLayout
         = {"lrReferencePoint", "lrSheetColorSetting", "lrBlendFill", "lrProtectedSetting"}
  BY DEF FixedLayout
<1> QED BY <1>1, <1>2, <1>3, <1>4, <1>5, <1>6, <1>7, <1>8, <1>9, <1>10, <1>11 DEF ReadBlock

\* The key of a name in the map.
LEMMA KeyOfName ==
  ASSUME NEW key \in Keys, NEW name \in NamesOf(key), TextAt(start + 4) = name
  PROVE  Key = key /\ name \in Texts
<1>1. name \in DOMAIN TaggedBlockMap /\ TaggedBlockMap[name] = key
  BY DEF NamesOf
<1>2. Key = key
  BY <1>1 DEF Key, TaggedBlockKey
<1> QED BY <1>1, <1>2, TaggedBlocksAssumption

\* The names of the settings.
LEMMA NamesOfSettings ==
  /\ "fxrp" \in NamesOf("lrReferencePoint") /\ "luni" \in NamesOf("lrUnicodeName")
  /\ "lspf" \in NamesOf("lrProtectedSetting") /\ "lclr" \in NamesOf("lrSheetColorSetting")
  /\ "iOpa" \in NamesOf("lrBlendFill")
  /\ {"lrReferencePoint", "lrUnicodeName", "lrProtectedSetting", "lrSheetColorSetting",
      "lrBlendFill"} \subseteq Keys
<1> DEFINE names == {"fxrp", "luni", "lspf", "lclr", "iOpa"}
<1>1. /\ TaggedBlockMap["fxrp"] = "lrReferencePoint" /\ TaggedBlockMap["luni"] = "lrUnicodeName"
      /\ TaggedBlockMap["lspf"] = "lrProtectedSetting"
      /\ TaggedBlockMap["lclr"] = "lrSheetColorSetting"
      /\ TaggedBlockMap["iOpa"] = "lrBlendFill"
      /\ "fxrp" \in DOMAIN TaggedBlockMap /\ "luni" \in DOMAIN TaggedBlockMap
      /\ "lspf" \in DOMAIN TaggedBlockMap /\ "lclr" \in DOMAIN TaggedBlockMap
      /\ "iOpa" \in DOMAIN TaggedBlockMap
  BY DEF TaggedBlockMap
<1> QED BY <1>1 DEF NamesOf, Keys

\* A block that nobody parses is read as it was written.
LEMMA BaseIsReadBack ==
  ASSUME TaggedTypeOK, IsReading, section.padding = 1, ReadBlock,
         NEW b \in Block, b.type = "Base", IsSound(b),
         NEW bytes, IsWritten(b, bytes), StandsAt(file, start, bytes)
  PROVE  Leave(start + Len(bytes), <<b>>)
<1>0. start \in Nat /\ file \in Seq(Byte) /\ Len(file) \in Nat
  BY Offsets
<1>1. PICK name \in NamesOf(b.key) : bytes = Written(b.signature, name, IsWide(b), b.data)
  BY DEF IsWritten, WrittenFor, IsWide, NamesFor, RawOf
<1>2. /\ b.key \in Keys /\ b.signature \in Texts /\ b.data \in Seq(Byte) /\ Len(b.data) \in Nat
      /\ b = [type |-> b.type, key |-> b.key, signature |-> b.signature, data |-> b.data]
  BY DEF Block
<1>3. name \in Texts
  BY <1>1, TaggedBlocksAssumption DEF NamesOf
<1> DEFINE marker == IF IsWide(b) THEN 8 ELSE 4
           body   == start + 8 + marker
           n      == Len(b.data)
<1>4. /\ Len(bytes) = 8 + marker + n
      /\ TextAt(start) = b.signature /\ TextAt(start + 4) = name
      /\ LengthAt(start + 8, marker) = n
      /\ StandsAt(file, body, b.data)
  <2> DEFINE signature == b.signature
             raw       == b.data
  <2>0. /\ signature \in Texts /\ raw \in Seq(Byte)
        /\ bytes = Written(signature, name, IsWide(b), raw)
    BY <1>1, <1>2
  <2> HIDE DEF signature, raw
  <2>1. CASE IsWide(b)
    <3>1. bytes = Written(signature, name, TRUE, raw)
      BY <2>0, <2>1
    <3>0. StandsAt(file, start, Written(signature, name, TRUE, raw))
      BY <3>1
    <3>2. /\ Len(Written(signature, name, TRUE, raw)) = 16 + Len(raw)
          /\ TextAt(start) = signature /\ TextAt(start + 4) = name
          /\ LengthAt(start + 8, 8) = Len(raw)
          /\ StandsAt(file, start + 16, raw)
      BY <1>0, <1>3, <2>0, <3>0, WideIsFound
    <3>3. body = start + 16 /\ marker = 8
      BY <1>0, <2>1
    <3>4. Len(bytes) = 16 + Len(raw)
      BY <3>1, <3>2
    <3>5. Len(bytes) = 8 + marker + n
      BY <1>2, <3>3, <3>4 DEF raw
    <3> QED BY <3>2, <3>3, <3>5 DEF signature, raw
  <2>2. CASE ~IsWide(b)
    <3>1. bytes = Written(signature, name, FALSE, raw)
      <4>1. IsWide(b) = FALSE
        BY <2>2 DEF IsWide, WideFor
      <4> QED BY <2>0, <4>1
    <3>0. StandsAt(file, start, Written(signature, name, FALSE, raw))
      BY <3>1
    <3>2. /\ Len(Written(signature, name, FALSE, raw)) = 12 + Len(raw)
          /\ TextAt(start) = signature /\ TextAt(start + 4) = name
          /\ NumberAt(start + 8) = Len(raw)
          /\ StandsAt(file, start + 12, raw)
      BY <1>0, <1>3, <2>0, <3>0, NarrowIsFound
    <3>3. body = start + 12 /\ marker = 4
      BY <1>0, <2>2
    <3>4. LengthAt(start + 8, 4) = Len(raw)
      BY <3>2 DEF LengthAt
    <3>6. Len(bytes) = 12 + Len(raw)
      BY <3>1, <3>2
    <3>5. Len(bytes) = 8 + marker + n
      BY <1>2, <3>3, <3>6 DEF raw
    <3> QED BY <3>2, <3>3, <3>4, <3>5 DEF signature, raw
  <2> QED BY <2>1, <2>2
<1>5. Key = b.key
  BY <1>1, <1>2, <1>4, KeyOfName
<1>6. /\ IsSigned /\ Key \in BaseKeys /\ Key # "lrTypeTool"
      /\ IsWide(b) = (IsTaggedBlockSizeUint64(Key) /\ section.wide)
  BY <1>4, <1>5 DEF IsSound, IsSigned, IsWide, WideFor
<1>7. ReadBase
  BY <1>6, ReaderByKey DEF IsReading
<1>8. body \in Nat /\ n \in Nat /\ marker \in {4, 8}
  BY <1>0, <1>2
<1>11. marker = IF IsTaggedBlockSizeUint64(Key) /\ section.wide THEN 8 ELSE 4
  BY <1>6
<1>17. body = start + 8 + marker
  OBVIOUS
<1> HIDE DEF marker, body
<1>9. BytesAt(body, n) = b.data /\ InFile(body + n)
  <2> DEFINE raw == b.data
  <2>1. raw \in Seq(Byte) /\ StandsAt(file, body, raw)
    BY <1>2, <1>4
  <2> HIDE DEF raw
  <2>2. BytesAt(body, Len(raw)) = raw /\ InFile(body + Len(raw))
    BY <1>0, <1>8, <2>1, BytesStand
  <2> QED BY <2>2 DEF raw
<1> HIDE DEF n
<1>10. RoundUp(n, section.padding) = n
  BY <1>8 DEF RoundUp
<1>12. ReadTo({start + 4, start + 8, body, body + n}, body + n,
              Stored("Base", Key, BytesAt(body, n)))
  BY <1>4, <1>6, <1>7, <1>10, <1>11, <1>17 DEF ReadBase
<1>13. \A s \in {start + 4, start + 8, body, body + n} : InFile(s)
  BY <1>0, <1>8, <1>9, <1>17 DEF InFile
<1>14. Leave(body + n, Stored("Base", Key, b.data))
  BY <1>9, <1>12, <1>13 DEF ReadTo
<1>15. Stored("Base", Key, b.data) = <<b>>
  BY <1>2, <1>4, <1>5 DEF Stored
<1>16. body + n = start + Len(bytes)
  BY <1>0, <1>4, <1>8, <1>17
<1> QED BY <1>14, <1>15, <1>16

\* What is found of a setting that was written.
LEMMA SettingIsFound ==
  ASSUME TaggedTypeOK, IsReading, NEW b \in Block, b.type \in DOMAIN GeneratedName,
         b = SettingBlock(b.type, b.data), NEW bytes, IsWritten(b, bytes),
         RawOf(b) \in Seq(Byte), StandsAt(file, start, bytes)
  PROVE  /\ IsSigned /\ TextAt(start) = "8BIM"
         /\ TextAt(start + 4) = GeneratedName[b.type]
         /\ Length = Len(RawOf(b))
         /\ StandsAt(file, start + 12, RawOf(b))
         /\ Len(bytes) = 12 + Len(RawOf(b))
<1>0. start \in Nat /\ file \in Seq(Byte) /\ Len(file) \in Nat
  BY Offsets
<1> DEFINE name == GeneratedName[b.type]
           raw  == RawOf(b)
<1>1. /\ DOMAIN GeneratedName
           = {"ReferencePoint", "UnicodeLayerName", "ProtectedSetting", "SheetColor", "BlendFill"}
      /\ GeneratedName["ReferencePoint"] = "fxrp" /\ GeneratedName["UnicodeLayerName"] = "luni"
      /\ GeneratedName["ProtectedSetting"] = "lspf" /\ GeneratedName["SheetColor"] = "lclr"
      /\ GeneratedName["BlendFill"] = "iOpa"
  BY DEF GeneratedName
<1>2. b.type # "Base" /\ name \in {"fxrp", "luni", "lspf", "lclr", "iOpa"}
  BY <1>1
<1>3. {"fxrp", "luni", "lspf", "lclr", "iOpa", "8BIM"} \subseteq Texts
  BY TaggedBlocksAssumption DEF TaggedBlockMap
<1>4. b.signature = "8BIM"
  BY DEF SettingBlock
<1>5. IsWide(b) = FALSE /\ NamesFor(b) = {name}
  BY <1>2 DEF IsWide, WideFor, NamesFor
<1>6. bytes = Written("8BIM", name, FALSE, raw)
  BY <1>4, <1>5 DEF IsWritten, WrittenFor, IsWide
<1> HIDE DEF name, raw
<1>7. raw \in Seq(Byte) /\ name \in Texts
  BY <1>2, <1>3 DEF raw
<1>8. StandsAt(file, start, Written("8BIM", name, FALSE, raw))
  BY <1>6
<1>9. /\ Len(Written("8BIM", name, FALSE, raw)) = 12 + Len(raw)
      /\ TextAt(start) = "8BIM" /\ TextAt(start + 4) = name
      /\ NumberAt(start + 8) = Len(raw)
      /\ StandsAt(file, start + 12, raw)
  BY <1>0, <1>3, <1>7, <1>8, NarrowIsFound
<1>10. Len(bytes) = 12 + Len(raw)
  BY <1>6, <1>9
<1> QED BY <1>9, <1>10 DEF IsSigned, Length, name, raw

\* A setting of one length is read where its value stands.
LEMMA FixedIsRead ==
  ASSUME TaggedTypeOK, IsReading, ReadBlock, IsSigned,
         NEW key \in DOMAIN FixedLayout, Key = key, Length = FixedLayout[key].length,
         NEW data \in Seq(Byte), Len(data) = FixedLayout[key].field,
         StandsAt(file, start + 12, data),
         start + 12 + FixedLayout[key].length <= Len(file)
  PROVE  Leave(start + 12 + FixedLayout[key].length,
               Stored(FixedLayout[key].type, FixedLayout[key].stored, data))
<1>0. start \in Nat /\ file \in Seq(Byte) /\ Len(file) \in Nat /\ Payload = start + 12
      /\ Header = {start + 4, start + 8, start + 12}
  BY Offsets
<1>1. ReadFixed
  BY ReaderByKey DEF IsReading
<1> DEFINE layout == FixedLayout[key]
           stops  == {Payload + layout.field, Payload + layout.length}
                       \cup (IF layout.field = 16 THEN {Payload + 8} ELSE {})
<1>2. ReadTo(Header \cup stops, Payload + layout.length,
             Stored(layout.type, layout.stored, BytesAt(Payload, layout.field)))
  BY <1>1 DEF ReadFixed
<1>3. /\ layout.field \in Nat /\ layout.length \in Nat /\ layout.field <= layout.length
      /\ layout.field = 16 => layout.length = 16
  BY DEF FixedLayout
<1>4. BytesAt(Payload, layout.field) = data
  <2>1. start + 12 \in Nat
    BY <1>0
  <2>2. BytesAt(start + 12, Len(data)) = data
    BY <1>0, <2>1, BytesStand
  <2> QED BY <1>0, <2>2
<1>5. start + 12 + layout.length <= Len(file)
  OBVIOUS
<1> HIDE DEF layout
<1>6. InFile(Payload + layout.length) /\ \A s \in Header \cup stops : InFile(s)
  BY <1>0, <1>3, <1>5 DEF InFile
<1> HIDE DEF stops
<1>7. Leave(Payload + layout.length, Stored(layout.type, layout.stored, data))
  BY <1>2, <1>4, <1>6 DEF ReadTo
<1> QED BY <1>0, <1>7 DEF layout

\* A setting with bytes behind its value.
LEMMA FixedIsReadBack ==
  ASSUME TaggedTypeOK, IsReading, ReadBlock,
         NEW b \in Block, b.type \in DOMAIN GeneratedName, b = SettingBlock(b.type, b.data),
         b.type # "UnicodeLayerName", IsSound(b),
         NEW bytes, IsWritten(b, bytes), StandsAt(file, start, bytes)
  PROVE  Leave(start + Len(bytes), <<b>>)
<1>0. start \in Nat /\ file \in Seq(Byte) /\ Len(file) \in Nat
  BY Offsets
<1>1. b.data \in Seq(Byte) /\ b.key \in Keys
  BY DEF Block
<1> DEFINE Behind(n) == /\ RawOf(b) = b.data \o Zeros(n)
                        /\ RawOf(b) \in Seq(Byte)
                        /\ Len(RawOf(b)) = Len(b.data) + n
<1>2. ASSUME NEW n \in Nat, RawOf(b) = b.data \o Zeros(n)
      PROVE  Behind(n)
  <2>1. Zeros(n) \in Seq(Byte) /\ Len(Zeros(n)) = n
    BY ZerosAreBytes
  <2>2. b.data \o Zeros(n) \in Seq(Byte)
    BY <1>1, <2>1, BothAreBytes
  <2>3. Len(b.data \o Zeros(n)) = Len(b.data) + Len(Zeros(n))
    BY <1>1, <2>1, BothAreBytes
  <2> QED BY <1>2, <2>1, <2>2, <2>3
<1>3. ASSUME NEW n \in Nat, Behind(n) PROVE StandsAt(file, start + 12, b.data)
  <2>1. StandsAt(file, start + 12, RawOf(b))
    BY <1>3, SettingIsFound
  <2> DEFINE p == start + 12
             d == b.data
             z == Zeros(n)
  <2>2. p \in Nat /\ d \in Seq(Byte) /\ z \in Seq(Byte) /\ StandsAt(file, p, d \o z)
    BY <1>0, <1>1, <1>3, <2>1, ZerosAreBytes
  <2> HIDE DEF p, d, z
  <2>3. StandsAt(file, p, d)
    BY <1>0, <2>2, PartsStand
  <2> QED BY <2>3 DEF p, d
<1>4. ASSUME NEW key \in DOMAIN FixedLayout, NEW name \in NamesOf(key), key \in Keys,
             GeneratedName[b.type] = name,
             RawOf(b) \in Seq(Byte), StandsAt(file, start + 12, b.data),
             Len(RawOf(b)) = FixedLayout[key].length, Len(b.data) = FixedLayout[key].field,
             FixedLayout[key].type = b.type, FixedLayout[key].stored = b.key
      PROVE  Leave(start + Len(bytes), <<b>>)
  <2>1. /\ IsSigned /\ TextAt(start) = "8BIM" /\ TextAt(start + 4) = name
        /\ Length = Len(RawOf(b)) /\ Len(bytes) = 12 + Len(RawOf(b))
        /\ StandsAt(file, start + 12, RawOf(b))
    BY <1>4, SettingIsFound
  <2>2. Key = key
    BY <1>4, <2>1, KeyOfName
  <2>3. FixedLayout[key].length \in Nat
    BY DEF FixedLayout
  <2>4. start + 12 + FixedLayout[key].length <= Len(file)
    BY <1>0, <1>4, <2>1 DEF StandsAt
  <2>5. Leave(start + 12 + FixedLayout[key].length,
              Stored(FixedLayout[key].type, FixedLayout[key].stored, b.data))
    BY <1>1, <1>4, <2>1, <2>2, <2>4, FixedIsRead
  <2>6. Stored(b.type, b.key, b.data) = <<b>>
    BY <2>1 DEF Stored, SettingBlock
  <2>7. start + 12 + FixedLayout[key].length = start + Len(bytes)
    <3> DEFINE n == FixedLayout[key].length
    <3>1. n \in Nat /\ Len(bytes) = 12 + n
      BY <1>4, <2>1, <2>3
    <3> HIDE DEF n
    <3>2. start + 12 + n = start + Len(bytes)
      BY <1>0, <3>1
    <3> QED BY <3>2 DEF n
  <2> QED BY <1>4, <2>5, <2>6, <2>7
<1>5. CASE b.type = "ReferencePoint"
  <2>1. RawOf(b) = b.data /\ Len(b.data) = 16
    BY <1>5 DEF RawOf, IsSound
  <2>2. StandsAt(file, start + 12, b.data)
    BY <1>1, <2>1, SettingIsFound
  <2>3. /\ "lrReferencePoint" \in DOMAIN FixedLayout
        /\ FixedLayout["lrReferencePoint"].length = 16 /\ FixedLayout["lrReferencePoint"].field = 16
        /\ FixedLayout["lrReferencePoint"].type = "ReferencePoint"
        /\ FixedLayout["lrReferencePoint"].stored = "lrReferencePoint"
    BY DEF FixedLayout
  <2>4. GeneratedName[b.type] = "fxrp" /\ b.key = "lrReferencePoint"
    BY <1>5 DEF GeneratedName, SettingBlock, StoredKey
  <2> QED BY <1>1, <1>4, <1>5, <2>1, <2>2, <2>3, <2>4, NamesOfSettings
<1>6. CASE b.type = "SheetColor"
  <2>1. RawOf(b) = b.data \o Zeros(6) /\ Len(b.data) = 2
    BY <1>6 DEF RawOf, IsSound
  <2>2. Behind(6) /\ StandsAt(file, start + 12, b.data)
    BY <1>2, <1>3, <2>1
  <2>3. /\ "lrSheetColorSetting" \in DOMAIN FixedLayout
        /\ FixedLayout["lrSheetColorSetting"].length = 8
        /\ FixedLayout["lrSheetColorSetting"].field = 2
        /\ FixedLayout["lrSheetColorSetting"].type = "SheetColor"
        /\ FixedLayout["lrSheetColorSetting"].stored = "lrSheetColorSetting"
    BY DEF FixedLayout
  <2>4. GeneratedName[b.type] = "lclr" /\ b.key = "lrSheetColorSetting"
    BY <1>6 DEF GeneratedName, SettingBlock, StoredKey
  <2> QED BY <1>1, <1>4, <1>6, <2>1, <2>2, <2>3, <2>4, NamesOfSettings
<1>7. CASE b.type = "BlendFill"
  <2>1. RawOf(b) = b.data \o Zeros(3) /\ Len(b.data) = 1
    BY <1>7 DEF RawOf, IsSound
  <2>2. Behind(3) /\ StandsAt(file, start + 12, b.data)
    BY <1>2, <1>3, <2>1
  <2>3. /\ "lrBlendFill" \in DOMAIN FixedLayout
        /\ FixedLayout["lrBlendFill"].length = 4 /\ FixedLayout["lrBlendFill"].field = 1
        /\ FixedLayout["lrBlendFill"].type = "BlendFill"
        /\ FixedLayout["lrBlendFill"].stored = "lrSheetColorSetting"
    BY DEF FixedLayout
  <2>4. GeneratedName[b.type] = "iOpa" /\ b.key = "lrSheetColorSetting"
    BY <1>7 DEF GeneratedName, SettingBlock, StoredKey
  <2> QED BY <1>1, <1>4, <1>7, <2>1, <2>2, <2>3, <2>4, NamesOfSettings
<1>8. CASE b.type = "ProtectedSetting"
  <2>1. RawOf(b) = b.data \o Zeros(3) /\ Len(b.data) = 1
    BY <1>8 DEF RawOf, IsSound
  <2>2. Behind(3) /\ StandsAt(file, start + 12, b.data)
    BY <1>2, <1>3, <2>1
  <2>3. /\ "lrProtectedSetting" \in DOMAIN FixedLayout
        /\ FixedLayout["lrProtectedSetting"].length = 4
        /\ FixedLayout["lrProtectedSetting"].field = 1
        /\ FixedLayout["lrProtectedSetting"].type = "ProtectedSetting"
        /\ FixedLayout["lrProtectedSetting"].stored = "lrProtectedSetting"
    BY DEF FixedLayout
  <2>4. GeneratedName[b.type] = "lspf" /\ b.key = "lrProtectedSetting"
    BY <1>8 DEF GeneratedName, SettingBlock, StoredKey
  <2> QED BY <1>1, <1>4, <1>8, <2>1, <2>2, <2>3, <2>4, NamesOfSettings
<1> QED BY <1>5, <1>6, <1>7, <1>8 DEF GeneratedName

\* What stands of a name: how long it is, and its characters with a null behind them.
LEMMA NameStands ==
  ASSUME NEW name \in Seq(Byte), IsName(name), file \in Seq(Byte), NEW p \in Nat,
         StandsAt(file, p, NameWritten(name))
  PROVE  /\ NumberAt(p) = Len(name \o Null) \div 2
         /\ StandsAt(file, p + 4, name \o Null)
         /\ name \o Null \in Seq(Byte) /\ Len(name \o Null) = Len(name) + 2
         /\ NameWritten(name) \in Seq(Byte)
         /\ Len(NameWritten(name)) \in Nat
         /\ RoundUp(4 + Len(name \o Null), 4) \in {Len(NameWritten(name)), Len(NameWritten(name)) + 2}
<1> DEFINE text   == name \o Null
           number == Number(Len(text) \div 2)
           rest   == RoundUp(4 + Len(text), 4) - 4 - Len(text)
           fill   == IF name = <<>> THEN 0 ELSE rest
           front  == number \o text
<1>1. Null \in Seq(Byte) /\ Len(Null) = 2
  BY DataIsByte, TaggedBlocksAssumption DEF Null
<1>2. text \in Seq(Byte)
  BY <1>1, BothAreBytes
<1>3. Len(text) = Len(name) + 2 /\ Len(name) \in Nat /\ Len(file) \in Nat
  <2>1. Len(name \o Null) = Len(name) + Len(Null)
    BY <1>1, BothAreBytes
  <2> QED BY <1>1, <2>1 DEF text
<1>4. NameWritten(name) = front \o Zeros(fill)
  BY DEF NameWritten, rest
<1> HIDE DEF text
<1>5. 4 + Len(text) \in Nat /\ Len(text) \div 2 \in Nat /\ Len(text) \in Nat
  BY <1>3
<1>6. RoundUp(4 + Len(text), 4) \in Nat /\ RoundUp(4 + Len(text), 4) >= 4 + Len(text)
  BY <1>5, RoundUpGrows
<1>7. fill \in Nat /\ RoundUp(4 + Len(text), 4) \in {4 + Len(text) + fill, 4 + Len(text) + fill + 2}
  <2>1. rest \in Nat /\ 4 + Len(text) + rest = RoundUp(4 + Len(text), 4)
    BY <1>5, <1>6
  <2>2. CASE name = <<>>
    <3>1. Len(text) = 2 /\ fill = 0
      BY <1>3, <2>2
    <3>2. RoundUp(4 + Len(text), 4) = 8
      BY <3>1 DEF RoundUp
    <3> QED BY <3>1, <3>2
  <2>3. CASE name # <<>>
    <3>1. fill = rest
      BY <2>3
    <3> HIDE DEF fill, rest
    <3> QED BY <2>1, <3>1
  <2> QED BY <2>2, <2>3
<1> HIDE DEF rest, fill
<1>8. /\ number \in Seq(Byte) /\ Len(number) = 4
      /\ Zeros(fill) \in Seq(Byte) /\ Len(Zeros(fill)) = fill
  BY <1>5, <1>7, FourBytes, ZerosAreBytes
<1> DEFINE behind == Zeros(fill)
<1> HIDE DEF number, behind
<1>9. front \in Seq(Byte)
  BY <1>2, <1>8, BothAreBytes
<1>10. Len(front) = 4 + Len(text)
  <2>1. Len(number \o text) = Len(number) + Len(text)
    BY <1>2, <1>8, BothAreBytes
  <2> QED BY <1>8, <2>1
<1>11. StandsAt(file, p, front) /\ front \o behind \in Seq(Byte)
       /\ Len(front \o behind) = Len(front) + fill
  <2> HIDE DEF front
  <2>1. behind \in Seq(Byte) /\ StandsAt(file, p, front \o behind) /\ Len(behind) = fill
    BY <1>4, <1>8 DEF behind
  <2>2. StandsAt(file, p, front)
    BY <1>3, <1>9, <2>1, PartsStand
  <2>3. front \o behind \in Seq(Byte) /\ Len(front \o behind) = Len(front) + Len(behind)
    BY <1>9, <2>1, BothAreBytes
  <2> QED BY <2>1, <2>2, <2>3
<1>12. StandsAt(file, p, number) /\ StandsAt(file, p + 4, text)
  <2>1. StandsAt(file, p, number \o text)
    BY <1>11
  <2>2. StandsAt(file, p, number) /\ StandsAt(file, p + Len(number), text)
    BY <1>2, <1>3, <1>8, <2>1, PartsStand
  <2> QED BY <1>8, <2>2
<1>13. NumberAt(p) = Len(text) \div 2
  <2> DEFINE n == Len(text) \div 2
  <2>1. n \in Nat /\ StandsAt(file, p, Number(n))
    BY <1>5, <1>12 DEF number
  <2> HIDE DEF n
  <2>2. NumberAt(p) = n
    BY <2>1, NumberStands
  <2> QED BY <2>2 DEF n
<1>14. /\ NameWritten(name) \in Seq(Byte)
       /\ Len(NameWritten(name)) \in Nat
       /\ RoundUp(4 + Len(text), 4) \in {Len(NameWritten(name)), Len(NameWritten(name)) + 2}
  <2>1. NameWritten(name) = front \o behind
    BY <1>4 DEF behind
  <2>2. Len(front \o behind) = 4 + Len(text) + fill
    BY <1>5, <1>7, <1>10, <1>11
  <2>3. Len(NameWritten(name)) = 4 + Len(text) + fill
    BY <2>1, <2>2
  <2>4. NameWritten(name) \in Seq(Byte)
    BY <1>11, <2>1
  <2>5. /\ Len(NameWritten(name)) \in Nat
        /\ RoundUp(4 + Len(text), 4) \in {Len(NameWritten(name)), Len(NameWritten(name)) + 2}
    BY <1>5, <1>7, <2>3
  <2> QED BY <2>4, <2>5
<1> QED BY <1>2, <1>3, <1>12, <1>13, <1>14 DEF text

\* A name without the null behind it.
LEMMA NameEnds ==
  ASSUME NEW name \in Seq(Byte)
  PROVE  Unterminated(name \o Null) = name
<1> DEFINE text == name \o Null
           n    == Len(name)
<1>1. Null \in Seq(Byte) /\ Len(Null) = 2
  BY DataIsByte, TaggedBlocksAssumption DEF Null
<1>0. \A i \in 1..2 : text[n + i] = Null[i]
  <2>3. ASSUME NEW i \in 1..2 PROVE text[n + i] = Null[i]
    <3>1. n + i \in 1..Len(name) + Len(Null) /\ ~(n + i <= Len(name)) /\ (n + i) - Len(name) = i
      BY <1>1
    <3>2. (name \o Null)[n + i] = Null[(n + i) - Len(name)]
      BY <1>1, <3>1, ConcatProperties
    <3> QED BY <3>1, <3>2
  <2> QED BY <2>3
<1>2. text \in Seq(Byte) /\ Len(text) = n + 2 /\ n \in Nat
      /\ \A i \in 1..n : text[i] = name[i]
  <2>1. text \in Seq(Byte) /\ Len(text) = n + 2
    BY <1>1, BothAreBytes
  <2>2. \A i \in 1..n : text[i] = name[i]
    BY <1>1, ConcatProperties
  <2> QED BY <2>1, <2>2
<1> HIDE DEF text
<1>3. name \in Seq(Byte)
  OBVIOUS
<1> HIDE DEF n
<1>4. SubSeq(text, Len(text) - 1, Len(text)) = Null
  <2> DEFINE s == SubSeq(text, n + 1, n + 2)
  <2>1. \A i \in (n + 1)..(n + 2) : text[i] \in Byte
    BY <1>2
  <2>2. /\ s \in Seq(Byte)
        /\ Len(s) = IF n + 1 <= n + 2 THEN (n + 2) - (n + 1) + 1 ELSE 0
        /\ \A i \in 1..(n + 2) - (n + 1) + 1 : s[i] = text[(n + 1) + i - 1]
    BY <1>2, <2>1, SubSeqProperties
  <2> HIDE DEF s
  <2>3. Len(s) = 2
    BY <1>2, <2>2
  <2>4. s[1] = text[n + 1] /\ s[2] = text[n + 2]
    <3>1. 1 \in 1..(n + 2) - (n + 1) + 1 /\ 2 \in 1..(n + 2) - (n + 1) + 1
          /\ (n + 1) + 1 - 1 = n + 1 /\ (n + 1) + 2 - 1 = n + 2
      BY <1>2
    <3> QED BY <2>2, <3>1
  <2>5. \A i \in 1..2 : s[i] = Null[i]
    <3>0. 1 \in 1..2 /\ 2 \in 1..2
      OBVIOUS
    <3>3. text[n + 1] = Null[1] /\ text[n + 2] = Null[2]
      BY <1>0, <3>0, Zenon
    <3>1. s[1] = Null[1] /\ s[2] = Null[2]
      BY <2>4, <3>3
    <3>2. 1..2 = {1, 2}
      OBVIOUS
    <3> QED BY <3>1, <3>2
  <2>6. s = Null
    BY <1>1, <2>2, <2>3, <2>5, SeqEqual
  <2>7. Len(text) - 1 = n + 1 /\ Len(text) = n + 2
    BY <1>2
  <2> QED BY <2>6, <2>7 DEF s
<1>5. SubSeq(text, 1, Len(text) - 2) = name
  <2> DEFINE s == SubSeq(text, 1, n)
  <2>1. \A i \in 1..n : text[i] \in Byte
    BY <1>2
  <2>2. /\ s \in Seq(Byte)
        /\ Len(s) = IF 1 <= n THEN n - 1 + 1 ELSE 0
        /\ \A i \in 1..n - 1 + 1 : s[i] = text[1 + i - 1]
    BY <1>2, <2>1, SubSeqProperties
  <2> HIDE DEF s
  <2>3. Len(s) = n
    BY <1>2, <2>2
  <2>4. \A i \in 1..n : s[i] = name[i]
    <3> SUFFICES ASSUME NEW i \in 1..n PROVE s[i] = name[i]
      OBVIOUS
    <3>1. i \in 1..n - 1 + 1 /\ 1 + i - 1 = i
      BY <1>2
    <3> QED BY <1>2, <2>2, <3>1
  <2>5. s = name
    BY <1>2, <1>3, <2>2, <2>3, <2>4, SeqEqual DEF n
  <2>6. Len(text) - 2 = n
    BY <1>2
  <2> QED BY <2>5, <2>6 DEF s
<1>6. Len(text) >= 2
  BY <1>2
<1> QED BY <1>4, <1>5, <1>6 DEF Unterminated, text

\* The null behind a name is readable as the name is.
LEMMA NameWithNullReadable ==
  ASSUME NEW name \in Seq(Byte), IsName(name)
  PROVE  \A i \in 1..Len(name \o Null) : (name \o Null)[i] # Data("lone")
<1>1. Null \in Seq(Byte) /\ Len(Null) = 2 /\ Null[1] = Data("zero") /\ Null[2] = Data("zero")
  BY DataIsByte, TaggedBlocksAssumption DEF Null
<1>2. Data("zero") # Data("lone")
  BY DEF Data
<1>3. Len(name) \in Nat /\ Len(name \o Null) = Len(name) + 2
  <2>1. Len(name \o Null) = Len(name) + Len(Null)
    BY <1>1, BothAreBytes
  <2> QED BY <1>1, <2>1
<1> SUFFICES ASSUME NEW i \in 1..Len(name) + 2 PROVE (name \o Null)[i] # Data("lone")
  BY <1>3
<1>4. CASE i <= Len(name)
  <2>1. (name \o Null)[i] = name[i] /\ i \in 1..Len(name)
    BY <1>1, <1>3, <1>4, ConcatProperties
  <2> QED BY <2>1 DEF IsName
<1>5. CASE ~(i <= Len(name))
  <2>1. (name \o Null)[i] = Null[i - Len(name)] /\ i - Len(name) \in {1, 2}
    BY <1>1, <1>3, <1>5, ConcatProperties
  <2> QED BY <1>1, <1>2, <2>1
<1> QED BY <1>4, <1>5

\* A name is read as it was written: something is behind it, for the padding
\* that an empty one does not have.
LEMMA NameIsReadBack ==
  ASSUME TaggedTypeOK, IsReading, section.padding = 1, ReadBlock,
         NEW b \in Block, b.type = "UnicodeLayerName", b = SettingBlock(b.type, b.data),
         IsSound(b), NEW bytes, IsWritten(b, bytes), StandsAt(file, start, bytes),
         InFile(start + Len(bytes) + 2)
  PROVE  Leave(start + Len(bytes), <<b>>)
<1>0. start \in Nat /\ file \in Seq(Byte) /\ Len(file) \in Nat /\ Payload = start + 12
      /\ Header = {start + 4, start + 8, start + 12}
  BY Offsets
<1> DEFINE name == b.data
           text == name \o Null
           raw  == NameWritten(name)
<1>1. name \in Seq(Byte) /\ IsName(name)
  BY DEF Block, IsSound
<1>2. RawOf(b) = raw /\ raw \in Seq(Byte)
  BY <1>1, NameWrittenIsBytes DEF RawOf
<1>3. b.type \in DOMAIN GeneratedName /\ GeneratedName[b.type] = "luni" /\ b.key = "lrUnicodeName"
  BY DEF GeneratedName, SettingBlock, StoredKey
<1>4. /\ IsSigned /\ TextAt(start) = "8BIM" /\ TextAt(start + 4) = "luni"
      /\ Length = Len(raw) /\ Len(bytes) = 12 + Len(raw)
      /\ StandsAt(file, start + 12, raw)
  BY <1>2, <1>3, SettingIsFound
<1> HIDE DEF name
<1>5. /\ NumberAt(Payload) = Len(text) \div 2
      /\ StandsAt(file, Payload + 4, text)
      /\ text \in Seq(Byte) /\ Len(text) = Len(name) + 2
      /\ RoundUp(4 + Len(text), 4) \in {Len(raw), Len(raw) + 2}
  BY <1>0, <1>1, <1>4, NameStands
<1>6. /\ \A i \in 1..Len(text) : text[i] # Data("lone")
      /\ Unterminated(text) = name
  BY <1>1, NameEnds, NameWithNullReadable
<1>7. Len(name) \in Nat /\ Len(name) % 2 = 0
  BY <1>1 DEF IsName
<1> HIDE DEF text, raw
<1>8. NameLength = Len(text) /\ Len(text) \in Nat
  <2>1. 2 * ((Len(name) + 2) \div 2) = Len(name) + 2
    BY <1>7
  <2> QED BY <1>5, <1>7, <2>1 DEF NameLength
<1>9. BytesAt(Payload + 4, Len(text)) = text /\ InFile(Payload + 4 + Len(text))
  <2> DEFINE p == Payload + 4
  <2>1. p \in Nat /\ StandsAt(file, p, text)
    BY <1>0, <1>5
  <2> HIDE DEF p
  <2>2. BytesAt(p, Len(text)) = text /\ InFile(p + Len(text))
    BY <1>0, <1>5, <2>1, BytesStand
  <2> QED BY <2>2 DEF p
<1>10. NameIsReadable
  BY <1>6, <1>8, <1>9 DEF NameIsReadable
<1>11. Key = "lrUnicodeName"
  BY <1>4, KeyOfName, NamesOfSettings
<1>12. ReadName
  <2>1. ReadName \/ RefuseName
    BY <1>4, <1>11, ReaderByKey DEF IsReading
  <2>2. ~RefuseName
    BY <1>10 DEF RefuseName
  <2> QED BY <2>1, <2>2
<1>13. RoundUp(4 + NameLength, 4) \in {Len(raw), Len(raw) + 2}
  BY <1>5, <1>8
<1>14. Len(raw) \in Nat
  BY <1>2 DEF raw
<1>15. RoundUp(Length, section.padding) = Len(raw)
  BY <1>4, <1>14 DEF RoundUp
<1> DEFINE stops == NameStops \cup {Payload + RoundUp(4 + NameLength, 4)}
<1>16. ReadTo(stops, Payload + Len(raw), Stored("UnicodeLayerName", Key, name))
  BY <1>6, <1>8, <1>9, <1>12, <1>15 DEF ReadName
<1>17. start + 12 + Len(raw) <= Len(file)
  BY <1>4 DEF StandsAt
<1>18. \A s \in stops : InFile(s)
  <2> DEFINE last == RoundUp(4 + NameLength, 4)
  <2>1. stops = {start + 4, start + 8, start + 12, Payload + 4, Payload + 4 + Len(text),
                 Payload + last}
    BY <1>0, <1>8 DEF NameStops
  <2>2. InFile(start + 4) /\ InFile(start + 8) /\ InFile(start + 12)
    BY <1>0, <1>14, <1>17 DEF InFile
  <2>3. InFile(Payload + 4)
    BY <1>0, <1>8, <1>9 DEF InFile
  <2>4. last \in {Len(raw), Len(raw) + 2}
    BY <1>13
  <2> HIDE DEF stops, last
  <2>5. InFile(Payload + last)
    <3>1. InFile(start + (12 + Len(raw)) + 2)
      BY <1>4
    <3> QED BY <1>0, <1>14, <1>17, <2>4, <3>1 DEF InFile
  <2> QED BY <1>9, <2>1, <2>2, <2>3, <2>5
<1>19. InFile(Payload + Len(raw))
  BY <1>0, <1>17 DEF InFile
<1> HIDE DEF stops
<1>20. Leave(Payload + Len(raw), Stored("UnicodeLayerName", Key, name))
  BY <1>16, <1>18, <1>19 DEF ReadTo
<1>21. Stored("UnicodeLayerName", Key, name) = <<b>>
  BY <1>3, <1>4, <1>11 DEF Stored, SettingBlock, name
<1>22. Payload + Len(raw) = start + Len(bytes)
  BY <1>0, <1>4, <1>14
<1> QED BY <1>20, <1>21, <1>22

\* Whatever a layer keeps is read as it was written.
LEMMA KeptIsReadBack ==
  ASSUME TaggedTypeOK, IsReading, section.padding = 1, ReadBlock,
         NEW b, IsKept(b), NEW bytes, IsWritten(b, bytes), StandsAt(file, start, bytes),
         b.type = "UnicodeLayerName" => InFile(start + Len(bytes) + 2)
  PROVE  Leave(start + Len(bytes), <<b>>)
<1>1. b \in Block /\ IsSound(b)
  BY DEF IsKept
<1>2. CASE b.type = "Base"
  BY <1>1, <1>2, BaseIsReadBack
<1>3. CASE b.type # "Base"
  <2>1. b.type \in DOMAIN GeneratedName /\ b = SettingBlock(b.type, b.data)
    BY <1>3 DEF IsKept
  <2>2. CASE b.type = "UnicodeLayerName"
    BY <1>1, <2>1, <2>2, NameIsReadBack
  <2>3. CASE b.type # "UnicodeLayerName"
    BY <1>1, <2>1, <2>3, FixedIsReadBack
  <2> QED BY <2>2, <2>3
<1> QED BY <1>2, <1>3

-----------------------------------------------------------------------------
(* What a reader stores is sound.                                           *)

\* What a turn leaves of the blocks that were stored.
StoresSound == storage' = storage \/ \E b : IsSound(b) /\ storage' = storage \o <<b>>

\* An exception stores nothing.
LEMMA ThrowStores ==
  ASSUME TaggedTypeOK, NEW stops, Throw(stops)
  PROVE  StoresSound
<1>1. storage' = storage \o <<>>
  BY DEF Throw, Leave
<1>2. storage \o <<>> = storage
  BY ConcatEmptySeq DEF TaggedTypeOK
<1> QED BY <1>1, <1>2 DEF StoresSound

\* A reader stores one block, if all of its stops are in the file.
LEMMA ReadToStores ==
  ASSUME TaggedTypeOK, NEW stops, NEW end, NEW type, NEW key, NEW data,
         ReadTo(stops, end, Stored(type, key, data)),
         (\A s \in stops : InFile(s)) =>
           IsSound([type |-> type, key |-> key, signature |-> TextAt(start), data |-> data])
  PROVE  StoresSound
<1>1. CASE InFile(end) /\ \A s \in stops : InFile(s)
  <2>1. storage' = storage \o Stored(type, key, data)
    BY <1>1 DEF ReadTo, Leave
  <2> QED BY <1>1, <2>1 DEF Stored, StoresSound
<1>2. CASE ~(InFile(end) /\ \A s \in stops : InFile(s))
  BY <1>2, ThrowStores DEF ReadTo
<1> QED BY <1>1, <1>2

\* Types a layer keeps nothing of are sound.
LEMMA OthersAreSound ==
  ASSUME NEW type \in {"TypeTool", "LrSection", "PlacedLayer", "PlacedLayerData", "LinkedLayer"},
         NEW key, NEW signature, NEW data
  PROVE  IsSound([type |-> type, key |-> key, signature |-> signature, data |-> data])
BY DEF IsSound

\* How many bytes are read.
LEMMA BytesRead ==
  ASSUME file \in Seq(Byte), NEW p \in Nat, NEW n \in Nat, InFile(p + n)
  PROVE  BytesAt(p, n) \in Seq(Byte) /\ Len(BytesAt(p, n)) = n
<1>1. Len(file) \in Nat /\ p + n <= Len(file)
  BY DEF InFile
<1>2. \A i \in (p + 1)..(p + n) : file[i] \in Byte
  BY <1>1
<1>3. /\ SubSeq(file, p + 1, p + n) \in Seq(Byte)
      /\ Len(SubSeq(file, p + 1, p + n))
           = IF p + 1 <= p + n THEN (p + n) - (p + 1) + 1 ELSE 0
  BY <1>1, <1>2, SubSeqProperties
<1>4. Len(SubSeq(file, p + 1, p + n)) = n
  BY <1>3
<1> QED BY <1>3, <1>4 DEF BytesAt

\* A base block has the key and the signature it was read with.
LEMMA BaseStores == TaggedTypeOK /\ ReadBase => StoresSound
<1> SUFFICES ASSUME TaggedTypeOK, ReadBase PROVE StoresSound
  OBVIOUS
<1> DEFINE marker == IF IsTaggedBlockSizeUint64(Key) /\ section.wide THEN 8 ELSE 4
           body   == start + 8 + marker
           length == RoundUp(LengthAt(start + 8, marker), section.padding)
           type   == IF Key = "lrTypeTool" THEN "TypeTool" ELSE "Base"
           data   == BytesAt(body, length)
           stops  == {start + 4, start + 8, body, body + length}
<1>1. ReadTo(stops, body + length, Stored(type, Key, data))
  BY DEF ReadBase
<1>2. TextAt(start) \in {"8BIM", "8B64"} /\ Key \in BaseKeys
  BY DEF ReadBase, IsSigned
<1> HIDE DEF marker, body, length, data, stops
<1>3. IsSound([type |-> type, key |-> Key, signature |-> TextAt(start), data |-> data])
  BY <1>2 DEF IsSound
<1> HIDE DEF type
<1> QED BY <1>1, <1>3, ReadToStores

\* A setting of one length has the bytes of its value.
LEMMA FixedStores == TaggedTypeOK /\ ReadFixed => StoresSound
<1> SUFFICES ASSUME TaggedTypeOK, ReadFixed PROVE StoresSound
  OBVIOUS
<1> DEFINE layout == FixedLayout[Key]
           stops  == {Payload + layout.field, Payload + layout.length}
                       \cup (IF layout.field = 16 THEN {Payload + 8} ELSE {})
           data   == BytesAt(Payload, layout.field)
<1>1. /\ ReadTo(Header \cup stops, Payload + layout.length, Stored(layout.type, layout.stored, data))
      /\ IsReading /\ Key \in DOMAIN FixedLayout
  BY DEF ReadFixed
<1>2. /\ layout.field \in Nat
      /\ layout.type \in {"ReferencePoint", "SheetColor", "BlendFill", "ProtectedSetting"}
      /\ layout.type = "ReferencePoint" => layout.field = 16
      /\ layout.type = "SheetColor" => layout.field = 2
      /\ layout.type \in {"ProtectedSetting", "BlendFill"} => layout.field = 1
  BY <1>1 DEF FixedLayout
<1>3. file \in Seq(Byte) /\ Payload \in Nat
  BY <1>1, Offsets
<1>4. Payload + layout.field \in Header \cup stops
  OBVIOUS
<1> HIDE DEF stops, layout
<1>5. ASSUME \A s \in Header \cup stops : InFile(s) PROVE Len(data) = layout.field
  BY <1>2, <1>3, <1>4, <1>5, BytesRead
<1> HIDE DEF data
<1>6. ASSUME \A s \in Header \cup stops : InFile(s)
      PROVE  IsSound([type |-> layout.type, key |-> layout.stored, signature |-> TextAt(start),
                      data |-> data])
  BY <1>2, <1>5, <1>6 DEF IsSound
<1> DEFINE all == Header \cup stops
           end == Payload + layout.length
           type == layout.type
           key == layout.stored
<1>7. /\ ReadTo(all, end, Stored(type, key, data))
      /\ (\A s \in all : InFile(s)) =>
           IsSound([type |-> type, key |-> key, signature |-> TextAt(start), data |-> data])
  BY <1>1, <1>6
<1> HIDE DEF all, end, type, key
<1> QED BY <1>7, ReadToStores

\* A protection of another length is stored as unlocked.
LEMMA ProtectedStores == TaggedTypeOK /\ SkipProtected => StoresSound
<1> SUFFICES ASSUME TaggedTypeOK, SkipProtected PROVE StoresSound
  OBVIOUS
<1> DEFINE data == <<Data("zero")>>
           end  == start + 4 + Length
<1>1. ReadTo(Header, end, Stored("ProtectedSetting", Key, data))
  BY DEF SkipProtected
<1>2. Len(data) = 1
  OBVIOUS
<1> HIDE DEF data, end
<1>3. IsSound([type |-> "ProtectedSetting", key |-> Key, signature |-> TextAt(start), data |-> data])
  BY <1>2 DEF IsSound
<1> QED BY <1>1, <1>3, ReadToStores

\* A name without its nulls is still one.
LEMMA UnterminatedIsName ==
  ASSUME NEW text \in Seq(Byte), IsName(text)
  PROVE  IsName(Unterminated(text))
<1>1. CASE Len(text) >= 2
  <2> DEFINE s == SubSeq(text, 1, Len(text) - 2)
             n == Len(text) - 2
  <2>1. n \in Nat /\ Len(text) \in Nat /\ Len(text) % 2 = 0
    BY <1>1 DEF IsName
  <2>2. \A i \in 1..n : text[i] \in Byte
    BY <2>1
  <2>3. /\ s \in Seq(Byte)
        /\ Len(s) = IF 1 <= n THEN n - 1 + 1 ELSE 0
        /\ \A i \in 1..n - 1 + 1 : s[i] = text[1 + i - 1]
    BY <2>1, <2>2, SubSeqProperties
  <2>4. n % 2 = 0
    BY <2>1
  <2>8. n <= Len(text)
    BY <2>1
  <2> HIDE DEF s, n
  <2>5. Len(s) = n
    BY <2>1, <2>3
  <2>6. ASSUME NEW i \in 1..n PROVE s[i] # Data("lone")
    <3>1. i \in 1..n - 1 + 1 /\ 1 + i - 1 = i /\ i \in 1..Len(text)
      BY <2>1, <2>8
    <3>2. s[i] = text[i]
      BY <2>3, <3>1
    <3> QED BY <3>1, <3>2 DEF IsName
  <2>7. IsName(s)
    BY <2>4, <2>5, <2>6 DEF IsName
  <2> QED BY <2>7 DEF Unterminated, s
<1>2. CASE ~(Len(text) >= 2)
  BY <1>2 DEF Unterminated
<1> QED BY <1>1, <1>2

\* A name is read that has whole characters, and no half of a pair.
LEMMA NameStores == TaggedTypeOK /\ ReadName => StoresSound
<1> SUFFICES ASSUME TaggedTypeOK, ReadName PROVE StoresSound
  OBVIOUS
<1> DEFINE stops == NameStops \cup {Payload + RoundUp(4 + NameLength, 4)}
           end   == Payload + RoundUp(Length, section.padding)
           text  == BytesAt(Payload + 4, NameLength)
           data  == Unterminated(text)
<1>1. /\ ReadTo(stops, end, Stored("UnicodeLayerName", Key, data))
      /\ IsReading
      /\ InFile(Payload + 4 + NameLength) => NameIsReadable
  BY DEF ReadName
<1>2. start \in Nat /\ Payload = start + 12 /\ NameLength \in Nat /\ file \in Seq(Byte)
  BY <1>1, NameOffsets, Offsets
<1>3. Payload + 4 + NameLength \in stops
  BY DEF NameStops
<1>4. NameLength % 2 = 0
  <2>1. Payload \in Nat
    BY <1>2
  <2>2. NumberAt(Payload) \in Nat
    BY <1>2, <2>1, WordsAt
  <2> QED BY <2>2 DEF NameLength
<1>5. ASSUME \A s \in stops : InFile(s)
      PROVE  IsSound([type |-> "UnicodeLayerName", key |-> Key, signature |-> TextAt(start),
                      data |-> data])
  <2>1. InFile(Payload + 4 + NameLength)
    BY <1>3, <1>5
  <2>2. Payload + 4 \in Nat
    BY <1>2
  <2>3. text \in Seq(Byte) /\ Len(text) = NameLength
    BY <1>2, <2>1, <2>2, BytesRead
  <2>4. \A i \in 1..NameLength : text[i] # Data("lone")
    BY <1>1, <2>1 DEF NameIsReadable
  <2> HIDE DEF text
  <2>5. IsName(text)
    BY <1>4, <2>3, <2>4 DEF IsName
  <2>6. IsName(data)
    BY <2>3, <2>5, UnterminatedIsName
  <2> HIDE DEF data
  <2> QED BY <2>6 DEF IsSound
<1> HIDE DEF stops, end, data
<1> QED BY <1>1, <1>5, ReadToStores

\* Whatever is read, a sound block is stored or none.
LEMMA ReadBlockStores ==
  ASSUME TaggedTypeOK, ReadBlock
  PROVE  StoresSound
<1>1. CASE BadSignature \/ SkipUnknown \/ RefuseDivider \/ RefuseFixed \/ RefuseName
           \/ RefusePlaced \/ RefuseItem
  <2>1. \E stops : Throw(stops)
    BY <1>1 DEF BadSignature, SkipUnknown, RefuseDivider, RefuseFixed, RefuseName, RefusePlaced,
                RefuseItem
  <2> QED BY <2>1, ThrowStores
<1>2. CASE ReadBase
  BY <1>2, BaseStores
<1>3. CASE ReadDivider
  <2>1. PICK stops, end, data : ReadTo(stops, end, Stored("LrSection", Key, data))
    BY <1>3 DEF ReadDivider
  <2> QED BY <2>1, OthersAreSound, ReadToStores
<1>4. CASE ReadFixed
  BY <1>4, FixedStores
<1>5. CASE SkipProtected
  BY <1>5, ProtectedStores
<1>6. CASE ReadName
  BY <1>6, NameStores
<1>7. CASE ReadPlaced
  <2> DEFINE type == IF Key = "lrPlaced" THEN "PlacedLayer" ELSE "PlacedLayerData"
  <2>1. PICK stops, end, data : ReadTo(stops, end, Stored(type, Key, data))
    BY <1>7 DEF ReadPlaced
  <2>2. type \in {"PlacedLayer", "PlacedLayerData"}
    OBVIOUS
  <2> HIDE DEF type
  <2> QED BY <2>1, <2>2, OthersAreSound, ReadToStores
<1>8. CASE BeginLinked
  <2>1. storage' = storage \/ \E stops : Throw(stops)
    BY <1>8 DEF BeginLinked
  <2> QED BY <2>1, ThrowStores DEF StoresSound
<1>9. CASE ReadItem
  <2>1. storage' = storage \/ \E stops : Throw(stops)
    BY <1>9 DEF ReadItem
  <2> QED BY <2>1, ThrowStores DEF StoresSound
<1>10. CASE EndLinked
  <2>1. CASE InFile(linked.end)
    <3>1. storage' = storage \o Stored("LinkedLayer", linked.key, linked.data)
      BY <1>10, <2>1 DEF EndLinked, Leave
    <3> QED BY <3>1, OthersAreSound DEF Stored, StoresSound
  <2>2. CASE ~InFile(linked.end)
    BY <1>10, <2>2, ThrowStores DEF EndLinked
  <2> QED BY <2>1, <2>2
<1> QED BY <1>1, <1>2, <1>3, <1>4, <1>5, <1>6, <1>7, <1>8, <1>9, <1>10 DEF ReadBlock

-----------------------------------------------------------------------------
(* The blocks of a layer, one behind the other.                             *)

\* The blocks that a layer writes.
GeneratedBlocks(l) ==
  (IF l.reference = <<>> THEN <<>> ELSE <<SettingBlock("ReferencePoint", l.reference)>>)
    \o <<SettingBlock("UnicodeLayerName", l.name), SettingBlock("ProtectedSetting", l.locked),
         SettingBlock("SheetColor", l.color), SettingBlock("BlendFill", l.fill)>>

\* All the blocks that a layer writes, those it passes along first.
BlocksOf(l) == l.unparsed \o GeneratedBlocks(l)

\* The settings that blocks can hold, and unparsed blocks that nobody parses.
IsSoundLayer(l) ==
  /\ l \in Settings
  /\ \A k \in 1..Len(l.unparsed) : l.unparsed[k].type = "Base" /\ IsSound(l.unparsed[k])
  /\ l.reference = <<>> \/ Len(l.reference) = 16
  /\ IsName(l.name) /\ Len(l.locked) = 1 /\ Len(l.color) = 2 /\ Len(l.fill) = 1

\* A setting that a layer writes is a block it keeps.
LEMMA SettingIsKept ==
  ASSUME NEW type \in DOMAIN GeneratedName, NEW data \in Seq(Byte),
         IsSound(SettingBlock(type, data))
  PROVE  IsKept(SettingBlock(type, data)) /\ SettingBlock(type, data) \in Block
<1> DEFINE b == SettingBlock(type, data)
<1>1. type \in BlockTypes /\ StoredKey[type] \in Keys
  BY NamesOfSettings DEF GeneratedName, BlockTypes, StoredKey
<1>2. "8BIM" \in Texts
  BY TaggedBlocksAssumption
<1>3. b \in Block
  BY <1>1, <1>2 DEF Block, SettingBlock
<1>4. b.type = type /\ b.data = data
  BY DEF SettingBlock
<1> HIDE DEF b
<1>5. b.type \in DOMAIN GeneratedName /\ b = SettingBlock(b.type, b.data)
  BY <1>4 DEF b
<1>6. IsSound(b)
  BY DEF b
<1> QED BY <1>3, <1>5, <1>6 DEF IsKept, b

\* The settings of a sound layer are sound.
LEMMA SettingsAreKept ==
  ASSUME NEW l, IsSoundLayer(l)
  PROVE  /\ IsKept(SettingBlock("UnicodeLayerName", l.name))
         /\ IsKept(SettingBlock("ProtectedSetting", l.locked))
         /\ IsKept(SettingBlock("SheetColor", l.color))
         /\ IsKept(SettingBlock("BlendFill", l.fill))
         /\ l.reference # <<>> => IsKept(SettingBlock("ReferencePoint", l.reference))
<1>1. /\ l.name \in Seq(Byte) /\ l.locked \in Seq(Byte) /\ l.color \in Seq(Byte)
      /\ l.fill \in Seq(Byte) /\ l.reference \in Seq(Byte)
  BY DEF IsSoundLayer, Settings
<1>2. IsSound(SettingBlock("UnicodeLayerName", l.name))
  BY DEF IsSoundLayer, IsSound, SettingBlock
<1>3. IsSound(SettingBlock("ProtectedSetting", l.locked))
  BY DEF IsSoundLayer, IsSound, SettingBlock
<1>4. IsSound(SettingBlock("SheetColor", l.color))
  BY DEF IsSoundLayer, IsSound, SettingBlock
<1>5. IsSound(SettingBlock("BlendFill", l.fill))
  BY DEF IsSoundLayer, IsSound, SettingBlock
<1>6. l.reference # <<>> => IsSound(SettingBlock("ReferencePoint", l.reference))
  BY DEF IsSoundLayer, IsSound, SettingBlock
<1>7. {"UnicodeLayerName", "ProtectedSetting", "SheetColor", "BlendFill", "ReferencePoint"}
        \subseteq DOMAIN GeneratedName
  BY DEF GeneratedName
<1> QED BY <1>1, <1>2, <1>3, <1>4, <1>5, <1>6, <1>7, SettingIsKept

\* How many of the settings have a place in front of the name.
References(l) == IF l.reference = <<>> THEN 0 ELSE 1

\* Which block stands where.
LEMMA BlocksAre ==
  ASSUME NEW l, IsSoundLayer(l)
  PROVE  LET n == Len(l.unparsed)
             r == References(l)
             b == BlocksOf(l)
         IN  /\ n \in Nat /\ r \in {0, 1} /\ b \in Seq(Block) /\ Len(b) = n + r + 4
             /\ \A k \in 1..n : b[k] = l.unparsed[k]
             /\ r = 1 => b[n + 1] = SettingBlock("ReferencePoint", l.reference)
             /\ b[n + r + 1] = SettingBlock("UnicodeLayerName", l.name)
             /\ b[n + r + 2] = SettingBlock("ProtectedSetting", l.locked)
             /\ b[n + r + 3] = SettingBlock("SheetColor", l.color)
             /\ b[n + r + 4] = SettingBlock("BlendFill", l.fill)
<1> DEFINE n == Len(l.unparsed)
           r == References(l)
           u == l.unparsed
           g == GeneratedBlocks(l)
           s0 == SettingBlock("ReferencePoint", l.reference)
           s1 == SettingBlock("UnicodeLayerName", l.name)
           s2 == SettingBlock("ProtectedSetting", l.locked)
           s3 == SettingBlock("SheetColor", l.color)
           s4 == SettingBlock("BlendFill", l.fill)
<1>1. u \in Seq(Block)
  BY DEF IsSoundLayer, Settings
<1>2. /\ s1 \in Block /\ s2 \in Block /\ s3 \in Block /\ s4 \in Block
      /\ l.reference # <<>> => s0 \in Block
  BY SettingsAreKept DEF IsKept
<1>3. r \in {0, 1}
  BY DEF References
<1> HIDE DEF s0, s1, s2, s3, s4
<1>4. g = IF l.reference = <<>> THEN <<s1, s2, s3, s4>> ELSE <<s0, s1, s2, s3, s4>>
  <2>1. g = (IF l.reference = <<>> THEN <<>> ELSE <<s0>>) \o <<s1, s2, s3, s4>>
    BY DEF GeneratedBlocks, s0, s1, s2, s3, s4
  <2>2. CASE l.reference = <<>>
    <3>1. g = <<>> \o <<s1, s2, s3, s4>>
      BY <2>1, <2>2
    <3>2. <<s1, s2, s3, s4>> \in Seq(Block)
      BY <1>2
    <3> QED BY <2>2, <3>1, <3>2, ConcatEmptySeq
  <2>3. CASE l.reference # <<>>
    <3>1. g = <<s0>> \o <<s1, s2, s3, s4>>
      BY <2>1, <2>3
    <3>2. <<s0>> \o <<s1, s2, s3, s4>> = <<s0, s1, s2, s3, s4>>
      <4> DEFINE e == <<s0>>
                 f == <<s1, s2, s3, s4>>
                 t == <<s0, s1, s2, s3, s4>>
      <4>1. e \in Seq(Block) /\ f \in Seq(Block) /\ t \in Seq(Block)
            /\ Len(e) = 1 /\ Len(f) = 4 /\ Len(t) = 5
        BY <1>2, <2>3
      <4>2. /\ e[1] = s0 /\ f[1] = s1 /\ f[2] = s2 /\ f[3] = s3 /\ f[4] = s4
            /\ t[1] = s0 /\ t[2] = s1 /\ t[3] = s2 /\ t[4] = s3 /\ t[5] = s4
        OBVIOUS
      <4> HIDE DEF e, f, t
      <4>3. e \o f \in Seq(Block)
        BY <4>1, ConcatProperties
      <4>4. Len(e \o f) = Len(e) + Len(f)
        BY <4>1, ConcatProperties
      <4>5. Len(e \o f) = 5
        BY <4>1, <4>4
      <4>6. ASSUME NEW i \in 1..5 PROVE (e \o f)[i] = t[i]
        <5>1. i \in 1..Len(e) + Len(f)
          BY <4>1
        <5>4. (e \o f)[i] = IF i <= Len(e) THEN e[i] ELSE f[i - Len(e)]
          BY <4>1, <5>1, ConcatProperties
        <5>2. (e \o f)[i] = IF i <= 1 THEN e[i] ELSE f[i - 1]
          BY <4>1, <5>4
        <5>3. i \in {1, 2, 3, 4, 5}
          OBVIOUS
        <5> QED BY <4>2, <5>2, <5>3
      <4>7. e \o f = t
        BY <4>1, <4>3, <4>5, <4>6, SeqEqual
      <4> QED BY <4>7 DEF e, f, t
    <3> QED BY <2>3, <3>1, <3>2
  <2> QED BY <2>2, <2>3
<1>5. /\ g \in Seq(Block) /\ Len(g) = r + 4
      /\ r = 1 => g[1] = s0
      /\ g[r + 1] = s1 /\ g[r + 2] = s2 /\ g[r + 3] = s3 /\ g[r + 4] = s4
  <2>1. CASE l.reference = <<>>
    BY <1>2, <1>4, <2>1 DEF References
  <2>2. CASE l.reference # <<>>
    BY <1>2, <1>4, <2>2 DEF References
  <2> QED BY <2>1, <2>2
<1> HIDE DEF g, r
<1>6. n \in Nat /\ n = Len(u)
  BY <1>1
<1> DEFINE b == u \o g
<1>7. /\ b \in Seq(Block) /\ Len(b) = Len(u) + Len(g)
      /\ \A k \in 1..Len(u) + Len(g) : b[k] = IF k <= Len(u) THEN u[k] ELSE g[k - Len(u)]
  BY <1>1, <1>5, ConcatProperties
<1>8. b = BlocksOf(l)
  BY DEF BlocksOf, g
<1> HIDE DEF b, u, n
<1>9. Len(b) = n + r + 4 /\ \A k \in 1..n : b[k] = u[k]
  BY <1>3, <1>5, <1>6, <1>7
<1>10. ASSUME NEW k \in 1..(r + 4) PROVE b[n + k] = g[k]
  <2>1. n + k \in 1..Len(u) + Len(g) /\ ~(n + k <= Len(u)) /\ (n + k) - Len(u) = k
    BY <1>3, <1>5, <1>6
  <2> QED BY <1>7, <2>1
<1>11. /\ r = 1 => b[n + 1] = s0
       /\ b[n + r + 1] = s1 /\ b[n + r + 2] = s2 /\ b[n + r + 3] = s3 /\ b[n + r + 4] = s4
  <2>1. r + 1 \in 1..(r + 4) /\ r + 2 \in 1..(r + 4) /\ r + 3 \in 1..(r + 4)
        /\ r + 4 \in 1..(r + 4) /\ 1 \in 1..(r + 4)
    BY <1>3
  <2>2. /\ b[n + 1] = g[1] /\ b[n + (r + 1)] = g[r + 1] /\ b[n + (r + 2)] = g[r + 2]
        /\ b[n + (r + 3)] = g[r + 3] /\ b[n + (r + 4)] = g[r + 4]
    BY <1>10, <2>1
  <2>3. /\ n + (r + 1) = n + r + 1 /\ n + (r + 2) = n + r + 2
        /\ n + (r + 3) = n + r + 3 /\ n + (r + 4) = n + r + 4
    BY <1>3, <1>6
  <2> QED BY <1>5, <2>2, <2>3
<1> QED BY <1>3, <1>6, <1>7, <1>8, <1>9, <1>11 DEF n, u, r, s0, s1, s2, s3, s4

\* All of them are blocks that are read as they are written.
LEMMA BlocksAreKept ==
  ASSUME NEW l, IsSoundLayer(l), NEW k \in 1..Len(BlocksOf(l))
  PROVE  IsKept(BlocksOf(l)[k])
<1> DEFINE n == Len(l.unparsed)
           r == References(l)
           b == BlocksOf(l)
<1>1. /\ n \in Nat /\ r \in {0, 1} /\ b \in Seq(Block) /\ Len(b) = n + r + 4
      /\ \A i \in 1..n : b[i] = l.unparsed[i]
      /\ r = 1 => b[n + 1] = SettingBlock("ReferencePoint", l.reference)
      /\ b[n + r + 1] = SettingBlock("UnicodeLayerName", l.name)
      /\ b[n + r + 2] = SettingBlock("ProtectedSetting", l.locked)
      /\ b[n + r + 3] = SettingBlock("SheetColor", l.color)
      /\ b[n + r + 4] = SettingBlock("BlendFill", l.fill)
  BY BlocksAre
<1>2. r = 1 => l.reference # <<>>
  BY DEF References
<1> HIDE DEF n, r, b
<1>3. k \in 1..Len(b)
  BY DEF b
<1>4. k \in 1..n \/ (r = 1 /\ k = n + 1) \/ k = n + r + 1 \/ k = n + r + 2 \/ k = n + r + 3
      \/ k = n + r + 4
  <2>1. n \in Nat /\ r \in {0, 1} /\ k \in 1..(n + r + 4)
    BY <1>1, <1>3
  <2> QED BY <2>1
<1>5. CASE k \in 1..n
  <2>1. b[k] = l.unparsed[k] /\ b[k] \in Block
    BY <1>1, <1>3, <1>5
  <2>2. b[k].type = "Base" /\ IsSound(b[k])
    BY <1>5, <2>1 DEF n, IsSoundLayer
  <2> QED BY <2>1, <2>2 DEF IsKept, b
<1>6. CASE k \notin 1..n
  <2>1. /\ IsKept(SettingBlock("UnicodeLayerName", l.name))
        /\ IsKept(SettingBlock("ProtectedSetting", l.locked))
        /\ IsKept(SettingBlock("SheetColor", l.color))
        /\ IsKept(SettingBlock("BlendFill", l.fill))
        /\ r = 1 => IsKept(SettingBlock("ReferencePoint", l.reference))
    BY <1>2, SettingsAreKept
  <2>2. CASE r = 1 /\ k = n + 1
    BY <1>1, <2>1, <2>2 DEF b
  <2>3. CASE k = n + r + 1
    BY <1>1, <2>1, <2>3 DEF b
  <2>4. CASE k = n + r + 2
    BY <1>1, <2>1, <2>4 DEF b
  <2>5. CASE k = n + r + 3
    BY <1>1, <2>1, <2>5 DEF b
  <2>6. CASE k = n + r + 4
    BY <1>1, <2>1, <2>6 DEF b
  <2> QED BY <1>4, <1>6, <2>2, <2>3, <2>4, <2>5, <2>6
<1> QED BY <1>5, <1>6

\* What a block is written as has at least a signature, a name and a length.
LEMMA KeptIsBytes ==
  ASSUME NEW b, IsKept(b), NEW wide, NEW bytes, WrittenFor(b, bytes, wide)
  PROVE  bytes \in Seq(Byte) /\ Len(bytes) \in Nat /\ Len(bytes) >= 12
<1> DEFINE raw == RawOf(b)
<1>1. b.data \in Seq(Byte) /\ b.signature \in Texts
  BY DEF IsKept, Block
<1>2. raw \in Seq(Byte)
  <2>1. Zeros(3) \in Seq(Byte) /\ Zeros(6) \in Seq(Byte)
    BY ZerosAreBytes
  <2>2. b.data \o Zeros(3) \in Seq(Byte)
    BY <1>1, <2>1, BothAreBytes
  <2>3. b.data \o Zeros(6) \in Seq(Byte)
    BY <1>1, <2>1, BothAreBytes
  <2>4. NameWritten(b.data) \in Seq(Byte)
    BY <1>1, NameWrittenIsBytes
  <2> QED BY <1>1, <2>2, <2>3, <2>4 DEF RawOf
<1>3. PICK name \in NamesFor(b) : bytes = Written(b.signature, name, WideFor(b, wide), raw)
  BY DEF WrittenFor
<1>4. name \in Texts
  <2>1. DOMAIN TaggedBlockMap \subseteq Texts
    BY TaggedBlocksAssumption
  <2>2. CASE b.type = "Base"
    BY <1>3, <2>1, <2>2 DEF NamesFor, NamesOf
  <2>3. CASE b.type # "Base"
    <3>1. b.type \in DOMAIN GeneratedName /\ name = GeneratedName[b.type]
      BY <1>3, <2>3 DEF NamesFor, IsKept
    <3>2. name \in {"fxrp", "luni", "lspf", "lclr", "iOpa"}
      BY <3>1 DEF GeneratedName
    <3> QED BY <2>1, <3>2 DEF TaggedBlockMap
  <2> QED BY <2>2, <2>3
<1> DEFINE length == IF WideFor(b, wide) THEN Number(0) \o Number(Len(raw)) ELSE Number(Len(raw))
           s1 == Text(b.signature)
           s2 == Text(name)
           front == s1 \o s2
<1>5. bytes = (front \o length) \o raw
  BY <1>3 DEF Written
<1> HIDE DEF raw
<1>6. length \in Seq(Byte) /\ Len(length) >= 4
  <2> DEFINE z == Number(0)
             m == Number(Len(raw))
  <2>1. z \in Seq(Byte) /\ Len(z) = 4 /\ m \in Seq(Byte) /\ Len(m) = 4
    BY <1>2, FourBytes
  <2>2. z \o m \in Seq(Byte)
    BY <2>1, BothAreBytes
  <2>3. Len(z \o m) = Len(z) + Len(m)
    BY <2>1, BothAreBytes
  <2>4. length = IF WideFor(b, wide) THEN z \o m ELSE m
    OBVIOUS
  <2> HIDE DEF z, m, length
  <2>5. Len(z \o m) >= 4 /\ Len(m) >= 4
    BY <2>1, <2>3
  <2> QED BY <2>1, <2>2, <2>4, <2>5
<1>7. s1 \in Seq(Byte) /\ Len(s1) = 4 /\ s2 \in Seq(Byte) /\ Len(s2) = 4
  BY <1>1, <1>4, FourBytes
<1> HIDE DEF length, s1, s2
<1>8. front \in Seq(Byte) /\ Len(front) = 8
  <2>1. s1 \o s2 \in Seq(Byte)
    BY <1>7, BothAreBytes
  <2>2. Len(s1 \o s2) = Len(s1) + Len(s2)
    BY <1>7, BothAreBytes
  <2> QED BY <1>7, <2>1, <2>2
<1> HIDE DEF front
<1>9. front \o length \in Seq(Byte) /\ Len(front \o length) = Len(front) + Len(length)
  BY <1>6, <1>8, BothAreBytes
<1> DEFINE head == front \o length
<1> HIDE DEF head
<1>10. head \in Seq(Byte) /\ Len(head) = Len(front) + Len(length)
  BY <1>9 DEF head
<1>11. head \o raw \in Seq(Byte) /\ Len(head \o raw) = Len(head) + Len(raw)
  BY <1>2, <1>10, BothAreBytes
<1>12. Len(length) \in Nat /\ Len(raw) \in Nat /\ Len(head) \in Nat
  BY <1>2, <1>6, <1>10
<1>13. bytes = head \o raw
  BY <1>5 DEF head
<1>14. Len(head \o raw) \in Nat /\ Len(head \o raw) >= 12
  BY <1>6, <1>8, <1>10, <1>11, <1>12
<1> QED BY <1>11, <1>13, <1>14

\* The first n blocks stand in the file: each between its end and the one before.
Laid(f, blocks, n, ends, wide) ==
  /\ ends \in [0..n -> Nat]
  /\ ends[0] = 0
  /\ \A k \in 1..n :
       \E bytes : /\ WrittenFor(blocks[k], bytes, wide)
                  /\ StandsAt(f, ends[k - 1], bytes)
                  /\ Len(bytes) \in Nat /\ Len(bytes) >= 12
                  /\ ends[k] = ends[k - 1] + Len(bytes)
  /\ \A k \in 0..n : ends[k] <= ends[n]

\* The file has the first n blocks, and no more.
IsLaid(f, blocks, n, wide) ==
  f \in Seq(Byte) /\ \E ends : Laid(f, blocks, n, ends, wide) /\ ends[n] = Len(f)

\* An empty file has no block.
LEMMA NothingLaid ==
  ASSUME NEW blocks, NEW wide
  PROVE  IsLaid(<<>>, blocks, 0, wide)
<1> DEFINE ends == [k \in 0..0 |-> 0]
<1>1. ends \in [0..0 -> Nat] /\ ends[0] = 0
  OBVIOUS
<1>2. 1..0 = {} /\ 0..0 = {0}
  OBVIOUS
<1> HIDE DEF ends
<1>3. Laid(<<>>, blocks, 0, ends, wide)
  BY <1>1, <1>2 DEF Laid
<1>4. <<>> \in Seq(Byte) /\ Len(<<>>) = 0
  OBVIOUS
<1> QED BY <1>1, <1>3, <1>4 DEF IsLaid

\* Blocks that stand in a file stand in it when bytes are written behind it.
LEMMA LaidOn ==
  ASSUME NEW f \in Seq(Byte), NEW g \in Seq(Byte), NEW blocks, NEW n \in Nat, NEW ends, NEW wide,
         Laid(f, blocks, n, ends, wide)
  PROVE  Laid(f \o g, blocks, n, ends, wide)
<1>1. /\ ends \in [0..n -> Nat] /\ ends[0] = 0
      /\ \A k \in 0..n : ends[k] <= ends[n]
  BY DEF Laid
<1>2. ASSUME NEW k \in 1..n
      PROVE  \E bytes : /\ WrittenFor(blocks[k], bytes, wide)
                        /\ StandsAt(f \o g, ends[k - 1], bytes)
                        /\ Len(bytes) \in Nat /\ Len(bytes) >= 12
                        /\ ends[k] = ends[k - 1] + Len(bytes)
  <2>1. PICK bytes : /\ WrittenFor(blocks[k], bytes, wide)
                     /\ StandsAt(f, ends[k - 1], bytes)
                     /\ Len(bytes) \in Nat /\ Len(bytes) >= 12
                     /\ ends[k] = ends[k - 1] + Len(bytes)
    BY DEF Laid
  <2>2. ends[k - 1] \in Nat
    BY <1>1
  <2>3. StandsAt(f \o g, ends[k - 1], bytes)
    BY <2>1, <2>2, StandsOn
  <2> QED BY <2>1, <2>3
<1> QED BY <1>1, <1>2 DEF Laid

\* One more block is written behind the others.
LEMMA LaidGrows ==
  ASSUME NEW f, NEW blocks, NEW n \in Nat, NEW wide, IsLaid(f, blocks, n, wide),
         NEW bytes, IsKept(blocks[n + 1]), WrittenFor(blocks[n + 1], bytes, wide)
  PROVE  IsLaid(f \o bytes, blocks, n + 1, wide)
<1>1. /\ f \in Seq(Byte) /\ Len(f) \in Nat
      /\ bytes \in Seq(Byte) /\ Len(bytes) \in Nat /\ Len(bytes) >= 12
  BY KeptIsBytes DEF IsLaid
<1>2. PICK ends : Laid(f, blocks, n, ends, wide) /\ ends[n] = Len(f)
  BY DEF IsLaid
<1>3. Laid(f \o bytes, blocks, n, ends, wide)
  BY <1>1, <1>2, LaidOn
<1> DEFINE g    == f \o bytes
           more == [k \in 0..(n + 1) |-> IF k = n + 1 THEN Len(g) ELSE ends[k]]
<1>4. g \in Seq(Byte) /\ Len(g) = Len(f) + Len(bytes) /\ StandsAt(g, Len(f), bytes)
  BY <1>1, BothAreBytes, WrittenStands
<1> HIDE DEF g
<1>5. Len(g) \in Nat
  BY <1>4
<1>6. ends \in [0..n -> Nat] /\ ends[0] = 0 /\ \A k \in 0..n : ends[k] <= ends[n]
  BY <1>2 DEF Laid
<1>7. /\ more \in [0..(n + 1) -> Nat]
      /\ more[n + 1] = Len(g)
      /\ \A k \in 0..n : more[k] = ends[k]
  <2>1. \A k \in 0..(n + 1) : k # n + 1 => k \in 0..n
    OBVIOUS
  <2>2. \A k \in 0..n : k \in 0..(n + 1) /\ k # n + 1
    OBVIOUS
  <2>3. n + 1 \in 0..(n + 1)
    OBVIOUS
  <2> QED BY <1>5, <1>6, <2>1, <2>2, <2>3
<1> HIDE DEF more
<1>8. ASSUME NEW k \in 1..(n + 1)
      PROVE  \E w : /\ WrittenFor(blocks[k], w, wide)
                    /\ StandsAt(g, more[k - 1], w)
                    /\ Len(w) \in Nat /\ Len(w) >= 12
                    /\ more[k] = more[k - 1] + Len(w)
  <2>1. CASE k = n + 1
    <3>1. n \in 0..n /\ k - 1 = n
      BY <2>1
    <3>2. more[k - 1] = Len(f)
      BY <1>2, <1>7, <3>1
    <3> QED BY <1>1, <1>4, <1>7, <2>1, <3>2
  <2>2. CASE k # n + 1
    <3>1. k \in 1..n /\ k \in 0..n /\ k - 1 \in 0..n
      BY <2>2
    <3>2. PICK w : /\ WrittenFor(blocks[k], w, wide)
                   /\ StandsAt(g, ends[k - 1], w)
                   /\ Len(w) \in Nat /\ Len(w) >= 12
                   /\ ends[k] = ends[k - 1] + Len(w)
      BY <1>3, <3>1 DEF Laid, g
    <3>3. more[k] = ends[k] /\ more[k - 1] = ends[k - 1]
      BY <1>7, <3>1
    <3> QED BY <3>2, <3>3
  <2> QED BY <2>1, <2>2
<1>9. ASSUME NEW k \in 0..(n + 1) PROVE more[k] <= more[n + 1]
  <2>1. CASE k = n + 1
    BY <1>5, <1>7, <2>1
  <2>2. CASE k # n + 1
    <3>1. k \in 0..n
      BY <2>2
    <3>2. ends[k] <= Len(f) /\ ends[k] \in Nat
      BY <1>2, <1>6, <3>1
    <3>3. more[k] = ends[k]
      BY <1>7, <3>1
    <3> QED BY <1>1, <1>4, <1>7, <3>2, <3>3
  <2> QED BY <2>1, <2>2
<1>10. more[0] = 0
  BY <1>6, <1>7
<1>11. Laid(g, blocks, n + 1, more, wide)
  BY <1>7, <1>8, <1>9, <1>10 DEF Laid
<1> QED BY <1>4, <1>7, <1>11 DEF IsLaid, g

\* A setting is written with the one name of its type.
LEMMA SettingIsWritten ==
  ASSUME NEW l, NEW wide
  PROVE  /\ WrittenFor(SettingBlock("ReferencePoint", l.reference),
                       Written("8BIM", "fxrp", FALSE, l.reference), wide)
         /\ WrittenFor(SettingBlock("UnicodeLayerName", l.name),
                       Written("8BIM", "luni", FALSE, NameWritten(l.name)), wide)
         /\ WrittenFor(SettingBlock("ProtectedSetting", l.locked),
                       Written("8BIM", "lspf", FALSE, l.locked \o Zeros(3)), wide)
         /\ WrittenFor(SettingBlock("SheetColor", l.color),
                       Written("8BIM", "lclr", FALSE, l.color \o Zeros(6)), wide)
         /\ WrittenFor(SettingBlock("BlendFill", l.fill),
                       Written("8BIM", "iOpa", FALSE, l.fill \o Zeros(3)), wide)
<1>1. ASSUME NEW type \in DOMAIN GeneratedName, NEW data
      PROVE  LET b == SettingBlock(type, data)
             IN  WrittenFor(b, Written("8BIM", GeneratedName[type], FALSE, RawOf(b)), wide)
  <2> DEFINE b == SettingBlock(type, data)
  <2>1. b.type = type /\ b.signature = "8BIM" /\ type # "Base"
    BY DEF SettingBlock, GeneratedName
  <2> HIDE DEF b
  <2>2. WideFor(b, wide) = FALSE /\ NamesFor(b) = {GeneratedName[type]}
    BY <2>1 DEF WideFor, NamesFor
  <2> QED BY <2>1, <2>2 DEF WrittenFor, b
<1>2. /\ "ReferencePoint" \in DOMAIN GeneratedName /\ GeneratedName["ReferencePoint"] = "fxrp"
      /\ "UnicodeLayerName" \in DOMAIN GeneratedName /\ GeneratedName["UnicodeLayerName"] = "luni"
      /\ "ProtectedSetting" \in DOMAIN GeneratedName /\ GeneratedName["ProtectedSetting"] = "lspf"
      /\ "SheetColor" \in DOMAIN GeneratedName /\ GeneratedName["SheetColor"] = "lclr"
      /\ "BlendFill" \in DOMAIN GeneratedName /\ GeneratedName["BlendFill"] = "iOpa"
  BY DEF GeneratedName
<1>3. /\ RawOf(SettingBlock("ReferencePoint", l.reference)) = l.reference
      /\ RawOf(SettingBlock("UnicodeLayerName", l.name)) = NameWritten(l.name)
      /\ RawOf(SettingBlock("ProtectedSetting", l.locked)) = l.locked \o Zeros(3)
      /\ RawOf(SettingBlock("SheetColor", l.color)) = l.color \o Zeros(6)
      /\ RawOf(SettingBlock("BlendFill", l.fill)) = l.fill \o Zeros(3)
  BY DEF RawOf, SettingBlock
<1>4. WrittenFor(SettingBlock("ReferencePoint", l.reference),
                 Written("8BIM", "fxrp", FALSE, l.reference), wide)
  BY <1>1, <1>2, <1>3
<1>5. WrittenFor(SettingBlock("UnicodeLayerName", l.name),
                 Written("8BIM", "luni", FALSE, NameWritten(l.name)), wide)
  BY <1>1, <1>2, <1>3
<1>6. WrittenFor(SettingBlock("ProtectedSetting", l.locked),
                 Written("8BIM", "lspf", FALSE, l.locked \o Zeros(3)), wide)
  BY <1>1, <1>2, <1>3
<1>7. WrittenFor(SettingBlock("SheetColor", l.color),
                 Written("8BIM", "lclr", FALSE, l.color \o Zeros(6)), wide)
  BY <1>1, <1>2, <1>3
<1>8. WrittenFor(SettingBlock("BlendFill", l.fill),
                 Written("8BIM", "iOpa", FALSE, l.fill \o Zeros(3)), wide)
  BY <1>1, <1>2, <1>3
<1> QED BY <1>4, <1>5, <1>6, <1>7, <1>8

\* Three sequences of bytes, one behind the other.
LEMMA ThreeBehind ==
  ASSUME NEW s \in Seq(Byte), NEW t \in Seq(Byte), NEW u \in Seq(Byte)
  PROVE  s \o (t \o u) = (s \o t) \o u
<1> DEFINE a == s \o t
           b == t \o u
           v == a \o u
           w == s \o b
<1>1. Len(s) \in Nat /\ Len(t) \in Nat /\ Len(u) \in Nat
  OBVIOUS
<1>2. /\ a \in Seq(Byte) /\ Len(a) = Len(s) + Len(t)
      /\ \A i \in 1..Len(s) + Len(t) : a[i] = IF i <= Len(s) THEN s[i] ELSE t[i - Len(s)]
  BY ConcatProperties
<1>3. /\ b \in Seq(Byte) /\ Len(b) = Len(t) + Len(u)
      /\ \A i \in 1..Len(t) + Len(u) : b[i] = IF i <= Len(t) THEN t[i] ELSE u[i - Len(t)]
  BY ConcatProperties
<1> HIDE DEF a, b
<1>4. /\ v \in Seq(Byte) /\ Len(v) = Len(a) + Len(u)
      /\ \A i \in 1..Len(a) + Len(u) : v[i] = IF i <= Len(a) THEN a[i] ELSE u[i - Len(a)]
  <2>1. v \in Seq(Byte)
    BY <1>2, BothAreBytes
  <2>2. Len(v) = Len(a) + Len(u)
    BY <1>2, BothAreBytes
  <2>3. \A i \in 1..Len(a) + Len(u) : v[i] = IF i <= Len(a) THEN a[i] ELSE u[i - Len(a)]
    BY <1>2, ConcatProperties
  <2> HIDE DEF v
  <2> QED BY <2>1, <2>2, <2>3
<1>5. /\ w \in Seq(Byte) /\ Len(w) = Len(s) + Len(b)
      /\ \A i \in 1..Len(s) + Len(b) : w[i] = IF i <= Len(s) THEN s[i] ELSE b[i - Len(s)]
  <2>1. w \in Seq(Byte)
    BY <1>3, BothAreBytes
  <2>2. Len(w) = Len(s) + Len(b)
    BY <1>3, BothAreBytes
  <2>3. \A i \in 1..Len(s) + Len(b) : w[i] = IF i <= Len(s) THEN s[i] ELSE b[i - Len(s)]
    BY <1>3, ConcatProperties
  <2> HIDE DEF w
  <2> QED BY <2>1, <2>2, <2>3
<1> HIDE DEF v, w
<1>6. Len(v) = Len(w)
  BY <1>1, <1>2, <1>3, <1>4, <1>5
<1>7. ASSUME NEW i \in 1..Len(v) PROVE v[i] = w[i]
  <2>0. i \in 1..Len(a) + Len(u) /\ i \in 1..Len(s) + Len(b)
    BY <1>4, <1>5, <1>6
  <2>1. CASE i <= Len(s)
    <3>1. i <= Len(a) /\ i \in 1..Len(s) + Len(t)
      BY <1>1, <1>2, <2>0, <2>1
    <3> QED BY <1>2, <1>4, <1>5, <2>0, <2>1, <3>1
  <2>2. CASE ~(i <= Len(s)) /\ i <= Len(a)
    <3>1. i \in 1..Len(s) + Len(t) /\ i - Len(s) \in 1..Len(t) + Len(u) /\ i - Len(s) <= Len(t)
      BY <1>1, <1>2, <2>0, <2>2
    <3>2. v[i] = t[i - Len(s)]
      BY <1>2, <1>4, <2>0, <2>2, <3>1
    <3>3. w[i] = t[i - Len(s)]
      BY <1>3, <1>5, <2>0, <2>2, <3>1
    <3> QED BY <3>2, <3>3
  <2>3. CASE ~(i <= Len(a))
    <3>1. ~(i <= Len(s)) /\ i - Len(s) \in 1..Len(t) + Len(u) /\ ~(i - Len(s) <= Len(t))
          /\ (i - Len(s)) - Len(t) = i - Len(a)
      BY <1>1, <1>2, <1>3, <2>0, <2>3
    <3>2. v[i] = u[i - Len(a)]
      BY <1>4, <2>0, <2>3
    <3>3. w[i] = u[(i - Len(s)) - Len(t)]
      BY <1>3, <1>5, <2>0, <3>1
    <3> QED BY <3>1, <3>2, <3>3
  <2> QED BY <2>1, <2>2, <2>3
<1>8. v = w
  BY <1>4, <1>5, <1>6, <1>7, SeqEqual
<1> QED BY <1>8 DEF v, w, a, b

\* The settings are written behind the blocks that nobody parses.
LEMMA GeneratedIsLaid ==
  ASSUME NEW l, IsSoundLayer(l), NEW f, NEW wide,
         IsLaid(f, BlocksOf(l), Len(l.unparsed), wide)
  PROVE  IsLaid(f \o Generated(l), BlocksOf(l), Len(BlocksOf(l)), wide)
<1> DEFINE n == Len(l.unparsed)
           r == References(l)
           b == BlocksOf(l)
           reference == IF l.reference = <<>> THEN <<>>
                        ELSE Written("8BIM", "fxrp", FALSE, l.reference)
           name      == Written("8BIM", "luni", FALSE, NameWritten(l.name))
           locked    == Written("8BIM", "lspf", FALSE, l.locked \o Zeros(3))
           color     == Written("8BIM", "lclr", FALSE, l.color \o Zeros(6))
           fill      == Written("8BIM", "iOpa", FALSE, l.fill \o Zeros(3))
<1>1. /\ n \in Nat /\ r \in {0, 1} /\ b \in Seq(Block) /\ Len(b) = n + r + 4
      /\ r = 1 => b[n + 1] = SettingBlock("ReferencePoint", l.reference)
      /\ b[n + r + 1] = SettingBlock("UnicodeLayerName", l.name)
      /\ b[n + r + 2] = SettingBlock("ProtectedSetting", l.locked)
      /\ b[n + r + 3] = SettingBlock("SheetColor", l.color)
      /\ b[n + r + 4] = SettingBlock("BlendFill", l.fill)
  BY BlocksAre
<1>2. \A k \in 1..Len(b) : IsKept(b[k])
  BY BlocksAreKept
<1>3. f \in Seq(Byte)
  BY DEF IsLaid
<1>4. Generated(l) = reference \o name \o locked \o color \o fill
  BY DEF Generated
<1>5. /\ r = 1 => WrittenFor(b[n + 1], reference, wide)
      /\ WrittenFor(b[n + r + 1], name, wide)
      /\ WrittenFor(b[n + r + 2], locked, wide)
      /\ WrittenFor(b[n + r + 3], color, wide)
      /\ WrittenFor(b[n + r + 4], fill, wide)
  <2>1. r = 1 => reference = Written("8BIM", "fxrp", FALSE, l.reference)
    <3>1. r = 1 => l.reference # <<>>
      BY DEF References
    <3> HIDE DEF r
    <3> QED BY <3>1
  <2>2. /\ r = 1 => WrittenFor(SettingBlock("ReferencePoint", l.reference), reference, wide)
        /\ WrittenFor(SettingBlock("UnicodeLayerName", l.name), name, wide)
        /\ WrittenFor(SettingBlock("ProtectedSetting", l.locked), locked, wide)
        /\ WrittenFor(SettingBlock("SheetColor", l.color), color, wide)
        /\ WrittenFor(SettingBlock("BlendFill", l.fill), fill, wide)
    BY <2>1, SettingIsWritten
  <2> HIDE DEF n, r, b, reference, name, locked, color, fill
  <2> QED BY <1>1, <2>2
<1>6. r = 0 => reference = <<>>
  <2>1. r = 0 => l.reference = <<>>
    BY DEF References
  <2> HIDE DEF r
  <2> QED BY <2>1
<1> HIDE DEF n, r, b, reference, name, locked, color, fill
<1>7. /\ r = 1 => IsKept(b[n + 1])
      /\ IsKept(b[n + r + 1]) /\ IsKept(b[n + r + 2]) /\ IsKept(b[n + r + 3])
      /\ IsKept(b[n + r + 4])
  <2>1. /\ r = 1 => n + 1 \in 1..Len(b)
        /\ n + r + 1 \in 1..Len(b) /\ n + r + 2 \in 1..Len(b) /\ n + r + 3 \in 1..Len(b)
        /\ n + r + 4 \in 1..Len(b)
    BY <1>1
  <2> QED BY <1>2, <2>1
<1>8. /\ reference \in Seq(Byte) /\ name \in Seq(Byte) /\ locked \in Seq(Byte)
      /\ color \in Seq(Byte) /\ fill \in Seq(Byte)
  <2>1. reference \in Seq(Byte)
    <3>1. CASE r = 0
      BY <1>6, <3>1
    <3>2. CASE r = 1
      BY <1>5, <1>7, <3>2, KeptIsBytes
    <3> QED BY <1>1, <3>1, <3>2
  <2> QED BY <1>5, <1>7, <2>1, KeptIsBytes
<1> DEFINE f0 == f \o reference
           f1 == f0 \o name
           f2 == f1 \o locked
           f3 == f2 \o color
           f4 == f3 \o fill
<1>9. IsLaid(f0, b, n + r, wide)
  <2>0. IsLaid(f, b, n, wide)
    BY DEF b, n
  <2>1. CASE r = 0
    <3>1. f0 = f /\ n + r = n
      BY <1>1, <1>3, <1>6, <2>1, ConcatEmptySeq
    <3> QED BY <2>0, <3>1
  <2>2. CASE r = 1
    <3>1. IsLaid(f \o reference, b, n + 1, wide)
      BY <1>1, <1>5, <1>7, <2>0, <2>2, LaidGrows
    <3> QED BY <2>2, <3>1
  <2> QED BY <1>1, <2>1, <2>2
<1> HIDE DEF f0
<1>10. IsLaid(f1, b, n + r + 1, wide)
  <2> DEFINE m == n + r
  <2>1. m \in Nat /\ IsLaid(f0, b, m, wide) /\ IsKept(b[m + 1]) /\ WrittenFor(b[m + 1], name, wide)
    BY <1>1, <1>5, <1>7, <1>9
  <2> HIDE DEF m
  <2>2. IsLaid(f0 \o name, b, m + 1, wide)
    BY <2>1, LaidGrows
  <2> QED BY <2>2 DEF m
<1> HIDE DEF f1
<1>11. IsLaid(f2, b, n + r + 2, wide)
  <2> DEFINE m == n + r + 1
  <2>0. m + 1 = n + r + 2 /\ m \in Nat
    BY <1>1
  <2>1. IsLaid(f1, b, m, wide) /\ IsKept(b[m + 1]) /\ WrittenFor(b[m + 1], locked, wide)
    BY <1>5, <1>7, <1>10, <2>0
  <2> HIDE DEF m
  <2>2. IsLaid(f1 \o locked, b, m + 1, wide)
    BY <2>0, <2>1, LaidGrows
  <2> QED BY <2>0, <2>2
<1> HIDE DEF f2
<1>12. IsLaid(f3, b, n + r + 3, wide)
  <2> DEFINE m == n + r + 2
  <2>0. m + 1 = n + r + 3 /\ m \in Nat
    BY <1>1
  <2>1. IsLaid(f2, b, m, wide) /\ IsKept(b[m + 1]) /\ WrittenFor(b[m + 1], color, wide)
    BY <1>5, <1>7, <1>11, <2>0
  <2> HIDE DEF m
  <2>2. IsLaid(f2 \o color, b, m + 1, wide)
    BY <2>0, <2>1, LaidGrows
  <2> QED BY <2>0, <2>2
<1> HIDE DEF f3
<1>13. IsLaid(f4, b, n + r + 4, wide)
  <2> DEFINE m == n + r + 3
  <2>0. m + 1 = n + r + 4 /\ m \in Nat
    BY <1>1
  <2>1. IsLaid(f3, b, m, wide) /\ IsKept(b[m + 1]) /\ WrittenFor(b[m + 1], fill, wide)
    BY <1>5, <1>7, <1>12, <2>0
  <2> HIDE DEF m
  <2>2. IsLaid(f3 \o fill, b, m + 1, wide)
    BY <2>0, <2>1, LaidGrows
  <2> QED BY <2>0, <2>2
<1>14. f \o Generated(l) = f4
  <2>1. f \o (reference \o name \o locked \o color \o fill)
          = (f \o (reference \o name \o locked \o color)) \o fill
    <3> DEFINE x == reference \o name \o locked \o color
    <3>1. x \in Seq(Byte)
      <4>1. reference \o name \in Seq(Byte)
        BY <1>8, BothAreBytes
      <4>2. (reference \o name) \o locked \in Seq(Byte)
        BY <1>8, <4>1, BothAreBytes
      <4> QED BY <1>8, <4>2, BothAreBytes
    <3> HIDE DEF x
    <3>2. f \o (x \o fill) = (f \o x) \o fill
      BY <1>3, <1>8, <3>1, ThreeBehind, Zenon
    <3> QED BY <3>2 DEF x
  <2>2. f \o (reference \o name \o locked \o color)
          = (f \o (reference \o name \o locked)) \o color
    <3> DEFINE x == reference \o name \o locked
    <3>1. x \in Seq(Byte)
      <4>1. reference \o name \in Seq(Byte)
        BY <1>8, BothAreBytes
      <4> QED BY <1>8, <4>1, BothAreBytes
    <3> HIDE DEF x
    <3>2. f \o (x \o color) = (f \o x) \o color
      BY <1>3, <1>8, <3>1, ThreeBehind, Zenon
    <3> QED BY <3>2 DEF x
  <2>3. f \o (reference \o name \o locked) = (f \o (reference \o name)) \o locked
    <3> DEFINE x == reference \o name
    <3>1. x \in Seq(Byte)
      BY <1>8, BothAreBytes
    <3> HIDE DEF x
    <3>2. f \o (x \o locked) = (f \o x) \o locked
      BY <1>3, <1>8, <3>1, ThreeBehind, Zenon
    <3> QED BY <3>2 DEF x
  <2>4. f \o (reference \o name) = (f \o reference) \o name
    BY <1>3, <1>8, ThreeBehind, Zenon
  <2> QED BY <1>4, <2>1, <2>2, <2>3, <2>4 DEF f0, f1, f2, f3
<1> QED BY <1>1, <1>13, <1>14 DEF b

-----------------------------------------------------------------------------
(* The settings of the blocks.                                              *)

\* A setting is that of a block of its type, or the default.
LEMMA ViewIsOf ==
  ASSUME NEW blocks, NEW type, NEW keys, NEW default
  PROVE  \/ View(blocks, type, keys, default) = default
         \/ \E k \in DOMAIN blocks : /\ blocks[k].type = type
                                     /\ View(blocks, type, keys, default) = blocks[k].data
<1> DEFINE hits  == {k \in DOMAIN blocks : blocks[k].type = type /\ blocks[k].key \in keys}
           first == {k \in hits : \A j \in hits : k <= j}
<1>1. CASE first = {}
  BY <1>1 DEF View
<1>2. CASE first # {}
  <2>1. (CHOOSE k \in first : TRUE) \in first
    BY <1>2
  <2>2. (CHOOSE k \in first : TRUE) \in hits
    BY <2>1
  <2>3. View(blocks, type, keys, default) = blocks[CHOOSE k \in first : TRUE].data
    BY <1>2 DEF View
  <2> QED BY <2>2, <2>3
<1> QED BY <1>1, <1>2

\* The only block of a type has the setting.
LEMMA ViewOfOne ==
  ASSUME NEW blocks, NEW type, NEW keys, NEW default,
         NEW k \in DOMAIN blocks, k \in Nat, blocks[k].type = type, blocks[k].key \in keys,
         \A j \in DOMAIN blocks : blocks[j].type = type => j = k
  PROVE  View(blocks, type, keys, default) = blocks[k].data
<1> DEFINE hits  == {i \in DOMAIN blocks : blocks[i].type = type /\ blocks[i].key \in keys}
           first == {i \in hits : \A j \in hits : i <= j}
<1>1. hits = {k}
  OBVIOUS
<1>2. View(blocks, type, keys, default)
        = IF first = {} THEN default ELSE blocks[CHOOSE i \in first : TRUE].data
  BY DEF View
<1> HIDE DEF hits
<1>3. first = {k}
  BY <1>1
<1> HIDE DEF first
<1>4. (CHOOSE i \in first : TRUE) = k
  BY <1>3
<1> QED BY <1>2, <1>3, <1>4

\* Without a block of the type the setting is the default.
LEMMA ViewOfNone ==
  ASSUME NEW blocks, NEW type, NEW keys, NEW default,
         \A j \in DOMAIN blocks : blocks[j].type # type
  PROVE  View(blocks, type, keys, default) = default
BY ViewIsOf

\* The settings that sound blocks give to a sound layer.
LEMMA ParsedIsSound ==
  ASSUME NEW l, IsSoundLayer(l), NEW blocks \in Seq(Block),
         \A k \in DOMAIN blocks : IsSound(blocks[k])
  PROVE  IsSoundLayer(Parsed(l, blocks))
<1> DEFINE p == Parsed(l, blocks)
<1>1. p \in Settings
  BY ParsedAreSettings DEF IsSoundLayer
<1>2. /\ p.unparsed = l.unparsed
      /\ p.locked = View(blocks, "ProtectedSetting", {"lrProtectedSetting"}, l.locked)
      /\ p.color = View(blocks, "SheetColor", {"lrSheetColorSetting"}, l.color)
      /\ p.reference = View(blocks, "ReferencePoint", Keys, l.reference)
      /\ p.name = View(blocks, "UnicodeLayerName", Keys, l.name)
      /\ p.fill = View(blocks, "BlendFill", Keys, l.fill)
  BY DEF Parsed
<1> HIDE DEF p
<1>3. \A k \in 1..Len(p.unparsed) : p.unparsed[k].type = "Base" /\ IsSound(p.unparsed[k])
  BY <1>2 DEF IsSoundLayer
<1>4. Len(p.locked) = 1
  <2>1. p.locked = l.locked
          \/ \E k \in DOMAIN blocks : blocks[k].type = "ProtectedSetting" /\ p.locked = blocks[k].data
    BY <1>2, ViewIsOf
  <2> QED BY <2>1 DEF IsSoundLayer, IsSound
<1>5. Len(p.color) = 2
  <2>1. p.color = l.color
          \/ \E k \in DOMAIN blocks : blocks[k].type = "SheetColor" /\ p.color = blocks[k].data
    BY <1>2, ViewIsOf
  <2> QED BY <2>1 DEF IsSoundLayer, IsSound
<1>6. Len(p.fill) = 1
  <2>1. p.fill = l.fill
          \/ \E k \in DOMAIN blocks : blocks[k].type = "BlendFill" /\ p.fill = blocks[k].data
    BY <1>2, ViewIsOf
  <2> QED BY <2>1 DEF IsSoundLayer, IsSound
<1>7. p.reference = <<>> \/ Len(p.reference) = 16
  <2>1. p.reference = l.reference
          \/ \E k \in DOMAIN blocks :
               blocks[k].type = "ReferencePoint" /\ p.reference = blocks[k].data
    BY <1>2, ViewIsOf
  <2> QED BY <2>1 DEF IsSoundLayer, IsSound
<1>8. IsName(p.name)
  <2>1. p.name = l.name
          \/ \E k \in DOMAIN blocks :
               blocks[k].type = "UnicodeLayerName" /\ p.name = blocks[k].data
    BY <1>2, ViewIsOf
  <2> QED BY <2>1 DEF IsSoundLayer, IsSound
<1>9. IsSoundLayer(p)
  BY <1>1, <1>3, <1>4, <1>5, <1>6, <1>7, <1>8 DEF IsSoundLayer
<1> QED BY <1>9 DEF p

\* The types of the blocks of a layer, by where they stand.
LEMMA TypesOfBlocks ==
  ASSUME NEW l, IsSoundLayer(l)
  PROVE  LET n == Len(l.unparsed)
             r == References(l)
             b == BlocksOf(l)
         IN  /\ n \in Nat /\ r \in {0, 1} /\ DOMAIN b = 1..(n + r + 4)
             /\ \A k \in 1..n : b[k].type = "Base"
             /\ r = 1 => b[n + 1].type = "ReferencePoint"
             /\ b[n + r + 1].type = "UnicodeLayerName" /\ b[n + r + 2].type = "ProtectedSetting"
             /\ b[n + r + 3].type = "SheetColor" /\ b[n + r + 4].type = "BlendFill"
<1> DEFINE n == Len(l.unparsed)
           r == References(l)
           b == BlocksOf(l)
<1>1. /\ n \in Nat /\ r \in {0, 1} /\ b \in Seq(Block) /\ Len(b) = n + r + 4
      /\ \A k \in 1..n : b[k] = l.unparsed[k]
      /\ r = 1 => b[n + 1] = SettingBlock("ReferencePoint", l.reference)
      /\ b[n + r + 1] = SettingBlock("UnicodeLayerName", l.name)
      /\ b[n + r + 2] = SettingBlock("ProtectedSetting", l.locked)
      /\ b[n + r + 3] = SettingBlock("SheetColor", l.color)
      /\ b[n + r + 4] = SettingBlock("BlendFill", l.fill)
  BY BlocksAre
<1>2. \A k \in 1..n : l.unparsed[k].type = "Base"
  BY DEF IsSoundLayer
<1>3. \A type, data : SettingBlock(type, data).type = type
  BY DEF SettingBlock
<1> HIDE DEF n, r, b
<1>4. DOMAIN b = 1..(n + r + 4)
  BY <1>1
<1>5. \A k \in 1..n : b[k].type = "Base"
  BY <1>1, <1>2
<1>6. /\ r = 1 => b[n + 1].type = "ReferencePoint"
      /\ b[n + r + 1].type = "UnicodeLayerName" /\ b[n + r + 2].type = "ProtectedSetting"
      /\ b[n + r + 3].type = "SheetColor" /\ b[n + r + 4].type = "BlendFill"
  BY <1>1, <1>3
<1> QED BY <1>1, <1>4, <1>5, <1>6 DEF n, r, b

\* The places of the settings.
LEMMA Places ==
  ASSUME NEW n \in Nat, NEW r \in {0, 1}, NEW j \in 1..(n + r + 4)
  PROVE  \/ j \in 1..n \/ (r = 1 /\ j = n + 1) \/ j = n + r + 1
         \/ j = n + r + 2 \/ j = n + r + 3 \/ j = n + r + 4
OBVIOUS

\* A layer is what the blocks it writes are parsed as.
LEMMA LayerIsParsed ==
  ASSUME NEW l, IsSoundLayer(l)
  PROVE  l = Parsed([DefaultLayer EXCEPT !.unparsed = l.unparsed, !.blend = l.blend], BlocksOf(l))
<1> DEFINE n == Len(l.unparsed)
           r == References(l)
           b == BlocksOf(l)
           record == [DefaultLayer EXCEPT !.unparsed = l.unparsed, !.blend = l.blend]
<1>1. /\ n \in Nat /\ r \in {0, 1} /\ DOMAIN b = 1..(n + r + 4)
      /\ \A k \in 1..n : b[k].type = "Base"
      /\ r = 1 => b[n + 1].type = "ReferencePoint"
      /\ b[n + r + 1].type = "UnicodeLayerName" /\ b[n + r + 2].type = "ProtectedSetting"
      /\ b[n + r + 3].type = "SheetColor" /\ b[n + r + 4].type = "BlendFill"
  BY TypesOfBlocks
<1>2. /\ r = 1 => b[n + 1] = SettingBlock("ReferencePoint", l.reference)
      /\ b[n + r + 1] = SettingBlock("UnicodeLayerName", l.name)
      /\ b[n + r + 2] = SettingBlock("ProtectedSetting", l.locked)
      /\ b[n + r + 3] = SettingBlock("SheetColor", l.color)
      /\ b[n + r + 4] = SettingBlock("BlendFill", l.fill)
  BY BlocksAre
<1>3. \A type, data : /\ SettingBlock(type, data).data = data
                      /\ SettingBlock(type, data).key = StoredKey[type]
  BY DEF SettingBlock
<1>4. /\ StoredKey["ReferencePoint"] \in Keys /\ StoredKey["UnicodeLayerName"] \in Keys
      /\ StoredKey["ProtectedSetting"] = "lrProtectedSetting"
      /\ StoredKey["SheetColor"] = "lrSheetColorSetting" /\ StoredKey["BlendFill"] \in Keys
  BY NamesOfSettings DEF StoredKey
<1>5. r = 0 => l.reference = <<>>
  BY DEF References
<1>6. /\ record.unparsed = l.unparsed /\ record.blend = l.blend /\ record.reference = <<>>
  BY DEF DefaultLayer
<1>7. l \in Settings
  BY DEF IsSoundLayer
<1> HIDE DEF n, r, b, record
<1>8. /\ n + r + 1 \in DOMAIN b /\ n + r + 2 \in DOMAIN b /\ n + r + 3 \in DOMAIN b
      /\ n + r + 4 \in DOMAIN b /\ (r = 1 => n + 1 \in DOMAIN b)
      /\ n + r + 1 \in Nat /\ n + r + 2 \in Nat /\ n + r + 3 \in Nat /\ n + r + 4 \in Nat
      /\ n + 1 \in Nat
  BY <1>1
<1>9. \A j \in DOMAIN b : \/ j \in 1..n \/ (r = 1 /\ j = n + 1) \/ j = n + r + 1
                          \/ j = n + r + 2 \/ j = n + r + 3 \/ j = n + r + 4
  BY <1>1, Places
<1>10. \A j \in DOMAIN b :
         /\ b[j].type = "UnicodeLayerName" => j = n + r + 1
         /\ b[j].type = "ProtectedSetting" => j = n + r + 2
         /\ b[j].type = "SheetColor" => j = n + r + 3
         /\ b[j].type = "BlendFill" => j = n + r + 4
         /\ b[j].type = "ReferencePoint" => r = 1 /\ j = n + 1
         /\ b[j].type # "LrSection"
  BY <1>1, <1>9
<1>11. View(b, "LrSection", {"lrSectionDivider"}, <<>>) = <<>>
  BY <1>10, ViewOfNone
<1>12. View(b, "ProtectedSetting", {"lrProtectedSetting"}, record.locked) = l.locked
  <2> DEFINE k == n + r + 2
  <2>1. k \in DOMAIN b /\ k \in Nat /\ b[k].type = "ProtectedSetting" /\ b[k].key = "lrProtectedSetting"
        /\ b[k].data = l.locked /\ \A j \in DOMAIN b : b[j].type = "ProtectedSetting" => j = k
    BY <1>1, <1>2, <1>3, <1>4, <1>8, <1>10
  <2> HIDE DEF k
  <2> QED BY <2>1, ViewOfOne
<1>13. View(b, "SheetColor", {"lrSheetColorSetting"}, record.color) = l.color
  <2> DEFINE k == n + r + 3
  <2>1. k \in DOMAIN b /\ k \in Nat /\ b[k].type = "SheetColor" /\ b[k].key = "lrSheetColorSetting"
        /\ b[k].data = l.color /\ \A j \in DOMAIN b : b[j].type = "SheetColor" => j = k
    BY <1>1, <1>2, <1>3, <1>4, <1>8, <1>10
  <2> HIDE DEF k
  <2> QED BY <2>1, ViewOfOne
<1>14. View(b, "UnicodeLayerName", Keys, record.name) = l.name
  <2> DEFINE k == n + r + 1
  <2>1. k \in DOMAIN b /\ k \in Nat /\ b[k].type = "UnicodeLayerName" /\ b[k].key \in Keys
        /\ b[k].data = l.name /\ \A j \in DOMAIN b : b[j].type = "UnicodeLayerName" => j = k
    BY <1>1, <1>2, <1>3, <1>4, <1>8, <1>10
  <2> HIDE DEF k
  <2> QED BY <2>1, ViewOfOne
<1>15. View(b, "BlendFill", Keys, record.fill) = l.fill
  <2> DEFINE k == n + r + 4
  <2>1. k \in DOMAIN b /\ k \in Nat /\ b[k].type = "BlendFill" /\ b[k].key \in Keys
        /\ b[k].data = l.fill /\ \A j \in DOMAIN b : b[j].type = "BlendFill" => j = k
    BY <1>1, <1>2, <1>3, <1>4, <1>8, <1>10
  <2> HIDE DEF k
  <2> QED BY <2>1, ViewOfOne
<1>16. View(b, "ReferencePoint", Keys, record.reference) = l.reference
  <2>1. CASE r = 1
    <3> DEFINE k == n + 1
    <3>1. k \in DOMAIN b /\ k \in Nat /\ b[k].type = "ReferencePoint" /\ b[k].key \in Keys
          /\ b[k].data = l.reference /\ \A j \in DOMAIN b : b[j].type = "ReferencePoint" => j = k
      BY <1>1, <1>2, <1>3, <1>4, <1>8, <1>10, <2>1
    <3> HIDE DEF k
    <3> QED BY <3>1, ViewOfOne
  <2>2. CASE r # 1
    BY <1>1, <1>5, <1>6, <1>10, <2>2, ViewOfNone
  <2> QED BY <2>1, <2>2
<1>17. Parsed(record, b) = [unparsed |-> l.unparsed, blend |-> l.blend, locked |-> l.locked,
                            color |-> l.color, reference |-> l.reference, name |-> l.name,
                            fill |-> l.fill]
  BY <1>6, <1>11, <1>12, <1>13, <1>14, <1>15, <1>16 DEF Parsed
<1>18. l = [unparsed |-> l.unparsed, blend |-> l.blend, locked |-> l.locked, color |-> l.color,
            reference |-> l.reference, name |-> l.name, fill |-> l.fill]
  BY <1>7 DEF Settings
<1> QED BY <1>17, <1>18 DEF b, record

\* The blocks that nobody parses are those the layer kept.
LEMMA BaseBlocksAre ==
  ASSUME NEW l, IsSoundLayer(l)
  PROVE  AreBaseOf(l.unparsed, BlocksOf(l))
<1> DEFINE n == Len(l.unparsed)
           r == References(l)
           b == BlocksOf(l)
           base == {k \in DOMAIN b : b[k].type = "Base"}
<1>1. /\ n \in Nat /\ r \in {0, 1} /\ DOMAIN b = 1..(n + r + 4)
      /\ \A k \in 1..n : b[k].type = "Base"
      /\ r = 1 => b[n + 1].type = "ReferencePoint"
      /\ b[n + r + 1].type = "UnicodeLayerName" /\ b[n + r + 2].type = "ProtectedSetting"
      /\ b[n + r + 3].type = "SheetColor" /\ b[n + r + 4].type = "BlendFill"
  BY TypesOfBlocks
<1>2. \A k \in 1..n : b[k] = l.unparsed[k]
  BY BlocksAre
<1> HIDE DEF n, r, b
<1>3. \A j \in DOMAIN b : \/ j \in 1..n \/ (r = 1 /\ j = n + 1) \/ j = n + r + 1
                          \/ j = n + r + 2 \/ j = n + r + 3 \/ j = n + r + 4
  BY <1>1, Places
<1>4. base = 1..n
  <2>1. ASSUME NEW j \in DOMAIN b, b[j].type = "Base" PROVE j \in 1..n
    BY <1>1, <1>3, <2>1
  <2>2. 1..n \subseteq DOMAIN b
    BY <1>1
  <2> QED BY <1>1, <2>1, <2>2
<1> HIDE DEF base
<1>5. Cardinality(base) = n
  <2>1. Cardinality(1..n) = IF 1 > n THEN 0 ELSE n - 1 + 1
    BY <1>1, FS_Interval
  <2> QED BY <1>1, <1>4, <2>1
<1>6. ASSUME NEW k \in base PROVE l.unparsed[Cardinality({j \in base : j <= k})] = b[k]
  <2>1. k \in 1..n
    BY <1>4
  <2>2. {j \in base : j <= k} = 1..k
    BY <1>1, <1>4, <2>1
  <2>3. Cardinality(1..k) = IF 1 > k THEN 0 ELSE k - 1 + 1
    BY <2>1, FS_Interval
  <2>4. Cardinality(1..k) = k
    BY <2>1, <2>3
  <2> QED BY <1>2, <2>1, <2>2, <2>4
<1> QED BY <1>5, <1>6 DEF AreBaseOf, n, b, base

-----------------------------------------------------------------------------
(* The layer comes back.                                                    *)

\* The blocks that were read, of those that were written.
ReadsBack ==
  \E ends :
    LET blocks == BlocksOf(layer)
        n      == Len(BlocksOf(layer))
    IN  /\ Laid(file, blocks, n, ends, section.wide)
        /\ Len(storage) <= n
        /\ \A k \in 1..Len(storage) : storage[k] = blocks[k]
        /\ maxLength \in ends[n]..ends[n] + 1
        /\ maxLength <= Len(file)
        /\ phase = "reading" => start = ends[Len(storage)]
        /\ phase = "read" => Len(storage) = n /\ at = maxLength

\* The invariant: what is stored is sound, and what is read back is what was written.
ComesBackInv ==
  /\ IsSoundLayer(layer)
  /\ round = 1 => \A k \in 1..Len(storage) : IsSound(storage[k])
  /\ phase = "writing" => /\ round = 1 /\ section.padding = 1
                          /\ next <= Len(layer.unparsed) + 1
                          /\ IsLaid(file, BlocksOf(layer), next - 1, section.wide)
  /\ round = 2 => /\ section.padding = 1
                  /\ phase \in {"reading", "read"}
                  /\ ReadsBack

\* The settings a record has by default can be written.
LEMMA DefaultIsSound == IsSoundLayer(DefaultLayer)
<1>1. Data("pascal") # Data("lone")
  BY DEF Data
<1>2. IsName(<<Data("pascal"), Data("pascal")>>)
  <2> DEFINE s == <<Data("pascal"), Data("pascal")>>
  <2>1. Len(s) = 2 /\ s[1] = Data("pascal") /\ s[2] = Data("pascal")
    OBVIOUS
  <2> HIDE DEF s
  <2>2. \A i \in 1..2 : i = 1 \/ i = 2
    OBVIOUS
  <2>3. IsName(s)
    BY <1>1, <2>1, <2>2 DEF IsName
  <2> QED BY <2>3 DEF s
<1>3. /\ DefaultLayer.unparsed = <<>> /\ DefaultLayer.reference = <<>>
      /\ DefaultLayer.name = <<Data("pascal"), Data("pascal")>>
      /\ Len(DefaultLayer.locked) = 1 /\ Len(DefaultLayer.color) = 2 /\ Len(DefaultLayer.fill) = 1
  BY DEF DefaultLayer
<1>4. 1..Len(<<>>) = {}
  OBVIOUS
<1> QED BY <1>2, <1>3, <1>4, DefaultsAreSettings DEF IsSoundLayer

\* A block that is read leaves the layer and the file.
LEMMA ReadBlockKeeps ==
  ASSUME ReadBlock
  PROVE  UNCHANGED <<document, kept>> /\ phase' \in {"reading", "linked"}
<1> DEFINE Kept == UNCHANGED <<document, kept>> /\ phase' \in {"reading", "linked"}
<1>1. \A to, blocks : Leave(to, blocks) => Kept
  BY DEF Leave
<1>2. \A stops : Throw(stops) => Kept
  BY <1>1 DEF Throw
<1>3. \A stops, end, blocks : ReadTo(stops, end, blocks) => Kept
  BY <1>1, <1>2 DEF ReadTo
<1> HIDE DEF Kept
<1>4. CASE BadSignature \/ SkipUnknown \/ RefuseDivider \/ RefuseFixed \/ RefuseName
           \/ RefusePlaced \/ RefuseItem
  <2>1. \E stops : Throw(stops)
    BY <1>4 DEF BadSignature, SkipUnknown, RefuseDivider, RefuseFixed, RefuseName, RefusePlaced,
                RefuseItem
  <2> QED BY <1>2, <2>1 DEF Kept
<1>5. CASE ReadBase \/ ReadDivider \/ ReadFixed \/ SkipProtected \/ ReadName \/ ReadPlaced
  <2>1. \E stops, end, blocks : ReadTo(stops, end, blocks)
    BY <1>5 DEF ReadBase, ReadDivider, ReadFixed, SkipProtected, ReadName, ReadPlaced
  <2> QED BY <1>3, <2>1 DEF Kept
<1>6. CASE BeginLinked
  BY <1>2, <1>6 DEF BeginLinked, Kept, kept
<1>7. CASE ReadItem
  BY <1>2, <1>7 DEF ReadItem, Kept, kept, HasItem
<1>8. CASE EndLinked
  BY <1>1, <1>2, <1>8 DEF EndLinked, Kept
<1> QED BY <1>4, <1>5, <1>6, <1>7, <1>8 DEF ReadBlock

\* It is there already when the file is opened.
LEMMA InitComesBack == Init => ComesBackInv
<1> SUFFICES ASSUME Init PROVE ComesBackInv
  OBVIOUS
<1>1. layer = DefaultLayer /\ storage = <<>> /\ round = 1 /\ phase = "reading"
  BY DEF Init
<1>2. 1..Len(<<>>) = {}
  OBVIOUS
<1> QED BY <1>1, <1>2, DefaultIsSound DEF ComesBackInv

\* The foreign section: what is stored is sound.
LEMMA ForeignReadComesBack ==
  ASSUME TaggedTypeOK, ComesBackInv, round = 1, ReadBlock
  PROVE  ComesBackInv'
<1>1. layer' = layer /\ round' = 1 /\ section' = section /\ phase' \in {"reading", "linked"}
  BY ReadBlockKeeps DEF document, kept
<1>2. storage \in Seq(Block) /\ \A k \in 1..Len(storage) : IsSound(storage[k])
  BY DEF TaggedTypeOK, ComesBackInv
<1>3. ASSUME NEW k \in 1..Len(storage') PROVE IsSound(storage'[k])
  <2>1. CASE storage' = storage
    BY <1>2, <2>1
  <2>2. CASE \E b : IsSound(b) /\ storage' = storage \o <<b>>
    <3>1. PICK b : IsSound(b) /\ storage' = storage \o <<b>>
      BY <2>2
    <3>2. Len(storage') = Len(storage) + 1 /\ Len(storage) \in Nat
          /\ \A i \in 1..Len(storage) : storage'[i] = storage[i]
          /\ storage'[Len(storage) + 1] = b
      BY <1>2, <3>1
    <3>3. k \in 1..Len(storage) \/ k = Len(storage) + 1
      BY <3>2
    <3> QED BY <1>2, <3>1, <3>2, <3>3
  <2> QED BY <2>1, <2>2, ReadBlockStores DEF StoresSound
<1>4. IsSoundLayer(layer)
  BY DEF ComesBackInv
<1> QED BY <1>1, <1>3, <1>4 DEF ComesBackInv

\* The last block is no name.
LEMMA NameIsNotLast ==
  ASSUME NEW l, IsSoundLayer(l)
  PROVE  BlocksOf(l)[Len(BlocksOf(l))].type # "UnicodeLayerName"
<1> DEFINE b == BlocksOf(l)
           n == Len(l.unparsed)
           r == References(l)
<1>1. Len(b) = n + r + 4 /\ b[n + r + 4] = SettingBlock("BlendFill", l.fill)
  BY BlocksAre
<1> HIDE DEF b, n, r
<1>2. b[Len(b)].type = "BlendFill"
  BY <1>1 DEF SettingBlock
<1> QED BY <1>2 DEF b

\* The own section: block after block, as it was written.
LEMMA OwnReadComesBack ==
  ASSUME TaggedTypeOK, ComesBackInv, round = 2, ReadBlock
  PROVE  ComesBackInv'
<1> DEFINE blocks == BlocksOf(layer)
           n      == Len(blocks)
           s      == Len(storage)
           wide   == section.wide
<1>1. /\ layer' = layer /\ round' = 2 /\ section' = section /\ file' = file
      /\ maxLength' = maxLength
  BY ReadBlockKeeps DEF document, kept
<1>2. IsSoundLayer(layer) /\ section.padding = 1 /\ phase \in {"reading", "read"}
  BY DEF ComesBackInv
<1>3. IsReading /\ phase = "reading" /\ toRead >= 12
  BY <1>2 DEF ReadBlock, BadSignature, SkipUnknown, RefuseDivider, RefuseFixed, RefuseName,
              RefusePlaced, RefuseItem, ReadBase, ReadDivider, ReadFixed, SkipProtected, ReadName,
              ReadPlaced, BeginLinked, ReadItem, EndLinked, HasItem, IsReading
<1>4. /\ storage \in Seq(Block) /\ s \in Nat /\ start + toRead = maxLength
      /\ start \in Nat /\ toRead \in Int /\ maxLength \in Nat
  BY <1>3 DEF TaggedTypeOK
<1>5. PICK ends : /\ Laid(file, blocks, n, ends, wide)
                  /\ s <= n
                  /\ \A k \in 1..s : storage[k] = blocks[k]
                  /\ maxLength \in ends[n]..ends[n] + 1
                  /\ maxLength <= Len(file)
                  /\ start = ends[s]
  BY <1>3 DEF ComesBackInv, ReadsBack
<1>6. n \in Nat /\ blocks \in Seq(Block)
  BY <1>2, BlocksAre
<1> HIDE DEF blocks, n, s, wide
<1>7. ends \in [0..n -> Nat] /\ \A k \in 0..n : ends[k] <= ends[n]
  BY <1>5 DEF Laid
<1>8. s < n
  <2> SUFFICES ASSUME s = n PROVE FALSE
    BY <1>4, <1>5, <1>6
  <2>1. n \in 0..n /\ ends[n] \in Nat /\ start = ends[n]
    BY <1>5, <1>6, <1>7
  <2> QED BY <1>3, <1>4, <1>5, <2>1
<1>9. s + 1 \in 1..n /\ s + 1 \in 0..n /\ (s + 1) - 1 = s
  BY <1>4, <1>6, <1>8
<1>10. PICK bytes : /\ WrittenFor(blocks[s + 1], bytes, wide)
                    /\ StandsAt(file, ends[s], bytes)
                    /\ Len(bytes) \in Nat
                    /\ ends[s + 1] = ends[s] + Len(bytes)
  BY <1>5, <1>9 DEF Laid
<1> DEFINE b == blocks[s + 1]
<1>11. IsKept(b)
  BY <1>2, <1>9, BlocksAreKept DEF blocks, n
<1> HIDE DEF b
<1>12. IsWritten(b, bytes) /\ StandsAt(file, start, bytes)
  BY <1>5, <1>10 DEF IsWritten, b, wide
<1>13. Leave(start + Len(bytes), <<b>>)
  <2>1. ASSUME b.type = "UnicodeLayerName" PROVE InFile(start + Len(bytes) + 2)
    <3>1. s + 1 # n
      BY <1>2, <2>1, NameIsNotLast DEF b, blocks, n
    <3>2. s + 2 \in 1..n /\ s + 2 \in 0..n /\ (s + 2) - 1 = s + 1 /\ n \in 0..n
      BY <1>4, <1>6, <1>8, <3>1
    <3>3. PICK more : /\ Len(more) \in Nat /\ Len(more) >= 12
                      /\ ends[s + 2] = ends[s + 1] + Len(more)
      BY <1>5, <3>2 DEF Laid
    <3>4. ends[s + 2] <= ends[n] /\ ends[s + 1] \in Nat /\ ends[n] \in Nat
      BY <1>7, <1>9, <3>2
    <3>5. Len(file) \in Nat
      BY DEF TaggedTypeOK
    <3>6. ends[s + 1] = start + Len(bytes) /\ Len(bytes) \in Nat
      BY <1>5, <1>10
    <3>7. ends[n] <= maxLength /\ maxLength <= Len(file)
      BY <1>4, <1>5, <3>4
    <3>8. start + Len(bytes) + 2 <= Len(file)
      BY <1>4, <3>3, <3>4, <3>5, <3>6, <3>7
    <3> QED BY <3>8 DEF InFile
  <2> QED BY <1>2, <1>3, <1>11, <1>12, <2>1, KeptIsReadBack
<1>14. start' = ends[s + 1] /\ storage' = storage \o <<b>> /\ phase' = "reading"
  BY <1>5, <1>10, <1>13 DEF Leave
<1>15. /\ Len(storage') = s + 1
       /\ \A k \in 1..s : storage'[k] = storage[k]
       /\ storage'[s + 1] = b
  BY <1>4, <1>14 DEF s
<1>16. \A k \in 1..(s + 1) : storage'[k] = blocks[k]
  <2> SUFFICES ASSUME NEW k \in 1..(s + 1) PROVE storage'[k] = blocks[k]
    OBVIOUS
  <2>1. k \in 1..s \/ k = s + 1
    BY <1>4
  <2> QED BY <1>5, <1>15, <2>1 DEF b
<1>17. ReadsBack'
  <2>1. s + 1 <= n
    BY <1>4, <1>6, <1>8
  <2>2. /\ BlocksOf(layer)' = blocks /\ Len(BlocksOf(layer))' = n /\ section'.wide = wide
        /\ Len(storage)' = s + 1
    BY <1>1, <1>15 DEF blocks, n, wide
  <2> QED BY <1>1, <1>5, <1>14, <1>15, <1>16, <2>1, <2>2 DEF ReadsBack
<1> QED BY <1>1, <1>2, <1>14, <1>17 DEF ComesBackInv

\* The end of the section is where the blocks end, or a byte behind.
LEMMA EndComesBack ==
  ASSUME TaggedTypeOK, ComesBackInv, EndSection
  PROVE  ComesBackInv'
<1>1. /\ phase = "reading" /\ toRead < 12 /\ phase' \in {"read", "failed"}
      /\ phase' = IF toRead <= 0 \/ InFile(at + toRead) THEN "read" ELSE "failed"
      /\ at' = IF toRead > 0 /\ InFile(at + toRead) THEN at + toRead ELSE at
      /\ layer' = layer /\ round' = round /\ section' = section /\ file' = file
      /\ maxLength' = maxLength /\ storage' = storage
  BY DEF EndSection, document, kept
<1>2. IsSoundLayer(layer) /\ (round = 1 => \A k \in 1..Len(storage) : IsSound(storage[k]))
  BY DEF ComesBackInv
<1>3. CASE round # 2
  BY <1>1, <1>2, <1>3 DEF ComesBackInv
<1>4. CASE round = 2
  <2> DEFINE blocks == BlocksOf(layer)
             n      == Len(blocks)
             s      == Len(storage)
             wide   == section.wide
  <2>1. PICK ends : /\ Laid(file, blocks, n, ends, wide)
                    /\ s <= n
                    /\ \A k \in 1..s : storage[k] = blocks[k]
                    /\ maxLength \in ends[n]..ends[n] + 1
                    /\ maxLength <= Len(file)
                    /\ start = ends[s]
    BY <1>1, <1>4 DEF ComesBackInv, ReadsBack
  <2>2. /\ s \in Nat /\ start + toRead = maxLength /\ at = start
        /\ start \in Nat /\ toRead \in Int /\ maxLength \in Nat
    BY <1>1 DEF TaggedTypeOK
  <2>3. n \in Nat
    BY <1>2, BlocksAre
  <2> HIDE DEF blocks, n, s, wide
  <2>4. ends \in [0..n -> Nat] /\ \A k \in 0..n : ends[k] <= ends[n]
    BY <2>1 DEF Laid
  <2>5. s = n
    <3> SUFFICES ASSUME s < n PROVE FALSE
      BY <2>1, <2>2, <2>3
    <3>1. s + 1 \in 1..n /\ s + 1 \in 0..n /\ s \in 0..n /\ n \in 0..n /\ (s + 1) - 1 = s
      BY <2>2, <2>3
    <3>2. PICK bytes : /\ Len(bytes) \in Nat /\ Len(bytes) >= 12
                       /\ ends[s + 1] = ends[s] + Len(bytes)
      BY <2>1, <3>1 DEF Laid
    <3>3. ends[s + 1] <= ends[n] /\ ends[s + 1] \in Nat /\ ends[n] \in Nat /\ ends[s] \in Nat
      BY <2>4, <3>1
    <3>4. ends[n] <= maxLength
      BY <2>1, <2>2, <3>3
    <3>5. ends[s + 1] >= ends[s] + 12 /\ ends[s] = start
      BY <2>1, <3>2, <3>3
    <3>6. maxLength >= start + 12
      BY <2>2, <3>3, <3>4, <3>5
    <3>7. toRead < 12
      BY <1>1
    <3> QED BY <2>2, <3>6, <3>7
  <2>6. toRead \in {0, 1}
    <3>1. n \in 0..n /\ ends[n] \in Nat
      BY <2>3, <2>4
    <3>2. maxLength >= ends[n] /\ maxLength <= ends[n] + 1 /\ start = ends[n]
      BY <2>1, <2>2, <2>5, <3>1
    <3> QED BY <2>2, <3>1, <3>2
  <2>7. phase' = "read" /\ at' = maxLength
    <3>1. CASE toRead = 0
      BY <1>1, <2>2, <3>1
    <3>2. CASE toRead = 1
      <4>1. at + toRead = maxLength /\ InFile(at + toRead)
        BY <2>1, <2>2 DEF InFile
      <4> QED BY <1>1, <3>2, <4>1
    <3> QED BY <2>6, <3>1, <3>2
  <2>8. ReadsBack'
    <3>1. /\ BlocksOf(layer)' = blocks /\ Len(BlocksOf(layer))' = n /\ section'.wide = wide
          /\ Len(storage)' = s
      BY <1>1 DEF blocks, n, wide, s
    <3> QED BY <1>1, <2>1, <2>5, <2>7, <3>1 DEF ReadsBack
  <2>9. section.padding = 1
    BY <1>4 DEF ComesBackInv
  <2> QED BY <1>1, <1>2, <1>4, <2>7, <2>8, <2>9 DEF ComesBackInv
<1> QED BY <1>3, <1>4

\* A block that is passed along is one that nobody parses.
LEMMA PassAlongComesBack ==
  ASSUME TaggedTypeOK, ComesBackInv, PassAlong
  PROVE  ComesBackInv'
<1> DEFINE b    == storage[next]
           more == IF b.type = "Base" THEN Append(layer.unparsed, b) ELSE layer.unparsed
<1>1. /\ round = 1 /\ next \in DOMAIN storage /\ layer' = [layer EXCEPT !.unparsed = more]
      /\ phase = "read" /\ phase' = phase /\ storage' = storage /\ round' = round
  BY DEF PassAlong, document
<1>2. /\ storage \in Seq(Block) /\ layer \in Settings /\ IsSoundLayer(layer)
      /\ \A k \in 1..Len(storage) : IsSound(storage[k])
  BY <1>1 DEF TaggedTypeOK, Settings, ComesBackInv
<1>3. layer.unparsed \in Seq(Block) /\ b \in Block /\ IsSound(b)
  <2>1. layer.unparsed \in Seq(Block)
    BY <1>2 DEF Settings
  <2>2. next \in 1..Len(storage) /\ b = storage[next]
    BY <1>1, <1>2
  <2> HIDE DEF b, more
  <2>3. \A k \in 1..Len(storage) : storage[k] \in Block
    BY <1>2
  <2> QED BY <1>2, <2>1, <2>2, <2>3
<1> HIDE DEF b
<1>4. /\ more \in Seq(Block)
      /\ \A k \in 1..Len(more) : more[k].type = "Base" /\ IsSound(more[k])
  <2>1. CASE b.type = "Base"
    <3> DEFINE u == layer.unparsed
               a == Append(u, b)
    <3>1. /\ a \in Seq(Block) /\ Len(a) = Len(u) + 1 /\ Len(u) \in Nat
          /\ \A k \in 1..Len(u) : a[k] = u[k]
          /\ a[Len(u) + 1] = b
      BY <1>3, AppendProperties
    <3>2. \A k \in 1..Len(u) : u[k].type = "Base" /\ IsSound(u[k])
      BY <1>2 DEF IsSoundLayer
    <3>3. more = a
      BY <2>1
    <3> HIDE DEF u, a, more
    <3>4. \A k \in 1..Len(a) : k \in 1..Len(u) \/ k = Len(u) + 1
      BY <3>1
    <3>5. \A k \in 1..Len(a) : a[k].type = "Base" /\ IsSound(a[k])
      BY <1>3, <2>1, <3>1, <3>2, <3>4
    <3> QED BY <3>1, <3>3, <3>5
  <2>2. CASE b.type # "Base"
    BY <1>2, <1>3, <2>2 DEF IsSoundLayer
  <2> QED BY <2>1, <2>2
<1> HIDE DEF more
<1>5. layer' \in Settings /\ layer'.unparsed = more
      /\ layer'.reference = layer.reference /\ layer'.name = layer.name
      /\ layer'.locked = layer.locked /\ layer'.color = layer.color /\ layer'.fill = layer.fill
  BY <1>1, <1>2, <1>4 DEF Settings
<1>6. IsSoundLayer(layer')
  BY <1>2, <1>4, <1>5 DEF IsSoundLayer
<1> QED BY <1>1, <1>2, <1>6 DEF ComesBackInv

\* The layer is made of sound blocks, and nothing of it is written yet.
LEMMA ParseComesBack ==
  ASSUME TaggedTypeOK, ComesBackInv, ParseLayer
  PROVE  ComesBackInv'
<1>1. /\ round = 1 /\ section.padding = 1 /\ layer' = Parsed(layer, storage) /\ file' = <<>>
      /\ next' = 1 /\ phase' = "writing" /\ section' = section /\ round' = 1 /\ storage' = storage
  BY DEF ParseLayer
<1>2. /\ storage \in Seq(Block) /\ IsSoundLayer(layer)
      /\ \A k \in 1..Len(storage) : IsSound(storage[k])
  BY <1>1 DEF TaggedTypeOK, ComesBackInv
<1>3. IsSoundLayer(layer')
  BY <1>1, <1>2, ParsedIsSound
<1>4. IsLaid(<<>>, BlocksOf(layer'), 0, section.wide)
  BY NothingLaid
<1>5. next' - 1 = 0 /\ next' <= Len(layer'.unparsed) + 1
  <2>1. Len(layer'.unparsed) \in Nat
    BY <1>3 DEF IsSoundLayer, Settings
  <2> QED BY <1>1, <2>1
<1>6. IsLaid(file, BlocksOf(layer), next - 1, section.wide)'
  BY <1>1, <1>4, <1>5
<1> QED BY <1>1, <1>2, <1>3, <1>5, <1>6 DEF ComesBackInv

\* The blocks that nobody parses are written, one behind the other.
LEMMA UnparsedComesBack ==
  ASSUME TaggedTypeOK, ComesBackInv, WriteUnparsed
  PROVE  ComesBackInv'
<1> DEFINE b == layer.unparsed[next]
           wide == section.wide
           blocks == BlocksOf(layer)
<1>1. /\ phase = "writing" /\ next \in DOMAIN layer.unparsed /\ next' = next + 1
      /\ phase' = phase /\ layer' = layer /\ section' = section /\ round' = round
      /\ storage' = storage
  BY DEF WriteUnparsed
<1>2. PICK name \in NamesOf(b.key) :
        file' = file \o Written(b.signature, name, IsTaggedBlockSizeUint64(b.key) /\ wide, b.data)
  BY DEF WriteUnparsed
<1>3. /\ IsSoundLayer(layer) /\ round = 1 /\ section.padding = 1
      /\ IsLaid(file, blocks, next - 1, wide)
      /\ \A k \in 1..Len(storage) : IsSound(storage[k])
  BY <1>1 DEF ComesBackInv
<1>4. layer.unparsed \in Seq(Block)
  BY <1>3 DEF IsSoundLayer, Settings
<1>5. next \in 1..Len(layer.unparsed) /\ Len(layer.unparsed) \in Nat
  BY <1>1, <1>4
<1>6. b.type = "Base"
  BY <1>3, <1>5 DEF IsSoundLayer
<1>7. b = blocks[next] /\ next \in 1..Len(blocks)
  <2>1. References(layer) \in {0, 1} /\ Len(blocks) = Len(layer.unparsed) + References(layer) + 4
        /\ \A k \in 1..Len(layer.unparsed) : blocks[k] = layer.unparsed[k]
    BY <1>3, BlocksAre
  <2> HIDE DEF blocks
  <2> QED BY <1>5, <2>1
<1>8. IsKept(blocks[next])
  BY <1>3, <1>7, BlocksAreKept
<1> DEFINE bytes == Written(b.signature, name, IsTaggedBlockSizeUint64(b.key) /\ wide, b.data)
<1>9. WrittenFor(b, bytes, wide)
  <2>1. WideFor(b, wide) = (IsTaggedBlockSizeUint64(b.key) /\ wide)
    BY <1>6 DEF WideFor
  <2>2. RawOf(b) = b.data /\ NamesFor(b) = NamesOf(b.key)
    BY <1>6 DEF RawOf, NamesFor
  <2> HIDE DEF b, wide
  <2> QED BY <1>2, <2>1, <2>2 DEF WrittenFor
<1> DEFINE m == next - 1
<1>10. m \in Nat /\ m + 1 = next
  BY <1>5
<1> HIDE DEF blocks, b, wide, m, bytes
<1>11. IsLaid(file \o bytes, blocks, m + 1, wide)
  <2>1. IsLaid(file, blocks, m, wide) /\ IsKept(blocks[m + 1]) /\ WrittenFor(blocks[m + 1], bytes, wide)
    BY <1>3, <1>7, <1>8, <1>9, <1>10 DEF m
  <2> QED BY <1>10, <2>1, LaidGrows
<1>12. IsLaid(file, BlocksOf(layer), next - 1, section.wide)'
  <2>1. next' - 1 = m + 1
    BY <1>1, <1>5, <1>10
  <2> QED BY <1>1, <1>2, <1>11, <2>1 DEF blocks, wide, bytes
<1>13. next' <= Len(layer'.unparsed) + 1
  BY <1>1, <1>5
<1> QED BY <1>1, <1>3, <1>12, <1>13 DEF ComesBackInv

\* The section is written as a whole, and read from its start.
LEMMA GeneratedComesBack ==
  ASSUME TaggedTypeOK, ComesBackInv, WriteGenerated
  PROVE  ComesBackInv'
<1> DEFINE blocks == BlocksOf(layer)
           n      == Len(blocks)
           wide   == section.wide
           bytes  == file \o Generated(layer)
           end    == RoundUp(Len(bytes), 2)
           fill   == Zeros(end - Len(bytes))
<1>1. /\ phase = "writing" /\ next = Len(layer.unparsed) + 1
      /\ file' = bytes \o fill \o Trailer /\ maxLength' = end
      /\ start' = 0 /\ storage' = <<>> /\ round' = 2 /\ phase' = "reading"
      /\ section' = section /\ layer' = layer
  BY DEF WriteGenerated
<1>2. /\ IsSoundLayer(layer) /\ section.padding = 1
      /\ IsLaid(file, blocks, next - 1, wide)
  BY <1>1 DEF ComesBackInv
<1>3. Len(layer.unparsed) \in Nat /\ n \in Nat
  <2>1. layer.unparsed \in Seq(Block)
    BY <1>2 DEF IsSoundLayer, Settings
  <2> QED BY <1>2, <2>1, BlocksAre
<1>4. next - 1 = Len(layer.unparsed)
  BY <1>1, <1>3
<1>5. IsLaid(bytes, blocks, n, wide)
  BY <1>2, <1>4, GeneratedIsLaid
<1> HIDE DEF blocks, n, wide, bytes
<1>6. PICK ends : Laid(bytes, blocks, n, ends, wide) /\ ends[n] = Len(bytes)
  BY <1>5 DEF IsLaid
<1>7. bytes \in Seq(Byte) /\ Len(bytes) \in Nat
  BY <1>5 DEF IsLaid
<1>8. end \in Nat /\ end \in Len(bytes)..Len(bytes) + 1
  BY <1>7 DEF RoundUp
<1> HIDE DEF end
<1>9. end - Len(bytes) \in Nat
  BY <1>7, <1>8
<1>10. fill \in Seq(Byte)
  BY <1>9, ZerosAreBytes
<1> HIDE DEF fill
<1>11. bytes \o fill \in Seq(Byte)
  BY <1>7, <1>10, BothAreBytes
<1>12. Laid(bytes \o fill, blocks, n, ends, wide)
  BY <1>3, <1>6, <1>7, <1>10, LaidOn
<1>13. Laid(file', blocks, n, ends, wide)
  <2> DEFINE f == bytes \o fill
  <2>1. f \in Seq(Byte) /\ Laid(f, blocks, n, ends, wide) /\ file' = f \o Trailer
    BY <1>1, <1>11, <1>12
  <2> HIDE DEF f
  <2>2. Laid(f \o Trailer, blocks, n, ends, wide)
    BY <1>3, <2>1, LaidOn, TaggedBlocksAssumption
  <2> QED BY <2>1, <2>2
<1>14. maxLength' <= Len(file')
  BY WriteGeneratedTyped
<1>15. ends[0] = 0
  BY <1>6 DEF Laid
<1>16. ReadsBack'
  <2>1. /\ BlocksOf(layer)' = blocks /\ Len(BlocksOf(layer))' = n /\ section'.wide = wide
        /\ Len(storage)' = 0 /\ 1..0 = {}
    BY <1>1 DEF blocks, n, wide
  <2>2. maxLength' \in ends[n]..ends[n] + 1
    BY <1>1, <1>6, <1>8
  <2> QED BY <1>1, <1>3, <1>13, <1>14, <1>15, <2>1, <2>2 DEF ReadsBack
<1> QED BY <1>1, <1>2, <1>16 DEF ComesBackInv

\* Every step keeps the way back.
LEMMA NextComesBack == TaggedTypeOK /\ ComesBackInv /\ [Next]_vars => ComesBackInv'
<1> SUFFICES ASSUME TaggedTypeOK, ComesBackInv, [Next]_vars PROVE ComesBackInv'
  OBVIOUS
<1>1. CASE ReadBlock
  <2>1. round \in {1, 2}
    BY DEF TaggedTypeOK
  <2> QED BY <1>1, <2>1, ForeignReadComesBack, OwnReadComesBack
<1>2. CASE EndSection
  BY <1>2, EndComesBack
<1>3. CASE PassAlong
  BY <1>3, PassAlongComesBack
<1>4. CASE ParseLayer
  BY <1>4, ParseComesBack
<1>5. CASE WriteUnparsed
  BY <1>5, UnparsedComesBack
<1>6. CASE WriteGenerated
  BY <1>6, GeneratedComesBack
<1>7. CASE UNCHANGED vars
  BY <1>7 DEF vars, ComesBackInv, ReadsBack
<1> QED BY <1>1, <1>2, <1>3, <1>4, <1>5, <1>6, <1>7 DEF Next, Read

\* When its blocks are read, the layer is back.
LEMMA BackWhenRead == TaggedTypeOK /\ ComesBackInv => LayerComesBack
<1> SUFFICES ASSUME TaggedTypeOK, ComesBackInv, round = 2, phase = "read"
             PROVE  /\ layer = Parsed([DefaultLayer EXCEPT !.unparsed = layer.unparsed,
                                                           !.blend = layer.blend], storage)
                    /\ AreBaseOf(layer.unparsed, storage)
                    /\ at = maxLength
  BY DEF LayerComesBack
<1> DEFINE blocks == BlocksOf(layer)
<1>1. IsSoundLayer(layer)
  BY DEF ComesBackInv
<1>2. /\ Len(storage) = Len(blocks) /\ at = maxLength
      /\ \A k \in 1..Len(storage) : storage[k] = blocks[k]
  BY DEF ComesBackInv, ReadsBack
<1>3. storage \in Seq(Block) /\ blocks \in Seq(Block)
  BY <1>1, BlocksAre DEF TaggedTypeOK
<1> HIDE DEF blocks
<1>4. storage = blocks
  BY <1>2, <1>3, SeqEqual
<1> QED BY <1>1, <1>2, <1>4, LayerIsParsed, BaseBlocksAre DEF blocks

\* What a layer writes is read as the same layer, whatever the foreign section
\* held: every block it kept and every setting has its own bytes between its
\* own ends, each reader stops where the next block starts, and the reader ends
\* where the section does.
THEOREM LayersAreReadBack == Spec => []LayerComesBack
<1>1. Init => TaggedTypeOK /\ ComesBackInv
  BY InitTyped, InitComesBack
<1>2. TaggedTypeOK /\ ComesBackInv /\ [Next]_vars => (TaggedTypeOK /\ ComesBackInv)'
  BY NextTyped, NextComesBack
<1>3. TaggedTypeOK /\ ComesBackInv => LayerComesBack
  BY BackWhenRead
<1> QED BY <1>1, <1>2, <1>3, PTL DEF Spec

-----------------------------------------------------------------------------
(* Sections that other programs wrote: one block behind the other.  What a   *)
(* reader refuses leaves bytes behind that are passed over in words; as long *)
(* as none of these begins like a signature, the block behind them is found. *)

\* A block that a layer or a document keeps as it is, or knows how to read.
\* A length may be one of the data, which is then filled up to the padding.
IsOfBase(b, key, length, raw, padding) ==
  /\ key \in BaseKeys
  /\ Len(raw) = RoundUp(length, padding)
  /\ b.type = IF key = "lrTypeTool" THEN "TypeTool" ELSE "Base"
  /\ b.key = key /\ b.data = raw

\* A setting of one length.
IsOfFixed(b, key, length, raw) ==
  /\ key \in DOMAIN FixedLayout
  /\ length = FixedLayout[key].length /\ Len(raw) = length
  /\ b.type = FixedLayout[key].type /\ b.key = FixedLayout[key].stored
  /\ Len(b.data) = FixedLayout[key].field /\ StandsAt(raw, 0, b.data)

\* A protection of another length, at least that of what is jumped over wrongly.
IsOfProtected(b, key, length, raw) ==
  /\ key = "lrProtectedSetting"
  /\ length >= 8 /\ Len(raw) = length - 8
  /\ b.type = "ProtectedSetting" /\ b.key = key /\ b.data = <<Data("zero")>>

\* A name with a count of characters, and what fills it up.
IsOfName(b, key, length, raw, padding) ==
  /\ key = "lrUnicodeName"
  /\ \E units \in Nat, text \in Seq(Byte), rest \in Seq(Byte) :
       /\ raw = Number(units) \o (text \o rest)
       /\ Len(text) = 2 * units
       /\ \A i \in 1..Len(text) : text[i] # Data("lone")
       /\ Len(raw) = RoundUp(length, padding) /\ Len(raw) >= RoundUp(4 + Len(text), 4)
       /\ b.data = Unterminated(text)
  /\ b.type = "UnicodeLayerName" /\ b.key = key

\* The bytes of a divider that has more than its type.
WithMode(kind, mode, rest) == Number(kind) \o (Text("8BIM") \o (mode \o rest))

\* A divider of its type only; one with a blend mode, which may be unknown; and
\* one with a sub-type as well.
IsOfDivider(b, key, length, raw, padding) ==
  /\ key = "lrSectionDivider"
  /\ \E kind \in 0..3 :
       \/ /\ RoundUp(length, padding) < 12
          /\ raw = Number(kind)
          /\ b.data = <<>>
       \/ \E mode \in Seq(Byte), rest \in Seq(Byte) :
            /\ RoundUp(length, padding) >= 12
            /\ raw = WithMode(kind, mode, rest)
            /\ Len(mode) = 4
            /\ Len(rest) = IF RoundUp(length, padding) >= 16 THEN 4 ELSE 0
            /\ \/ \E m \in BlendModes \cap Texts : mode = Text(m) /\ b.data = mode
               \/ mode[1].txt \notin BlendModes /\ b.data = <<>>
  /\ b.type = "LrSection" /\ b.key = key

\* A block of a smart object.
IsOfPlaced(b, key, length, raw) ==
  /\ key \in DOMAIN Identifier /\ Identifier[key] \in Texts
  /\ \E rest \in Seq(Byte) : raw = Text(Identifier[key]) \o rest
  /\ Len(raw) = length
  /\ b.type = (IF key = "lrPlaced" THEN "PlacedLayer" ELSE "PlacedLayerData")
  /\ b.key = key /\ b.data = raw

\* The bytes of a block that is read as b.
IsBlockOf(b, bytes, padding, wide) ==
  /\ b \in Block /\ b.signature \in Signatures
  /\ \E name \in Texts, length \in Nat, raw \in Seq(Byte) :
       LET key == TaggedBlockKey(name)
       IN  IF key \in BaseKeys /\ IsTaggedBlockSizeUint64(key) /\ wide
           THEN /\ bytes = WideBlockHead(b.signature, name, length) \o raw
                /\ IsOfBase(b, key, length, raw, padding)
           ELSE /\ bytes = BlockHead(b.signature, name, length) \o raw
                /\ \/ IsOfBase(b, key, length, raw, padding)
                   \/ IsOfFixed(b, key, length, raw)
                   \/ IsOfProtected(b, key, length, raw)
                   \/ IsOfName(b, key, length, raw, padding)
                   \/ IsOfDivider(b, key, length, raw, padding)
                   \/ IsOfPlaced(b, key, length, raw)

\* What a reader takes of a block before it refuses it: nothing more than the
\* header of a setting of another length; a divider of an unknown type or with
\* another signature; a name of which no UTF-8 can be made; another identifier.
IsRefused(key, length, raw, padding) ==
  \/ key \in DOMAIN FixedLayout \ {"lrProtectedSetting"}
       /\ length # FixedLayout[key].length /\ raw = <<>>
  \/ key = "lrSectionDivider" /\ \E kind \in Nat : kind > 3 /\ raw = Number(kind)
  \/ key = "lrSectionDivider" /\ RoundUp(length, padding) >= 12
       /\ \E kind \in 0..3, other \in Seq(Byte) :
            raw = Number(kind) \o other /\ Len(other) = 4 /\ other[1].txt # "8BIM"
  \/ key = "lrUnicodeName" /\ \E units \in Nat, text \in Seq(Byte) :
       /\ raw = Number(units) \o text /\ Len(text) = 2 * units
       /\ \E i \in 1..Len(text) : text[i] = Data("lone")
  \/ key \in DOMAIN Identifier /\ Len(raw) = 4 /\ raw[1].txt # Identifier[key]

\* The bytes of which nothing is stored: a word that is no signature, a block
\* without a known key, or what is taken of one that is refused.
IsLost(bytes, padding) ==
  \/ Len(bytes) = 4 /\ bytes[1].txt \notin Signatures
  \/ \E signature \in Signatures \cap Texts, name \in Texts, length \in Nat, raw \in Seq(Byte) :
       /\ bytes = BlockHead(signature, name, length) \o raw
       /\ \/ TaggedBlockKey(name) = "Unknown" /\ Len(raw) = RoundUp(length, padding)
          \/ IsRefused(TaggedBlockKey(name), length, raw, padding)

-----------------------------------------------------------------------------
\* The reader of a block is chosen by its key.
LEMMA ReaderOfKey ==
  ASSUME phase = "reading", ReadBlock
  PROVE  /\ IsReading
         /\ ~IsSigned => BadSignature
         /\ IsSigned /\ Key = "Unknown" => SkipUnknown
         /\ IsSigned /\ Key \in BaseKeys => ReadBase
         /\ IsSigned /\ Key = "lrSectionDivider" => ReadDivider \/ RefuseDivider
         /\ IsSigned /\ Key \in DOMAIN FixedLayout => ReadFixed \/ RefuseFixed \/ SkipProtected
         /\ IsSigned /\ Key = "lrUnicodeName" => ReadName \/ RefuseName
         /\ IsSigned /\ Key \in DOMAIN Identifier => ReadPlaced \/ RefusePlaced
<1>1. ~ReadItem /\ ~RefuseItem /\ ~EndLinked
  BY DEF ReadItem, RefuseItem, EndLinked, HasItem
<1>2. BadSignature => IsReading /\ ~IsSigned
  BY DEF BadSignature
<1>3. SkipUnknown => IsReading /\ IsSigned /\ Key = "Unknown"
  BY DEF SkipUnknown
<1>4. ReadDivider \/ RefuseDivider => IsReading /\ IsSigned /\ Key = "lrSectionDivider"
  BY DEF ReadDivider, RefuseDivider
<1>5. ReadFixed \/ RefuseFixed \/ SkipProtected
        => IsReading /\ IsSigned /\ Key \in DOMAIN FixedLayout
  BY DEF ReadFixed, RefuseFixed, SkipProtected, FixedLayout
<1>6. ReadName \/ RefuseName => IsReading /\ IsSigned /\ Key = "lrUnicodeName"
  BY DEF ReadName, RefuseName
<1>7. ReadPlaced \/ RefusePlaced => IsReading /\ IsSigned /\ Key \in DOMAIN Identifier
  BY DEF ReadPlaced, RefusePlaced
<1>8. BeginLinked => IsReading /\ IsSigned /\ Key \in {"lrLinked", "lrLinked_8Byte"}
  BY DEF BeginLinked
<1>9. ReadBase => IsReading /\ IsSigned /\ Key \in BaseKeys
  BY DEF ReadBase
<1>10. BaseKeys = {"lrArtboard", "lrId", "lrFilterMask", "lrTypeTool"}
  BY DEF BaseKeys
<1>11. DOMAIN FixedLayout
         = {"lrReferencePoint", "lrSheetColorSetting", "lrBlendFill", "lrProtectedSetting"}
  BY DEF FixedLayout
<1>12. DOMAIN Identifier = {"lrPlaced", "lrPlacedData"}
  BY DEF Identifier
<1>13. \/ BadSignature \/ SkipUnknown \/ ReadBase \/ (ReadDivider \/ RefuseDivider)
       \/ (ReadFixed \/ RefuseFixed \/ SkipProtected) \/ (ReadName \/ RefuseName)
       \/ (ReadPlaced \/ RefusePlaced) \/ BeginLinked
  BY <1>1 DEF ReadBlock
<1> QED BY <1>2, <1>3, <1>4, <1>5, <1>6, <1>7, <1>8, <1>9, <1>10, <1>11, <1>12, <1>13

\* An exception behind all the stops leaves the turn at the last of them.
LEMMA ThrownAtLast ==
  ASSUME NEW stops, Throw(stops), NEW last \in stops, last \in Nat, at \in Nat, at < last,
         \A s \in stops : s \in Nat /\ s <= last, last <= Len(file)
  PROVE  Leave(last, <<>>)
<1>1. PICK stop \in stops \cup {at} :
        /\ \A s \in stops : InFile(s) => s <= stop
        /\ Leave(stop, <<>>)
  BY DEF Throw
<1>2. InFile(last)
  BY DEF InFile
<1>3. last <= stop
  BY <1>1, <1>2
<1>4. stop = last
  <2>1. CASE stop = at
    BY <1>3, <2>1
  <2>2. CASE stop \in stops
    BY <1>3, <2>2
  <2> QED BY <1>1, <2>1, <2>2
<1> QED BY <1>1, <1>4

\* A word that is no signature is passed over.
LEMMA WordIsPassed ==
  ASSUME TaggedTypeOK, phase = "reading", ReadBlock,
         NEW bytes \in Seq(Byte), Len(bytes) = 4, bytes[1].txt \notin Signatures,
         StandsAt(file, start, bytes)
  PROVE  Leave(start + 4, <<>>)
<1>1. IsReading
  BY ReaderOfKey
<1>2. start \in Nat /\ at = start /\ Len(file) \in Nat
  BY <1>1, Offsets
<1>3. start + 4 <= Len(file) /\ file[start + 1] = bytes[1]
  BY <1>2 DEF StandsAt
<1>4. TextAt(start) \in {file[start + 1].txt, "?"}
  BY DEF TextAt
<1>5. ~IsSigned
  BY <1>3, <1>4 DEF IsSigned, Signatures
<1>6. Throw({start + 4})
  BY <1>5, ReaderOfKey DEF BadSignature
<1> DEFINE last == start + 4
<1>7. last \in {last} /\ last \in Nat /\ at \in Nat /\ at < last /\ last <= Len(file)
      /\ \A s \in {last} : s \in Nat /\ s <= last
  BY <1>2, <1>3
<1>8. Throw({last})
  BY <1>6
<1> HIDE DEF last
<1>9. Leave(last, <<>>)
  BY <1>7, <1>8, ThrownAtLast
<1> QED BY <1>9 DEF last

\* What the readers find of a block.
LEMMA BlockIsFound ==
  ASSUME TaggedTypeOK, phase = "reading", ReadBlock,
         NEW signature \in Signatures, signature \in Texts, NEW name \in Texts,
         NEW length \in Nat, NEW raw \in Seq(Byte),
         StandsAt(file, start, BlockHead(signature, name, length) \o raw)
  PROVE  /\ IsReading /\ IsSigned /\ TextAt(start) = signature
         /\ Key = TaggedBlockKey(name) /\ Length = length
         /\ StandsAt(file, start + 12, raw)
         /\ Len(BlockHead(signature, name, length) \o raw) = 12 + Len(raw)
         /\ start \in Nat /\ at = start /\ Payload = start + 12
         /\ Header = {start + 4, start + 8, start + 12}
         /\ Len(raw) \in Nat /\ Len(file) \in Nat /\ start + 12 + Len(raw) <= Len(file)
         /\ file \in Seq(Byte)
<1>1. IsReading
  BY ReaderOfKey
<1>2. /\ start \in Nat /\ at = start /\ Payload = start + 12 /\ file \in Seq(Byte)
      /\ Header = {start + 4, start + 8, start + 12}
  BY <1>1, Offsets
<1>3. Len(raw) \in Nat /\ Len(file) \in Nat
  BY <1>2
<1>4. /\ Len(BlockHead(signature, name, length) \o raw) = 12 + Len(raw)
      /\ TextAt(start) = signature /\ TextAt(start + 4) = name
      /\ NumberAt(start + 8) = length
      /\ StandsAt(file, start + 12, raw)
  BY <1>2, HeadIsFound
<1>5. IsSigned /\ Key = TaggedBlockKey(name) /\ Length = length
  BY <1>4 DEF IsSigned, Signatures, Key, Length
<1>6. start + 12 + Len(raw) <= Len(file)
  BY <1>4 DEF StandsAt
<1> QED BY <1>1, <1>2, <1>3, <1>4, <1>5, <1>6

\* A length that is rounded up to the padding.
LEMMA PaddedIsNat ==
  ASSUME TaggedTypeOK, NEW length \in Nat
  PROVE  RoundUp(length, section.padding) \in Nat
<1>1. section.padding \in {1, 4}
  BY TaggedBlocksAssumption DEF TaggedTypeOK, IsSection
<1>2. CASE section.padding = 1
  BY <1>2 DEF RoundUp
<1>3. CASE section.padding = 4
  BY <1>3 DEF RoundUp
<1> QED BY <1>1, <1>2, <1>3

\* A block without a known key is skipped.
LEMMA UnknownIsSkipped ==
  ASSUME TaggedTypeOK, phase = "reading", ReadBlock,
         NEW signature \in Signatures, signature \in Texts, NEW name \in Texts,
         NEW length \in Nat, NEW raw \in Seq(Byte),
         StandsAt(file, start, BlockHead(signature, name, length) \o raw),
         TaggedBlockKey(name) = "Unknown", Len(raw) = RoundUp(length, section.padding)
  PROVE  Leave(start + 12 + Len(raw), <<>>)
<1>1. /\ IsReading /\ IsSigned /\ Key = "Unknown" /\ Length = length
      /\ start \in Nat /\ at = start /\ Payload = start + 12
      /\ Header = {start + 4, start + 8, start + 12}
      /\ Len(raw) \in Nat /\ Len(file) \in Nat /\ start + 12 + Len(raw) <= Len(file)
  BY BlockIsFound
<1> DEFINE last  == start + 12 + Len(raw)
           stops == Header \cup {last}
<1>2. Throw(stops)
  BY <1>1, ReaderOfKey DEF SkipUnknown
<1>3. last \in stops /\ last \in Nat /\ at \in Nat /\ at < last /\ last <= Len(file)
      /\ \A s \in stops : s \in Nat /\ s <= last
  BY <1>1
<1> HIDE DEF last, stops
<1>4. Leave(last, <<>>)
  BY <1>2, <1>3, ThrownAtLast
<1> QED BY <1>4 DEF last

\* Of a setting of another length only the header is taken.
LEMMA FixedIsRefused ==
  ASSUME TaggedTypeOK, phase = "reading", ReadBlock,
         NEW signature \in Signatures, signature \in Texts, NEW name \in Texts,
         NEW length \in Nat, NEW raw \in Seq(Byte),
         StandsAt(file, start, BlockHead(signature, name, length) \o raw),
         NEW key \in DOMAIN FixedLayout \ {"lrProtectedSetting"},
         TaggedBlockKey(name) = key, length # FixedLayout[key].length, raw = <<>>
  PROVE  Leave(start + 12 + Len(raw), <<>>)
<1>1. /\ IsReading /\ IsSigned /\ Key = key /\ Length = length
      /\ start \in Nat /\ at = start /\ Payload = start + 12
      /\ Header = {start + 4, start + 8, start + 12}
      /\ Len(raw) = 0 /\ Len(file) \in Nat /\ start + 12 + Len(raw) <= Len(file)
  BY BlockIsFound
<1>2. RefuseFixed
  <2>1. ReadFixed \/ RefuseFixed \/ SkipProtected
    BY <1>1, ReaderOfKey
  <2>2. ~ReadFixed /\ ~SkipProtected
    BY <1>1 DEF ReadFixed, SkipProtected
  <2> QED BY <2>1, <2>2
<1>3. Throw(Header)
  BY <1>2 DEF RefuseFixed
<1> DEFINE last  == start + 12
           stops == Header
<1>4. last \in stops /\ last \in Nat /\ at \in Nat /\ at < last /\ last <= Len(file)
      /\ \A s \in stops : s \in Nat /\ s <= last
  BY <1>1
<1>5. Throw(stops)
  BY <1>3
<1> HIDE DEF last, stops
<1>6. Leave(last, <<>>)
  BY <1>4, <1>5, ThrownAtLast
<1>7. last = start + 12 + Len(raw)
  BY <1>1 DEF last
<1> QED BY <1>6, <1>7

\* A smart object's block with another identifier.
LEMMA PlacedIsRefused ==
  ASSUME TaggedTypeOK, phase = "reading", ReadBlock,
         NEW signature \in Signatures, signature \in Texts, NEW name \in Texts,
         NEW length \in Nat, NEW raw \in Seq(Byte),
         StandsAt(file, start, BlockHead(signature, name, length) \o raw),
         NEW key \in DOMAIN Identifier,
         TaggedBlockKey(name) = key, Len(raw) = 4, raw[1].txt # Identifier[key]
  PROVE  Leave(start + 12 + Len(raw), <<>>)
<1>1. /\ IsReading /\ IsSigned /\ Key = key /\ Length = length
      /\ start \in Nat /\ at = start /\ Payload = start + 12
      /\ Header = {start + 4, start + 8, start + 12}
      /\ StandsAt(file, start + 12, raw)
      /\ Len(raw) = 4 /\ Len(file) \in Nat /\ start + 12 + Len(raw) <= Len(file)
  BY BlockIsFound
<1>2. TextAt(Payload) # Identifier[Key]
  <2>1. file[Payload + 1] = raw[1]
    BY <1>1 DEF StandsAt
  <2>2. TextAt(Payload) \in {file[Payload + 1].txt, "?"}
    BY DEF TextAt
  <2>3. Identifier[Key] # "?"
    BY <1>1 DEF Identifier
  <2> QED BY <1>1, <2>1, <2>2, <2>3
<1>3. RefusePlaced
  <2>1. ReadPlaced \/ RefusePlaced
    BY <1>1, ReaderOfKey
  <2> QED BY <1>2, <2>1 DEF ReadPlaced
<1> DEFINE last  == start + 12 + Len(raw)
           stops == Header \cup {Payload + 4}
<1>4. Throw(stops)
  BY <1>3 DEF RefusePlaced
<1>5. last \in stops /\ last \in Nat /\ at \in Nat /\ at < last /\ last <= Len(file)
      /\ \A s \in stops : s \in Nat /\ s <= last
  BY <1>1
<1> HIDE DEF last, stops
<1>6. Leave(last, <<>>)
  BY <1>4, <1>5, ThrownAtLast
<1> QED BY <1>6 DEF last

\* A divider of a type that is not known.
LEMMA DividerTypeIsRefused ==
  ASSUME TaggedTypeOK, phase = "reading", ReadBlock,
         NEW signature \in Signatures, signature \in Texts, NEW name \in Texts,
         NEW length \in Nat, NEW raw \in Seq(Byte),
         StandsAt(file, start, BlockHead(signature, name, length) \o raw),
         TaggedBlockKey(name) = "lrSectionDivider",
         NEW kind \in Nat, kind > 3, raw = Number(kind)
  PROVE  Leave(start + 12 + Len(raw), <<>>)
<1>1. /\ IsReading /\ IsSigned /\ Key = "lrSectionDivider" /\ Length = length
      /\ start \in Nat /\ at = start /\ Payload = start + 12
      /\ Header = {start + 4, start + 8, start + 12}
      /\ StandsAt(file, start + 12, raw)
      /\ Len(file) \in Nat /\ start + 12 + Len(raw) <= Len(file)
  BY BlockIsFound
<1>2. Len(raw) = 4
  BY FourBytes
<1>3. NumberAt(Payload) = kind
  <2>1. start + 12 \in Nat
    BY <1>1
  <2>2. NumberAt(start + 12) = kind
    BY <1>1, <2>1, NumberStands
  <2> QED BY <1>1, <2>2
<1>4. ~DividerTypeIsKnown
  BY <1>3 DEF DividerTypeIsKnown
<1>5. Throw(Header \cup {Payload + 4})
  <2>1. ReadDivider \/ RefuseDivider
    BY <1>1, ReaderOfKey
  <2> QED BY <1>4, <2>1 DEF ReadDivider, RefuseDivider
<1> DEFINE last  == start + 12 + Len(raw)
           stops == Header \cup {Payload + 4}
<1>6. Throw(stops)
  BY <1>5
<1>7. last \in stops /\ last \in Nat /\ at \in Nat /\ at < last /\ last <= Len(file)
      /\ \A s \in stops : s \in Nat /\ s <= last
  BY <1>1, <1>2
<1> HIDE DEF last, stops
<1>8. Leave(last, <<>>)
  BY <1>6, <1>7, ThrownAtLast
<1> QED BY <1>8 DEF last

\* A number with bytes behind it.
LEMMA NumberBefore ==
  ASSUME NEW p \in Nat, NEW n \in Nat, NEW rest \in Seq(Byte), file \in Seq(Byte),
         StandsAt(file, p, Number(n) \o rest)
  PROVE  /\ NumberAt(p) = n
         /\ StandsAt(file, p + 4, rest)
         /\ Len(Number(n) \o rest) = 4 + Len(rest)
         /\ Len(rest) \in Nat
<1> DEFINE s == Number(n)
<1>1. s \in Seq(Byte) /\ Len(s) = 4 /\ Len(file) \in Nat /\ Len(rest) \in Nat
  BY FourBytes
<1>2. StandsAt(file, p, s \o rest)
  OBVIOUS
<1> HIDE DEF s
<1>3. StandsAt(file, p, s) /\ StandsAt(file, p + Len(s), rest)
  BY <1>1, <1>2, PartsStand
<1>4. Len(s \o rest) = 4 + Len(rest)
  <2>1. Len(s \o rest) = Len(s) + Len(rest)
    BY <1>1, BothAreBytes
  <2> QED BY <1>1, <2>1
<1>5. NumberAt(p) = n
  BY <1>3, NumberStands DEF s
<1> QED BY <1>1, <1>3, <1>4, <1>5 DEF s

\* A text with bytes behind it.
LEMMA TextBefore ==
  ASSUME NEW p \in Nat, NEW t \in Texts, NEW rest \in Seq(Byte), file \in Seq(Byte),
         StandsAt(file, p, Text(t) \o rest)
  PROVE  /\ TextAt(p) = t
         /\ StandsAt(file, p + 4, rest)
         /\ Len(Text(t) \o rest) = 4 + Len(rest)
         /\ Len(rest) \in Nat
<1> DEFINE s == Text(t)
<1>1. s \in Seq(Byte) /\ Len(s) = 4 /\ Len(file) \in Nat /\ Len(rest) \in Nat
  BY FourBytes
<1>2. StandsAt(file, p, s \o rest)
  OBVIOUS
<1> HIDE DEF s
<1>3. StandsAt(file, p, s) /\ StandsAt(file, p + Len(s), rest)
  BY <1>1, <1>2, PartsStand
<1>4. Len(s \o rest) = 4 + Len(rest)
  <2>1. Len(s \o rest) = Len(s) + Len(rest)
    BY <1>1, BothAreBytes
  <2> QED BY <1>1, <2>1
<1>5. TextAt(p) = t
  BY <1>3, TextStands DEF s
<1> QED BY <1>1, <1>3, <1>4, <1>5 DEF s

\* A divider with another signature in front of its blend mode.
LEMMA DividerSignatureIsRefused ==
  ASSUME TaggedTypeOK, phase = "reading", ReadBlock,
         NEW signature \in Signatures, signature \in Texts, NEW name \in Texts,
         NEW length \in Nat, NEW raw \in Seq(Byte),
         StandsAt(file, start, BlockHead(signature, name, length) \o raw),
         TaggedBlockKey(name) = "lrSectionDivider", RoundUp(length, section.padding) >= 12,
         NEW kind \in 0..3, NEW other \in Seq(Byte), raw = Number(kind) \o other,
         Len(other) = 4, other[1].txt # "8BIM"
  PROVE  Leave(start + 12 + Len(raw), <<>>)
<1>1. /\ IsReading /\ IsSigned /\ Key = "lrSectionDivider" /\ Length = length
      /\ start \in Nat /\ at = start /\ Payload = start + 12
      /\ Header = {start + 4, start + 8, start + 12}
      /\ StandsAt(file, start + 12, raw)
      /\ Len(file) \in Nat /\ start + 12 + Len(raw) <= Len(file) /\ file \in Seq(Byte)
  BY BlockIsFound
<1>2. /\ NumberAt(Payload) = kind
      /\ StandsAt(file, Payload + 4, other)
      /\ Len(raw) = 8
  <2> DEFINE p == start + 12
             k == kind
  <2>1. p \in Nat /\ StandsAt(file, p, Number(k) \o other) /\ k \in Nat /\ file \in Seq(Byte)
    BY <1>1
  <2>2. raw = Number(k) \o other
    OBVIOUS
  <2> HIDE DEF p, k
  <2>6. NumberAt(p) = k /\ StandsAt(file, p + 4, other)
        /\ Len(Number(k) \o other) = 4 + Len(other)
    <3>1. NumberAt(p) = k
      BY <2>1, NumberBefore
    <3>2. StandsAt(file, p + 4, other)
      BY <2>1, NumberBefore
    <3>3. Len(Number(k) \o other) = 4 + Len(other)
      <4> DEFINE s == Number(k)
      <4>1. s \in Seq(Byte) /\ Len(s) = 4
        BY <2>1, FourBytes
      <4> HIDE DEF s
      <4>2. Len(s \o other) = Len(s) + Len(other)
        BY <4>1, BothAreBytes
      <4>3. Len(s \o other) = 4 + Len(other)
        BY <4>1, <4>2
      <4> QED BY <4>3 DEF s
    <3> QED BY <3>1, <3>2, <3>3
  <2>3. p = Payload
    BY <1>1 DEF p
  <2>4. Len(raw) = 8
    BY <2>2, <2>6
  <2>5. StandsAt(file, Payload + 4, other) /\ NumberAt(Payload) = k
    BY <2>3, <2>6
  <2> QED BY <2>4, <2>5 DEF k
<1>3. DividerTypeIsKnown /\ DividerHasBlendMode
  BY <1>1, <1>2 DEF DividerTypeIsKnown, DividerHasBlendMode
<1>4. TextAt(Payload + 4) # "8BIM"
  <2>1. file[(Payload + 4) + 1] = other[1]
    BY <1>2 DEF StandsAt
  <2>2. TextAt(Payload + 4) \in {file[(Payload + 4) + 1].txt, "?"}
    BY DEF TextAt
  <2> QED BY <2>1, <2>2
<1>5. Throw(Header \cup {Payload + 4, Payload + 8})
  <2>1. ReadDivider \/ RefuseDivider
    BY <1>1, ReaderOfKey
  <2> QED BY <1>3, <1>4, <2>1 DEF ReadDivider, RefuseDivider
<1> DEFINE last  == start + 12 + Len(raw)
           stops == Header \cup {Payload + 4, Payload + 8}
<1>6. Throw(stops)
  BY <1>5
<1>7. last \in stops /\ last \in Nat /\ at \in Nat /\ at < last /\ last <= Len(file)
      /\ \A s \in stops : s \in Nat /\ s <= last
  BY <1>1, <1>2
<1> HIDE DEF last, stops
<1>8. Leave(last, <<>>)
  BY <1>6, <1>7, ThrownAtLast
<1> QED BY <1>8 DEF last

\* The characters of a name stand behind their number.
LEMMA UnitsStand ==
  ASSUME TaggedTypeOK, IsReading, NEW units \in Nat, NEW text \in Seq(Byte),
         NEW rest \in Seq(Byte), Len(text) = 2 * units, file \in Seq(Byte), start \in Nat,
         Payload = start + 12, StandsAt(file, start + 12, Number(units) \o (text \o rest))
  PROVE  /\ NameLength = Len(text) /\ Len(text) \in Nat /\ Len(rest) \in Nat
         /\ BytesAt(Payload + 4, NameLength) = text
         /\ InFile(Payload + 4 + NameLength)
         /\ NameIsReadable <=> \A i \in 1..Len(text) : text[i] # Data("lone")
         /\ Len(Number(units) \o (text \o rest)) = 4 + Len(text) + Len(rest)
<1> DEFINE p    == start + 12
           both == text \o rest
<1>1. p \in Nat /\ p + 4 \in Nat
  OBVIOUS
<1>2. both \in Seq(Byte)
  BY BothAreBytes
<1>3. Len(both) = Len(text) + Len(rest)
  BY BothAreBytes
<1>4. StandsAt(file, p, Number(units) \o both)
  OBVIOUS
<1>5. StandsAt(file, p + 4, both) /\ NumberAt(p) = units
      /\ Len(Number(units) \o both) = 4 + Len(both)
  <2> HIDE DEF p, both
  <2> QED BY <1>1, <1>2, <1>4, NumberBefore
<1>6. Len(text) \in Nat /\ Len(rest) \in Nat /\ Len(file) \in Nat
  OBVIOUS
<1>7. StandsAt(file, p + 4, text)
  <2> DEFINE q == p + 4
  <2>1. q \in Nat /\ StandsAt(file, q, text \o rest)
    BY <1>1, <1>5
  <2> HIDE DEF q
  <2>2. StandsAt(file, q, text)
    BY <1>6, <2>1, PartsStand
  <2> QED BY <2>2 DEF q
<1>8. NameLength = Len(text)
  BY <1>5 DEF NameLength
<1>9. BytesAt(p + 4, Len(text)) = text /\ InFile((p + 4) + Len(text))
  <2> DEFINE q == p + 4
  <2>1. q \in Nat /\ StandsAt(file, q, text)
    BY <1>1, <1>7
  <2> HIDE DEF q
  <2>2. BytesAt(q, Len(text)) = text /\ InFile(q + Len(text))
    BY <2>1, BytesStand
  <2> QED BY <2>2 DEF q
<1>10. NameIsReadable <=> \A i \in 1..Len(text) : text[i] # Data("lone")
  BY <1>8, <1>9 DEF NameIsReadable
<1>11. Len(Number(units) \o (text \o rest)) = 4 + Len(text) + Len(rest)
  <2>1. Len(Number(units) \o (text \o rest)) = 4 + Len(both)
    BY <1>5
  <2> HIDE DEF both
  <2> QED BY <1>3, <1>6, <2>1
<1> QED BY <1>6, <1>8, <1>9, <1>10, <1>11

\* A name of which no UTF-8 can be made.
LEMMA NameIsRefused ==
  ASSUME TaggedTypeOK, phase = "reading", ReadBlock,
         NEW signature \in Signatures, signature \in Texts, NEW name \in Texts,
         NEW length \in Nat, NEW raw \in Seq(Byte),
         StandsAt(file, start, BlockHead(signature, name, length) \o raw),
         TaggedBlockKey(name) = "lrUnicodeName",
         NEW units \in Nat, NEW text \in Seq(Byte), raw = Number(units) \o text,
         Len(text) = 2 * units, \E i \in 1..Len(text) : text[i] = Data("lone")
  PROVE  Leave(start + 12 + Len(raw), <<>>)
<1>1. /\ IsReading /\ IsSigned /\ Key = "lrUnicodeName" /\ Length = length
      /\ start \in Nat /\ at = start /\ Payload = start + 12
      /\ Header = {start + 4, start + 8, start + 12}
      /\ StandsAt(file, start + 12, raw)
      /\ Len(file) \in Nat /\ start + 12 + Len(raw) <= Len(file) /\ file \in Seq(Byte)
  BY BlockIsFound
<1>2. /\ NameLength = Len(text) /\ Len(text) \in Nat
      /\ InFile(Payload + 4 + NameLength)
      /\ ~NameIsReadable
      /\ Len(raw) = 4 + Len(text)
  <2> DEFINE rest == <<>>
  <2>1. rest \in Seq(Byte) /\ Len(rest) = 0 /\ text \o rest = text
    BY ConcatEmptySeq
  <2> HIDE DEF rest
  <2>2. StandsAt(file, start + 12, Number(units) \o (text \o rest))
    BY <1>1, <2>1
  <2>3. /\ NameLength = Len(text) /\ Len(text) \in Nat
        /\ InFile(Payload + 4 + NameLength)
        /\ NameIsReadable <=> \A i \in 1..Len(text) : text[i] # Data("lone")
        /\ Len(Number(units) \o (text \o rest)) = 4 + Len(text) + Len(rest)
    BY <1>1, <2>1, <2>2, UnitsStand
  <2> QED BY <2>1, <2>3
<1>3. Throw(NameStops)
  <2>1. ReadName \/ RefuseName
    BY <1>1, ReaderOfKey
  <2> QED BY <1>2, <2>1 DEF ReadName, RefuseName
<1> DEFINE last  == start + 12 + Len(raw)
           stops == NameStops
<1>4. Throw(stops)
  BY <1>3
<1>5. last \in stops /\ last \in Nat /\ at \in Nat /\ at < last /\ last <= Len(file)
      /\ \A s \in stops : s \in Nat /\ s <= last
  BY <1>1, <1>2 DEF NameStops
<1> HIDE DEF last, stops
<1>6. Leave(last, <<>>)
  BY <1>4, <1>5, ThrownAtLast
<1> QED BY <1>6 DEF last

\* What is lost leaves nothing, and the reader stands behind it.
LEMMA LostIsPassed ==
  ASSUME TaggedTypeOK, phase = "reading", ReadBlock,
         NEW bytes \in Seq(Byte), IsLost(bytes, section.padding), StandsAt(file, start, bytes)
  PROVE  Leave(start + Len(bytes), <<>>)
<1>1. CASE Len(bytes) = 4 /\ bytes[1].txt \notin Signatures
  BY <1>1, WordIsPassed
<1>2. ASSUME NEW signature \in Signatures \cap Texts, NEW name \in Texts, NEW length \in Nat,
             NEW raw \in Seq(Byte), bytes = BlockHead(signature, name, length) \o raw,
             \/ TaggedBlockKey(name) = "Unknown" /\ Len(raw) = RoundUp(length, section.padding)
             \/ IsRefused(TaggedBlockKey(name), length, raw, section.padding)
      PROVE  Leave(start + Len(bytes), <<>>)
  <2>1. /\ StandsAt(file, start, BlockHead(signature, name, length) \o raw)
        /\ signature \in Signatures /\ signature \in Texts
    BY <1>2
  <2>2. Len(bytes) = 12 + Len(raw) /\ start \in Nat /\ Len(raw) \in Nat
    BY <1>2, <2>1, BlockIsFound
  <2>3. Leave(start + 12 + Len(raw), <<>>)
    <3>1. CASE TaggedBlockKey(name) = "Unknown" /\ Len(raw) = RoundUp(length, section.padding)
      BY <2>1, <3>1, UnknownIsSkipped
    <3>2. ASSUME TaggedBlockKey(name) \in DOMAIN FixedLayout \ {"lrProtectedSetting"},
                 length # FixedLayout[TaggedBlockKey(name)].length, raw = <<>>
          PROVE  Leave(start + 12 + Len(raw), <<>>)
      BY <2>1, <3>2, FixedIsRefused
    <3>3. ASSUME TaggedBlockKey(name) = "lrSectionDivider",
                 NEW kind \in Nat, kind > 3, raw = Number(kind)
          PROVE  Leave(start + 12 + Len(raw), <<>>)
      BY <2>1, <3>3, DividerTypeIsRefused
    <3>4. ASSUME TaggedBlockKey(name) = "lrSectionDivider",
                 RoundUp(length, section.padding) >= 12,
                 NEW kind \in 0..3, NEW other \in Seq(Byte),
                 raw = Number(kind) \o other, Len(other) = 4, other[1].txt # "8BIM"
          PROVE  Leave(start + 12 + Len(raw), <<>>)
      BY <2>1, <3>4, DividerSignatureIsRefused
    <3>5. ASSUME TaggedBlockKey(name) = "lrUnicodeName", NEW units \in Nat,
                 NEW text \in Seq(Byte), raw = Number(units) \o text, Len(text) = 2 * units,
                 \E i \in 1..Len(text) : text[i] = Data("lone")
          PROVE  Leave(start + 12 + Len(raw), <<>>)
      BY <2>1, <3>5, NameIsRefused
    <3>6. ASSUME TaggedBlockKey(name) \in DOMAIN Identifier, Len(raw) = 4,
                 raw[1].txt # Identifier[TaggedBlockKey(name)]
          PROVE  Leave(start + 12 + Len(raw), <<>>)
      BY <2>1, <3>6, PlacedIsRefused
    <3> QED BY <1>2, <3>1, <3>2, <3>3, <3>4, <3>5, <3>6 DEF IsRefused
  <2>4. start + 12 + Len(raw) = start + Len(bytes)
    BY <2>2
  <2> QED BY <2>3, <2>4
<1> QED BY <1>1, <1>2 DEF IsLost

\* What a block is stored as.
LEMMA StoredIs ==
  ASSUME NEW b \in Block, NEW type, NEW key, NEW data,
         b.type = type, b.key = key, b.data = data, TextAt(start) = b.signature
  PROVE  Stored(type, key, data) = <<b>>
<1>1. b = [type |-> b.type, key |-> b.key, signature |-> b.signature, data |-> b.data]
  BY DEF Block
<1> QED BY <1>1 DEF Stored

\* A reader whose stops are all in the file leaves the turn at its end.
LEMMA ReadToItsEnd ==
  ASSUME NEW stops, NEW end \in Nat, NEW blocks, ReadTo(stops, end, blocks),
         \A s \in stops : s <= end, end <= Len(file), Len(file) \in Nat,
         \A s \in stops : s \in Nat
  PROVE  Leave(end, blocks)
<1>1. InFile(end) /\ \A s \in stops : InFile(s)
  BY DEF InFile
<1> QED BY <1>1 DEF ReadTo

\* A block that is kept as it is.
LEMMA BaseIsRead ==
  ASSUME TaggedTypeOK, phase = "reading", ReadBlock,
         NEW b \in Block, b.signature \in Signatures, NEW name \in Texts,
         NEW length \in Nat, NEW raw \in Seq(Byte),
         StandsAt(file, start, BlockHead(b.signature, name, length) \o raw),
         IsOfBase(b, TaggedBlockKey(name), length, raw, section.padding),
         ~(IsTaggedBlockSizeUint64(TaggedBlockKey(name)) /\ section.wide)
  PROVE  Leave(start + 12 + Len(raw), <<b>>)
<1>0. b.signature \in Texts
  BY DEF Block
<1>1. /\ IsReading /\ IsSigned /\ TextAt(start) = b.signature
      /\ Key = TaggedBlockKey(name) /\ Length = length
      /\ start \in Nat /\ at = start
      /\ StandsAt(file, start + 12, raw)
      /\ Len(raw) \in Nat /\ Len(file) \in Nat /\ start + 12 + Len(raw) <= Len(file)
      /\ file \in Seq(Byte)
  BY <1>0, BlockIsFound
<1>2. ReadBase
  BY <1>1, ReaderOfKey DEF IsOfBase
<1> DEFINE body == start + 8 + 4
           n    == RoundUp(length, section.padding)
           type == IF Key = "lrTypeTool" THEN "TypeTool" ELSE "Base"
<1>3. LengthAt(start + 8, 4) = length
  BY <1>1 DEF LengthAt, Length
<1>4. ReadTo({start + 4, start + 8, body, body + n}, body + n,
             Stored(type, Key, BytesAt(body, n)))
  BY <1>1, <1>2, <1>3 DEF ReadBase
<1>5. n = Len(raw) /\ body = start + 12
  BY <1>1 DEF IsOfBase
<1> HIDE DEF body, n
<1>6. BytesAt(body, n) = raw
  <2>1. body \in Nat /\ StandsAt(file, body, raw)
    BY <1>1, <1>5
  <2>2. BytesAt(body, Len(raw)) = raw
    BY <1>1, <2>1, BytesStand
  <2> QED BY <1>5, <2>2
<1>7. Leave(body + n, Stored(type, Key, raw))
  <2> DEFINE end    == body + n
             stops  == {start + 4, start + 8, body, end}
             blocks == Stored(type, Key, raw)
  <2>1. /\ end \in Nat /\ end <= Len(file)
        /\ \A s \in stops : s \in Nat /\ s <= end
    BY <1>1, <1>5
  <2>2. ReadTo(stops, end, blocks)
    BY <1>4, <1>6
  <2> HIDE DEF end, stops, blocks, type
  <2>3. Leave(end, blocks)
    BY <1>1, <2>1, <2>2, ReadToItsEnd
  <2> QED BY <2>3 DEF end, blocks
<1>8. Stored(type, Key, raw) = <<b>>
  BY <1>1, StoredIs DEF IsOfBase
<1>9. body + n = start + 12 + Len(raw)
  BY <1>1, <1>5
<1> QED BY <1>7, <1>8, <1>9

\* The same with a length of 8 bytes.
LEMMA WideBaseIsRead ==
  ASSUME TaggedTypeOK, phase = "reading", ReadBlock,
         NEW b \in Block, b.signature \in Signatures, NEW name \in Texts,
         NEW length \in Nat, NEW raw \in Seq(Byte),
         StandsAt(file, start, WideBlockHead(b.signature, name, length) \o raw),
         IsOfBase(b, TaggedBlockKey(name), length, raw, section.padding),
         IsTaggedBlockSizeUint64(TaggedBlockKey(name)), section.wide
  PROVE  /\ Leave(start + 16 + Len(raw), <<b>>)
         /\ Len(WideBlockHead(b.signature, name, length) \o raw) = 16 + Len(raw)
         /\ start \in Nat /\ Len(raw) \in Nat
<1>0. b.signature \in Texts /\ IsReading
  BY ReaderOfKey DEF Block
<1>1. start \in Nat /\ at = start /\ file \in Seq(Byte) /\ Len(file) \in Nat /\ Len(raw) \in Nat
  BY <1>0, Offsets
<1>2. /\ Len(WideBlockHead(b.signature, name, length) \o raw) = 16 + Len(raw)
      /\ TextAt(start) = b.signature /\ TextAt(start + 4) = name
      /\ LengthAt(start + 8, 8) = length
      /\ StandsAt(file, start + 16, raw)
  BY <1>0, <1>1, WideHeadIsFound
<1>3. start + 16 + Len(raw) <= Len(file)
  BY <1>2 DEF StandsAt
<1>4. IsSigned /\ Key = TaggedBlockKey(name)
  BY <1>2 DEF IsSigned, Signatures, Key
<1>5. ReadBase
  BY <1>4, ReaderOfKey DEF IsOfBase
<1> DEFINE body == start + 8 + 8
           n    == RoundUp(length, section.padding)
           type == IF Key = "lrTypeTool" THEN "TypeTool" ELSE "Base"
<1>6. ReadTo({start + 4, start + 8, body, body + n}, body + n,
             Stored(type, Key, BytesAt(body, n)))
  BY <1>2, <1>4, <1>5 DEF ReadBase
<1>7. n = Len(raw) /\ body = start + 16
  BY <1>1 DEF IsOfBase
<1> HIDE DEF body, n
<1>8. BytesAt(body, n) = raw
  <2>1. body \in Nat /\ StandsAt(file, body, raw)
    BY <1>1, <1>2, <1>7
  <2>2. BytesAt(body, Len(raw)) = raw
    BY <1>1, <2>1, BytesStand
  <2> QED BY <1>7, <2>2
<1>9. Leave(body + n, Stored(type, Key, raw))
  <2> DEFINE end    == body + n
             stops  == {start + 4, start + 8, body, end}
             blocks == Stored(type, Key, raw)
  <2>1. /\ end \in Nat /\ end <= Len(file)
        /\ \A s \in stops : s \in Nat /\ s <= end
    BY <1>1, <1>3, <1>7
  <2>2. ReadTo(stops, end, blocks)
    BY <1>6, <1>8
  <2> HIDE DEF end, stops, blocks, type
  <2>3. Leave(end, blocks)
    BY <1>1, <2>1, <2>2, ReadToItsEnd
  <2> QED BY <2>3 DEF end, blocks
<1>10. Stored(type, Key, raw) = <<b>>
  BY <1>2, <1>4, StoredIs DEF IsOfBase
<1>11. body + n = start + 16 + Len(raw)
  BY <1>1, <1>7
<1> QED BY <1>1, <1>2, <1>9, <1>10, <1>11

\* A setting of its length.
LEMMA FixedSettingIsRead ==
  ASSUME TaggedTypeOK, phase = "reading", ReadBlock,
         NEW b \in Block, b.signature \in Signatures, NEW name \in Texts,
         NEW length \in Nat, NEW raw \in Seq(Byte),
         StandsAt(file, start, BlockHead(b.signature, name, length) \o raw),
         IsOfFixed(b, TaggedBlockKey(name), length, raw)
  PROVE  Leave(start + 12 + Len(raw), <<b>>)
<1> DEFINE key == TaggedBlockKey(name)
<1>0. b.signature \in Texts /\ b.data \in Seq(Byte)
  BY DEF Block
<1>1. /\ IsReading /\ IsSigned /\ TextAt(start) = b.signature
      /\ Key = key /\ Length = length
      /\ start \in Nat /\ StandsAt(file, start + 12, raw)
      /\ Len(raw) \in Nat /\ Len(file) \in Nat /\ start + 12 + Len(raw) <= Len(file)
  BY <1>0, BlockIsFound
<1>2. /\ key \in DOMAIN FixedLayout /\ length = FixedLayout[key].length /\ Len(raw) = length
      /\ b.type = FixedLayout[key].type /\ b.key = FixedLayout[key].stored
      /\ Len(b.data) = FixedLayout[key].field /\ StandsAt(raw, 0, b.data)
  BY DEF IsOfFixed
<1> HIDE DEF key
<1>3. StandsAt(file, start + 12, b.data)
  <2> DEFINE data == b.data
             q    == start + 12
             d    == Len(data)
             r    == Len(raw)
  <2>1. q \in Nat /\ d \in Nat /\ r \in Nat /\ Len(file) \in Nat
    BY <1>0, <1>1
  <2>2. q + r <= Len(file) /\ \A i \in 1..r : file[q + i] = raw[i]
    BY <1>1 DEF StandsAt
  <2>3. 0 + d <= r /\ \A i \in 1..d : raw[0 + i] = data[i]
    BY <1>2 DEF StandsAt
  <2>4. \A i \in 1..d : i \in 1..r /\ 0 + i = i
    BY <2>1, <2>3
  <2>5. q + d <= Len(file)
    BY <2>1, <2>2, <2>3
  <2> HIDE DEF q, d, r, data
  <2>6. \A i \in 1..d : file[q + i] = data[i]
    BY <2>2, <2>3, <2>4
  <2> QED BY <2>5, <2>6 DEF StandsAt, q, d, data
<1>4. Leave(start + 12 + FixedLayout[key].length,
            Stored(FixedLayout[key].type, FixedLayout[key].stored, b.data))
  BY <1>0, <1>1, <1>2, <1>3, FixedIsRead
<1>5. Stored(FixedLayout[key].type, FixedLayout[key].stored, b.data) = <<b>>
  BY <1>1, <1>2, StoredIs
<1> QED BY <1>2, <1>4, <1>5

\* A protection of another length, and what is jumped over of it.
LEMMA ProtectedIsRead ==
  ASSUME TaggedTypeOK, phase = "reading", ReadBlock,
         NEW b \in Block, b.signature \in Signatures, NEW name \in Texts,
         NEW length \in Nat, NEW raw \in Seq(Byte),
         StandsAt(file, start, BlockHead(b.signature, name, length) \o raw),
         IsOfProtected(b, TaggedBlockKey(name), length, raw)
  PROVE  Leave(start + 12 + Len(raw), <<b>>)
<1>0. b.signature \in Texts
  BY DEF Block
<1>1. /\ IsReading /\ IsSigned /\ TextAt(start) = b.signature
      /\ Key = TaggedBlockKey(name) /\ Length = length
      /\ start \in Nat /\ Header = {start + 4, start + 8, start + 12}
      /\ Len(raw) \in Nat /\ Len(file) \in Nat /\ start + 12 + Len(raw) <= Len(file)
  BY <1>0, BlockIsFound
<1>2. Key = "lrProtectedSetting" /\ length >= 8 /\ Len(raw) = length - 8
  BY <1>1 DEF IsOfProtected
<1>3. Key \in DOMAIN FixedLayout /\ FixedLayout[Key].length = 4
  BY <1>2 DEF FixedLayout
<1>4. SkipProtected
  <2>1. ReadFixed \/ RefuseFixed \/ SkipProtected
    BY <1>1, <1>3, ReaderOfKey
  <2> QED BY <1>1, <1>2, <1>3, <2>1 DEF ReadFixed, RefuseFixed
<1> DEFINE end    == start + 4 + length
           blocks == Stored("ProtectedSetting", Key, <<Data("zero")>>)
<1>5. ReadTo(Header, end, blocks)
  BY <1>1, <1>4 DEF SkipProtected
<1>6. end = start + 12 + Len(raw) /\ end \in Nat /\ end <= Len(file)
      /\ \A s \in Header : s \in Nat /\ s <= end
  BY <1>1, <1>2
<1>7. blocks = <<b>>
  BY <1>1, <1>2, StoredIs DEF IsOfProtected
<1> HIDE DEF end, blocks
<1>8. Leave(end, blocks)
  BY <1>1, <1>5, <1>6, ReadToItsEnd
<1> QED BY <1>6, <1>7, <1>8

\* A name with what fills it up.
LEMMA NameIsRead ==
  ASSUME TaggedTypeOK, phase = "reading", ReadBlock,
         NEW b \in Block, b.signature \in Signatures, NEW name \in Texts,
         NEW length \in Nat, NEW raw \in Seq(Byte),
         StandsAt(file, start, BlockHead(b.signature, name, length) \o raw),
         IsOfName(b, TaggedBlockKey(name), length, raw, section.padding)
  PROVE  Leave(start + 12 + Len(raw), <<b>>)
<1>0. b.signature \in Texts
  BY DEF Block
<1>1. /\ IsReading /\ IsSigned /\ TextAt(start) = b.signature
      /\ Key = TaggedBlockKey(name) /\ Length = length
      /\ start \in Nat /\ Payload = start + 12 /\ Header = {start + 4, start + 8, start + 12}
      /\ StandsAt(file, start + 12, raw) /\ file \in Seq(Byte)
      /\ Len(raw) \in Nat /\ Len(file) \in Nat /\ start + 12 + Len(raw) <= Len(file)
  BY <1>0, BlockIsFound
<1>2. PICK units \in Nat, text \in Seq(Byte), rest \in Seq(Byte) :
        /\ raw = Number(units) \o (text \o rest)
        /\ Len(text) = 2 * units
        /\ \A i \in 1..Len(text) : text[i] # Data("lone")
        /\ Len(raw) = RoundUp(length, section.padding)
        /\ Len(raw) >= RoundUp(4 + Len(text), 4)
        /\ b.data = Unterminated(text)
  BY DEF IsOfName
<1>3. Key = "lrUnicodeName" /\ b.type = "UnicodeLayerName" /\ b.key = Key
  BY <1>1 DEF IsOfName
<1>4. /\ NameLength = Len(text) /\ Len(text) \in Nat /\ Len(rest) \in Nat
      /\ BytesAt(Payload + 4, NameLength) = text
      /\ NameIsReadable
      /\ Len(raw) = 4 + Len(text) + Len(rest)
  <2>1. StandsAt(file, start + 12, Number(units) \o (text \o rest))
    BY <1>1, <1>2
  <2>2. /\ NameLength = Len(text) /\ Len(text) \in Nat /\ Len(rest) \in Nat
        /\ BytesAt(Payload + 4, NameLength) = text
        /\ NameIsReadable <=> \A i \in 1..Len(text) : text[i] # Data("lone")
        /\ Len(Number(units) \o (text \o rest)) = 4 + Len(text) + Len(rest)
    BY <1>1, <1>2, <2>1, UnitsStand
  <2> QED BY <1>2, <2>2
<1>5. ReadName
  <2>1. ReadName \/ RefuseName
    BY <1>1, <1>3, ReaderOfKey
  <2> QED BY <1>4, <2>1 DEF RefuseName
<1> DEFINE r      == RoundUp(4 + Len(text), 4)
           stops  == NameStops \cup {Payload + r}
           end    == Payload + Len(raw)
           blocks == Stored("UnicodeLayerName", Key, Unterminated(text))
<1>6. ReadTo(stops, end, blocks)
  BY <1>1, <1>2, <1>4, <1>5 DEF ReadName
<1>7. r \in Nat /\ r <= Len(raw)
  <2>1. r \in Nat
    BY <1>4 DEF RoundUp
  <2> QED BY <1>2, <2>1
<1>8. /\ end \in Nat /\ end <= Len(file) /\ end = start + 12 + Len(raw)
      /\ \A s \in stops : s \in Nat /\ s <= end
  <2>1. stops = {start + 4, start + 8, start + 12, Payload + 4, Payload + 4 + Len(text), Payload + r}
    BY <1>1, <1>4 DEF NameStops
  <2>2. end \in Nat /\ end <= Len(file) /\ end = start + 12 + Len(raw)
    BY <1>1
  <2> HIDE DEF stops, r, end
  <2>3. end = start + 12 + 4 + Len(text) + Len(rest) /\ Payload + r <= end /\ Payload + r \in Nat
    BY <1>1, <1>4, <1>7, <2>2 DEF end
  <2> QED BY <1>1, <1>4, <2>1, <2>2, <2>3
<1>9. blocks = <<b>>
  BY <1>1, <1>2, <1>3, StoredIs
<1> HIDE DEF stops, end, blocks
<1>10. Leave(end, blocks)
  BY <1>1, <1>6, <1>8, ReadToItsEnd
<1> QED BY <1>8, <1>9, <1>10

\* A block of a smart object.
LEMMA PlacedIsRead ==
  ASSUME TaggedTypeOK, phase = "reading", ReadBlock,
         NEW b \in Block, b.signature \in Signatures, NEW name \in Texts,
         NEW length \in Nat, NEW raw \in Seq(Byte),
         StandsAt(file, start, BlockHead(b.signature, name, length) \o raw),
         IsOfPlaced(b, TaggedBlockKey(name), length, raw)
  PROVE  Leave(start + 12 + Len(raw), <<b>>)
<1>0. b.signature \in Texts
  BY DEF Block
<1>1. /\ IsReading /\ IsSigned /\ TextAt(start) = b.signature
      /\ Key = TaggedBlockKey(name) /\ Length = length
      /\ start \in Nat /\ Payload = start + 12 /\ Header = {start + 4, start + 8, start + 12}
      /\ StandsAt(file, start + 12, raw) /\ file \in Seq(Byte)
      /\ Len(raw) \in Nat /\ Len(file) \in Nat /\ start + 12 + Len(raw) <= Len(file)
  BY <1>0, BlockIsFound
<1>2. PICK rest \in Seq(Byte) : raw = Text(Identifier[Key]) \o rest
  BY <1>1 DEF IsOfPlaced
<1>3. Key \in DOMAIN Identifier /\ Identifier[Key] \in Texts /\ Len(raw) = length
  BY <1>1 DEF IsOfPlaced
<1>4. TextAt(Payload) = Identifier[Key] /\ Len(raw) >= 4
  <2> DEFINE p == start + 12
             t == Identifier[Key]
  <2>1. p \in Nat /\ t \in Texts /\ StandsAt(file, p, Text(t) \o rest)
    BY <1>1, <1>2, <1>3
  <2>2. raw = Text(t) \o rest
    BY <1>2
  <2> HIDE DEF p, t
  <2>3. TextAt(p) = t
    BY <1>1, <2>1, TextBefore
  <2>4. Len(Text(t) \o rest) = 4 + Len(rest) /\ Len(rest) \in Nat
    BY <1>1, <2>1, TextBefore
  <2>5. p = Payload
    BY <1>1 DEF p
  <2>6. Len(raw) >= 4
    BY <2>2, <2>4
  <2> QED BY <2>3, <2>5, <2>6 DEF t
<1>5. ReadPlaced
  <2>1. ReadPlaced \/ RefusePlaced
    BY <1>1, <1>3, ReaderOfKey
  <2> QED BY <1>4, <2>1 DEF RefusePlaced
<1> DEFINE type   == IF Key = "lrPlaced" THEN "PlacedLayer" ELSE "PlacedLayerData"
           end    == Payload + Len(raw)
           stops  == Header \cup {Payload + 4, end}
           blocks == Stored(type, Key, raw)
<1>6. BytesAt(Payload, Len(raw)) = raw
  <2> DEFINE p == start + 12
  <2>1. p \in Nat /\ StandsAt(file, p, raw) /\ p = Payload
    BY <1>1
  <2> HIDE DEF p
  <2>2. BytesAt(p, Len(raw)) = raw
    BY <1>1, <2>1, BytesStand
  <2> QED BY <2>1, <2>2
<1>7. ReadTo(stops, end, blocks)
  BY <1>1, <1>3, <1>5, <1>6 DEF ReadPlaced
<1>8. /\ end \in Nat /\ end <= Len(file) /\ end = start + 12 + Len(raw)
      /\ \A s \in stops : s \in Nat /\ s <= end
  BY <1>1, <1>4
<1>9. blocks = <<b>>
  BY <1>1, StoredIs DEF IsOfPlaced
<1> HIDE DEF stops, end, blocks
<1>10. Leave(end, blocks)
  BY <1>1, <1>7, <1>8, ReadToItsEnd
<1> QED BY <1>8, <1>9, <1>10

\* A divider with its type only.
LEMMA ShortDividerIsRead ==
  ASSUME TaggedTypeOK, phase = "reading", ReadBlock,
         NEW b \in Block, b.signature \in Signatures, NEW name \in Texts,
         NEW length \in Nat, NEW raw \in Seq(Byte),
         StandsAt(file, start, BlockHead(b.signature, name, length) \o raw),
         TaggedBlockKey(name) = "lrSectionDivider", RoundUp(length, section.padding) < 12,
         NEW kind \in 0..3, raw = Number(kind),
         b.type = "LrSection", b.key = "lrSectionDivider", b.data = <<>>
  PROVE  Leave(start + 12 + Len(raw), <<b>>)
<1>0. b.signature \in Texts
  BY DEF Block
<1>1. /\ IsReading /\ IsSigned /\ TextAt(start) = b.signature
      /\ Key = "lrSectionDivider" /\ Length = length
      /\ start \in Nat /\ Payload = start + 12 /\ Header = {start + 4, start + 8, start + 12}
      /\ StandsAt(file, start + 12, raw)
      /\ Len(file) \in Nat /\ start + 12 + Len(raw) <= Len(file)
  BY <1>0, BlockIsFound
<1>2. Len(raw) = 4
  BY FourBytes
<1>3. NumberAt(Payload) = kind
  <2>1. start + 12 \in Nat /\ kind \in Nat
    BY <1>1
  <2>2. NumberAt(start + 12) = kind
    BY <1>1, <2>1, NumberStands
  <2> QED BY <1>1, <2>2
<1>4. DividerTypeIsKnown
  BY <1>3 DEF DividerTypeIsKnown
<1>5. RoundUp(length, section.padding) \in Nat
  BY PaddedIsNat
<1>6. ~DividerHasBlendMode /\ ~(RoundUp(Length, section.padding) >= 16)
  BY <1>1, <1>5 DEF DividerHasBlendMode
<1> DEFINE stops  == Header \cup {Payload + 4}
           end    == Payload + 4
           blocks == Stored("LrSection", Key, <<>>)
<1>7. ReadTo(stops, end, blocks)
  <2>1. ReadDivider
    <3>1. ReadDivider \/ RefuseDivider
      BY <1>1, ReaderOfKey
    <3> QED BY <1>4, <1>6, <3>1 DEF RefuseDivider
  <2>2. ReadTo(Header \cup {Payload + 4} \cup {} \cup {}, Payload + 4,
               Stored("LrSection", Key, <<>>))
    BY <1>6, <2>1 DEF ReadDivider
  <2> QED BY <2>2
<1>8. /\ end \in Nat /\ end <= Len(file) /\ end = start + 12 + Len(raw)
      /\ \A s \in stops : s \in Nat /\ s <= end
  BY <1>1, <1>2
<1>9. blocks = <<b>>
  BY <1>1, StoredIs
<1> HIDE DEF stops, end, blocks
<1>10. Leave(end, blocks)
  BY <1>1, <1>7, <1>8, ReadToItsEnd
<1> QED BY <1>8, <1>9, <1>10

\* The length of a divider with a blend mode.
LEMMA WithModeLength ==
  ASSUME NEW k \in Nat, NEW mode \in Seq(Byte), NEW rest \in Seq(Byte), Len(mode) = 4,
         NEW n \in Nat, Len(rest) = n
  PROVE  Len(WithMode(k, mode, rest)) = 12 + n
<1> DEFINE s1 == Number(k)
           s2 == Text("8BIM")
           s34 == mode \o rest
           s234 == s2 \o s34
<1>1. s1 \in Seq(Byte) /\ Len(s1) = 4 /\ s2 \in Seq(Byte) /\ Len(s2) = 4
  BY FourBytes, TaggedBlocksAssumption
<1>2. s34 \in Seq(Byte) /\ Len(s34) = 4 + n
  <2>1. s34 \in Seq(Byte)
    BY BothAreBytes
  <2>2. Len(mode \o rest) = Len(mode) + Len(rest)
    BY BothAreBytes
  <2> QED BY <2>1, <2>2
<1> HIDE DEF s1, s2, s34
<1>3. s234 \in Seq(Byte) /\ Len(s234) = 8 + n
  <2>1. s234 \in Seq(Byte)
    BY <1>1, <1>2, BothAreBytes
  <2>2. Len(s2 \o s34) = Len(s2) + Len(s34)
    BY <1>1, <1>2, BothAreBytes
  <2> QED BY <1>1, <1>2, <2>1, <2>2
<1> HIDE DEF s234
<1>4. Len(s1 \o s234) = Len(s1) + Len(s234)
  BY <1>1, <1>3, BothAreBytes
<1>5. Len(s1 \o s234) = 12 + n
  BY <1>1, <1>3, <1>4
<1> QED BY <1>5 DEF WithMode, s1, s2, s34, s234

\* What stands in a divider with a blend mode.
LEMMA DividerStands ==
  ASSUME file \in Seq(Byte), NEW p \in Nat, NEW k \in Nat,
         NEW mode \in Seq(Byte), NEW rest \in Seq(Byte), Len(mode) = 4,
         StandsAt(file, p, WithMode(k, mode, rest))
  PROVE  /\ NumberAt(p) = k /\ TextAt(p + 4) = "8BIM"
         /\ StandsAt(file, p + 8, mode)
<1> DEFINE t    == "8BIM"
           tail == mode \o rest
           body == Text(t) \o tail
<1>1. t \in Texts /\ Len(file) \in Nat /\ Len(rest) \in Nat
  BY TaggedBlocksAssumption
<1>2. tail \in Seq(Byte)
  BY BothAreBytes
<1> HIDE DEF tail
<1>3. body \in Seq(Byte)
  <2> DEFINE s == Text(t)
  <2>1. s \in Seq(Byte)
    BY <1>1, FourBytes
  <2> HIDE DEF s, t
  <2>2. s \o tail \in Seq(Byte)
    BY <1>2, <2>1, BothAreBytes
  <2> QED BY <2>2 DEF s
<1>4. StandsAt(file, p, Number(k) \o body)
  BY DEF tail, WithMode
<1> HIDE DEF body, t
<1>5. NumberAt(p) = k
  BY <1>3, <1>4, NumberBefore
<1>6. StandsAt(file, p + 4, body)
  BY <1>3, <1>4, NumberBefore
<1> DEFINE q == p + 4
<1>8. q \in Nat /\ StandsAt(file, q, Text(t) \o tail)
  BY <1>6 DEF body
<1> HIDE DEF q
<1>9. TextAt(q) = t
  BY <1>1, <1>2, <1>8, TextBefore
<1>10. StandsAt(file, q + 4, tail)
  BY <1>1, <1>2, <1>8, TextBefore
<1> DEFINE r == q + 4
<1>12. r \in Nat /\ StandsAt(file, r, mode \o rest)
  BY <1>8, <1>10 DEF tail
<1> HIDE DEF r
<1>13. StandsAt(file, r, mode)
  BY <1>1, <1>12, PartsStand
<1>14. r = p + 8 /\ q = p + 4
  BY DEF q, r
<1> QED BY <1>1, <1>5, <1>9, <1>13, <1>14 DEF t

\* A divider with a blend mode, and with a sub-type behind it.
LEMMA LongDividerIsRead ==
  ASSUME TaggedTypeOK, phase = "reading", ReadBlock,
         NEW b \in Block, b.signature \in Signatures, NEW name \in Texts,
         NEW length \in Nat, NEW raw \in Seq(Byte),
         StandsAt(file, start, BlockHead(b.signature, name, length) \o raw),
         TaggedBlockKey(name) = "lrSectionDivider", RoundUp(length, section.padding) >= 12,
         NEW kind \in 0..3, NEW mode \in Seq(Byte), NEW rest \in Seq(Byte),
         raw = WithMode(kind, mode, rest), Len(mode) = 4,
         Len(rest) = IF RoundUp(length, section.padding) >= 16 THEN 4 ELSE 0,
         \/ \E m \in BlendModes \cap Texts : mode = Text(m) /\ b.data = mode
         \/ mode[1].txt \notin BlendModes /\ b.data = <<>>,
         b.type = "LrSection", b.key = "lrSectionDivider"
  PROVE  Leave(start + 12 + Len(raw), <<b>>)
<1>0. b.signature \in Texts
  BY DEF Block
<1>1. /\ IsReading /\ IsSigned /\ TextAt(start) = b.signature
      /\ Key = "lrSectionDivider" /\ Length = length
      /\ start \in Nat /\ Payload = start + 12 /\ Header = {start + 4, start + 8, start + 12}
      /\ StandsAt(file, start + 12, raw) /\ file \in Seq(Byte)
      /\ Len(file) \in Nat /\ start + 12 + Len(raw) <= Len(file)
  BY <1>0, BlockIsFound
<1>2. /\ NumberAt(Payload) = kind /\ TextAt(Payload + 4) = "8BIM"
      /\ StandsAt(file, Payload + 8, mode)
      /\ Len(raw) = 12 + Len(rest)
  <2> DEFINE p == Payload
             k == kind
  <2>1. p \in Nat /\ k \in Nat /\ StandsAt(file, p, WithMode(k, mode, rest))
    BY <1>1
  <2>2. raw = WithMode(k, mode, rest)
    OBVIOUS
  <2> HIDE DEF p, k
  <2>3. /\ NumberAt(p) = k /\ TextAt(p + 4) = "8BIM" /\ StandsAt(file, p + 8, mode)
    BY <1>1, <2>1, DividerStands
  <2>4. Len(raw) = 12 + Len(rest)
    <3> DEFINE n == Len(rest)
    <3>1. n \in Nat /\ Len(rest) = n
      OBVIOUS
    <3> HIDE DEF n
    <3>2. Len(WithMode(k, mode, rest)) = 12 + n
      BY <2>1, <3>1, WithModeLength
    <3> QED BY <2>2, <3>2 DEF n
  <2> QED BY <2>3, <2>4 DEF p, k
<1> DEFINE l == RoundUp(length, section.padding)
<1>3. /\ DividerTypeIsKnown /\ DividerHasBlendMode
      /\ RoundUp(Length, section.padding) = l
  BY <1>1, <1>2 DEF DividerTypeIsKnown, DividerHasBlendMode
<1>4. ReadDivider
  <2>1. ReadDivider \/ RefuseDivider
    BY <1>1, ReaderOfKey
  <2> QED BY <1>2, <1>3, <2>1 DEF RefuseDivider
<1> DEFINE subtype == IF l >= 16 THEN {Payload + 16} ELSE {}
           end     == Payload + (IF subtype # {} THEN 16 ELSE 12)
           stops   == Header \cup {Payload + 4} \cup {Payload + 8, Payload + 12} \cup subtype
           data    == IF TextAt(Payload + 8) \in BlendModes THEN BytesAt(Payload + 8, 4) ELSE <<>>
           blocks  == Stored("LrSection", Key, data)
<1>5. ReadTo(stops, end, blocks)
  BY <1>3, <1>4 DEF ReadDivider
<1>6. /\ end \in Nat /\ end <= Len(file) /\ end = start + 12 + Len(raw)
      /\ \A s \in stops : s \in Nat /\ s <= end
  <2>1. CASE l >= 16
    <3>1. Len(raw) = 16 /\ subtype = {Payload + 16} /\ end = Payload + 16
      BY <1>2, <2>1
    <3>2. stops = {start + 4, start + 8, start + 12, Payload + 4, Payload + 8, Payload + 12,
                   Payload + 16}
      BY <1>1, <3>1
    <3> HIDE DEF stops, end, subtype
    <3> QED BY <1>1, <3>1, <3>2
  <2>2. CASE ~(l >= 16)
    <3>1. Len(raw) = 12 /\ subtype = {} /\ end = Payload + 12
      BY <1>2, <2>2
    <3>2. stops = {start + 4, start + 8, start + 12, Payload + 4, Payload + 8, Payload + 12}
      BY <1>1, <3>1
    <3> HIDE DEF stops, end, subtype
    <3> QED BY <1>1, <3>1, <3>2
  <2> QED BY <2>1, <2>2
<1>7. data = b.data
  <2> DEFINE p == Payload + 8
  <2>1. p \in Nat /\ StandsAt(file, p, mode)
    BY <1>1, <1>2
  <2> HIDE DEF p
  <2>2. CASE \E m \in BlendModes \cap Texts : mode = Text(m) /\ b.data = mode
    <3>1. PICK m \in BlendModes \cap Texts : mode = Text(m) /\ b.data = mode
      BY <2>2
    <3>2. StandsAt(file, p, Text(m)) /\ m \in Texts
      BY <2>1, <3>1
    <3>3. TextAt(p) = m
      BY <2>1, <3>2, TextStands
    <3>4. BytesAt(p, Len(mode)) = mode
      BY <1>1, <2>1, BytesStand
    <3> QED BY <3>1, <3>3, <3>4 DEF p
  <2>3. CASE mode[1].txt \notin BlendModes /\ b.data = <<>>
    <3>1. file[p + 1] = mode[1]
      BY <2>1 DEF StandsAt
    <3>2. TextAt(p) \in {file[p + 1].txt, "?"}
      BY DEF TextAt
    <3>3. TextAt(p) \notin BlendModes
      BY <2>3, <3>1, <3>2 DEF BlendModes
    <3> QED BY <2>3, <3>3 DEF p
  <2> QED BY <2>2, <2>3
<1>8. blocks = <<b>>
  BY <1>1, <1>7, StoredIs
<1> HIDE DEF stops, end, blocks
<1>9. Leave(end, blocks)
  BY <1>1, <1>5, <1>6, ReadToItsEnd
<1> QED BY <1>6, <1>8, <1>9

\* What is a block is read as it.
LEMMA BlockIsRead ==
  ASSUME TaggedTypeOK, phase = "reading", ReadBlock, NEW b,
         NEW bytes \in Seq(Byte), IsBlockOf(b, bytes, section.padding, section.wide),
         StandsAt(file, start, bytes)
  PROVE  Leave(start + Len(bytes), <<b>>)
<1>1. PICK name \in Texts, length \in Nat, raw \in Seq(Byte) :
        LET key == TaggedBlockKey(name)
        IN  IF key \in BaseKeys /\ IsTaggedBlockSizeUint64(key) /\ section.wide
            THEN /\ bytes = WideBlockHead(b.signature, name, length) \o raw
                 /\ IsOfBase(b, key, length, raw, section.padding)
            ELSE /\ bytes = BlockHead(b.signature, name, length) \o raw
                 /\ \/ IsOfBase(b, key, length, raw, section.padding)
                    \/ IsOfFixed(b, key, length, raw)
                    \/ IsOfProtected(b, key, length, raw)
                    \/ IsOfName(b, key, length, raw, section.padding)
                    \/ IsOfDivider(b, key, length, raw, section.padding)
                    \/ IsOfPlaced(b, key, length, raw)
  BY DEF IsBlockOf
<1>2. b \in Block /\ b.signature \in Signatures /\ b.signature \in Texts
  BY DEF IsBlockOf, Block
<1> DEFINE key  == TaggedBlockKey(name)
           wide == key \in BaseKeys /\ IsTaggedBlockSizeUint64(key) /\ section.wide
<1>3. CASE wide
  <2>1. /\ bytes = WideBlockHead(b.signature, name, length) \o raw
        /\ IsOfBase(b, key, length, raw, section.padding)
    BY <1>1, <1>3
  <2>2. /\ Leave(start + 16 + Len(raw), <<b>>)
        /\ Len(bytes) = 16 + Len(raw) /\ start \in Nat /\ Len(raw) \in Nat
    BY <1>2, <1>3, <2>1, WideBaseIsRead
  <2>3. start + 16 + Len(raw) = start + Len(bytes)
    BY <2>2
  <2> QED BY <2>2, <2>3
<1>4. CASE ~wide
  <2>1. bytes = BlockHead(b.signature, name, length) \o raw
    BY <1>1, <1>4
  <2>2. StandsAt(file, start, BlockHead(b.signature, name, length) \o raw)
    BY <2>1
  <2>3. start + 12 + Len(raw) = start + Len(bytes)
    <3>1. Len(bytes) = 12 + Len(raw) /\ start \in Nat /\ Len(raw) \in Nat
      BY <1>2, <2>1, <2>2, BlockIsFound
    <3> QED BY <3>1
  <2>4. CASE IsOfBase(b, key, length, raw, section.padding)
    <3>1. ~(IsTaggedBlockSizeUint64(key) /\ section.wide)
      BY <1>4, <2>4 DEF IsOfBase
    <3> QED BY <1>2, <2>2, <2>3, <2>4, <3>1, BaseIsRead
  <2>5. CASE IsOfFixed(b, key, length, raw)
    BY <1>2, <2>2, <2>3, <2>5, FixedSettingIsRead
  <2>6. CASE IsOfProtected(b, key, length, raw)
    BY <1>2, <2>2, <2>3, <2>6, ProtectedIsRead
  <2>7. CASE IsOfName(b, key, length, raw, section.padding)
    BY <1>2, <2>2, <2>3, <2>7, NameIsRead
  <2>8. CASE IsOfPlaced(b, key, length, raw)
    BY <1>2, <2>2, <2>3, <2>8, PlacedIsRead
  <2>9. CASE IsOfDivider(b, key, length, raw, section.padding)
    <3>1. key = "lrSectionDivider" /\ b.type = "LrSection" /\ b.key = "lrSectionDivider"
      BY <2>9 DEF IsOfDivider
    <3>2. ASSUME NEW kind \in 0..3, RoundUp(length, section.padding) < 12, raw = Number(kind),
                 b.data = <<>>
          PROVE  Leave(start + 12 + Len(raw), <<b>>)
      BY <1>2, <2>2, <3>1, <3>2, ShortDividerIsRead
    <3>3. ASSUME NEW kind \in 0..3, NEW mode \in Seq(Byte), NEW rest \in Seq(Byte),
                 RoundUp(length, section.padding) >= 12,
                 raw = WithMode(kind, mode, rest), Len(mode) = 4,
                 Len(rest) = IF RoundUp(length, section.padding) >= 16 THEN 4 ELSE 0,
                 \/ \E m \in BlendModes \cap Texts : mode = Text(m) /\ b.data = mode
                 \/ mode[1].txt \notin BlendModes /\ b.data = <<>>
          PROVE  Leave(start + 12 + Len(raw), <<b>>)
      BY <1>2, <2>2, <3>1, <3>3, LongDividerIsRead
    <3>4. Leave(start + 12 + Len(raw), <<b>>)
      BY <2>9, <3>2, <3>3 DEF IsOfDivider
    <3> QED BY <2>3, <3>4
  <2> QED BY <1>1, <1>4, <2>4, <2>5, <2>6, <2>7, <2>8, <2>9
<1> QED BY <1>3, <1>4

\* A protection shorter than what is jumped over wrongly: the reader goes on
\* inside of the header, size bytes behind where the block begins.
IsReentered(b, bytes, size) ==
  /\ b \in Block /\ b.signature \in Signatures
  /\ \E name \in Texts, length \in 0..7 :
       /\ TaggedBlockKey(name) = "lrProtectedSetting"
       /\ length # FixedLayout["lrProtectedSetting"].length
       /\ bytes = BlockHead(b.signature, name, length) /\ size = length + 4
  /\ b.type = "ProtectedSetting" /\ b.key = "lrProtectedSetting" /\ b.data = <<Data("zero")>>

\* The section is n blocks and words, one behind the other, with less than the
\* header of a block behind them: ends has where the reader is done with each of
\* them, and count how many blocks can be read up to there.
IsMadeOf(s, n, ends, count) ==
  /\ ends \in [0..n -> Nat] /\ count \in [0..n -> Nat]
  /\ ends[0] = 0 /\ count[0] = 0 /\ count[n] = Len(s.readable)
  /\ ends[n] <= Len(s.bytes) /\ Len(s.bytes) < ends[n] + 12
  /\ \A k \in 1..n :
       /\ Len(s.bytes) >= ends[k - 1] + 12
       /\ count[k] <= Len(s.readable)
       /\ \E bytes \in Seq(Byte), size \in Nat :
            /\ ends[k] = ends[k - 1] + size
            /\ StandsAt(s.bytes, ends[k - 1], bytes)
            /\ \/ IsLost(bytes, s.padding) /\ size = Len(bytes) /\ count[k] = count[k - 1]
               \/ /\ count[k] = count[k - 1] + 1
                  /\ \/ /\ IsBlockOf(s.readable[count[k]], bytes, s.padding, s.wide)
                        /\ size = Len(bytes)
                     \/ IsReentered(s.readable[count[k]], bytes, size)

\* The section is made of blocks.
IsMadeOfBlocks(s) == \E n \in Nat : \E ends, count : IsMadeOf(s, n, ends, count)

\* The settings that are asked for by a key as well have that key.
KeyFits(b) ==
  /\ b.type = "ProtectedSetting" => b.key = "lrProtectedSetting"
  /\ b.type = "SheetColor" => b.key = "lrSheetColorSetting"

\* The settings of a layer are those of the blocks, or the defaults.
IsSetBy(l, blocks) ==
  /\ l.locked = View(blocks, "ProtectedSetting", {"lrProtectedSetting"}, DefaultLayer.locked)
  /\ l.color = View(blocks, "SheetColor", {"lrSheetColorSetting"}, DefaultLayer.color)
  /\ l.reference = View(blocks, "ReferencePoint", Keys, DefaultLayer.reference)
  /\ l.name = View(blocks, "UnicodeLayerName", Keys, DefaultLayer.name)
  /\ l.fill = View(blocks, "BlendFill", Keys, DefaultLayer.fill)

\* The settings of a layer are the defaults.
IsUnset(l) ==
  /\ l.locked = DefaultLayer.locked /\ l.color = DefaultLayer.color
  /\ l.reference = DefaultLayer.reference /\ l.name = DefaultLayer.name
  /\ l.fill = DefaultLayer.fill

\* The blocks that were read, of those that can be.
ReadsForeign ==
  \E n \in Nat : \E ends, count, k :
    /\ IsMadeOf(section, n, ends, count)
    /\ k \in 0..n
    /\ start = ends[k]
    /\ Len(storage) = count[k]
    /\ \A j \in 1..Len(storage) : storage[j] = section.readable[j] /\ KeyFits(storage[j])

\* What holds until a layer writes: nothing readable of the file is lost so far.
ForeignInv ==
  /\ round = 1 /\ phase # "writing" =>
       /\ file = section.bytes \o Trailer /\ maxLength = Len(section.bytes)
       /\ phase \in {"reading", "read"}
       /\ IsUnset(layer)
  /\ round = 1 /\ phase = "reading" => ReadsForeign
  /\ round = 1 /\ phase = "read" =>
       /\ storage = section.readable /\ at = maxLength
       /\ \A j \in 1..Len(storage) : KeyFits(storage[j])
  /\ phase = "writing" =>
       /\ round = 1
       /\ \A j \in 1..Len(section.readable) : KeyFits(section.readable[j])
       /\ IsSetBy(layer, section.readable)

\* A block that is read has the key of its type.
LEMMA KeysOfBlocksFit ==
  ASSUME NEW b, NEW bytes, NEW padding, NEW wide, IsBlockOf(b, bytes, padding, wide)
  PROVE  KeyFits(b)
<1>1. PICK name \in Texts, length \in Nat, raw \in Seq(Byte) :
        LET key == TaggedBlockKey(name)
        IN  \/ IsOfBase(b, key, length, raw, padding)
            \/ IsOfFixed(b, key, length, raw)
            \/ IsOfProtected(b, key, length, raw)
            \/ IsOfName(b, key, length, raw, padding)
            \/ IsOfDivider(b, key, length, raw, padding)
            \/ IsOfPlaced(b, key, length, raw)
  BY DEF IsBlockOf
<1> DEFINE key == TaggedBlockKey(name)
<1>2. CASE IsOfBase(b, key, length, raw, padding)
  BY <1>2 DEF IsOfBase, KeyFits
<1>3. CASE IsOfFixed(b, key, length, raw)
  BY <1>3 DEF IsOfFixed, KeyFits, FixedLayout
<1>4. CASE IsOfProtected(b, key, length, raw)
  BY <1>4 DEF IsOfProtected, KeyFits
<1>5. CASE IsOfName(b, key, length, raw, padding)
  BY <1>5 DEF IsOfName, KeyFits
<1>6. CASE IsOfDivider(b, key, length, raw, padding)
  BY <1>6 DEF IsOfDivider, KeyFits
<1>7. CASE IsOfPlaced(b, key, length, raw)
  BY <1>7 DEF IsOfPlaced, KeyFits
<1> QED BY <1>1, <1>2, <1>3, <1>4, <1>5, <1>6, <1>7

\* After a protection that is too short the reader goes on inside of it.
LEMMA ReenteredIsRead ==
  ASSUME TaggedTypeOK, phase = "reading", ReadBlock, NEW b,
         NEW bytes \in Seq(Byte), NEW size \in Nat, IsReentered(b, bytes, size),
         StandsAt(file, start, bytes)
  PROVE  Leave(start + size, <<b>>)
<1>1. PICK name \in Texts, length \in 0..7 :
        /\ TaggedBlockKey(name) = "lrProtectedSetting"
        /\ length # FixedLayout["lrProtectedSetting"].length
        /\ bytes = BlockHead(b.signature, name, length) /\ size = length + 4
  BY DEF IsReentered
<1>2. b \in Block /\ b.signature \in Signatures /\ b.signature \in Texts /\ length \in Nat
      /\ <<>> \in Seq(Byte) /\ Len(<<>>) = 0
  BY <1>1 DEF IsReentered, Block
<1>3. StandsAt(file, start, BlockHead(b.signature, name, length) \o <<>>)
  <2>1. bytes \o <<>> = bytes
    BY ConcatEmptySeq
  <2> QED BY <1>1, <2>1
<1> DEFINE raw == <<>>
<1>4. raw \in Seq(Byte) /\ Len(raw) = 0 /\ StandsAt(file, start, BlockHead(b.signature, name, length) \o raw)
  BY <1>2, <1>3
<1> HIDE DEF raw
<1>5. /\ IsReading /\ IsSigned /\ TextAt(start) = b.signature
      /\ Key = TaggedBlockKey(name) /\ Length = length
      /\ start \in Nat /\ Header = {start + 4, start + 8, start + 12}
      /\ Len(file) \in Nat /\ start + 12 + Len(raw) <= Len(file)
  BY <1>2, <1>4, BlockIsFound
<1>6. Key = "lrProtectedSetting" /\ Key \in DOMAIN FixedLayout /\ Length # FixedLayout[Key].length
  BY <1>1, <1>5 DEF FixedLayout
<1>7. SkipProtected
  <2>1. ReadFixed \/ RefuseFixed \/ SkipProtected
    BY <1>5, <1>6, ReaderOfKey
  <2> QED BY <1>6, <2>1 DEF ReadFixed, RefuseFixed
<1> DEFINE end    == start + 4 + length
           blocks == Stored("ProtectedSetting", Key, <<Data("zero")>>)
<1>8. ReadTo(Header, end, blocks)
  BY <1>5, <1>7 DEF SkipProtected
<1>9. blocks = <<b>>
  BY <1>2, <1>5, <1>6, StoredIs DEF IsReentered
<1>10. end = start + size /\ InFile(end) /\ \A s \in Header : InFile(s)
  <2>1. start + 12 <= Len(file) /\ length <= 7
    BY <1>1, <1>4, <1>5
  <2>2. end = start + size /\ end <= Len(file)
    BY <1>1, <1>5, <2>1
  <2>3. ASSUME NEW s \in Header PROVE s <= Len(file)
    BY <1>5, <2>1
  <2> QED BY <2>2, <2>3 DEF InFile
<1> HIDE DEF end, blocks
<1>11. Leave(end, blocks)
  BY <1>8, <1>10 DEF ReadTo
<1> QED BY <1>9, <1>10, <1>11

\* When the file is opened, nothing of the section is read yet.
LEMMA InitForeign ==
  ASSUME \A s \in Sections : IsMadeOfBlocks(s), Cuts = {0}, Init
  PROVE  ForeignInv
<1>1. /\ section \in Sections /\ maxLength = Len(section.bytes) /\ start = 0 /\ storage = <<>>
      /\ layer = DefaultLayer /\ round = 1 /\ phase = "reading"
      /\ file = SubSeq(section.bytes \o Trailer, 1, Len(section.bytes \o Trailer) - 0)
  BY DEF Init
<1>2. file = section.bytes \o Trailer
  <2> DEFINE all == section.bytes \o Trailer
  <2>1. section.bytes \in Seq(Byte) /\ Trailer \in Seq(Byte)
    BY <1>1, TaggedBlocksAssumption DEF IsSection
  <2>2. all \in Seq(Byte)
    BY <2>1, BothAreBytes
  <2>3. file = SubSeq(all, 1, Len(all) - 0)
    BY <1>1
  <2> HIDE DEF all
  <2>4. Len(all) \in Nat /\ Len(all) - 0 = Len(all)
    BY <2>2
  <2>5. SubSeq(all, 1, Len(all)) = all
    BY <2>2, <2>4
  <2> QED BY <2>3, <2>4, <2>5 DEF all
<1>3. ReadsForeign
  <2>1. PICK n \in Nat : \E ends, count : IsMadeOf(section, n, ends, count)
    BY <1>1 DEF IsMadeOfBlocks
  <2>2. PICK ends, count : IsMadeOf(section, n, ends, count)
    BY <2>1
  <2>3. 0 \in 0..n /\ ends[0] = 0 /\ count[0] = 0
    BY <2>1, <2>2 DEF IsMadeOf
  <2>4. Len(storage) = 0 /\ 1..Len(storage) = {}
    BY <1>1
  <2> QED BY <1>1, <2>2, <2>3, <2>4 DEF ReadsForeign
<1>4. IsUnset(layer)
  BY <1>1 DEF IsUnset
<1> QED BY <1>1, <1>2, <1>3, <1>4 DEF ForeignInv

\* Blocks are read while the reader is at them.
LEMMA ReadBlockIsReading == ReadBlock => phase \in {"reading", "linked"}
<1>1. IsReading => phase = "reading"
  BY DEF IsReading
<1>2. HasItem => phase = "linked"
  BY DEF HasItem
<1> QED
  BY <1>1, <1>2 DEF ReadBlock, BadSignature, SkipUnknown, ReadBase, ReadDivider, RefuseDivider,
     ReadFixed, RefuseFixed, SkipProtected, ReadName, RefuseName, ReadPlaced, RefusePlaced,
     BeginLinked, ReadItem, RefuseItem, EndLinked

\* Every turn reads the next block, or passes what is lost.
LEMMA ReadKeepsForeign ==
  ASSUME TaggedTypeOK, ForeignInv, ReadBlock
  PROVE  ForeignInv'
<1>1. UNCHANGED <<document, kept>> /\ phase' \in {"reading", "linked"}
  BY ReadBlockKeeps
<1>2. CASE round # 1
  BY <1>1, <1>2 DEF document, ForeignInv
<1>3. CASE round = 1
  <2>1. phase \in {"reading", "linked"}
    BY ReadBlockIsReading
  <2>2. /\ phase = "reading" /\ file = section.bytes \o Trailer /\ maxLength = Len(section.bytes)
        /\ IsUnset(layer) /\ ReadsForeign
    BY <1>3, <2>1 DEF ForeignInv
  <2>3. IsReading /\ start + toRead = maxLength /\ toRead >= 12
    BY <2>2, ReaderOfKey DEF TaggedTypeOK, IsReading
  <2>4. /\ section.bytes \in Seq(Byte) /\ section.readable \in Seq(Block) /\ Trailer \in Seq(Byte)
        /\ storage \in Seq(Block) /\ start \in Nat /\ toRead \in Int
        /\ Len(section.bytes) \in Nat /\ Len(storage) \in Nat
    BY TaggedBlocksAssumption DEF TaggedTypeOK, IsSection
  <2>5a. PICK n \in Nat : \E ends, count, k :
          /\ IsMadeOf(section, n, ends, count)
          /\ k \in 0..n
          /\ start = ends[k]
          /\ Len(storage) = count[k]
          /\ \A j \in 1..Len(storage) : storage[j] = section.readable[j] /\ KeyFits(storage[j])
    BY <2>2 DEF ReadsForeign
  <2>5. PICK ends, count, k :
          /\ IsMadeOf(section, n, ends, count)
          /\ k \in 0..n
          /\ start = ends[k]
          /\ Len(storage) = count[k]
          /\ \A j \in 1..Len(storage) : storage[j] = section.readable[j] /\ KeyFits(storage[j])
    BY <2>5a
  <2>6. k < n
    <3>1. CASE k = n
      <4>1. Len(section.bytes) < start + 12
        BY <2>5, <3>1 DEF IsMadeOf
      <4> QED BY <2>2, <2>3, <2>4, <4>1
    <3> QED BY <2>5, <3>1
  <2> DEFINE m == k + 1
  <2>7. m \in 1..n /\ m - 1 = k /\ m \in 0..n
    BY <2>5, <2>6
  <2> HIDE DEF m
  <2>8. /\ count[m] <= Len(section.readable)
        /\ \E bytes \in Seq(Byte), size \in Nat :
             /\ ends[m] = start + size
             /\ StandsAt(section.bytes, start, bytes)
             /\ \/ IsLost(bytes, section.padding) /\ size = Len(bytes) /\ count[m] = Len(storage)
                \/ /\ count[m] = Len(storage) + 1
                   /\ \/ /\ IsBlockOf(section.readable[count[m]], bytes, section.padding,
                                      section.wide)
                         /\ size = Len(bytes)
                      \/ IsReentered(section.readable[count[m]], bytes, size)
    BY <2>5, <2>7 DEF IsMadeOf
  <2>9. PICK bytes \in Seq(Byte), size \in Nat :
          /\ ends[m] = start + size
          /\ StandsAt(section.bytes, start, bytes)
          /\ \/ IsLost(bytes, section.padding) /\ size = Len(bytes) /\ count[m] = Len(storage)
             \/ /\ count[m] = Len(storage) + 1
                /\ \/ /\ IsBlockOf(section.readable[count[m]], bytes, section.padding, section.wide)
                      /\ size = Len(bytes)
                   \/ IsReentered(section.readable[count[m]], bytes, size)
    BY <2>8
  <2>10. StandsAt(file, start, bytes)
    <3> DEFINE all == section.bytes
    <3>1. all \in Seq(Byte) /\ Len(bytes) \in Nat /\ StandsAt(all, start, bytes)
      BY <2>4, <2>9
    <3> HIDE DEF all
    <3>2. StandsAt(all \o Trailer, start, bytes)
      BY <2>4, <3>1, StandsOn
    <3> QED BY <2>2, <3>2 DEF all
  <2>11. CASE IsLost(bytes, section.padding) /\ size = Len(bytes) /\ count[m] = Len(storage)
    <3>1. Leave(start + size, <<>>)
      BY <2>2, <2>10, <2>11, LostIsPassed
    <3>2. start' = ends[m] /\ storage' = storage \o <<>> /\ phase' = "reading" /\ section' = section
      BY <1>1, <2>9, <3>1 DEF Leave, document
    <3>3. storage' = storage
      BY <2>4, <3>2, ConcatEmptySeq
    <3>4. ReadsForeign'
      BY <2>5, <2>7, <2>11, <3>2, <3>3 DEF ReadsForeign
    <3> QED BY <1>1, <1>3, <2>2, <3>2, <3>4 DEF ForeignInv, document, kept
  <2>12. CASE /\ count[m] = Len(storage) + 1
              /\ \/ /\ IsBlockOf(section.readable[count[m]], bytes, section.padding, section.wide)
                    /\ size = Len(bytes)
                 \/ IsReentered(section.readable[count[m]], bytes, size)
    <3> DEFINE b == section.readable[count[m]]
    <3>1. Leave(start + size, <<b>>)
      BY <2>2, <2>10, <2>12, BlockIsRead, ReenteredIsRead
    <3>2. start' = ends[m] /\ storage' = storage \o <<b>> /\ phase' = "reading" /\ section' = section
      BY <1>1, <2>9, <3>1 DEF Leave, document
    <3>3. KeyFits(b)
      BY <2>12, KeysOfBlocksFit DEF IsReentered, KeyFits
    <3>4. b \in Block
      BY <2>12 DEF IsBlockOf, IsReentered
    <3>5. b = section.readable[Len(storage) + 1]
      BY <2>12
    <3> HIDE DEF b
    <3>6. /\ Len(storage') = Len(storage) + 1
          /\ \A j \in 1..Len(storage) : storage'[j] = storage[j]
          /\ storage'[Len(storage) + 1] = b
      BY <2>4, <3>2, <3>4
    <3>7. \A j \in 1..Len(storage') : j \in 1..Len(storage) \/ j = Len(storage) + 1
      BY <2>4, <3>6
    <3>8. \A j \in 1..Len(storage') : storage'[j] = section.readable[j] /\ KeyFits(storage'[j])
      BY <2>5, <3>3, <3>5, <3>6, <3>7
    <3>9. ReadsForeign'
      BY <2>5, <2>7, <2>12, <3>2, <3>6, <3>8 DEF ReadsForeign
    <3> QED BY <1>1, <1>3, <2>2, <3>2, <3>9 DEF ForeignInv, document, kept
  <2> QED BY <2>9, <2>11, <2>12
<1> QED BY <1>2, <1>3

\* With less than a header left, all the blocks were read.
LEMMA EndKeepsForeign ==
  ASSUME TaggedTypeOK, ForeignInv, EndSection
  PROVE  ForeignInv'
<1>1. /\ phase = "reading" /\ toRead < 12 /\ phase' \in {"read", "failed"}
      /\ phase' = IF toRead <= 0 \/ InFile(at + toRead) THEN "read" ELSE "failed"
      /\ at' = IF toRead > 0 /\ InFile(at + toRead) THEN at + toRead ELSE at
      /\ layer' = layer /\ round' = round /\ section' = section /\ file' = file
      /\ maxLength' = maxLength /\ storage' = storage
  BY DEF EndSection, document, kept
<1>2. CASE round # 1
  BY <1>1, <1>2 DEF ForeignInv
<1>3. CASE round = 1
  <2>1. /\ file = section.bytes \o Trailer /\ maxLength = Len(section.bytes)
        /\ IsUnset(layer) /\ ReadsForeign
    BY <1>1, <1>3 DEF ForeignInv
  <2>2. /\ section.bytes \in Seq(Byte) /\ section.readable \in Seq(Block) /\ Trailer \in Seq(Byte)
        /\ storage \in Seq(Block) /\ start \in Nat /\ toRead \in Int
        /\ Len(section.bytes) \in Nat /\ Len(storage) \in Nat /\ Len(Trailer) \in Nat
        /\ start + toRead = maxLength /\ at = start
    BY <1>1, TaggedBlocksAssumption DEF TaggedTypeOK, IsSection
  <2>3a. PICK n \in Nat : \E ends, count, k :
          /\ IsMadeOf(section, n, ends, count)
          /\ k \in 0..n
          /\ start = ends[k]
          /\ Len(storage) = count[k]
          /\ \A j \in 1..Len(storage) : storage[j] = section.readable[j] /\ KeyFits(storage[j])
    BY <2>1 DEF ReadsForeign
  <2>3. PICK ends, count, k :
          /\ IsMadeOf(section, n, ends, count)
          /\ k \in 0..n
          /\ start = ends[k]
          /\ Len(storage) = count[k]
          /\ \A j \in 1..Len(storage) : storage[j] = section.readable[j] /\ KeyFits(storage[j])
    BY <2>3a
  <2>4. k = n
    <3>1. CASE k < n
      <4>1. k + 1 \in 1..n /\ (k + 1) - 1 = k
        BY <2>3, <3>1
      <4>2. Len(section.bytes) >= start + 12
        BY <2>3, <4>1 DEF IsMadeOf
      <4> QED BY <1>1, <2>1, <2>2, <4>2
    <3> QED BY <2>3, <3>1
  <2>5. Len(storage) = Len(section.readable) /\ start <= Len(section.bytes)
    BY <2>3, <2>4 DEF IsMadeOf
  <2>6. storage = section.readable
    BY <2>2, <2>3, <2>5, SeqEqual
  <2>7. Len(file) = Len(section.bytes) + Len(Trailer)
    BY <2>1, <2>2, BothAreBytes
  <2>8. phase' = "read" /\ at' = maxLength
    <3>1. InFile(at + toRead) /\ toRead >= 0
      BY <2>1, <2>2, <2>5, <2>7 DEF InFile
    <3>2. phase' = "read"
      BY <1>1, <3>1
    <3>3. CASE toRead > 0
      BY <1>1, <2>2, <3>1, <3>3
    <3>4. CASE toRead = 0
      BY <1>1, <2>2, <3>4
    <3>5. toRead > 0 \/ toRead = 0
      BY <2>2, <3>1
    <3> QED BY <3>2, <3>3, <3>4, <3>5
  <2> QED BY <1>1, <1>3, <2>1, <2>3, <2>6, <2>8 DEF ForeignInv
<1> QED BY <1>2, <1>3

\* The settings are set by the blocks.
LEMMA ParseKeepsForeign ==
  ASSUME TaggedTypeOK, ForeignInv, ParseLayer
  PROVE  ForeignInv'
<1>1. /\ round = 1 /\ phase = "read" /\ layer' = Parsed(layer, storage) /\ phase' = "writing"
      /\ section' = section /\ round' = 1
  BY DEF ParseLayer
<1>2. /\ storage = section.readable /\ IsUnset(layer)
      /\ \A j \in 1..Len(storage) : KeyFits(storage[j])
  BY <1>1 DEF ForeignInv
<1>3. IsSetBy(Parsed(layer, storage), storage)
  BY <1>2 DEF IsSetBy, IsUnset, Parsed
<1> QED BY <1>1, <1>2, <1>3 DEF ForeignInv

\* Every step of the layer.
LEMMA NextForeign == TaggedTypeOK /\ ForeignInv /\ [Next]_vars => ForeignInv'
<1> SUFFICES ASSUME TaggedTypeOK, ForeignInv, [Next]_vars PROVE ForeignInv'
  OBVIOUS
<1>1. CASE ReadBlock
  BY <1>1, ReadKeepsForeign
<1>2. CASE EndSection
  BY <1>2, EndKeepsForeign
<1>3. CASE PassAlong
  <2>1. /\ round = 1 /\ phase = "read" /\ phase' = phase /\ round' = round /\ section' = section
        /\ file' = file /\ maxLength' = maxLength /\ storage' = storage /\ at' = at
        /\ \E u : layer' = [layer EXCEPT !.unparsed = u]
    BY <1>3 DEF PassAlong, document
  <2>2. layer \in [unparsed : Seq(Block), blend : Seq(Byte), locked : Seq(Byte),
                   color : Seq(Byte), reference : Seq(Byte), name : Seq(Byte), fill : Seq(Byte)]
    BY DEF TaggedTypeOK
  <2>3. IsUnset(layer) => IsUnset(layer')
    BY <2>1, <2>2 DEF IsUnset
  <2> QED BY <2>1, <2>3 DEF ForeignInv
<1>4. CASE ParseLayer
  BY <1>4, ParseKeepsForeign
<1>5. CASE WriteUnparsed
  BY <1>5 DEF WriteUnparsed, ForeignInv
<1>6. CASE WriteGenerated
  BY <1>6 DEF WriteGenerated, ForeignInv
<1>7. CASE UNCHANGED vars
  BY <1>7 DEF vars, ForeignInv, ReadsForeign
<1> QED BY <1>1, <1>2, <1>3, <1>4, <1>5, <1>6, <1>7 DEF Next, Read

\* A set of natural numbers has a least one.
LEMMA LeastOfNaturals ==
  ASSUME NEW S \in SUBSET Nat, S # {}
  PROVE  \E k \in S : \A j \in S : k <= j
<1>1. PICK k \in S : \A j \in S : ~ (<<j, k>> \in OpToRel(<, Nat))
  BY NatLessThanWellFounded, WFMin
<1>2. \A j \in S : ~ (j < k)
  BY <1>1 DEF OpToRel
<1> QED BY <1>2

\* A setting of its own blocks: the first of its type has it, or it is the default.
LEMMA ViewOfItsOwn ==
  ASSUME NEW blocks \in Seq(Block), NEW type, NEW keys, NEW default,
         \A k \in DOMAIN blocks : blocks[k].type = type => blocks[k].key \in keys
  PROVE  \/ \E k \in DOMAIN blocks :
              /\ blocks[k].type = type
              /\ blocks[k].data = View(blocks, type, keys, default)
              /\ \A j \in 1..k - 1 : blocks[j].type # type
         \/ /\ \A k \in DOMAIN blocks : blocks[k].type # type
            /\ View(blocks, type, keys, default) = default
<1> DEFINE hits  == {k \in DOMAIN blocks : blocks[k].type = type /\ blocks[k].key \in keys}
           first == {k \in hits : \A j \in hits : k <= j}
<1>1. hits = {k \in DOMAIN blocks : blocks[k].type = type} /\ DOMAIN blocks = 1..Len(blocks)
      /\ Len(blocks) \in Nat
  OBVIOUS
<1>2. View(blocks, type, keys, default)
        = IF first = {} THEN default ELSE blocks[CHOOSE k \in first : TRUE].data
  BY DEF View
<1>3. CASE hits = {}
  <2>1. first = {}
    BY <1>3
  <2> QED BY <1>1, <1>2, <1>3, <2>1
<1>4. CASE hits # {}
  <2>1. hits \subseteq Nat
    BY <1>1
  <2> HIDE DEF hits
  <2>2. PICK k \in hits : \A j \in hits : k <= j
    BY <1>4, <2>1, LeastOfNaturals
  <2>3. first = {k}
    <3>1. k \in first
      BY <2>2
    <3>2. ASSUME NEW i \in first PROVE i = k
      <4>1. i \in Nat /\ k \in Nat /\ i <= k /\ k <= i
        BY <2>1, <2>2, <3>2
      <4> QED BY <4>1
    <3> QED BY <3>1, <3>2
  <2> HIDE DEF first
  <2>4. (CHOOSE i \in first : TRUE) = k
    BY <2>3
  <2>5. View(blocks, type, keys, default) = blocks[k].data
    BY <1>2, <2>3, <2>4
  <2>6. ASSUME NEW j \in 1..k - 1 PROVE blocks[j].type # type
    <3>1. k \in 1..Len(blocks)
      BY <1>1, <2>2
    <3>2. j \in 1..Len(blocks) /\ ~(k <= j)
      BY <1>1, <3>1
    <3> QED BY <1>1, <2>2, <3>2
  <2> QED BY <1>1, <2>2, <2>5, <2>6
<1> QED BY <1>3, <1>4

\* Whatever stands between them, the blocks of a foreign section that can be
\* read are all read, in their order and with their own data, if the section is
\* made of blocks without linked layers: nothing a reader refuses or skips takes
\* a byte of the next block, and the reader ends where the section does.
THEOREM ReadableBlocksAreRead ==
  ASSUME \A s \in Sections : IsMadeOfBlocks(s), Cuts = {0}
  PROVE  Spec => []OnlyTheUnreadableIsLost
<1>1. Init => TaggedTypeOK /\ ForeignInv
  BY InitTyped, InitForeign
<1>2. TaggedTypeOK /\ ForeignInv /\ [Next]_vars => (TaggedTypeOK /\ ForeignInv)'
  BY NextTyped, NextForeign
<1>3. TaggedTypeOK /\ ForeignInv => OnlyTheUnreadableIsLost
  BY DEF ForeignInv, OnlyTheUnreadableIsLost
<1> QED BY <1>1, <1>2, <1>3, PTL DEF Spec

\* Under the same condition every setting of a layer is that of the first block
\* of its type, and of no other, or the default of the record.
THEOREM SettingsAreOfTheirBlocks ==
  ASSUME \A s \in Sections : IsMadeOfBlocks(s), Cuts = {0}
  PROVE  Spec => []SettingsFromTheirOwnBlocks
<1>1. Init => TaggedTypeOK /\ ForeignInv
  BY InitTyped, InitForeign
<1>2. TaggedTypeOK /\ ForeignInv /\ [Next]_vars => (TaggedTypeOK /\ ForeignInv)'
  BY NextTyped, NextForeign
<1>3. TaggedTypeOK /\ ForeignInv => SettingsFromTheirOwnBlocks
  <2> SUFFICES ASSUME TaggedTypeOK, ForeignInv, phase = "writing"
               PROVE  \A setting \in {<<"ProtectedSetting", "locked">>, <<"SheetColor", "color">>,
                                      <<"ReferencePoint", "reference">>,
                                      <<"UnicodeLayerName", "name">>, <<"BlendFill", "fill">>} :
                        \/ \E k \in DOMAIN section.readable :
                             /\ section.readable[k].type = setting[1]
                             /\ section.readable[k].data = layer[setting[2]]
                             /\ \A j \in 1..k - 1 : section.readable[j].type # setting[1]
                        \/ /\ \A k \in DOMAIN section.readable :
                                section.readable[k].type # setting[1]
                           /\ layer[setting[2]] = DefaultLayer[setting[2]]
    BY DEF SettingsFromTheirOwnBlocks
  <2> DEFINE blocks == section.readable
             IsOwn(type, value, default) ==
               \/ \E k \in DOMAIN blocks :
                    /\ blocks[k].type = type
                    /\ blocks[k].data = value
                    /\ \A j \in 1..k - 1 : blocks[j].type # type
               \/ /\ \A k \in DOMAIN blocks : blocks[k].type # type
                  /\ value = default
  <2>1. blocks \in Seq(Block)
    BY TaggedBlocksAssumption DEF TaggedTypeOK, IsSection
  <2>2. /\ \A k \in 1..Len(blocks) : KeyFits(blocks[k])
        /\ IsSetBy(layer, blocks)
    BY DEF ForeignInv
  <2>3. DOMAIN blocks = 1..Len(blocks) /\ \A k \in 1..Len(blocks) : blocks[k] \in Block
    BY <2>1
  <2>4. \A k \in DOMAIN blocks : blocks[k].key \in Keys
    BY <2>3 DEF Block
  <2> HIDE DEF blocks
  <2>5. IsOwn("ProtectedSetting", layer.locked, DefaultLayer.locked)
    BY <2>1, <2>2, <2>3, ViewOfItsOwn DEF IsSetBy, KeyFits
  <2>6. IsOwn("SheetColor", layer.color, DefaultLayer.color)
    BY <2>1, <2>2, <2>3, ViewOfItsOwn DEF IsSetBy, KeyFits
  <2>7. IsOwn("ReferencePoint", layer.reference, DefaultLayer.reference)
    BY <2>1, <2>2, <2>4, ViewOfItsOwn DEF IsSetBy
  <2>8. IsOwn("UnicodeLayerName", layer.name, DefaultLayer.name)
    BY <2>1, <2>2, <2>4, ViewOfItsOwn DEF IsSetBy
  <2>9. IsOwn("BlendFill", layer.fill, DefaultLayer.fill)
    BY <2>1, <2>2, <2>4, ViewOfItsOwn DEF IsSetBy
  <2> QED BY <2>5, <2>6, <2>7, <2>8, <2>9 DEF blocks
<1> QED BY <1>1, <1>2, <1>3, PTL DEF Spec
=============================================================================
