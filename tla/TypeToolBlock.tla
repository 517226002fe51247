---------------------------- MODULE TypeToolBlock ----------------------------
(***************************************************************************)
(* The TySh blocks of a text layer and the calls that edit them.           *)
(*                                                                         *)
(* A block has its bytes, and if they could be parsed the two descriptors  *)
(* that were found in them: the text and the warp.  Some calls change the  *)
(* bytes and parse them again; others change a descriptor and write the    *)
(* bytes anew; those that have no descriptor search the bytes for it,      *)
(* read it, change it and put it back.  The block is written from the      *)
(* descriptors if there are any.  Nothing but the order of these steps     *)
(* keeps the two views of a block together.                                *)
(*                                                                         *)
(* Photoshop's files have one block, duplicates occur: some calls edit the *)
(* first block that will do and others all of them.                        *)
(*                                                                         *)
(* The engine data is the bytes of a payload inside of the text            *)
(* descriptor; of its syntax (module TextLayer) only what is found there   *)
(* is kept: a writing direction, a shape, a box if the shape has one, and  *)
(* the text again.                                                         *)
(***************************************************************************)
EXTENDS Descriptors, TextRuns

CONSTANTS
  Doubles,      \* numbers of a transform, 6 in the code
  Layers,       \* a sequence of layers that may be read: the bytes of each block
  Transforms, Components, \* transforms a client sets, and single numbers in them
  AntiAliases, Styles, Rotations, Directions, \* enumerators it sets
  Numbers,      \* and numbers of the warp
  Boxes, Texts, \* and boxes and texts
  MaxCalls      \* bound on the calls that edit

ASSUME TypeToolAssumption ==
  /\ Doubles \in Nat \ {0}
  /\ Transforms \subseteq [1..Doubles -> Int]
  /\ MaxCalls \in Nat

VARIABLES
  blocks,  \* m_TypeToolBlocks of the layer
  calls,   \* how many calls edited it
  call     \* what the last call set, and to what: <<view, value>>

vars == <<blocks, calls, call>>

-----------------------------------------------------------------------------
(* The bytes and the descriptors of a block.                               *)

HeadTokens   == Doubles + 3       \* version, transform, two versions of the text
HeadBytes    == 8 * Doubles + 8
MiddleTokens == 2                 \* two versions of the warp
MiddleBytes  == 6

From(data, i) == SubSeq(data, i, Len(data))

NewBlock(data) ==
  [data |-> data, parsed |-> FALSE, trailing |-> <<>>,
   front |-> <<<<"u16", 1>>>> \o Tokens("f64", [k \in 1..Doubles |-> 0]) \o <<<<"u16", 50>>, <<"u32", 16>>>>,
   middle |-> <<<<"u16", 1>>, <<"u32", 16>>>>,
   text |-> <<<<>>, "TxLr", <<>>>>, warp |-> <<<<>>, "warp", <<>>>>]

\* parse_descriptors_from_data: what is read before it fails stays.
ParseWarp(b, text, warp) ==
  IF Fails(warp) THEN b
  ELSE [b EXCEPT !.parsed = TRUE, !.text = text.value, !.warp = warp.value,
                 !.trailing = From(b.data, warp.next)]

ParseText(b, text) ==
  IF Fails(text) \/ ~HasBytes(b.data, text.next, MiddleBytes) THEN b
  ELSE ParseWarp([b EXCEPT !.middle = SubSeq(b.data, text.next, text.next + MiddleTokens - 1)],
                 text, ReadBody(b.data, text.next + MiddleTokens))

Parse(b) ==
  LET failed == [b EXCEPT !.parsed = FALSE]
  IN  IF ~HasBytes(b.data, 1, HeadBytes + MiddleBytes) THEN failed
      ELSE ParseText([failed EXCEPT !.front = SubSeq(b.data, 1, HeadTokens)],
                     ReadBody(b.data, HeadTokens + 1))

\* TypeToolTaggedBlock::read
ReadBlock(data) == Parse(NewBlock(data))

\* Slip: the bytes behind the warp are not written.
SyncWithoutTrailing(b) ==
  IF b.parsed
  THEN [b EXCEPT !.data = b.front \o WriteBody(b.text) \o b.middle \o WriteBody(b.warp)]
  ELSE b

\* sync_data_from_descriptors, also at the start of a write.
Sync(b) ==
  IF b.parsed
  THEN [b EXCEPT !.data = b.front \o WriteBody(b.text) \o b.middle \o WriteBody(b.warp) \o b.trailing]
  ELSE b

\* Slip: the descriptors are not parsed again.
SpliceOnly(b, i, next, tokens) ==
  [b EXCEPT !.data = SubSeq(@, 1, i - 1) \o tokens \o From(@, next)]

\* Tokens in place of those from i up to next, and refresh_type_tool_descriptor_cache.
Splice(b, i, next, tokens) ==
  Parse([b EXCEPT !.data = SubSeq(@, 1, i - 1) \o tokens \o From(@, next)])

-----------------------------------------------------------------------------
(* The items of a block.                                                   *)

WarpAt(data, next) ==
  IF next = 0 \/ ~HasBytes(data, next, MiddleBytes) THEN 0 ELSE next + MiddleTokens

\* find_text_descriptor_body_offset and find_warp_descriptor_body_offset: the
\* body of the warp is found by stepping over the text.
BodyAt(data, part) ==
  IF ~HasBytes(data, 1, HeadBytes + 12) THEN 0
  ELSE IF part = "text" THEN HeadTokens + 1
  ELSE WarpAt(data, SkipBody(data, HeadTokens + 1))

\* parse_descriptor_body
BodyIn(data, at) ==
  IF at = 0 \/ Fails(ReadBody(data, at)) THEN <<>> ELSE <<ReadBody(data, at).value>>

\* The descriptor as the calls see it: an empty sequence if they find none.
DescriptorOf(b, part) ==
  IF b.parsed THEN <<b[part]>> ELSE BodyIn(b.data, BodyAt(b.data, part))

ItemIn(found, key, types) ==
  LET k == ItemOf(found[1], key, types)
  IN  IF found = <<>> \/ k = 0 THEN <<>> ELSE <<Content(found[1][3][k][2])>>

\* read_text_desc_enum, read_warp_enum, read_warp_double
ReadItem(b, part, key, types) == ItemIn(DescriptorOf(b, part), key, types)

\* A descriptor that was not parsed can be put back if it can be stepped over.
CanWrite(b, part, key, types) ==
  /\ ReadItem(b, part, key, types) # <<>>
  /\ ~b.parsed => SkipBody(b.data, BodyAt(b.data, part)) # 0

\* write_text_desc_enum, write_warp_enum, write_warp_double
WriteItem(b, part, key, types, x) ==
  LET d      == DescriptorOf(b, part)[1]
      edited == WithItem(d, ItemOf(d, key, types), x)
      at     == BodyAt(b.data, part)
  IN  IF ~CanWrite(b, part, key, types) THEN b
      ELSE IF b.parsed THEN Sync([b EXCEPT ![part] = edited])
      ELSE Splice(b, at, SkipBody(b.data, at), WriteBody(edited))

Enum    == {"enum"}
Numeric == {"doub", "UntF"}

-----------------------------------------------------------------------------
(* The text and the engine data, which are searched for in the bytes.      *)

\* Where the letters of a key stand before those of a type.
Markers(data, key, type) ==
  {i \in 1..Len(data) - 1 : data[i] = <<"chars", key>> /\ data[i + 1] = <<"chars", type>>}

\* parse_text_span: only the first marker is looked at.
TextSpan(data) ==
  LET markers == Markers(data, "Txt ", "TEXT")
      units   == TakeCounted("char16", data, Min(markers) + 2)
  IN  IF markers = {} \/ Fails(units) THEN <<>>
      ELSE <<[at |-> Min(markers) + 2, next |-> units.next, units |-> units.value]>>

\* The units up to the nulls at the end.
Plain(units) == SubSeq(units, 1, Max({0} \cup {k \in DOMAIN units : units[k] # Null}))

TextOf(b) ==
  LET span == TextSpan(b.data) IN IF span = <<>> THEN <<>> ELSE <<Plain(span[1].units)>>

\* write_text_in_span keeps the nulls.
WriteTextInSpan(b, t) ==
  LET span  == TextSpan(b.data)[1]
      nulls == From(span.units, Len(Plain(span.units)) + 1)
      units == t \o nulls
  IN  Splice(b, span.at, span.next, <<<<"u32", Len(units)>>>> \o Tokens("char16", units))

\* find_engine_data_span: the first marker with as many bytes as it says.
EngineSpan(data) ==
  LET found == {i \in Markers(data, "EngineData", "tdta") : ~Fails(TakeCounted("byte", data, i + 2))}
      bytes == TakeCounted("byte", data, Min(found) + 2)
  IN  IF found = {} THEN <<>>
      ELSE <<[at |-> Min(found) + 2, next |-> bytes.next, payload |-> bytes.value]>>

Broken == "broken"  \* a payload that does not parse

Payload(e) == <<e.direction, e.shape>> \o e.box \o e.text

\* EngineData::parse
EngineOf(b) ==
  LET span == EngineSpan(b.data)
      p    == span[1].payload
      box  == IF p[2] = "box" THEN 1 ELSE 0
  IN  IF span = <<>> \/ Head(p) = Broken THEN <<>>
      ELSE <<[direction |-> p[1], shape |-> p[2], box |-> SubSeq(p, 3, 2 + box), text |-> From(p, 3 + box)]>>

\* write_engine_payload
WriteEngine(b, e) ==
  LET span == EngineSpan(b.data)[1]
  IN  Splice(b, span.at, span.next, <<<<"u32", Len(Payload(e))>>>> \o Tokens("byte", Payload(e)))

\* The first block whose engine data parses, or 0.
EngineBlock ==
  LET found == {k \in DOMAIN blocks : EngineOf(blocks[k]) # <<>>}
  IN  IF found = {} THEN 0 ELSE Min(found)

-----------------------------------------------------------------------------
(* The steps of a change of the text.                                      *)

\* remap_engine_data, as in module TextLayer but for the runs.
RemapEngineData(b, old, new) ==
  LET e == EngineOf(b)[1]
  IN  IF EngineOf(b) = <<>> \/ ~IsPrefix(old, e.text) THEN b
      ELSE WriteEngine(b, [e EXCEPT !.text = new \o From(@, Len(old) + 1)])

\* remap_value: the From and T items anywhere below a value.
RECURSIVE Remapped(_, _, _, _)
Remapped(key, v, units, replacements) ==
  LET below == Last(v[2])
      moved == CASE v[1] \in {"Objc", "ObAr"} ->
                      [k \in DOMAIN below |->
                         <<below[k][1], Remapped(below[k][1], below[k][2], units, replacements)>>]
                 [] v[1] \in {"VlLs", "obj "} ->
                      [k \in DOMAIN below |-> Remapped("", below[k], units, replacements)]
                 [] key \in {"From", "T   "} /\ v[1] = "long" /\ below >= 0 ->
                      RemapEngineIndex(below, units, replacements)
                 [] OTHER -> below
  IN  WithContent(v, moved)

\* Slip: only the items of the descriptor itself are remapped.
RemapTopOnly(d, units, replacements) ==
  [d EXCEPT ![3] = [k \in DOMAIN @ |->
     IF @[k][2][1] \in {"Objc", "ObAr", "VlLs", "obj "} THEN @[k]
     ELSE <<@[k][1], Remapped(@[k][1], @[k][2], units, replacements)>>]]

RemapDescriptor(d, units, replacements) ==
  Remapped("", <<"Objc", d>>, units, replacements)[2]

\* remap_legacy_from_to_ranges
RemapLegacy(b, units, replacements) ==
  LET found  == DescriptorOf(b, "text")
      at     == BodyAt(b.data, "text")
      next   == SkipBody(b.data, at)
      edited == RemapDescriptor(found[1], units, replacements)
  IN  IF b.parsed THEN Sync([b EXCEPT !.text = edited])
      ELSE IF found = <<>> \/ next = 0 THEN b
      ELSE Splice(b, at, next, WriteBody(edited))

\* set_text for one block, with apply_text_mutation.
SetTextOf(b, t) ==
  LET old      == TextOf(b)[1]
      replaced == <<[start |-> 0, old |-> Len(old), new |-> Len(t)]>>
  IN  IF TextOf(b) = <<>> \/ t = old THEN b
      ELSE RemapLegacy(RemapEngineData(WriteTextInSpan(b, t), old, t), Len(old), replaced)

-----------------------------------------------------------------------------
(* The constructor's block.                                                *)

EnumItem(key, type, x) == <<key, <<"enum", <<type, x>>>>>>

\* The numbers of the bounds are estimates from the length of the text.
BoundsItem(key) ==
  LET side(name) == <<name, <<"UntF", <<"#Pnt", 0>>>>>>
  IN  <<key, <<"Objc", <<<<>>, key, <<side("Left"), side("Top "), side("Rght"), side("Btom")>>>>>>>>

\* build_text_descriptor
BuildText(t, payload) ==
  <<<<>>, "TxLr",
    <<<<"Txt ", <<"TEXT", <<t>>>>>>,
      EnumItem("textGridding", "textGridding", "None"),
      EnumItem("Ornt", "Ornt", "Hrzn"),
      EnumItem("AntA", "Annt", "AnCr"),
      BoundsItem("bounds"), BoundsItem("boundingBox"),
      <<"TextIndex", <<"long", <<1>>>>>>,
      <<"EngineData", <<"tdta", <<payload>>>>>>>>>>

\* build_warp_descriptor
BuildWarp ==
  LET number(key) == <<key, <<"doub", <<0>>>>>>
  IN  <<<<>>, "warp",
        <<EnumItem("warpStyle", "warpStyle", "warpNone"), number("warpValue"),
          number("warpPerspective"), number("warpPerspectiveOther"),
          EnumItem("warpRotate", "Ornt", "Hrzn")>>>>

Assemble(transform, text, warp, trailing) ==
  <<<<"u16", 1>>>> \o Tokens("f64", transform) \o <<<<"u16", 50>>, <<"u32", 16>>>> \o text
    \o <<<<"u16", 1>>, <<"u32", 16>>>> \o warp \o trailing

\* build_tysh_tagged_block
BuildBlock(t, transform, payload) ==
  Assemble(transform, WriteBody(BuildText(t, payload)), WriteBody(BuildWarp),
           Tokens("byte", [k \in 1..19 |-> "0"]))

-----------------------------------------------------------------------------
(* The layer.                                                              *)

Init ==
  /\ \E l \in DOMAIN Layers : blocks = [k \in DOMAIN Layers[l] |-> ReadBlock(Layers[l][k])]
  /\ calls = 0
  /\ call = <<"none">>

Edits(view, value) ==
  /\ calls < MaxCalls
  /\ calls' = calls + 1
  /\ call' = <<view, value>>

\* A call on an item of every block, which fails if none of them has it.
SetItems(view, part, key, types, x) ==
  /\ \E k \in DOMAIN blocks : CanWrite(blocks[k], part, key, types)
  /\ blocks' = [k \in DOMAIN blocks |-> WriteItem(blocks[k], part, key, types, x)]
  /\ Edits(view, x)

SetAntiAlias(x) == SetItems("antiAlias", "text", "AntA", Enum, x)

SetWarpStyle(x) == SetItems("warpStyle", "warp", "warpStyle", Enum, x)

SetWarpRotation(x) == SetItems("warpRotate", "warp", "warpRotate", Enum, x)

SetWarpValue(x) == SetItems("warpValue", "warp", "warpValue", Numeric, x)

SetWarpHorizontalDistortion(x) == SetItems("warpPerspective", "warp", "warpPerspective", Numeric, x)

SetWarpVerticalDistortion(x) ==
  SetItems("warpPerspectiveOther", "warp", "warpPerspectiveOther", Numeric, x)

\* The blocks that are long enough for a transform.
Transformed(bs) == {k \in DOMAIN bs : HasBytes(bs[k].data, 1, 2 + 8 * Doubles)}

TransformOf(data) == [k \in 1..Doubles |-> data[k + 1][2]]

SetTransformOf(t) ==
  LET k == Min(Transformed(blocks))
  IN  /\ Transformed(blocks) # {}
      /\ blocks' = [blocks EXCEPT ![k] = Splice(@, 2, Doubles + 2, Tokens("f64", t))]
      /\ Edits("transform", t)

SetTransform(t) == SetTransformOf(t)

SetTransformComponent(i, x) ==
  /\ Transformed(blocks) # {}
  /\ SetTransformOf([TransformOf(blocks[Min(Transformed(blocks))].data) EXCEPT ![i] = x])

\* Both places, the second without a look at whether it could be written.
SetOrientationOf(b, e, x) ==
  WriteItem(WriteEngine(b, [e EXCEPT !.direction = x]), "text", "Ornt", Enum, x)

SetOrientation(x) ==
  LET k == EngineBlock
  IN  /\ k # 0
      /\ blocks' = [blocks EXCEPT ![k] = SetOrientationOf(@, EngineOf(@)[1], x)]
      /\ Edits("direction", x)

\* The three calls on the shape of the first block whose engine data parses.
SetShape(from, to, box, view, value) ==
  LET k == EngineBlock
      e == EngineOf(blocks[k])[1]
  IN  /\ k # 0 /\ e.shape = from
      /\ blocks' = [blocks EXCEPT ![k] = WriteEngine(@, [e EXCEPT !.shape = to, !.box = box])]
      /\ Edits(view, value)

ConvertToBoxText(box) == SetShape("point", "box", <<box>>, "shape", "box")

ConvertToPointText == SetShape("box", "point", <<>>, "shape", "point")

SetBoxBounds(box) == SetShape("box", "box", <<box>>, "box", box)

SetText(t) ==
  /\ \E k \in DOMAIN blocks : TextOf(blocks[k]) # <<>>
  /\ blocks' = [k \in DOMAIN blocks |-> SetTextOf(blocks[k], t)]
  /\ Edits("text", t)

\* TypeToolTaggedBlock::write, of a session that goes on.
Write ==
  /\ blocks' = [k \in DOMAIN blocks |-> Sync(blocks[k])]
  /\ call' = <<"none">>
  /\ UNCHANGED calls

\* The file is written and read again.
Reopen ==
  /\ blocks' = [k \in DOMAIN blocks |-> ReadBlock(Sync(blocks[k]).data)]
  /\ call' = <<"none">>
  /\ UNCHANGED calls

Next ==
  \/ \E x \in AntiAliases : SetAntiAlias(x)
  \/ \E x \in Styles : SetWarpStyle(x)
  \/ \E x \in Rotations : SetWarpRotation(x)
  \/ \E x \in Numbers : \/ SetWarpValue(x)
                        \/ SetWarpHorizontalDistortion(x)
                        \/ SetWarpVerticalDistortion(x)
  \/ \E t \in Transforms : SetTransform(t)
  \/ \E i \in 1..Doubles, x \in Components : SetTransformComponent(i, x)
  \/ \E x \in Directions : SetOrientation(x)
  \/ \E box \in Boxes : ConvertToBoxText(box) \/ SetBoxBounds(box)
  \/ ConvertToPointText
  \/ \E t \in Texts : SetText(t)
  \/ Write
  \/ Reopen

Spec == Init /\ [][Next]_vars

-----------------------------------------------------------------------------
(* What a client sees.                                                     *)

\* The value of the first block that has one.
FirstOf(values) ==
  LET found == {k \in DOMAIN values : values[k] # <<>>}
  IN  IF found = {} THEN <<>> ELSE values[Min(found)]

\* The getters of TextLayer, and what has none but shows in Photoshop: the
\* orientation of the descriptor, the engine's text, and the bytes behind the
\* warp.
Seen(bs) ==
  LET found == [k \in DOMAIN bs |->
                  [text |-> DescriptorOf(bs[k], "text"), warp |-> DescriptorOf(bs[k], "warp")]]
      items(part, key, types) == FirstOf([k \in DOMAIN bs |-> ItemIn(found[k][part], key, types)])
      engine == [k \in DOMAIN bs |-> EngineOf(bs[k])]
      shown  == FirstOf(engine)[1]
      any    == FirstOf(engine) # <<>>
  IN  [text       |-> FirstOf([k \in DOMAIN bs |-> TextOf(bs[k])]),
       antiAlias  |-> items("text", "AntA", Enum),
       warpStyle  |-> items("warp", "warpStyle", Enum),
       warpRotate |-> items("warp", "warpRotate", Enum),
       warpValue  |-> items("warp", "warpValue", Numeric),
       warpPerspective      |-> items("warp", "warpPerspective", Numeric),
       warpPerspectiveOther |-> items("warp", "warpPerspectiveOther", Numeric),
       transform  |-> FirstOf([k \in DOMAIN bs |->
                        IF k \in Transformed(bs) THEN <<TransformOf(bs[k].data)>> ELSE <<>>]),
       direction  |-> IF any THEN <<shown.direction>> ELSE <<>>,
       shape      |-> IF any THEN <<shown.shape>> ELSE <<>>,
       box        |-> FirstOf([k \in DOMAIN bs |-> IF engine[k] = <<>> THEN <<>> ELSE engine[k][1].box]),
       engineText |-> IF any THEN <<shown.text>> ELSE <<>>,
       orientation |-> items("text", "Ornt", Enum),
       trailing   |-> [k \in DOMAIN bs |-> ReadBlock(bs[k].data).trailing]]

\* What a call may change besides what it is called for.
Along(view) ==
  CASE view = "text"      -> {"text", "engineText"}
    [] view = "direction" -> {"direction", "orientation"}
    [] view = "shape"     -> {"shape", "box"}
    [] view = "none"      -> {}
    [] OTHER              -> {view}

-----------------------------------------------------------------------------
(* Properties.                                                             *)

\* The views of a block say the same: a block is taken for parsed if and only
\* if its bytes parse, its descriptors write the bytes that those parsed from
\* its bytes now would, and the direction the engine writes in is the
\* orientation of the text descriptor, which Photoshop goes by when it opens
\* the file.
ViewsAgree ==
  \A k \in DOMAIN blocks :
    LET b == blocks[k]
        r == ReadBlock(b.data)
        e == EngineOf(b)
        o == ReadItem(b, "text", "Ornt", Enum)
    IN  /\ b.parsed = r.parsed
        /\ b.parsed => Sync(b).data = Sync(r).data
        /\ e # <<>> /\ o # <<>> => o[1] = e[1].direction

\* A call is seen to do what it was called for and nothing else: not by an
\* older state of the other view coming back, nor by a block of the same
\* layer.  Writing, and reading what was written, changes nothing a client
\* sees.
OneEditOneChange ==
  [][\E before \in {Seen(blocks)}, after \in {Seen(blocks')} :
       /\ \A view \in DOMAIN before \ Along(call'[1]) : after[view] = before[view]
       /\ call'[1] # "none" => after[call'[1]] = <<call'[2]>>]_vars

\* The From and T indexes below a value.
RECURSIVE Indexes(_, _)
Indexes(key, v) ==
  LET below == Last(v[2])
  IN  CASE v[1] \in {"Objc", "ObAr"} -> UNION {Indexes(below[k][1], below[k][2]) : k \in DOMAIN below}
        [] v[1] \in {"VlLs", "obj "} -> UNION {Indexes("", below[k]) : k \in DOMAIN below}
        [] key \in {"From", "T   "} /\ v[1] = "long" -> {below}
        [] OTHER -> {}

\* The From and T indexes of old files, at any depth of the descriptor and in
\* a parsed block or not, stay where they were: at the start of the text, at
\* its end, or behind the return that closes it.
IndexesFollowTheText ==
  \A k \in DOMAIN blocks :
    LET t == TextOf(blocks[k])
        d == ReadBody(blocks[k].data, HeadTokens + 1)
    IN  t # <<>> /\ ~Fails(d) =>
          Indexes("", <<"Objc", d.value>>) \subseteq {0, Len(t[1]), Len(t[1]) + 1}
=============================================================================
