----------------------------- MODULE Descriptors -----------------------------
(***************************************************************************)
(* Descriptors: the typed trees of keys and values in which Photoshop      *)
(* keeps text, warps and settings, as they are written, read and skipped.  *)
(*                                                                         *)
(* A value is <<type, fields>>, its type being the four letters that stand *)
(* before it in the file.  The body of a descriptor is the fields of an    *)
(* "Objc": its name, its class and its items <<key, value>>.  Bytes are a  *)
(* sequence of tokens <<kind, value>>, one for every number and for every  *)
(* run of letters; a token says how many bytes it has.                     *)
(*                                                                         *)
(* The file is read in two ways.  The tree is read by one method for each  *)
(* type.  The calls that have no tree step over a value by a second table  *)
(* of the types, which is not the same: the layouts below are what both    *)
(* take a value to consist of.                                             *)
(***************************************************************************)
EXTENDS Integers, Sequences, SequencesExt, FiniteSets, TLC

CONSTANTS
  KnownFourByteKeys,  \* the keys of four letters that Photoshop writes without their length
  Units               \* the units a number may have

TokenSize(token) ==
  CASE token[1] = "chars"                 -> Len(token[2])
    [] token[1] \in {"byte", "bool"}      -> 1
    [] token[1] \in {"u16", "char16"}     -> 2
    [] token[1] \in {"u32", "i32"}        -> 4
    [] token[1] \in {"f64", "i64"}        -> 8

\* There are at least n bytes from token i on.
RECURSIVE HasBytes(_, _, _)
HasBytes(data, i, n) ==
  n <= 0 \/ (i <= Len(data) /\ HasBytes(data, i + 1, n - TokenSize(data[i])))

Tokens(kind, values) == [k \in DOMAIN values |-> <<kind, values[k]>>]

-----------------------------------------------------------------------------
(* What a value of each type consists of.                                  *)

Descriptor == <<"text", "id", "items">>

\* ReadDescriptorVariant: the types that are read into a tree.
Layout ==
  [doub |-> <<"f64">>,        long |-> <<"i32">>,
   comp |-> <<"i64">>,        bool |-> <<"bool">>,
   TEXT |-> <<"text">>,       enum |-> <<"id", "id">>,
   UntF |-> <<"unit", "f64">>, UnFl |-> <<"unit", "f64s">>,
   tdta |-> <<"bytes">>,      alis |-> <<"bytes">>,
   type |-> <<"text", "id">>, GlbC |-> <<"text", "id">>, Clss |-> <<"text", "id">>,
   prop |-> <<"text", "id", "id">>,
   Enmr |-> <<"text", "id", "id", "id">>,
   rele |-> <<"text", "id", "u32">>,
   Idnt |-> <<"i32">>,        indx |-> <<"i32">>,
   name |-> <<"text", "id", "text">>,
   Objc |-> Descriptor,
   ObAr |-> <<"u32">> \o Descriptor,
   VlLs |-> <<"list">>] @@ "obj " :> <<"list">>

\* skip_descriptor_value: the types that are stepped over.
SkipLayout ==
  [doub |-> <<"f64">>,        long |-> <<"i32">>,
   comp |-> <<"i64">>,        bool |-> <<"bool">>,
   TEXT |-> <<"text">>,       enum |-> <<"id", "id">>,
   UntF |-> <<"tag", "f64">>, UnFl |-> <<"tag", "f64s">>,
   tdta |-> <<"bytes">>,      alis |-> <<"bytes">>,
   type |-> <<"text", "id">>, GlbC |-> <<"text", "id">>, Clss |-> <<"text", "id">>,
   Objc |-> Descriptor,       GlbO |-> Descriptor,       ObAr |-> Descriptor,
   VlLs |-> <<"list">>] @@ "obj " :> <<"references">> @@ "Pth " :> <<"bytes">>

\* The items of a reference have a table of their own there.
ReferenceLayout ==
  [prop |-> <<"text", "id", "id">>, Clss |-> <<"text", "id", "id">>,
   name |-> <<"text", "id", "id">>,
   Enmr |-> <<"text", "id", "id", "id">>,
   rele |-> <<"text", "id", "u32">>,
   Idnt |-> <<"i32">>,               indx |-> <<"i32">>]

-----------------------------------------------------------------------------
(* Writing.                                                                *)

\* Impl::writeLengthDenotedKey
WriteKey(key) ==
  <<<<"u32", IF key \in KnownFourByteKeys THEN 0 ELSE Len(key)>>, <<"chars", key>>>>

Null == "null"

\* UnicodeString::write closes a text that has no null at its end.
WriteText(t) ==
  LET closed == IF t = <<>> \/ Last(t) # Null THEN Append(t, Null) ELSE t
  IN  <<<<"u32", Len(closed)>>>> \o Tokens("char16", closed)

RECURSIVE WriteValue(_)
WriteValue(v) ==
  LET counted(s) == <<<<"u32", Len(s)>>>>
      field(kind, x) ==
        CASE kind = "id"    -> WriteKey(x)
          [] kind = "text"  -> WriteText(x)
          [] kind = "unit"  -> <<<<"chars", x>>>>
          [] kind = "f64s"  -> counted(x) \o Tokens("f64", x)
          [] kind = "bytes" -> counted(x) \o Tokens("byte", x)
          [] kind = "items" ->
               counted(x) \o FlattenSeq([k \in DOMAIN x |-> WriteKey(x[k][1]) \o WriteValue(x[k][2])])
          [] kind = "list"  -> counted(x) \o FlattenSeq([k \in DOMAIN x |-> WriteValue(x[k])])
          [] OTHER          -> <<<<kind, x>>>>
      layout == Layout[v[1]]
  IN  <<<<"chars", v[1]>>>>
        \o FlattenSeq([k \in DOMAIN layout |-> field(layout[k], v[2][k])])

\* Descriptor::write
WriteBody(d) == Tail(WriteValue(<<"Objc", d>>))

-----------------------------------------------------------------------------
(* Reading and stepping over.                                              *)

Failed == [value |-> <<>>, next |-> 0]

Fails(r) == r.next = 0

Then(r, Further(_)) == IF Fails(r) THEN Failed ELSE Further(r)

\* n tokens of a kind from token i on.
Take(kind, data, i, n) ==
  IF i + n - 1 <= Len(data) /\ \A k \in i..i + n - 1 : data[k][1] = kind
  THEN [value |-> [k \in 1..n |-> data[i + k - 1][2]], next |-> i + n]
  ELSE Failed

\* A number and then as many tokens of a kind.
TakeCounted(kind, data, i) ==
  Then(Take("u32", data, i, 1), LAMBDA count : Take(kind, data, count.next, count.value[1]))

TakeOne(kind, data, i) ==
  Then(Take(kind, data, i, 1), LAMBDA one : [one EXCEPT !.value = @[1]])

\* Impl::readLengthDenotedKey: a length of 0 stands for 4.
TakeKey(data, i) ==
  IF i < Len(data) /\ data[i][1] = "u32" /\ data[i + 1][1] = "chars"
       /\ Len(data[i + 1][2]) = (IF data[i][2] = 0 THEN 4 ELSE data[i][2])
  THEN [value |-> data[i + 1][2], next |-> i + 2]
  ELSE Failed

\* The fields of the kinds that stand for themselves.
TakeField(kind, data, i) ==
  CASE kind = "id"    -> TakeKey(data, i)
    [] kind = "text"  -> TakeCounted("char16", data, i)
    [] kind = "f64s"  -> TakeCounted("f64", data, i)
    [] kind = "bytes" -> TakeCounted("byte", data, i)
    [] kind = "tag"   -> TakeOne("chars", data, i)
    [] kind = "unit"  ->
         Then(TakeOne("chars", data, i), LAMBDA unit : IF unit.value \in Units THEN unit ELSE Failed)
    [] OTHER          -> TakeOne(kind, data, i)

\* A value from token i on, its type and its fields as layouts has them; the
\* rest of its fields; one of them; an item of a list, which may have a key;
\* and n items.
RECURSIVE TakeValue(_, _, _)
RECURSIVE TakeFields(_, _, _, _)
RECURSIVE TakeAny(_, _, _, _)
RECURSIVE TakeItem(_, _, _, _)
RECURSIVE TakeItems(_, _, _, _, _)

TakeValue(layouts, data, i) ==
  Then(TakeOne("chars", data, i), LAMBDA type :
    IF type.value \notin DOMAIN layouts THEN Failed
    ELSE Then(TakeFields(layouts, layouts[type.value], data, type.next), LAMBDA fields :
           [value |-> <<type.value, fields.value>>, next |-> fields.next]))

TakeFields(layouts, layout, data, i) ==
  IF layout = <<>> THEN [value |-> <<>>, next |-> i]
  ELSE Then(TakeAny(layouts, Head(layout), data, i), LAMBDA field :
         Then(TakeFields(layouts, Tail(layout), data, field.next), LAMBDA rest :
           [value |-> <<field.value>> \o rest.value, next |-> rest.next]))

TakeAny(layouts, kind, data, i) ==
  IF kind \notin {"items", "list", "references"} THEN TakeField(kind, data, i)
  ELSE Then(TakeOne("u32", data, i), LAMBDA count :
         TakeItems(IF kind = "references" THEN ReferenceLayout ELSE layouts,
                   kind = "items", data, count.next, count.value))

TakeItem(layouts, keyed, data, i) ==
  IF ~keyed THEN TakeValue(layouts, data, i)
  ELSE Then(TakeKey(data, i), LAMBDA key :
         Then(TakeValue(layouts, data, key.next), LAMBDA value :
           [value |-> <<key.value, value.value>>, next |-> value.next]))

TakeItems(layouts, keyed, data, i, n) ==
  IF n = 0 THEN [value |-> <<>>, next |-> i]
  ELSE Then(TakeItem(layouts, keyed, data, i), LAMBDA item :
         Then(TakeItems(layouts, keyed, data, item.next, n - 1), LAMBDA rest :
           [value |-> <<item.value>> \o rest.value, next |-> rest.next]))

\* Descriptor::read: the body from token i on, and where it ends.
ReadBody(data, i) == TakeFields(Layout, Descriptor, data, i)

\* skip_descriptor_body: only where the body ends.
SkipBody(data, i) == TakeFields(SkipLayout, Descriptor, data, i).next

-----------------------------------------------------------------------------
(* The items of a descriptor.                                              *)

\* KeyValueMixin::at: the first item of the key, or 0.
ItemAt(d, key) == SelectInSeq(d[3], LAMBDA item : item[1] = key)

\* The item of the key if its value is of one of the types, or 0.
ItemOf(d, key, types) ==
  LET k == ItemAt(d, key) IN IF k # 0 /\ d[3][k][2][1] \in types THEN k ELSE 0

\* The number or the enumerator of a value is its last field.
Content(value) == Last(value[2])

WithContent(value, x) == <<value[1], Front(value[2]) \o <<x>>>>

WithItem(d, k, x) == <<d[1], d[2], [d[3] EXCEPT ![k] = <<@[1], WithContent(@[2], x)>>]>>
=============================================================================
