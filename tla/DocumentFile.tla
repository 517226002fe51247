----------------------------- MODULE DocumentFile -----------------------------
(***************************************************************************)
(* The file of a document: a client creates or opens documents, changes    *)
(* their settings and saves them to a path; other programs put files there *)
(* too.  A save truncates the file first and writes it section by section, *)
(* and may end at any of them.  A file is opened by the full reader, asked *)
(* for its bit depth, or previewed by the small reader of smart objects,   *)
(* which only adds up the length markers.                                  *)
(*                                                                         *)
(* Layers and the merged image are blocks of their own; the modules        *)
(* WriteDocument, ReadDocument, ImageLayers and ChannelCodec are about     *)
(* what is in them.  Width and height are one number, the longer side, and *)
(* a resolution is a whole number.                                         *)
(***************************************************************************)
EXTENDS DocumentStream, Integers, FiniteSets, Sequences

CONSTANTS
  Paths,       \* of files
  Extension,   \* of each path: "psd", "psb" or another
  Created,     \* documents a client makes: settings, layers and merged image
  Sides, Resolutions, Profiles,   \* what a client sets
  Others,      \* files of other programs: version, settings, color data, resources
  MaxFiles     \* bound on the files at one time

PsdLimit        == 30000
PsbLimit        == 300000
ResolutionLimit == 65535

BitDepths == {8, 16, 32}          \* the instantiations of LayeredFile

SettingsOf(d) ==
  [side |-> d.side, mode |-> d.mode, depth |-> d.depth, dpi |-> d.dpi, profile |-> d.profile]

\* A document with these settings, its layers and the size of its merged image.
DocumentOf(s, layers, merged) ==
  [side |-> s.side, mode |-> s.mode, depth |-> s.depth, dpi |-> s.dpi, profile |-> s.profile,
   layers |-> layers, merged |-> merged]

\* What a profile, the settings of a document and a resource are: a profile of
\* no bytes is none, and the resolution is a resource of 16 bytes.
NoProfile == [name |-> "none", size |-> 0, declared |-> 0]

IsProfile(p) ==
  /\ p = [name |-> p.name, size |-> p.size, declared |-> p.declared]
  /\ p.size \in Nat /\ p.declared \in Nat
  /\ p.size = 0 => p = NoProfile

IsSettings(s) == s.side \in Int /\ s.depth \in Nat /\ s.dpi \in Nat /\ IsProfile(s.profile)

IsResource(r) ==
  /\ r.kind \in {"profile", "resolution", "other"} /\ r.name \in Nat /\ r.size \in Nat
  /\ r.kind = "profile" => IsProfile(r.val) /\ r.size # 0 /\ r.val.size = r.size
  /\ r.kind = "resolution" => r.val \in Nat /\ r.size = 16

\* getResourceBlockView: what the first resource of a kind among the first n says.
FirstOf(resources, n, kind, default) ==
  LET places == {k \in 1..n : resources[k].kind = kind}
  IN  IF places = {} THEN default
      ELSE resources[CHOOSE k \in places : \A j \in places : k <= j].val

ASSUME DocumentFileAssumption ==
  /\ \A d \in Created : IsSettings(d) /\ d = DocumentOf(d, d.layers, d.merged)
  /\ Sides \subseteq Int /\ Resolutions \subseteq Nat /\ \A p \in Profiles : IsProfile(p)
  /\ \A o \in Others :
       /\ o.version \in {"psd", "psb"} /\ o.color \in Nat
       /\ IsSettings(o.settings) /\ o.settings = SettingsOf(o.settings)
       /\ o.resources \in Seq({o.resources[k] : k \in DOMAIN o.resources})
       /\ \A k \in DOMAIN o.resources : IsResource(o.resources[k])
       /\ o.settings.dpi = FirstOf(o.resources, Len(o.resources), "resolution", 72)
       /\ o.settings.profile = FirstOf(o.resources, Len(o.resources), "profile", NoProfile)

VARIABLES
  layered,     \* m_*: the LayeredFile in the client's hands
  disk,        \* the file at each path
  spc,         \* what the saving thread does next
  content,     \* the PhotoshopFile being saved
  output,      \* the path it is saved to, and the offset of its section's marker
  story,       \* history: how far the save got that made a file, and of what
  rpc,         \* what the reading thread does next
  input,       \* the path it reads and the instantiation it is read with
  at,          \* offset in the file
  left,        \* toRead: what is left of the resources
  section,     \* where a section starts and its size
  got,         \* what was read so far, and the kinds of resources found
  outcome      \* of the last call that reads

saving  == <<spc, content, output>>
reading == <<rpc, input, at, left, section, got>>
vars    == <<layered, disk, saving, story, reading, outcome>>

NoDocument == [side |-> 0]
NoFile     == [blocks |-> <<>>, offset |-> -1]
NoOutput   == [path |-> "none", mark |-> 0]
NoInput    == [path |-> "none", type |-> 8]
NoOutcome  == [call |-> "none", ok |-> FALSE]
NoStory    == [stage |-> "none", of |-> NoDocument, version |-> "none"]

Idle == spc = "idle" /\ rpc = "idle"

Files == {p \in Paths : disk[p] # NoFile}

HasRoom(p) == Cardinality(Files \ {p}) < MaxFiles

Init ==
  /\ layered = NoDocument
  /\ disk = [p \in Paths |-> NoFile]
  /\ spc = "idle" /\ content = NoDocument /\ output = NoOutput
  /\ story = [p \in Paths |-> NoStory]
  /\ rpc = "idle" /\ input = NoInput
  /\ at = 0 /\ left = 0 /\ section = [start |-> 0, size |-> 0] /\ got = NoDocument
  /\ outcome = NoOutcome

-----------------------------------------------------------------------------
(* The blocks of a file                                                    *)

Width(version) == IF version = "psd" THEN 4 ELSE 8

HeaderLength    == 26
ColorDataLength == 112
LayersLength    == 41        \* records and channels, whatever they are
SignatureAndKey == 8
MaskLength      == 4

\* A name is one byte of length and its bytes, padded; the sum is of 8 bits.
NameSize(n) == (RoundUpToMultiple((n + 1) % 256, 2)) % 256

\* PascalString::write with an empty name, as all resources have here.
PutEmptyName(d) == PutPadding(Put(d, "name", 0, 1), NameSize(0) - 1)

\* ResolutionInfoBlock::write
PutResolution(d, dpi) ==
  Put(Put(PutEmptyName(Put(d, "resource", "resolution", 6)), "length", 16, 4),
      "resolution", dpi, 16)

\* Slip: the marker is that of the profile without its padding, and no
\* padding is written.
PutProfileUnpadded(d, profile) ==
  Put(Put(PutEmptyName(Put(d, "resource", "profile", 6)), "length", profile.size, 4),
      "profile", profile, profile.size)

\* ICCProfileBlock::write: the length counts the padding.
PutProfile(d, profile) ==
  LET padded == RoundUpToMultiple(profile.size, 2)
  IN  PutPadding(Put(Put(PutEmptyName(Put(d, "resource", "profile", 6)), "length", padded, 4),
                     "profile", profile, profile.size),
                 padded - profile.size)

\* The marker of a section that starts at mark, filled in from its end.
PatchLength(d, mark, width, padding) ==
  LET size    == d.offset - mark - width
      rounded == RoundUpToMultiple(size, padding)
  IN  Patch(d, mark, width, rounded, rounded - size)

\* ImageResources::write
PutResources(d, settings) ==
  LET marked   == Put(d, "length", 0, 4)
      profiled == IF settings.profile.size = 0 THEN marked
                  ELSE PutProfile(marked, settings.profile)
  IN  PatchLength(PutResolution(profiled, settings.dpi), d.offset, 4, 2)

HeaderBlocks(d, version, settings) ==
  Put(Put(Put(d, "signature", 0, 4), "version", version, 2), "header", settings, 20)

-----------------------------------------------------------------------------
(* The client                                                              *)

\* One document at a time: the client makes or opens the next when it has none.
Create(d) ==
  /\ Idle
  /\ layered = NoDocument
  /\ layered' = d
  /\ outcome' = NoOutcome
  /\ UNCHANGED <<disk, saving, story, reading>>

Close ==
  /\ Idle
  /\ layered # NoDocument
  /\ layered' = NoDocument
  /\ outcome' = NoOutcome
  /\ UNCHANGED <<disk, saving, story, reading>>

Set(changed) ==
  /\ Idle
  /\ layered # NoDocument
  /\ layered' = changed
  /\ outcome' = NoOutcome
  /\ UNCHANGED <<disk, saving, story, reading>>

\* width and height refuse what no version of the format has.
SetSide(side)       == side \in 1..PsbLimit /\ Set([layered EXCEPT !.side = side])
SetDpi(dpi)         == Set([layered EXCEPT !.dpi = dpi])
SetProfile(profile) == Set([layered EXCEPT !.profile = profile])

-----------------------------------------------------------------------------
(* LayeredFile::write and PhotoshopFile::write                             *)

\* The file is truncated, whether it may be overwritten or not, before the
\* document is converted, which throws for a resolution beyond a fixed float.
BeginSave(p) ==
  /\ Idle
  /\ HasRoom(p)
  /\ layered # NoDocument
  /\ disk' = [disk EXCEPT ![p] = EmptyDocument]
  /\ layered' = NoDocument
  /\ IF layered.dpi > ResolutionLimit
     THEN UNCHANGED saving
     ELSE spc' = "header" /\ content' = layered /\ output' = [path |-> p, mark |-> 0]
  /\ story' = [story EXCEPT ![p] = [stage |-> "begun", of |-> SettingsOf(layered),
                                    version |-> Extension[p]]]
  /\ outcome' = NoOutcome
  /\ UNCHANGED reading

Out     == disk[output.path]
Version == Extension[output.path]

Written(d) == disk' = [disk EXCEPT ![output.path] = d]

SaveStep(to, d) ==
  /\ spc' = to
  /\ Written(d)
  /\ UNCHANGED <<layered, content, output, story, reading, outcome>>

\* The end of a save, with an error or without.
Leave == spc' = "idle" /\ content' = NoDocument /\ output' = NoOutput

GiveUp(d) ==
  /\ Leave
  /\ Written(d)
  /\ UNCHANGED <<layered, story, reading, outcome>>

\* FileHeader::write: the extension gives the version, or none.
WriteHeader ==
  /\ spc = "header"
  /\ IF Version \in {"psd", "psb"}
     THEN SaveStep("color", HeaderBlocks(Out, Version, SettingsOf(content)))
     ELSE GiveUp(Put(Out, "signature", 0, 4))

\* ColorModeData::write: indexed documents have no palette to write.
WriteColorModeData ==
  /\ spc = "color"
  /\ SaveStep("resources",
              IF content.depth = 32 /\ content.mode # "indexed"
              THEN Put(Put(Out, "length", ColorDataLength, 4), "color", 0, ColorDataLength)
              ELSE Put(Out, "length", 0, 4))

WriteResources ==
  /\ spc = "resources"
  /\ SaveStep("section", PutResources(Out, content))

\* Up to the marker of the layer info with the layers: 16 and 32 bits have it
\* in a tagged block behind an empty layer info and the mask info.
UpToLayers(d, width, depth) ==
  LET marked == Put(d, "length", 0, width)
      tagged == Put(Put(Put(marked, "length", 0, width), "mask", 0, MaskLength),
                    "tagged", 0, SignatureAndKey)
  IN  Put(IF depth < 16 THEN marked ELSE tagged, "length", 0, width)

BeginSection ==
  /\ spc = "section"
  /\ spc' = "layers"
  /\ Written(UpToLayers(Out, Width(Version), content.depth))
  /\ output' = [output EXCEPT !.mark = Out.offset]
  /\ UNCHANGED <<layered, content, story, reading, outcome>>

PutLayers(d, width) ==
  PatchLength(Put(d, "layers", 0, LayersLength), d.offset - width, width, 4)

\* The layers, of which some cannot be written.
WriteLayers ==
  /\ spc = "layers"
  /\ IF content.layers = "sound"
     THEN SaveStep(IF content.depth < 16 THEN "mask" ELSE "finish",
                   PutLayers(Out, Width(Version)))
     ELSE GiveUp(Put(Out, "records", 0, LayersLength - 1))

WriteMask ==
  /\ spc = "mask"
  /\ spc' = "finish"
  /\ Written(Put(Out, "mask", 0, MaskLength))
  /\ story' = [story EXCEPT ![output.path].stage = "mask"]
  /\ UNCHANGED <<layered, content, output, reading, outcome>>

FinishSection ==
  /\ spc = "finish"
  /\ spc' = "image"
  /\ Written(PatchLength(Out, output.mark, Width(Version), 4))
  /\ story' = [story EXCEPT ![output.path].stage = "layers"]
  /\ UNCHANGED <<layered, content, output, reading, outcome>>

\* ImageData::write: a merged image that was given for another size is refused,
\* behind the compression marker.  Without one the pixels are empty.
WriteImage ==
  LET compression == Put(Out, "compression", 1, 2)
  IN  /\ spc = "image"
      /\ IF content.merged \in {0, content.side}
         THEN /\ Leave
              /\ Written(Put(compression, "image", 0, LayersLength))
              /\ story' = [story EXCEPT ![output.path].stage = "complete"]
              /\ UNCHANGED <<layered, reading, outcome>>
         ELSE GiveUp(compression)

\* An error or the end of the process between two sections.  The stream is
\* closed, so what was written so far is in the file.
StopSave == spc # "idle" /\ GiveUp(Out)

-----------------------------------------------------------------------------
(* PhotoshopFile::read and the constructor of a LayeredFile                *)

In == disk[input.path]

IsNext(kind, offset) == HasBlock(In.blocks, offset, kind)
ValueAt(offset)      == In.blocks[offset].val

InRange(side, version) == side \in 1..(IF version = "psd" THEN PsdLimit ELSE PsbLimit)

\* FileHeader::read and FileHeader::from_bytes: 26 bytes with these ranges.
HeaderIsRead(d) ==
  /\ HasBlock(d.blocks, 6, "header")
  /\ InRange(d.blocks[6].val.side, d.blocks[4].val)

Answer(call, of, ok) == [call |-> call, path |-> of.path, type |-> of.type, ok |-> ok]

BeginOpen(p, type) ==
  LET asked == [path |-> p, type |-> type]
  IN  /\ Idle
      /\ layered = NoDocument
      /\ IF disk[p] = NoFile
         THEN outcome' = Answer("open", asked, FALSE) /\ UNCHANGED <<rpc, input>>
         ELSE outcome' = NoOutcome /\ rpc' = "header" /\ input' = asked
      /\ UNCHANGED <<layered, disk, saving, story, at, left, section, got>>

Goto(to) == rpc' = to /\ UNCHANGED <<layered, disk, saving, story, input, outcome>>

\* The end of a read; what it kept is gone.
Finish(ok) ==
  /\ rpc' = "idle" /\ input' = NoInput
  /\ at' = 0 /\ left' = 0 /\ section' = [start |-> 0, size |-> 0] /\ got' = NoDocument
  /\ outcome' = Answer("open", input, ok)
  /\ UNCHANGED <<disk, saving, story>>

Refuse == Finish(FALSE) /\ UNCHANGED layered

ReadHeader ==
  /\ rpc = "header"
  /\ IF HeaderIsRead(In)
     THEN /\ Goto("color")
          /\ at' = HeaderLength
          /\ got' = [side |-> ValueAt(6).side, mode |-> ValueAt(6).mode,
                     depth |-> ValueAt(6).depth, dpi |-> 72, profile |-> NoProfile,
                     found |-> {}, version |-> ValueAt(4), layers |-> "none"]
          /\ UNCHANGED <<left, section>>
     ELSE Refuse

\* The data is read with the four bytes behind it; the resources are found by
\* where the section starts and by its size.
ReadColorModeData ==
  /\ rpc = "color"
  /\ IF IsNext("length", at) /\ at + 4 + ValueAt(at) + 4 <= In.offset
     THEN /\ Goto("resources")
          /\ at' = at + ValueAt(at) + 4
          /\ UNCHANGED <<left, section, got>>
     ELSE Refuse

BeginResources ==
  /\ rpc = "resources"
  /\ IF IsNext("length", at)
     THEN /\ Goto("resource")
          /\ left' = RoundUpToMultiple(ValueAt(at), 2)
          /\ section' = [start |-> at, size |-> RoundUpToMultiple(ValueAt(at), 2) + 4]
          /\ at' = at + 4
          /\ UNCHANGED got
     ELSE Refuse

\* PascalString::read: no byte is skipped where the size is less than the name.
EndOfName(offset) ==
  LET n == ValueAt(offset)
  IN  offset + (IF NameSize(n) > n + 1 THEN NameSize(n) ELSE n + 1)

\* normalize_icc_payload
Normalized(profile) ==
  IF profile.declared \in 128..profile.size
  THEN [profile EXCEPT !.size = profile.declared] ELSE profile

\* With one kind more that was found.
Finding(kept, kind) == [kept EXCEPT !.found = @ \cup {kind}]

\* The data of a resource is the first of its kind that the reader meets.
IsFirst(kind, offset) == IsNext(kind, offset) /\ kind \notin got.found

\* read_dpi and read_icc_profile take the first resource of a kind of all that
\* were read: the profile with its padding, cut to the size it declares, and the
\* horizontal resolution.
Kept(offset, raw) ==
  CASE IsFirst("profile", offset) ->
         [Finding(got, "profile") EXCEPT
            !.profile = Normalized([ValueAt(offset) EXCEPT !.size = raw])]
    [] IsFirst("resolution", offset) ->
         [Finding(got, "resolution") EXCEPT !.dpi = ValueAt(offset)]
    [] OTHER -> got

\* ImageResources::parseResourceBlock
ReadResource ==
  LET name == at + 6
      mark == EndOfName(name)
      raw  == ValueAt(mark)
      size == 6 + NameSize(ValueAt(name)) + 4 + RoundUpToMultiple(raw, 2)
  IN  /\ rpc = "resource"
      /\ left # 0
      /\ IF /\ IsNext("resource", at)
            /\ IsNext("length", mark)
            /\ ValueAt(at) = "resolution" => RoundUpToMultiple(raw, 2) = 16
            /\ mark + 4 + RoundUpToMultiple(raw, 2) <= In.offset
         THEN /\ Goto("resource")
              /\ at' = mark + 4 + RoundUpToMultiple(raw, 2)
              /\ left' = left - size
              /\ got' = Kept(mark + 4, raw)
              /\ UNCHANGED section
         ELSE Refuse

\* toRead is unsigned: only 0 ends the loop.  What was found counts no more.
EndResources ==
  /\ rpc = "resource"
  /\ left = 0
  /\ Goto("section")
  /\ got' = [got EXCEPT !.found = {}]
  /\ UNCHANGED <<at, left, section>>

\* LayerAndMaskInformation::read
ReadSection ==
  LET start == section.start + section.size
      width == Width(got.version)
  IN  /\ rpc = "section"
      /\ IF IsNext("length", start)
         THEN /\ Goto("info")
              /\ section' = [start |-> start, size |-> ValueAt(start) + width]
              /\ at' = start + width
              /\ UNCHANGED <<left, got>>
         ELSE Refuse

\* LayerInfo::read, which leaves at once where its length is 0.
ReadLayerInfo ==
  LET width == Width(got.version)
  IN  /\ rpc = "info"
      /\ IF IsNext("length", at)
         THEN /\ Goto("mask")
              /\ at' = at + width + ValueAt(at)
              /\ got' = IF ValueAt(at) = 0 THEN got
                        ELSE [got EXCEPT !.layers = IF IsNext("layers", at + width)
                                                    THEN "sound" ELSE "none"]
              /\ UNCHANGED <<left, section>>
         ELSE Refuse

\* Where no mask info is next, the layer info was cut short; what is read as
\* the length of the mask info then ends beyond the file or leaves the
\* document without layers, and it is refused either way.
ReadMaskInfo ==
  /\ rpc = "mask"
  /\ IF IsNext("mask", at)
     THEN /\ Goto("blocks")
          /\ at' = at + MaskLength
          /\ UNCHANGED <<left, section, got>>
     ELSE Refuse

\* AdditionalLayerInfo::read of Lr16 or Lr32, if the section says that 12
\* bytes are left.
ReadBlocks ==
  LET width == Width(got.version)
      mark  == at + SignatureAndKey
  IN  /\ rpc = "blocks"
      /\ Goto("build")
      /\ IF /\ section.start + section.size - at >= 12
            /\ IsNext("tagged", at)
         THEN /\ at' = mark + width + ValueAt(mark)
              /\ got' = [got EXCEPT !.layers = IF IsNext("layers", mark + width)
                                               THEN "sound" ELSE "none"]
         ELSE UNCHANGED <<at, got>>
      /\ UNCHANGED <<left, section>>

\* A document of another bit depth than the client asked for, or without
\* layers, is refused.
Build ==
  /\ rpc = "build"
  /\ IF got.depth = input.type /\ got.layers = "sound"
     THEN /\ layered' = DocumentOf(got, "sound", 0)
          /\ Finish(TRUE)
     ELSE Refuse

Read == \/ ReadHeader \/ ReadColorModeData \/ BeginResources \/ ReadResource
        \/ EndResources \/ ReadSection \/ ReadLayerInfo \/ ReadMaskInfo
        \/ ReadBlocks \/ Build

-----------------------------------------------------------------------------
(* The calls that read a file in one go                                    *)

Asked(answer) ==
  /\ Idle
  /\ layered = NoDocument
  /\ outcome' = answer
  /\ UNCHANGED <<layered, disk, saving, story, reading>>

\* PhotoshopFile::findBitdepth; where it answers, it is asked for a type.
FindBitDepth(p) ==
  LET ok == Extension[p] \in {"psd", "psb"} /\ HeaderIsRead(disk[p])
  IN  Asked(Answer("depth",
                   [path |-> p, type |-> IF ok THEN disk[p].blocks[6].val.depth ELSE 0], ok))

\* Slip: the size marker is not included.
ColorDataSizeWithoutMarker(blocks) == blocks[HeaderLength].val

\* ColorModeData::get_size, ImageResources::get_size and
\* LayerAndMaskInformation::get_size: how far a section reaches.
ColorDataSize(blocks) == blocks[HeaderLength].val + 4

SectionPlace(blocks) ==
  LET resources == HeaderLength + ColorDataSize(blocks)
  IN  resources + RoundUpToMultiple(blocks[resources].val, 2) + 4

ImagePlace(blocks) ==
  LET place == SectionPlace(blocks)
  IN  place + blocks[place].val + Width(blocks[4].val)

\* psd_psb_reader: whether it comes to the merged image.  Where a marker is
\* missing the span ends, and a section of length 0 has pixels behind it that
\* are not the image.
FindsImage(d) ==
  /\ HasBlock(d.blocks, HeaderLength, "length")
  /\ HasBlock(d.blocks, HeaderLength + ColorDataSize(d.blocks), "length")
  /\ HasBlock(d.blocks, SectionPlace(d.blocks), "length")
  /\ HasBlock(d.blocks, ImagePlace(d.blocks), "compression")
  /\ HasBlock(d.blocks, ImagePlace(d.blocks) + 2, "image")

Preview(p, type) ==
  /\ Extension[p] \in {"psd", "psb"}
  /\ disk[p] # NoFile
  /\ Asked(Answer("preview", [path |-> p, type |-> type],
                  /\ HeaderIsRead(disk[p])
                  /\ disk[p].blocks[6].val.depth = type
                  /\ FindsImage(disk[p])))

-----------------------------------------------------------------------------
(* Files of other programs                                                 *)

\* Lengths as they are, data padded; a resource may have a name.
PutResource(d, resource) ==
  LET named == PutPadding(Put(Put(d, "resource", resource.kind, 6), "name", resource.name,
                              1 + resource.name),
                          (resource.name + 1) % 2)
  IN  PutPadding(Put(Put(named, "length", resource.size, 4),
                     resource.kind, resource.val, resource.size),
                 resource.size % 2)

PutAll(d, resources) ==
  LET upto[n \in 0..Len(resources)] ==
        IF n = 0 THEN d ELSE PutResource(upto[n - 1], resources[n])
  IN  upto[Len(resources)]

FileOf(other) ==
  LET header    == HeaderBlocks(EmptyDocument, other.version, other.settings)
      colored   == Put(header, "length", other.color, 4)
      data      == IF other.color = 0 THEN colored ELSE Put(colored, "color", 0, other.color)
      resources == PatchLength(PutAll(Put(data, "length", 0, 4), other.resources),
                               data.offset, 4, 2)
      width     == Width(other.version)
      layers    == PutLayers(UpToLayers(resources, width, other.settings.depth), width)
      masked    == IF other.settings.depth < 16 THEN Put(layers, "mask", 0, MaskLength) ELSE layers
      whole     == PatchLength(masked, resources.offset, width, 4)
  IN  Put(Put(whole, "compression", 1, 2), "image", 0, LayersLength)

OtherProgram(p, other) ==
  /\ Idle
  /\ HasRoom(p)
  /\ disk' = [disk EXCEPT ![p] = FileOf(other)]
  /\ story' = [story EXCEPT ![p] = [stage |-> "complete", of |-> other.settings,
                                    version |-> other.version]]
  /\ outcome' = NoOutcome
  /\ UNCHANGED <<layered, saving, reading>>

Delete(p) ==
  /\ Idle
  /\ disk[p] # NoFile
  /\ disk' = [disk EXCEPT ![p] = NoFile]
  /\ story' = [story EXCEPT ![p] = NoStory]
  /\ outcome' = NoOutcome
  /\ UNCHANGED <<layered, saving, reading>>

-----------------------------------------------------------------------------

Next ==
  \/ \E d \in Created : Create(d)
  \/ Close
  \/ \E side \in Sides : SetSide(side)
  \/ \E dpi \in Resolutions : SetDpi(dpi)
  \/ \E profile \in Profiles : SetProfile(profile)
  \/ \E p \in Paths : BeginSave(p)
  \/ WriteHeader \/ WriteColorModeData \/ WriteResources
  \/ BeginSection \/ WriteLayers \/ WriteMask \/ FinishSection \/ WriteImage
  \/ StopSave
  \/ \E p \in Paths, type \in BitDepths : BeginOpen(p, type)
  \/ Read
  \/ \E p \in Paths : FindBitDepth(p)
  \/ \E p \in Paths, type \in BitDepths : Preview(p, type)
  \/ \E p \in Paths, other \in Others : OtherProgram(p, other)
  \/ \E p \in Paths : Delete(p)

Spec == Init /\ [][Next]_vars

-----------------------------------------------------------------------------
(* Properties                                                              *)

\* What the format can hold of a document: its sides fit the version.
Fits(p) == InRange(story[p].of.side, story[p].version)

\* Whether the section of the file at p is whole, and whether the reader comes
\* to its layers: it needs the length of the section only where they are in a
\* tagged block, so that with 8 bits it opens a file whose save ended before
\* that length was filled in.
SectionIsWhole(p) == story[p].stage \in {"layers", "complete"}
HasLayers(p)      == SectionIsWhole(p) \/ story[p].stage = "mask"

\* A file opens exactly if its layers were written to the end, its sides fit
\* the version and it has the bit depth that was asked for: a file that a save
\* left at any earlier step is refused.  The document that was opened has the
\* settings that were saved, a profile without the padding of its resource; the
\* bit depth that is found without reading the rest is that of the document.
OpensWhatWasSaved ==
  LET saved == story[outcome.path]
  IN  /\ outcome.call = "open" =>
           /\ outcome.ok <=> /\ HasLayers(outcome.path)
                            /\ Fits(outcome.path)
                            /\ saved.of.depth = outcome.type
           /\ outcome.ok => SettingsOf(layered) = [saved.of EXCEPT !.profile = Normalized(@)]
      /\ outcome.call = "depth" /\ outcome.ok => outcome.type = saved.of.depth

\* Three ways to find where a section ends lead to one place: the resources
\* read one by one, the length marker in front of them, and the small reader
\* that only adds up markers; behind the layers the full reader stands where
\* the small one looks for the merged image.  The small reader finds the image
\* exactly in files that were written to the end.
ReadersAgree ==
  /\ rpc = "section" => /\ at = section.start + section.size
                        /\ at = SectionPlace(In.blocks)
  /\ rpc = "build" /\ SectionIsWhole(input.path) => at = ImagePlace(In.blocks)
  /\ outcome.call = "preview" =>
       (outcome.ok <=> /\ story[outcome.path].stage = "complete"
                       /\ Fits(outcome.path)
                       /\ story[outcome.path].of.depth = outcome.type)
=============================================================================
