# PhotoshopAPI: a verification development

PhotoshopAPI is a C++20 library that reads, edits and writes Photoshop documents (`.psd`, `.psb`). A client
works on a `LayeredFile<T>` (a tree of layers with lazily loaded pixels); the library turns it into a
`PhotoshopFile` (the sections of the file format) and that into bytes. This directory models the parts of it
that have state, order and concurrency: the editing of the layer tree, the writer and the reader with their
parallel loops and their progress callback, the smart object layers with the images they share, the text layers with
their styled runs, the image layers with their channels and masks, the compression of channels with its parallel scanlines,
the tagged blocks of layers and documents, the type tool blocks with their descriptors, the handles of the C API, and the
files themselves with what is at their head.

Paths below are relative to `src/PhotoshopAPI/src/` unless they start with `src/`.

## The system

| part | state it keeps | operations | talks to |
|---|---|---|---|
| Layer hierarchy (`LayeredFile/LayeredFile.h`, `LayerTypes/GroupLayer.h`, `Impl/LayeredFileImpl.cpp`) | an ordered list of shared layer pointers in the document and in each group | add, move, remove, find by pointer, path, index, name; flatten | records, linked images (clearing), C API handles |
| Flat list and records (`Impl/*`, `Util/GenerateLayerMaskInfo.cpp`) | none: two conversions | flatten with dividers, rebuild | hierarchy, layer info section |
| Document writer (`PhotoshopFile/*`) | the output stream, the layers' compressed data | sections in order; compression of the layers in parallel; length markers filled in afterwards | progress callback, file |
| Document reader (`PhotoshopFile/*`, `Core/TaggedBlocks/Lr16TaggedBlock.cpp`) | the offset in the file, the records, a result per layer | sections in order; the layers' data in parallel | progress callback, file |
| Progress callback (`Util/ProgressCallback.h`) | a count, a maximum, a task text | reset, set maximum, increment; polled from another thread | writer, reader |
| Smart objects and linked images (`LayerTypes/SmartObjectLayer.h`, `LinkedData/LinkedLayerData.h`, `Util/ClearLinkedLayers.h`) | one store of images per document, by hash; per layer a hash, a warp, evaluated channels and their cache flags | create, replace, transform, evaluate, codec, linkage, write, read | hierarchy, writer |
| File and byte stream (`Core/Struct/File.*`, `ByteStream.*`) | one `fstream`, its size and offset, a mutex; a memory map when reading | read, write, skip and seek under the lock; slices read from the map at an offset of their own, without it | reader, writer |
| Tagged blocks (`Core/TaggedBlocks`, `PhotoshopFile/AdditionalLayerInfo.*`, `LayerTypes/Layer.h`) | the blocks of a section or of a layer, what is left of the section; per layer its settings and the blocks nobody parses | read one by one whoever wrote them, skip unknown and refused ones, take settings, write settings and unparsed blocks | reader, writer |
| Descriptors, type tool blocks (`Core/Struct/DescriptorStructure.cpp`, `Util/DescriptorUtil.h`, `Core/TaggedBlocks/TypeToolTaggedBlock.*`, `LayerTypes/TextLayer`) | the bytes of a block, and the two descriptors that were parsed from them | parse, write, step over and search the bytes; set the items of a descriptor and the fields of the engine data, in one view or in both | text layers, tagged blocks |
| Header, colour mode data, image resources (`PhotoshopFile/FileHeader.cpp`, `ColorModeData.cpp`, `ImageResources.cpp`, `Core/Struct/ResourceBlock.cpp`, `PascalString.cpp`) | the settings of a document as fields and resources | read, write, add up lengths (`LinkedData/PsdPsbReader.h`) | reader, writer, linked images |
| Compression (`Core/Compression`, `ChannelImageData` in `PhotoshopFile/LayerAndMaskInformation.cpp`) | a scratch buffer per layer, cut into a span for each scanline; a buffer for reading | PackBits with a task per scanline, zip (external), prediction of integers and floats | writer, reader |
| Text layers (`LayerTypes/TextLayer`) | one `TySh` block: the text as such and again in the engine data, style and paragraph runs over it, a font set, From/To indexes of old files | set and replace text, split runs, add, rename and set fonts, style ranges and occurrences | tagged blocks |
| Image layers and masks (`LayerTypes/ImageLayer.h`, `MaskDataMixin.h`, `ImageDataMixins.h`, `Layer.h`, `Util/CoordinateUtil.h`) | the size and center of the layer, of each channel and of the mask; the settings of the mask | make of channels by index or name, set channels and image data, set, extract and move the mask, resize, move, write, read | reader, writer, compression |
| Rendering, geometry, warps | pixels | arithmetic | smart objects |
| C API (`src/PhotoshopAPI.C`), with a .NET wrapper (`src/Photoshop.NET`) | documents (usable or consumed by a write); layer handles with a shared layer, a weak pointer to the document and an `attached` flag | create, read, find, add, move, remove, write, destroy, by handle | hierarchy, writer |
| Python bindings (`src/python`) | none of their own | the C++ interface | everything |

What is hard in it:

* **Interleaving.** Both `LayerInfo::write` and `LayerInfo::read` run one task per layer under
  `std::execution::par`. The tasks share result lists, the file stream and the callback. Inside each of them the
  scanlines of a channel are tasks again, which share one buffer and are kept apart by arithmetic alone.
* **Order.** Length markers are written before the length is known; the sizes in the records come from the
  parallel loop and are consumed by another parallel loop after a read; the records are the reverse of the tree.
* **Stale state.** A callback is reused with the maximum of an earlier operation; a smart object's channels are
  cached while its image and warp change; the store knows images by paths that change when a document is read; the
  buffers of the compression hold what an earlier channel left.
* **Several views of one thing.** A block of a text layer is its bytes and the descriptors parsed from them, and each call
  edits one of the two; a text layer has its text, its runs and its old indexes in three places that every
  edit must move alike; an image layer has a size in three places, of which a file keeps two, as edges; several handles of the C API may stand for one layer, each with a flag of its own.
* **Long sequences of legal calls.** Layers are shared pointers: they can be detached, filled and put back, and the
  tests the library makes look only at the document.
* **Files of others.** Tagged blocks come from any program. Each kind has a reader that moves the offset as it reads and
  throws where it meets what it does not know; the loop around them goes on wherever the offset is by then.
* **Partial failure.** The output file is truncated before the document is converted, and whatever a save leaves at a
  step it ends at can be opened later; exceptions inside the parallel
  loops end the process; stream errors are not looked at.
* **Limits.** No layers at all, a callback at its maximum, lengths that need padding, 4- and 8-byte markers.

What makes each part correct, and where it is stated, is in the sections below. All hazards, with their lines, are
in `PROJECT.json`, also those no property covers yet.

## The modules

```
Hierarchy <- LayerTree <- LayerTreeClient <- LayerRecords <- MCLayerTree
    |                            |
    |                            +--> Layers_proofs ---------+
    +---------> Hierarchy_proofs (lemmas) <------------------+
    |                  ^                                (EXTENDS)
    |                  |
    |        DocumentHandles_proofs
    |                  |
    |                  v
    +---------> DocumentHandles <- MCDocumentHandles

ProgressCallback --+
                   +--> WriteDocument <- MCWriteDocument
DocumentStream  ---+        |
        |                   v
        +---> ReadDocument (INSTANCE, disk <- what was written)
                            |
                    DocumentRoundTrip <- MCDocumentRoundTrip
                                      <- DocumentRoundTrip_proofs

SmartObjects <- MCSmartObjects
             <- LayerContents_proofs

TextRuns <- TextLayer <- MCTextLayer
               |      <- LayerContents_proofs
               |
               +--> StyledText (INSTANCE, cells <- the units with their styles: refinement)

PackBits <- ChannelCodec <- MCChannelCodec
                         <- ChannelCodec_proofs

TaggedBlocks <- MCTaggedBlocks
             <- TaggedBlocks_proofs

ImageLayers <- MCImageLayers
            <- Layers_proofs

Descriptors --+
              +--> TypeToolBlock <- MCTypeToolBlock
TextRuns -----+

DocumentStream <- DocumentFile <- MCDocumentFile
                               <- DocumentFile_proofs
```

In every module an operator introduced by a comment `Slip:` is not part of the specification. It is a definition
with a plausible programming error, kept beside the right one: putting it in place of the right one makes one of
the properties false. `PROJECT.json` ("mutants") says which. They show that the properties depend on the code.

### The layer hierarchy

`Hierarchy` has the lists of layers as values and what the calls make of them, as operators on a hierarchy `k`; it has no
variables, so the document's tree and the C API use the same ones. `LayerTree` is the tree as the code has it. `kids` maps the document (`Root`) and every group to its ordered list;
a layer that is in nobody's list is still the client's. `call` is the last call that returned, for the properties
that speak of calls. There is one action per overload of `add_layer`, `move_layer` and `remove_layer`, of the
document and of groups. A guard, an early return or an exception of the code is a guard or a branch here:
`MoveLayer` has four (`Relocated`), and its last one is the layer that is removed although its new parent is no group
(`LayeredFile.h:331`). All recursive walks of the code visit slots depth-first, so they are one operator, `Slots`.
A hierarchy with a cycle makes every walk endless, so after one is made no call returns (`~Cyclic(kids)`).

`LayerTreeClient` says who may rely on what. `Spec` is any client. `CarefulSpec` is a client that keeps two
obligations the library does not check: a layer it adds or moves is in the document or in nobody's list, and a group
is not put under itself. For such a client:

* `Forest`: no layer is in two places and no group is below itself, detached groups included;
* `MoveKeepsDocument`: erasing and inserting again loses neither the layer nor what is below it;
* `SiblingOrderKept`: the other layers of a list keep their order through any call;
* `RemoveTakesTheSubtree`: what was below a removed layer leaves the document with it, stays whole in the client's
  hands, and nothing else goes.

`LayerRecords` adds the flat list and the reader's rebuilding of the tree:

* `RecordsRebuildTheTree`: in every tree a careful client can build, the records give back the same lists, for the
  document and for every group in it, and for nothing else.

### Writing and reading

`ProgressCallback` and `DocumentStream` are shared. The stream has blocks (kind, value, length) by offset instead of
bytes; `Patch` is the way back to a length marker, the marker, the way forward and the padding.

`WriteDocument` is `PhotoshopFile::write` with the sections below it. `pc` is the statement the writing thread is
at; one action is one section or one iteration of a loop. `task[k]` is the task of layer `k` in the parallel loop
of `LayerInfo::write`: what it compresses may come to any length of `Lengths`, and its `increment()` is a step of its
own, so tasks interleave at the mutex. The document is any number of layers, PSD or PSB (`width`), 8-bit or deep,
with or without other tagged blocks; the callback comes with any earlier count and maximum. The two refusals that can
be reached with a well-formed `LayeredFile` are there: no layers, and a merged image of the wrong size.

* `ProgressAccounting`: in each phase the count is exactly what the two loops have finished;
* `CompleteMeansWritten`: the callback says complete only once the merged image is written. That it always does when the
  write returns (`DoneMeansComplete`) follows from the accounting and is proved;
* `ProgressOnlyGrows`: and on the way there it never goes back;
* `MarkersDelimitSections`: with every length and padding the markers lead from section to section;
* `WriteEnds`: under the fairness below.

`ReadDocument` is `PhotoshopFile::read`: offset, section size, the place where the layer info section must end, the
slices computed from the records, and a task per layer. `EndLayerInfo` has the code's tolerance for padding.
`DocumentRoundTrip` runs it on what `WriteDocument` left, with the callback left over from the write.

* `ReaderKeepsItsPlace`: at each step the reader finds the part it takes the bytes for;
* `ReadReturnsWhatWasWritten`: as many layers in the same order, each with the data of its own record, in any order
  of tasks on both sides;
* `WrittenIsRead`: a written document with layers is read to its end, and then the callback, which comes with the maximum
  of the write (larger) or of an earlier operation, is complete again.

### Smart objects

`store` is `LinkedLayers`, `layer` the layers that exist: the hash of their image, `image` for `m_ImageData` and `valid`
for the channels flagged in `m_Cache`. Pixels are left out: an entry is `fresh` while it shows the layer's present
image under its present warp, so a change of either makes all entries old (`Outdated`) and only evaluation makes an
entry fresh. Twelve calls that end in a changed warp are one action, `Transform`. `Write` is the part of
`layered_to_photoshop` that concerns smart objects, `Read` what a new `LayeredFile` has after reading the file.
`asked` is the last codec the client asked for.

* `CachedIsCurrent`: a channel that the cache vouches for is there and is current;
* `WrittenIsSelfContained`: the file holds exactly the images its layers name;
* `PathsAreShared`: until a document is read back, one path is one image;
* `LayerKeepsItsImage`: a layer's image changes only when that layer is replaced, whatever is done to layers that
  share it, and also through a write and a read.

### Text layers

`TextRuns` is the arithmetic of `TextLayerU16Utils.h`, `TextLayerRunSplitUtils.h` and `TextLayerRangeStyleMixin.h` as
operators: finding and replacing, where a boundary goes under replacements, splitting, isolating a range and setting a
value over it. A text is a sequence of UTF-16 units; offsets count from 0 as in the code, runs from 1.

`TextLayer` is the layer: `plain` is the text of the descriptor, `literal` what stands between the parentheses of
`/Text` in the engine data, `style` and `para` the two run arrays with their lengths, `fontSet` the fonts, `legacy` the
From and To indexes. Every call parses the engine data anew, so `Parses(literal)` is a guard of every call but the
text calls, which go on without the engine data (`RemapEngineData`). A run has one property of each kind, the font for
style runs and the justification for paragraph runs: the setters of the others run through the same code. A paragraph
property may be missing in a run (`Absent`), and its setter throws there with the runs before it changed; a font index
is inserted where it is missing. Clients hold proxies (`style_text` and the like) with ranges of a text that may have
changed since.

`StyledText` is what it is meant to be: a text whose units carry their styles themselves. An edit gives new units the
styles of those they replace, a style call changes the units of its ranges and nothing else, splitting a run shows
nowhere. It is written from the meaning of the calls with sets of positions, without runs, lengths or indexes.

* `EngineShowsTheText`: the two copies of the text agree and the engine data still parses;
* `RunsCoverTheText`: both run arrays have the length of the engine's text, so the next edit will remap them too;
* `LegacyRangesFollow`: the old indexes stay at boundaries of style runs;
* `ImplementsStyledText`: the refinement.

`CarefulTextSpec` leaves out texts with a parenthesis and empty texts. On either the code breaks, see Findings.

### Compression

`PackBits` is the codec of one scanline: one iteration of `CompressPackBits` (`Same`, `Differ`), what is done after the
loop, one packet of `DecompressPackBits`, and `MaxCompressedSize`. `MaxRun` is the 128 of the code. The packet formats
follow from it: the header that does nothing is `MaxRun`, a byte is below `2 * MaxRun`.

`ChannelCodec` takes the channels of a layer, its mask among them, through `ChannelImageData::compressData` and
`ChannelImageData::read`. `scratch` is the buffer every channel is compressed through: it is allocated for the widest and
the highest channel, and `CompressRLE` cuts it into a span for each scanline of the channel at hand. `rows` are the
tasks of the parallel loop, which take one iteration at a time; `Gather` is what the calling thread does after it
(table and copy). `buffer` and `spans` are the same of reading. Nothing is cleared between channels. A byte that is
written where the span of another scanline is goes there, one behind the end of the buffer is lost. A pixel is its
bytes in big-endian order, so the byte swaps leave no trace in the model and the order of the bytes in the planes of
a float does.

* `RowsKeepToTheirSpan`: no task writes into the span of another one;
* `ChannelsComeBack`: neither of the two size checks that throw is met by any layer, and at the end every channel is read
  with the pixels it was written with, in any order of the tasks and whatever the channels before it left in the buffers.

### Tagged blocks

`TaggedBlocks` is `AdditionalLayerInfo::read` with the readers of the blocks, then what a layer takes from the blocks and
writes again. A byte of the file is one of the four of a text or of a number, or data; `TextAt` and `NumberAt` find
neither where the offset is not at the start of one, so a reader that has lost its place finds no signature, no key and
a length that no file has (`Beyond`). The state of the loop is the code's: `start` is `start_offset`, `at` the offset of
the file, `toRead` the signed rest of the section, `storage` the list of blocks. One action is one turn of the loop for
one kind of block, or one item of a block of linked layers. A reader is given by the offsets it stops at (`stops`) and the
offset it jumps to at its end: a read, skip or jump beyond the file throws and leaves the offset at the last stop that
is in the file (`Throw`, `ReadTo`), and the turn ends there (`Leave`). `Refuse...` are the readers' own exceptions.

`section` says what the file holds: bytes, the padding of blocks (1 in a layer record, 4 at the end of the layer and mask
information), whether the document is a PSB, and which blocks a reader should have of it (`readable`, known from how the
section was made). `Parsed` are the constructors of `Layer`; `WriteUnparsed` and `WriteGenerated` are
`generate_tagged_blocks` with the writers of these blocks. What was written is read again in `round` 2.

* `OnlyTheUnreadableIsLost`: a block that is unknown or refused takes none of the others with it, whatever comes before
  or after it, and the reader ends where the section does;
* `SettingsFromTheirOwnBlocks`: a setting comes from the first block of its kind or from the record, also although
  the fill is stored under the key of the color (`BlendFillTaggedBlock.h:26`);
* `LayerComesBack`: settings and unparsed blocks survive a write, with lengths of 4 and of 8 bytes;
* `EveryReadAdvances`: every turn of the loop takes at least 4 bytes off the section, also where a block of any length
  is jumped over by arithmetic (`ProtectedSettingTaggedBlock.cpp:21`);
* `ReadingEnds`: so the loop ends.

The last two are about complete files. In one that ends before its section does, the loop does not end, see Findings.

### Type tool blocks

`Descriptors` are the typed trees of keys and values in which Photoshop keeps text, warps and settings, and their bytes. A
file is a sequence of tokens, one for every number and every run of letters, each with a number of bytes; a reader that
takes a number for letters fails, as does one that runs out of tokens. `Layout` is the table of `ReadDescriptorVariant`:
what a value of each type consists of. `SkipLayout` and `ReferenceLayout` are the second table, `skip_descriptor_value` and
`skip_reference_item`, by which the calls that have no tree step over one. They differ: a global object is stepped over
and not read, the items of a reference have types of their own. `TakeValue` walks either of them, `WriteValue` writes.

`TypeToolBlock` are the `TySh` blocks of a text layer. `blocks` has the bytes of each and, if they could be `parsed`, the
descriptors of text and warp with what lies before, between and behind them. `Parse` is `parse_descriptors_from_data`, with
what it leaves assigned where it fails; `Sync` writes the bytes from the descriptors; `Splice` replaces bytes and
parses them again. There is one action per setter of the text layer's fields (`TextLayerWarpMixin`, the transform, the
orientation, the shape and its box, the anti-aliasing) and `SetText`, with what it does to the block: the text item, the engine
data in the payload of an item of the text descriptor, and the From and To indexes of old files at any depth of it,
remapped in the tree or in the bytes (`RemapLegacy`). The setters differ in the view they edit, in what they ask for, and in
whether they edit all blocks or the first that will do. `Write` leaves the session open, `Reopen` reads what was written.
The engine data has the syntax of `TextLayer` there and is a direction, a shape, a box and a text here.

* `ViewsAgree`: a block is taken for parsed if its bytes parse, its descriptors are those of its bytes, and the writing
  direction of the engine is the orientation that Photoshop goes by;
* `OneEditOneChange`: of all that a client can ask, a call changes what it was called for, to the value it was called
  with, and nothing else; a write or a reopening changes nothing, the bytes behind the warp included;
* `IndexesFollowTheText`: the old indexes, at any depth, stay at the start, at the end or behind the closing return.

### Image layers

`ImageLayers` is one image layer in the hands of a client. `layer` is the layer with its size, its center, its channels,
each with a size of its own, and its mask with size, position and settings; `given` is the mask in the `Params` the client
makes layers with; `file` is the layer as a file has it: edges for sizes and centers, and channels without sizes. `before`
is the layer that was written, which the code does not have: the properties compare with it. Positions count in quarters
of a pixel, for the fractions a float may have; what is optional is a sequence of at most one element.

`Construct` are the constructors, with the `Params` passed by reference into which a mask among the channels is put
(`ImageLayer.h:154`); `Remapped` are the channels by name, whose map is walked in any order. `SetImageData` clears the
channels before it sets any, so a refused one leaves those that came before it, in any order (`SetSome`).
`SetMask`, `ExtractMask`, `MaskPosition` and `MaskSetting` are `MaskDataMixin`, `Resize` and `Move` the setters of `Layer`.
`Write` is `to_photoshop` with `internal_generate_mask_data`, which empty the layer; the edges are those of
`generate_extents` (`Extents`, with `std::round` as `Round`). `LayerOf` is the constructor from a record after
`LayerRecord::read`; the parameters of a mask are read only from a section of at most 28 bytes (`ReadSettings`).

* `ImageComesBack`: a layer whose channels have its size comes back with them, and its middle moves by half a pixel at
  most, not at all if its edges are on pixels;
* `MaskComesBack`: so does its mask, whatever layer it is on, with its settings, but for density and feather where there
  is a feather;
* `ReadLayersSettle`: what was read is written and read without further change, whatever the first reading lost.

Assumed of clients: the mask in the `Params` has the size of the layer (`Params` ask for it and nothing tests it), a layer
is made at a whole pixel, and a layer that was written is not written again before its channels are set, which would
dereference null pointers.

### The file of a document

`DocumentFile` is what a client does with whole documents: make one (`Create`), change its settings, save it to a path,
open a file, ask for its bit depth. `disk` has the file at each path as a stream of blocks, which other programs may write
and anybody may delete. A save is one action per section (`spc` is the next one): the file is truncated before anything
else (`BeginSave`), the version comes from the extension at the path, and the save may end at any step, by an error the code
throws (another extension, a resolution beyond 65 535, layers that cannot be written, a merged image of another size) or
because the process ends (`StopSave`). What is on disk then stays there. Resources are modelled to the byte, since that is
where the lengths are: the name of 8-bit size, the profile whose length counts its padding, the marker of the section.

Opening (`rpc`) goes section by section, resource by resource, as `PhotoshopFile::read` does, then through the constructor
of `LayeredFile`. `Preview` is the small reader of smart objects, `psd_psb_reader`, which parses the header and adds up the
three lengths. `story` is how far the save got that made a file and of which settings; no action but a save looks at it.

* `OpensWhatWasSaved`: a file opens exactly if its layers are whole, its sides fit its version and it has the bit depth that
  was asked for; its settings are then those that were saved. A save that ended anywhere before leaves a file that
  is refused, with one exception that the property names: 8-bit files open as soon as the layers and the mask
  info are written, although the length of the section in front of them is still 0, because the reader needs that length
  for tagged blocks only;
* `ReadersAgree`: parsing the resources one by one, the length in front of them and the small reader lead to the same place,
  behind the layers as well; the small reader finds the image in complete files and in no other.

### The C API

`DocumentHandles` has one hierarchy for all documents, `kids`, with a list for each of them and for every group: `remove_layer`
and the others are the operators of `Hierarchy` at one document, with the tests and the bookkeeping of the C functions
around them. `status` is
`write_attempted` and the native document together, `handle` a layer handle: its layer, the document its weak pointer
locks, its flag. `drained` are the layers whose channels a write moved out. A write may end after any number of
layers: it consumes the document in any case. `Release` is the end of a shared pointer: what neither a document nor a
handle reaches is freed. Only successful calls are actions, because a refused call changes only the error text.

The calls believe their client in three things: that a removed or moved layer is in the document it is removed from
or moved in, that the handle it is named by came from that document, and that a group is not put below itself. For a
client that keeps these (`CarefulSpec`), with any number of handles for a layer and in any order:

* `UnattachedIsFree`: a layer with an unattached handle has no place anywhere;
* `OneOwner`: no layer has two places in all documents and groups together, so separate documents share nothing;
* `HandleKnowsItsDocument`: the weak pointer of a handle is never out of date about where the layer is;
* `DrainedIsNotWrittenAgain`: no document that can be written holds a layer that went into an earlier write.

The second obligation is needed for `HandleKnowsItsDocument` alone. A handle that lost its document, taken from a child
of a removed group, can remove the layer from its next document and then be added to a third, while another handle
still remembers the second.

## The runs

| run | instance | what it shows |
|---|---|---|
| `layer_tree` | three groups (two of one name) and a plain layer; three paths | the five properties of the hierarchy and its records for a careful client. Three groups nest to depth three with siblings on a level, the equal names make path lookups ambiguous; about 8 500 states, all trees over four layers, detached ones included |
| `write` | 0, 1 or 3 layers, PSD and PSB, both depths, compressed lengths 1, 2, 4, blocks of 0 or 16 bytes, callbacks new or left at 1, 5, 9 | all properties of a write. Three tasks are enough for any order of pairs of increments and one in between; the lengths give every padding modulo 4; 5 and 9 are below and above the maximum of 7 |
| `round_trip` | the same | the properties of reading back |
| `smart_objects` | two layers, two hashes, two files of one name, one with a channel the other lacks | the properties of the store and the caches. Two layers share an image or do not, and a second image can be made or found |
| `text_layer` | two texts of three units, needles that overlap themselves or stand at both ends, news shorter and longer, ranges inside and beyond the text, two fonts, two paragraph values and none, two to four runs | the properties of text layers. Two runs of one kind and a range give every way a range can lie over boundaries; a text of three units has a first, an inner and a last one; 24 000 states, 7 000 up to the symmetry of fonts and of values |
| `c_api` | two documents, three handles, two groups and an image; files with all of them nested or with the image alone | the properties of handles. Three handles allow two for one layer besides one for its group; two documents are the one a layer left and the one it comes to, and destroyed documents are replaced by new ones without end; 18 000 states up to symmetry |
| `channel_codec` | 8-bit layers with a channel of 8 pixels and a mask of 2 x 3, each in turn any arrangement of two bytes; layers of one channel with 3 pixels of 1 or 2 bytes or 2 pixels of 4 bytes, codecs other than Rle for the wide ones; `MaxRun` 3, entries below 16 | the properties of compression. Eight bytes are two full runs or literals and a part of a third, with every ending; the mask is higher and narrower than what left the buffers; 3 is the least `MaxRun` for which the bound is true, 48 000 states |
| `tagged_blocks` | sections of any two of 25 blocks and a name, of layers in PSD and PSB: settings of each kind, twice too and in both lengths, an empty name, blocks kept as they are with odd and even lengths, blocks that are refused or unknown; sections of linked layers with none to two items, good and refused, and padded blocks | the properties of tagged blocks. Two blocks before a third give each ordered pair of a lost or kept block and its neighbours, and a name after every one; 23 500 states |
| `image_layers` | grayscale layers of no, two and six pixels, on and between pixels on both sides of zero; image data with an alpha, a mask of the right or another size, a real mask, a channel too many, one too few; a value other than the default of each setting of a mask; two calls between making, writing and reading | the properties of image layers. Two calls give each pair of a call that disagrees with the layer and one on top of it, before a write or after a read; 65 000 states (three calls: a million, without an error) |
| `type_tool` | seven layers: the constructor's block; one with every type and old indexes at three depths; a global object in the warp; a cut block; two blocks; one with broken engine data and a good one; one that ends behind its head with one that has a global object in the text. Two calls, with writes and reopenings between them | the properties of type tool blocks. Four of the layers hold a block that is never parsed, so both views are edited, and both ways in one layer; two calls give every pair of an edit of the bytes and one of the descriptors; 900 states |
| `document_file` | three paths, one with an extension that is neither; four documents of 8, 16 and 32 bits, two with layers that cannot be written, one with a merged image; sides at and beyond the limit of a PSD, a resolution beyond a fixed float, profiles of odd length; files of other programs with a palette, a profile, two profiles and two resolutions, unknown resources with names of 4 and of 253 bytes and data of no and of odd length, 1 bit; one file at a time | the properties of files. Each refusal is met by one document or setting; a file is read without a look at any other, so one at a time is enough; 120 000 states |
| `move_under_itself` | as `layer_tree`, any client | violation, see Findings |

The type invariants are stated in the modules and hold in the same configurations; the runs spend their time on the
other properties. `WriteTypeOK`, `LayerTreeTypeOK`, `TypeOK` of `DocumentHandles`, `SmartObjectsTypeOK`, `TaggedTypeOK` and
`ImageLayersTypeOK` are proved; `ReadTypeOK` and `CodecTypeOK` are model-checked only (what the proofs need of the reader's
and the codec's types is in their own invariants). `TextLayer` has `RunsCoverTheText` for it.

Bounds: `Layers`, `Groups` and `Paths` bound the hierarchy; `LayerCounts`, `Widths`, `Lengths`, `OtherBlocks` and
`Callbacks` the document; `Layers`, `Hashes` and `Paths` the smart objects; `MaxText`, `MaxRuns` (both kinds
together) and `MaxFonts` what a text layer may grow to; `Docs`, `Handles` and `Layers` what a client of the C API may
have at a time; `MaxRun`, `EntryLimit` and `Layers` the compression (the last three constants of `MCChannelCodec` only
build `Layers`); `Sections` and `Trailer` what a file holds, `Cuts` how much of its end may be missing, `Texts` and `Beyond`
what its bytes may say, which for TLC is any string and a length beyond every instance; `Sizes`, `Centers`, `Passed`,
`Buffers` and `Values` what a client passes to an image layer, and `MaxCalls` how many calls it makes; `Transforms`, `Components`, `AntiAliases`, `Styles`, `Rotations`, `Directions`, `Numbers`, `Boxes` and
`Texts` what it sets in a type tool block, whose transform has `Doubles` numbers, two in the run instead of six; `Created`, `Sides`, `Resolutions`, `Profiles` and `Others` what
a client and other programs put into files, and `MaxFiles` how many files there are at a time. When all `Hashes` are used a new image cannot be
inserted; with two files and two hashes that never hides a step before a document is read back, and after it only
the loading of a third image. No other counter needs a bound. In the runs `text_layer` and `type_tool` the last call is
hidden from the fingerprint (`VIEW`): only the refinement, which is about steps, and the properties of steps use it. A write, and a read, really end, as does the reading of a
section, and the calls on an image layer are bounded, so the runs of the pipeline, of tagged blocks and of image layers do not check for deadlock; the others check it.

**Fairness.** The writing thread and the reading thread are weakly fair: a sequential function that can take its
next statement takes it. Every task of a parallel loop is weakly fair: `std::for_each` returns only after it has applied the
function to every element. So is the
loop over tagged blocks, which waits for nobody (`WF_vars(Read)`: the layer need not be written). Nothing else is. Reading after a write is fair only because the round trip is the
subject there. Liveness is checked for the writer, the round trip and the tagged blocks; the editing of trees and smart objects
promises nothing of its own accord, nor do text layers and handles.

## What is proved

Each module of proofs is named after the component it is about; `Hierarchy_proofs` has the lemmas that two of them use,
`Layers_proofs` is about the hierarchy with its records and about image layers, `LayerContents_proofs` about smart objects and
text layers.

### Writing and reading

`DocumentRoundTrip_proofs` proves of the writer, from `WriteDocumentAssumption` alone (the parameters are sets of naturals, and a
callback comes with a maximum other than 0, as its constructor makes it; a marker has 4 or 8 bytes, as PSD and PSB have),
for every number of layers, marker width, length of data and state of the callback:

* `WriteTypes`: `Spec => []WriteTypeOK`;
* `WriteAccounting`: `Spec => []ProgressAccounting`;
* `CompleteImpliesWritten`, `DoneImpliesComplete`: the two claims a client relies on;
* `ProgressGrows`: the action property.

The inductive invariant is `WriteTypeOK /\ ProgressAccounting`. Neither claim is inductive alone: that the callback is
complete at the end needs that no increment was refused on the way, which needs the exact count in each phase and
the maximum `2 * n + 1` it is held against. In the parallel phase the count is the cardinality of the set of counted
tasks: `CountingOne` says that one more task adds exactly one and stays within `n`, `CountingAll` that all tasks are
`n`, which is what the join hands to the sequential loop. `AccountingStep` has one step for each action; the
actions that touch neither count nor tasks are together in `SilentStep`.

Of the document it proves, for any lengths and any order of the tasks on both sides:

* `WriteLayout`: `Spec => []Layout`, what is where at every moment of a write;
* `MarkersLead`: the length markers of a written document lead from section to section;
* `ReaderFollowsLayout`: `TripSpec => []TripInv`, the reader is always at the start of one of the written parts;
* `KeepsItsPlace` and `WhatWasWrittenIsRead`: the two invariants of the round trip.

`Layout` speaks of every phase, because a property of the finished document is no invariant of the writing: the markers
are 0 until they are patched, and a patch must be known to change that block and no other (`PatchKeeps`, `MarksApart`). The
records and the data of the layers are two `Chain`s, in each of which a layer's part is followed by that of the next
layer. A chain does not say where its links are, only that one leads to the next, so it needs no sum over the layers and
no induction. `TasksOK` ties the two loops of the writer together: the size a task left is the one the record states.
The reader's invariant (`ReaderPlace`) stands on the layout of the finished document: its offset is at the link behind the
records read so far, the slices planned so far are links of the data, and what a task has read is its own layer. With the
tolerance of `EndLayerInfo` the layer info ends up to 3 bytes before its marker says, hence `0..3`.

### The hierarchy

`Layers_proofs` proves, from `HierarchyAssumption` and `LayerTreeAssumption` (finitely many layers, groups among them;
the document is no layer; a path is a sequence of names that is not empty), for any number of layers and groups, nested
to any depth, and any names:

* `TreeTypes`, `SiblingsKeepOrder`: for any client, the types and the order of siblings;
* `CarefulImplementsAnyClient`: `CarefulSpec => Spec`;
* `HierarchyIsForest`: `CarefulSpec => []Forest`;
* `RemovalTakesTheSubtree` and `MovesKeepTheDocument`: the two action properties;
* `RecordsRebuild`: `CarefulSpec => []RecordsRebuildTheTree`.

`LayerTreeTypeOK /\ Forest` is inductive. The work is below it, in `Hierarchy_proofs`: a walk is defined to the depth of
the number of groups, and a proof wants to know that it finds everything. `WalkIsDeepEnough` counts: every level that finds
something new finds a group more. Hence what a walk finds is the least set that has the list it starts with and, with a
group, the group's list (`WalkFindsAll`, `WalkFindsOnly`), and from there on no proof looks at depths.
`ErasedForest`, `AppendedForest`, `RemovedForest`, `InsertedForest`, `MovedForest` say what each call does to the walk from
any place. The few inductions (over depths, over the pieces of a flattened list) are over sets of natural numbers: a set
that has 0 and the successor of each member has every natural (`SetInduction`, from the library's well-founded order).

`RecordsRebuild` is about two recursive definitions. `FlatStep` unfolds the flat list by one level into pieces, one for each
layer of a list; `PlacesInFlattened` says where each piece is. `ReadToDepth` says that wherever the flat list of a parent
stands, followed by a divider or the end, the reader gives the parent's list, stops at that divider, and has filled the
lists of exactly the groups below. `LevelIsRead` carries this from one depth to the next, reading a list from its end to its
start, and `DeepStep` that below a group there is one group less, for which the forest is needed. That the reader's
recursion has a solution at all is `ReaderExists`: it only asks for what lies behind.

### The C API

`DocumentHandles_proofs` proves, from the assumptions of `Hierarchy` and `DocumentHandles` alone (documents are no layers, and a
file brings a forest, as `build_layer_hierarchy` makes one), for any number of documents, handles, layers, groups and files:

* `HandlesKeepTheInvariant`: `CarefulSpec => []IInv`, and from it
* `HandleTypes`, `UnattachedLayersAreFree`, `EveryLayerHasOneOwner`, `HandlesKnowTheirDocuments` and `DrainedLayersStayOut`.

None of these is inductive. Adding a layer tests the flag of one handle, while the property is about all handles of the
layer, so the invariant has that a layer has one unattached handle at most (`OneUnattached`) and that the flag is true
(`FlagIsTrue`). A detached group takes the layers below it into the next document, together with handles that remember
where they were: so the handles anywhere in one tree remember the same document (`TreeAgrees`), nobody below a layer that
remembers none remembers one (`NoneBelow`), and below an unattached layer nobody was drained (`NotDrained`). A layer that
nothing points to any more is new again, so it must have left nothing behind (`Owned`); documents that are not usable hold
nothing (`OnlyUsableHold`). The operators of the module have a lemma each about what they do to lists and to handles, and
the proof of a step puts the two together; `ReleaseKeepsInvariant` is the end of shared pointers, for all calls.

### Smart objects

`LayerContents_proofs` proves, from `SmartObjectsAssumption` alone (finitely many layers and hashes, `Absolute` is
idempotent and names the files, the reader's paths are paths), for any number of layers, images, paths, channels and
codecs:

* `SmartObjectsTypes`: `Spec => []SmartObjectsTypeOK`;
* `CacheIsCurrent`: no cached channel is outdated or missing;
* `FileIsSelfContained`: a written file has exactly the images its layers use;
* `PathsShared`: no path is in the store twice before the document is written;
* `ImagesKept`: the action property, only replacing a layer changes the image it shows.

The inductive invariant is `SmartObjectsTypeOK /\ ImagesAreFound /\ CachedIsCurrent`. `ImagesAreFound` is the
strengthening: in an open document every layer's hash is in the store, also the layers that are not in the document;
once it is written the file holds the store that was left after clearing and one record per layer of the document,
under that layer's hash. Without it neither the evaluation (which looks the image up) nor the next read is typed.
The calls that change one layer go through `OneLayerKeepsInv`; the operators on one layer (`Evaluate`,
`EvaluateTransforms`, `Outdated`) have a lemma each. `PathsShared` and `ImagesKept` use that invariant and a case
for each action. Of a new hash they use only that it is new.

### Compression

`ChannelCodec_proofs` proves, from `PackBitsAssumption` (`MaxRun` is at least 3) and `ChannelCodecAssumption` (layers
have channels, channels have rows of equal length of at least one pixel):

* `SpansOfBytesAreKept`: if the layers that are compressed with Rle have one byte to a pixel (`RleIsOfBytes`), then
  `Spec => []RowsKeepToTheirSpan`, for any number and size of channels, any bytes and any order of the tasks. Without
  the hypothesis it is false: `ChannelCodec.cfg` with `Layers <- MCLayers16` is a counterexample;
* `LayersComeBack`: if moreover an entry of the table of a PSD file can hold the size of such a scanline (`EntriesFit`),
  then `Spec => []ChannelsComeBack`, for any codecs. A PSD document is at most 30,000 pixels wide (`FileHeader.cpp:78`), and a
  scanline of 30,000 bytes never takes more than about 40,000, which is below 2^16. Without the hypothesis it is false:
  `ChannelCodec_table.cfg` has such layers, of wider pixels, and `ChannelCodec.cfg` with `EntryLimit = 4` of single bytes. The
  code makes neither check, so a layer of an 8-bit document that is wider than the format allows is outside the theorem.

The comment in `MaxCompressedSize` argues with one pattern; the proof is an account of headers for all. `Packed` is the
number of bytes an encoder has packed. `Paid` says that three of them stand behind every byte written in excess of
them, except that a literal whose run has only begun is in debt by two. A run never costs more than it packs, and a
literal that ends early is followed by a run (`SameKeepsTheAccount`); a full literal has `MaxRun >= 3` bytes
(`DifferKeepsTheAccount`); the last packet may exceed the account by two thirds of a byte, which rounding and the
evenness of the span absorb together with the padding (`EndFits`, `WorstOverheadBounds`). The inductive invariant `Inv`
has the account of every task that has not ended (`TaskOK`).

For `LayersComeBack` the invariant is `Inv /\ Contents`. Its centre is `Packs`: some bytes of a buffer are packets of the first
so many bytes of a scanline, which means that there is a function `pos` (`IsPacking`) from the places where packets begin to
what was packed before each. It avoids an induction over packets:

* every iteration of the encoder writes one packet and makes `pos` one longer (`PackingGrows`; `SamePacks`, `DifferPacks`,
  `EndPacks`), given what the encoder's counters say of the bytes behind it (`Pending`);
* a packing is the same wherever it is copied (`PackingMoves`), so gathering the spans behind the table keeps it
  (`GatherKeepsContents`), and the table's ends are the ends of the spans;
* the decoder stands at a place in `pos`, and a packet it unpacks are the bytes `pos` says (`PacketUnpacks`);
* spans and rows do not meet (`SpansApart`), which needs `RowsKeepToTheirSpan`, and the buffers have room for every channel,
  although they are allocated for the greatest width and the greatest height (`ScratchIsEnough`, `BufferIsEnough`). So neither
  of the two checks that throw is met, and bytes that another channel left are read by no task.

Of the other codecs it rests on two facts: sums undo differences modulo the size of a pixel's number (`SumsOfDifferences`), and
cutting undoes joining (`PiecesAreParts`). Where induction is needed (ends of scanlines, sums, the greatest of the extents) it
is an induction over a set of natural numbers, which the provers can use, not the library's over a formula.

### Tagged blocks

`TaggedBlocks_proofs` proves, from `TaggedBlocksAssumption` (a section is a sequence of bytes with padding 1 or 4, the keys
and marks of the format are texts), for sections of any length and content:

* `TaggedTypesHold`: `Spec => []TaggedTypeOK`, the account of the section included: `start + toRead` is its length as
  long as it is read. It holds for truncated files too;
* `WholeFilesAdvance`: if no byte is missing (`Cuts = {0}`), then `Spec => EveryReadAdvances`. Without the hypothesis it
  is false (`TaggedBlocks_documented.cfg`). Since what is left only decreases, and by 4 at least, the theorem is what the end
  of the loop rests on.

The inductive invariant is `TaggedTypeOK /\ WholeFile`: the file is at least as long as its section. From 12 bytes
to read it follows that signature, key and length can be read, so the stop after the signature is always made. Every
reader then leaves the turn at a stop or at its end, and all of these lie 4 bytes or more behind the start; this is
one lemma for `Throw`, one for `ReadTo` and one for each reader, whose own part is the arithmetic of its stops (a length
is a natural number, whatever the file says, because `NumberAt` is).

Of what is read, three theorems:

* `LayersAreReadBack`: `Spec => []LayerComesBack`, without a hypothesis, for truncated and arbitrary files too: whatever a layer
  took from the file, what it writes is read as that layer, and the reader ends with the section. The invariant
  (`ComesBackInv`) says that the file a layer writes is the blocks of a list laid one behind the other (`Laid`): those it
  passed along in their order and then the generated ones. Reading stands behind the first `Len(storage)` of them, and
  these are `storage`. A block of that list is found by the reader of its key (`HeadIsFound`, `WideHeadIsFound`) and ends where the
  next begins. A name is read up to a multiple of 4 bytes, to which an empty one is not filled up: `NameIsReadBack` needs
  that something is behind it, and `NameIsNotLast` says that it is.
* `ReadableBlocksAreRead`: `Spec => []OnlyTheUnreadableIsLost`, and `SettingsAreOfTheirBlocks`: `Spec =>
  []SettingsFromTheirOwnBlocks`, of files that end behind their sections, if every section is made of blocks. The property
  speaks of which blocks a section was made of, so the theorems need a grammar of sections, `IsMadeOf`: n pieces, one behind
  the other, with less than a header behind the last. A piece is a block that can be read (`IsBlockOf`: one alternative
  per reader, with any data and any length), a protection so short that the reader goes on inside of it (`IsReentered`), or
  bytes of which nothing is stored (`IsLost`): an unknown block, what a reader takes of a block before it refuses it, or a word
  that is no signature. So what is left of a refused block is words, and the grammar excludes what the code cannot tell
  from blocks: a refused block with bytes behind it that are no multiple of 4 or begin like a signature
  (`TaggedBlocks_documented.cfg` has such sections, and loses blocks). Names are filled up to 4 bytes. All the sections of layers in `TaggedBlocks.cfg` are of this
  grammar, and all blocks of documents but the linked layers. The invariant (`ForeignInv`) says that the reader is at the
  end of a piece, with the blocks read that are counted up to it (`ReadsForeign`).

### Image layers

`Layers_proofs` proves, from `ImageLayersAssumption` (sizes are natural numbers, centers and positions integers,
buffers show images, `Garbage` is none of them), for any mode, sizes, positions, channels, settings and number of calls:

* `ImageLayersTypes`: `ImageSpec => [](ImageLayersTypeOK /\ FileIsBefore)`;
* `ImagesComeBack`, `MasksComeBack`, `LayersSettle`: the three action properties of the run.

The invariant is `ImageLayersTypeOK /\ FileIsBefore`: what is in the file is `FileOf(before[1])`. What remains are facts
about edges. `RoundIsNear` says that rounding moves an edge by half a pixel at most, `RoundWhole` that it moves none
that is on a pixel; so `ExtentsKeepSize` (right and bottom are the rounded ones plus the size, so size is never lost) and
`ExtentsKeepCenter`. The center that is read has its edges on pixels: the second writing gives the same edges
(`EdgesSettle`), which is why reading settles after one turn.

### Text layers

`LayerContents_proofs` proves, from `TextLayerAssumption` (parentheses, backslash, return and the garbled unit are five units; clients
write neither a backslash nor the garbled unit; no needle is empty; ranges are of natural numbers), for any texts, needles,
ranges, fonts and values, and whatever a text may grow to:

* `EngineReadsTheText`: `CarefulTextSpec => []EngineShowsTheText`;
* `EveryUnitHasARun`: `CarefulTextSpec => []RunsCoverTheText`;
* `LegacyIndexesAreBoundaries`: `CarefulTextSpec => []LegacyRangesFollow`;
* `RunsAreAStyledText`: `CarefulTextSpec => ImplementsStyledText`, the refinement.

That the client is careful is a hypothesis the code needs: `TextLayer_documented.cfg` has the counterexamples without it.

The inductive invariant is `TextInv`. It has `LegacyRangesFollow` as it is and strengthens the other two: no unit of the text
means anything to the parser, so that the literal is decoded to what was put into it (`TextIsOrdinary`); a text is never
empty; and runs have values that are fonts of the list or properties, since a call that finds another one throws half-way
(`RunsFit`). Runs and indexes have to be known together, because one function moves the ends of runs and another the indexes.

* `FoundInOrder` and `ReplacementsAreAnEdit`: what the search finds are places one behind the other that do not overlap
  (`IsEdit`), also with needles that overlap themselves; the loop that copies relies on it.
* `PlaceMoved` and `PlaceBetween` say which replacement decides where a place goes, from the loop of `remap_plain_index` with
  its break and its returns. From them places keep their order (`PlacesKeepOrder`), the beginning stays the beginning
  (`BeginningStays`) and the end the end (`EndStays`). This is where a replacement of an empty text fails (finding 9).
* `TextReplaced`: the new text is as long as the old one plus what the replacements add, so the end of the last run is the end
  of the text. Lengths are differences of moved ends, so `RemappedRuns` needs no more than order and ends, and
  `RemappedBoundaries` that an index at a boundary moves like the boundary.
* `FoundRun`, `SplitRuns`, `IsolatedRuns` and `AppliedStyle`: splitting at the ends of a range, which may lie beyond the text,
  makes boundaries and takes none away, and the sum of the lengths stays.

The refinement maps a layer to what it shows, one cell for each unit (`Cells`), and needs no invariant but `TextInv`. Its
steps are the calls:

* A call that styles splits runs, which shows nowhere (`SplitKeepsSpread`), and sets some of the pieces, which shows at the
  places of the range and at no other (`SetRunsPaints`, `StyledShows` for the ranges of a proxy one after the other). A font that is not
  in the list gets the next index, which changes no older one (`AddFontShows`).
* A call that edits remaps the runs. `RemappedShows` says that a unit of the new text shows what a unit of the old one
  showed whenever it lies between the places to which the two ends of the old unit go (`Straddles`). That is so for the
  units of a gap between replacements, which move together (`KeptUnits`, from `GapMoves`), and for those a replacement
  puts in, against the ones it replaces (`NewUnits`, from `InnerMoves`).
* What `StyledText` calls matches is a set without an order, and what the code finds is a list. `FoundAreMatches` and
  `MatchesAreFound` say that they are the same places, `RangesAre` that both are gone through in the same order.
* The new body is pieces put together, kept units and replacements; `SplicedIs` follows them over the whole text, and
  `TextIsReplaced` says which unit of it comes from where.

Sums are functions over the number of runs or of replacements, so each has its induction over a set of numbers.

### The file of a document

`DocumentFile_proofs` proves, for any paths, documents, resolutions, profiles and files of other programs, with any number of
resources of any size:

* `SavedFilesOpen`: `Spec => []OpensWhatWasSaved`;
* `ReadersFindTheSamePlaces`: `Spec => []ReadersAgree`.

`DocumentFileAssumption` says what the values are: a profile of no bytes is none, a resolution is a resource of 16 bytes, and
what another program's file says is what the first of its resources of a kind says, as `getResourceBlockView` has it
(`FirstOf`; a reader keeps what it finds first, `IsFirst`). Both theorems have one hypothesis
more, `InputsFit`. Names of resources have at most 253 bytes; with 254 the first property is false (finding 19). And a
profile of odd length declares a size the reader can cut it to (`SaysItsSize`), as profiles of the ICC format do; one that does
not comes back with the padding byte of its resource.

`FileInv` is the inductive invariant. Neither property is inductive, because the answer to a read depends on every block of
the file, and the file on the whole save behind it. So `FilesHaveStories` gives every path its story, how far the save got
and of what, and says which blocks a file with that story has (`HasStory`): less than can be read (`Unfinished`), the layers
without the length of their section (`MaskedIn`), the whole section (`WholeIn`), with or without the merged image. What is
in front of the section is said once (`FrontOf`): the resources are a sequence of places, each with what a reader has
kept by then, so that no sum and no induction over resources is needed except where a program's list of
resources is written (`ForeignAreWritten`). `SaveIsUnderWay` says how far the file is before each step of a save
(`SaveIs`), and `ReadIsUnderWay` where a reader stands before each of its steps and what it has, whichever story the file has
(`ReadIs`). A save that ends anywhere then leaves a file with the story it had got to.

The lemmas about `Put`, `PutPadding` and `Patch` say that a step changes nothing in front of it (`IsSameBefore`), and each
part of a file has a lemma that it stays what it is (`HeaderStays`, `ResourceStays`, `FrontStays`, `SectionStays`). The
lemmas called `...Follows` (`SectionFollows`) are the steps of a save; those called `...IsTold` (`ResourceIsTold`) say
what a step of a reader finds in a file of any story, and `PreviewIsTold` that of the small reader.

### What stays with TLC

* Liveness (`WriteEnds`, `WrittenIsRead`, `ReadingEnds`): out of the prover's reach. What the ends of the loops rest on is
  proved, `ProgressGrows` and `WholeFilesAdvance` among it.
* `TypeToolBlock` (`ViewsAgree`, `IndexesFollowTheText`, `OneEditOneChange`): descriptors nest, and the operators that read
  and write them are recursive, which the prover does not take.
* `OnlyTheUnreadableIsLost` of sections with linked layers, whose reader takes a turn for every item: the grammar of the
  theorem does not have them.

## Findings

The first is a run that shows the code doing something that the documentation excludes.

1. `move_under_itself` - `is_moving_to_invalid_hierarchy` (`LayeredFile.h:738`) looks for the layer below the new
   parent instead of the new parent below the layer. A group moved under its own child leaves the document and becomes a
   cycle. The same test refuses the documented move one level up (`src/docs/doxygen/code/layeredfile.rst:24`).
2. In a file that ends inside a section the loop over tagged blocks (`PhotoshopFile/AdditionalLayerInfo.cpp:27`) takes the exception of a read
   beyond the file for an unknown block. The offset stays where it was, so the same read is made for ever
   (`ReadingEnds`).

The others are configurations beside the runs (`tlc -config SmartObjects_documented.cfg MCSmartObjects`,
`ImageLayers_documented.cfg`, `ImageLayers_black.cfg`, `ChannelCodec_table.cfg`, `TextLayer_documented.cfg` and
`TaggedBlocks_documented.cfg`). Those named `documented` have several properties: `tlc -continue` reports each of them. In the
one of text layers the client is not careful about its texts. Three more are a line of a run's configuration: `NoLayerTwice` as the
only property of `LayerTree.cfg`, for any client (`SPECIFICATION Spec`); `DocumentsHaveLayers` as the invariant of `WriteDocument_write.cfg`;
and `RowsKeepToTheirSpan` in `ChannelCodec.cfg` with `Layers <- MCLayers16`.

3. `MaxCompressedSize` (`Core/Compression/Compress_RLE.h:280`) takes a third of the width in pixels for
   the overhead of `width * sizeof(T)` bytes. A 16- or 32-bit scanline with runs of two bytes and single bytes in
   between is compressed into the span of the next scanline, which another task writes at the same time, or behind the
   end of the buffer; the channel does not come back then (`RowsKeepToTheirSpan`).
4. After a read, replacing with a file that lies beside the document and has the name of an embedded image shows the
   embedded image (`SmartObjectLayer.h:241`).
5. `GroupLayer::add_layer` and `LayeredFile::add_layer` test only the layer itself. A detached group that holds a layer of
   the document brings a second copy of it into the document (`NoLayerTwice`).
6. `set_write_compression` on a smart object that was not evaluated yet has no effect (`WrittenAsAsked`).
7. The size of a scanline is cut to the 16 bits of its entry in a PSD file (`Compress_RLE.h:338`); the other overload of
   `CompressRLE` refuses such a scanline (`Compress_RLE.h:415`). A 32-bit channel of 30 000 pixels may have one, and the
   reader refuses what was written (`NothingIsRefused`).
8. `remap_engine_data` writes the new text between the parentheses of the engine data as it is
   (`LayerTypes/TextLayer/TextLayerRemapUtils.h:91`). A unit with a byte 0x28, 0x29 or 0x5C, the parentheses and the backslash
   among them, leaves a literal that ends elsewhere or does not parse; from then on every style, paragraph and font
   call fails. `TextLayerU16Utils.h:71` says that such bytes "are escaped with a preceding backslash so that the
   EngineData parser handles them correctly", which only the constructor does.
9. When a text was emptied, `remap_plain_index` (`TextLayerU16Utils.h:215`) keeps every boundary before the units of the next
   text. The runs do not cover it, and are not remapped by any later edit, although `TextLayer.h:316` promises
   "remapping style ranges".
10. A 16- or 32-bit document without layers is written; the error of `LayerInfo::write` is not reached
    (`DocumentsHaveLayers`).
11. After a replacement by an image with fewer channels, the old image's channels are written
    (`WrittenChannelsAreUpToDate`).
12. A refused block whose length is no multiple of 4, or that holds a signature behind the place where it was refused, takes
    its neighbours with it or gives them up to be read from inside of it (`OnlyTheUnreadableIsLost`).
13. An unparsed block is written under any name of its key (`TaggedBlock.cpp:59`): an `abdd` becomes `artb` or `artd`, although
    the blocks are those "that we want to pass through on read/write" (`Layer.h:443`, `NamesAreKept`).
14. A section of mask parameters with a feather is longer than 28 bytes, so the feather that was written is not read, nor
    is the density beside it (`PhotoshopFile/LayerAndMaskInformation.cpp:265`, `FeatherComesBack`).
15. `width`, `height` and `set_image_data` with a size leave the layer and its channels of different sizes
    (`ChannelsFitTheirLayer`). It is written, and read with the layer's size.
16. An empty layer with a mask takes the edges of the mask, but its channels are read without pixels, so written again it
    is read differently once more (`EmptyLayersSettle`).
17. Making a layer of channels with a mask among them puts that mask into the client's `Params`; the next layer made with
    them has it too, or is refused because it has two (`ParamsAreKept`).
18. Black has the index of yellow when channels are passed by name, so the four channels of CMYK make no layer
    (`NamesMakeALayer`).
19. The size of a Pascal string has 8 bits (`Core/Struct/PascalString.cpp:67`). A resource whose name has 254 or 255 bytes, which
    the format allows, is taken for 256 bytes less, and the whole document is refused (`OpensWhatWasSaved`, in
    `DocumentFile.cfg` with `Others <- MCLongNames`).

Read but not run:

* `split_style_run` says that "Both style and paragraph runs are split at the same offset" (`TextLayer.h:223`); it splits
  style runs only. `style_all` says that it excludes the trailing return (`TextLayerRangeStyleMixin.h:370`) and includes it.
* A run whose length became 0 stays, and one without a paragraph property makes later calls over its place throw.
* In the C API, `remove_layer` on a layer of another document succeeds and clears the handle's flag; `move_layer` takes
  a layer of another document without removing it there; `group_add_layer` says that "group must be attached"
  (`src/PhotoshopAPI.C/src/PhotoshopAPI.C.cpp:529`) and does not ask the flag.
* A layer that is attached when its document is destroyed, or written with an error, cannot be added anywhere again.
* Adding a layer to a 16- or 32-bit document is refused with the message that the document was consumed.
* A protection of another length than 4 is jumped over 8 bytes short of its end (`ProtectedSettingTaggedBlock.cpp:21`); the
  loop finds the next signature from there, 4 bytes at a time.
* The fill is stored under the key of the sheet color (`BlendFillTaggedBlock.h:26`), and found by its type.
* `PlLd` in a PSB is written with a length of 8 bytes and read with one of 4. A linked item of version 8 is written
  without the content ID that such items have.
* A layer that was created, or read without an `iOpa` block, is written with a fill of 0 (`Layer.h`, `m_Fill`), although the
  block's own default is 255 (`Core/TaggedBlocks/BlendFillTaggedBlock.h:18`).
* `mask_bbox()` adds the center of the mask where it means its top left (`MaskDataMixin.h:275`). `mask_default_color`
  takes values other than 0 and 255, which the reader refuses. `set_channel` and `set_mask` go back to the default codec.
* `write(..., forceOvewrite = false)` is documented to fail on a file that exists (`LayeredFile.h:616`) and truncates it
  (`Core/Struct/File.cpp:283`); `skip` is documented to go backwards and does not (`File.cpp:116`).
* Descriptors: the OS keys of classes and paths are known and then refused by the reader; an empty key comes back as one of
  four bytes; comparing lists, descriptors and object arrays compares the keys of their elements only.
* Channels read through a handle whose document was written are null pointers (`src/PhotoshopAPI.C/src/PhotoshopAPI.C.V2.cpp:984`).

## What is not modelled

* Pixels, warps, geometry, rendering: data, or floating-point arithmetic.
* Of image layers: the overloads for channels that are compressed already; evaluation and appearance; an exception half-way
  through `to_photoshop`; floats beyond a quarter of a pixel, and sizes beyond their precision; vector masks.
* In `WriteDocument` and `ReadDocument` the contents of header, colour mode data, image resources and tagged blocks other
  than Lr16 and Lr32: each is one block of the stream.
* Of files: errors of the stream itself, which nothing checks; a process that ends in the middle of a section; the lock of
  `File` and the slices beside it; width and height are one number, the longer side; the number of channels; fractions and
  units of a resolution; a profile that declares another size than it has, which keeps a padding byte.
* Of tagged blocks: the sections nested in Lr16 and Lr32, which are in `ReadDocument`; the contents of placed and linked
  layers; nulls inside a name; lengths that are garbage in other ways than by being too large;
  most keys of `Enum::taggedBlockMap`, which are read as they are, like `BaseKeys`; the destructor of `ScopedLengthBlock`,
  which throws.
* Files this program did not write, outside of their tagged blocks. A reader that meets one takes other branches (negative
  layer counts, unmatched dividers), which are in the plan. Where the model's reader would take one part for another it stops.
* Exceptions inside the parallel loops: they end the process.
* A layer info section of 4 GB in a PSD, whose marker is narrowed: no small instance has one.
* The unlocked getters of the callback and its task text.
* `layers()` as a mutable list in the client's hands. One layer in two documents is kept out by the C API (`OneOwner`)
  and left to the client by the C++ interface.
* Of compression: zip itself, which is an external library (`Deflate`, `Inflate`, `ZipBound`); the AVX2 variants of
  unpacking and of the planes of floats; the merged image, which goes through the overload with vectors; float
  scanlines as parallel tasks, which work in place on parts of their own.
* Of type tool blocks: a block that does not parse and whose text descriptor has a reference to a class or to a name, or an
  object array, which the two tables take for different lengths: there the second of the two writes of `set_orientation` fails
  unseen, and indexes are not remapped. Global objects, which are stepped over and never written; data that ends exactly
  behind the head of the warp, where the byte stream is off by one; the indexes of a text descriptor that cannot be read,
  which stay as they are. `set_box_size` and the two beside it are `set_box_bounds` of what `box_bounds` says.
* Of text layers: the ninety properties of a run
  beyond one of each kind; conversion to and from records; engine data this program or Photoshop did not write; the
  bytes of a unit, of which only those that matter to the parser are told apart.
* Of the C API: properties, pixels, masks, texts and smart objects behind a handle, which are calls of the modelled or
  unmodelled parts below; error texts and buffers; 16- and 32-bit documents, for which the same functions take other branches
  of the same form and refuse created layers; two threads on one handle, which `ABI.md` forbids.

## The plan

Done: the hierarchy and its records, the writer, the reader and the round trip, the handles of the C API over the hierarchy,
smart objects, image layers, text layers, the compression of channels, tagged blocks and the files of documents with saves
that end at any step, each with the proofs above; descriptors and type tool blocks.

1. `File` and `ByteStream` in detail: offset, size and buffer under the lock, the slices read from the memory map beside
   it, `skip`, a write that fails unseen; shown to implement the atomic slices of `ReadDocument`.
2. A reader of arbitrary lists of records, with dividers that do not match.
3. An abstract document store (`write` then `read` is the identity on layers) that `DocumentRoundTrip` implements.
4. Proofs: linked layers in the grammar of sections.
