----------------------------- MODULE ImageLayers -----------------------------
(***************************************************************************)
(* An image layer in the hands of a client: its channels and its mask, the  *)
(* calls that set and resize them, and the way of the layer through a file. *)
(*                                                                         *)
(* Three places keep a size: the layer, each channel, and the mask, which   *)
(* has a position and settings of its own.  A file keeps neither centers    *)
(* nor the sizes of channels: it has the edges of the layer and those of    *)
(* the mask, and channels are read with the size these edges give them.     *)
(*                                                                         *)
(* Positions count in quarters of a pixel, which stand for the fractions a  *)
(* float may have.  The pixels of a channel are one of Images.  What is     *)
(* optional is a sequence of at most one element.                           *)
(***************************************************************************)
EXTENDS Integers, Sequences

CONSTANTS
  Mode,       \* the color mode: "rgb", "cmyk" or "grayscale"
  Sizes,      \* [w, h]: sizes a client asks for
  Centers,    \* centers a client asks for, in quarters of a pixel
  Images,     \* what the pixels of a channel may show
  Garbage,    \* what a channel shows that was read with another size
  Passed,     \* what a client passes as image data: functions from indexes to buffers
  Buffers,    \* and as one channel: [n, of], n pixels that show an image
  Values,     \* and as a setting of the mask: Values[field], for every setting
  MaxCalls    \* bound on the calls after a layer was made

\* At most one element, of S.
Optional(v, S) == v # <<>> => v = <<v[1]>> /\ v[1] \in S

Size      == [w : Nat, h : Nat]
Center    == [x : Int, y : Int]

MaskIndex     == -2    \* s_mask_index
RealMaskIndex == -3

Channels ==
  CASE Mode = "rgb"       -> <<"Red", "Green", "Blue">>
    [] Mode = "cmyk"      -> <<"Cyan", "Magenta", "Yellow", "Black">>
    [] Mode = "grayscale" -> <<"Gray">>

\* The channels validate_channels insists on.
Required == 0..(Len(Channels) - 1)

ChannelID(i) ==
  CASE i \in Required     -> Channels[i + 1]
    [] i = -1             -> "Alpha"
    [] i = MaskIndex      -> "UserSuppliedLayerMask"
    [] i = RealMaskIndex  -> "RealUserSuppliedLayerMask"
    [] OTHER              -> "Custom"

ChannelValid(i) == ChannelID(i) # "Custom"

\* The index a channel has by its name; black has that of yellow.
IndexOf(i) == IF ChannelID(i) = "Black" THEN 2 ELSE i

\* The data of named channels under their indexes: of two with one index either
\* may stay, as the map is walked in any order.
Remapped(data) ==
  {d \in [{IndexOf(i) : i \in DOMAIN data} -> Buffers] :
     \A j \in DOMAIN d : \E i \in DOMAIN data : IndexOf(i) = j /\ d[j] = data[i]}

Pixels(size) == size.w * size.h

DefaultSettings ==
  [color |-> 255, disabled |-> FALSE, relative |-> FALSE, density |-> <<>>, feather |-> <<>>]
Fields == DOMAIN DefaultSettings

ASSUME ImageLayersAssumption ==
  /\ Mode \in {"rgb", "cmyk", "grayscale"}
  /\ Sizes \subseteq Size
  /\ Centers \subseteq Center
  /\ Garbage \notin Images
  /\ Buffers \subseteq [n : Nat, of : Images]
  /\ \A data \in Passed : DOMAIN data \subseteq Int /\ \A i \in DOMAIN data : data[i] \in Buffers
  /\ DOMAIN Values = Fields
  /\ Values.color \subseteq Nat
  /\ Values.disabled \subseteq BOOLEAN /\ Values.relative \subseteq BOOLEAN
  /\ \A v \in Values.density \cup Values.feather : Optional(v, Nat)
  /\ MaxCalls \in Nat

VARIABLES
  layer,   \* the layer the client holds, at most one
  given,   \* the mask in the Params the client makes layers with, optional
  file,    \* the layer in a file, optional
  before,  \* the layer that went into the file: what the file is compared with
  calls

imageVars == <<layer, given, file, before, calls>>

-----------------------------------------------------------------------------
(* Edges and centers.                                                       *)

\* std::round, which goes away from zero in the middle.
Round(quarters) ==
  IF quarters >= 0 THEN (quarters + 2) \div 4 ELSE -((2 - quarters) \div 4)

\* Slip: the top left is truncated, not rounded.
ExtentsTruncated(size, center) ==
  LET left == (center.x - 2 * size.w) \div 4
      top  == (center.y - 2 * size.h) \div 4
  IN  [left |-> left, top |-> top, right |-> left + size.w, bottom |-> top + size.h]

Extents(size, center) ==
  LET left == Round(center.x - 2 * size.w)
      top  == Round(center.y - 2 * size.h)
  IN  [left |-> left, top |-> top, right |-> left + size.w, bottom |-> top + size.h]

SizeOf(extents) ==
  [w |-> extents.right - extents.left, h |-> extents.bottom - extents.top]

\* Slip: the middle is halved before it is a float.
CenterOfWhole(extents) ==
  [x |-> 4 * ((extents.right + extents.left) \div 2),
   y |-> 4 * ((extents.bottom + extents.top) \div 2)]

CenterOf(extents) ==
  [x |-> 2 * (extents.right + extents.left), y |-> 2 * (extents.bottom + extents.top)]

\* The middle of a mask at the top left of the canvas.
Middle(size) == [x |-> 2 * size.w, y |-> 2 * size.h]

-----------------------------------------------------------------------------
(* Layers.                                                                  *)

Channel(size, buffer) == [size |-> size, of |-> buffer.of]

\* A mask whose pixels were extracted is still a mask, but has no size.
Mask(size, center, buffer) ==
  <<[kept |-> TRUE, size |-> size, center |-> center, of |-> buffer.of]>>

HasMask == layer[1].mask # <<>>

\* set_mask keeps the center of the mask it replaces.
Replaced(size, otherwise, buffer) ==
  Mask(size, IF HasMask THEN layer[1].mask[1].center ELSE otherwise, buffer)

Fitting(data, size) ==
  {i \in DOMAIN data : ChannelValid(i) /\ data[i].n = Pixels(size)}

\* impl_set_image_data: the channels are cleared first and set one by one, in
\* any order, up to the first that is refused.
SetSome(data, size) ==
  IF Fitting(data, size) = DOMAIN data THEN {DOMAIN data} ELSE SUBSET Fitting(data, size)

ImageFrom(data, done, size) ==
  [i \in done \ {MaskIndex} |-> <<Channel(size, data[i])>>]

\* Whether the channels are as large as their layer; those moved out are not asked.
Fits(l) ==
  \A i \in DOMAIN l.image : l.image[i] # <<>> => l.image[i][1].size = l.size

Call ==
  /\ layer # <<>>
  /\ calls < MaxCalls
  /\ calls' = calls + 1
  /\ UNCHANGED <<given, file, before>>

\* The client puts a mask into its Params, or takes a new one without.
SetParamsMask ==
  /\ calls < MaxCalls
  /\ \E mask \in {<<>>} \cup {<<b>> : b \in Buffers} : given' = mask
  /\ calls' = calls + 1
  /\ UNCHANGED <<layer, file, before>>

\* construct.  The mask may come as a channel; it goes into the Params of the
\* client, where it stays.  The Params ask for a mask of the layer's size and
\* nothing tests it: clients here comply.
Construct(data, size, center) ==
  LET mask  == IF MaskIndex \in DOMAIN data THEN <<data[MaskIndex]>> ELSE given
      image == [i \in DOMAIN data \ {MaskIndex} |-> data[i]]
      twice == MaskIndex \in DOMAIN data /\ given # <<>>
      good  == Fitting(image, size) = DOMAIN image /\ Required \subseteq DOMAIN image
  IN  /\ mask # <<>> => mask[1].n = Pixels(size)
      /\ given' = IF twice THEN given ELSE mask
      /\ layer' = IF twice \/ ~good THEN <<>>
                  ELSE <<[size |-> size, center |-> center,
                          image |-> ImageFrom(image, DOMAIN image, size),
                          mask |-> IF mask = <<>> THEN <<>> ELSE Mask(size, center, mask[1]),
                          settings |-> DefaultSettings]>>
      /\ UNCHANGED <<file, before, calls>>

\* The client makes a layer, of channels by index or by name.
NewLayer ==
  /\ layer = <<>>
  /\ \E passed \in Passed, size \in Sizes, center \in Centers :
       /\ center.x % 4 = 0 /\ center.y % 4 = 0
       /\ \E data \in {passed} \cup Remapped(passed) : Construct(data, size, center)

\* set_image_data, with the size of the layer or with another one, which the
\* layer does not take over.
SetImageData(data, size) ==
  /\ Call
  /\ \E done \in SetSome(data, size) :
       layer' = <<[layer[1] EXCEPT
                     !.image = ImageFrom(data, done, size),
                     !.mask  = IF MaskIndex \in done
                               THEN Mask(size, layer[1].center, data[MaskIndex]) ELSE @]>>

\* set_channel: of the size of the layer, or refused.
SetChannel(i, buffer) ==
  /\ Call
  /\ ChannelValid(i) /\ buffer.n = Pixels(layer[1].size)
  /\ layer' = <<IF i = MaskIndex
                THEN [layer[1] EXCEPT !.mask = Mask(layer[1].size, layer[1].center, buffer)]
                ELSE [layer[1] EXCEPT
                        !.image = [j \in DOMAIN @ \cup {i} |->
                          IF j = i THEN <<Channel(layer[1].size, buffer)>> ELSE @[j]]]>>

\* set_mask, without a document and with one, whose middle is then the default.
SetMask(size, otherwise, buffer) ==
  /\ Call
  /\ buffer.n = Pixels(size)
  /\ layer' = <<[layer[1] EXCEPT !.mask = Replaced(size, otherwise, buffer)]>>

\* extract_mask: the pixels go to the client, the mask is left without.
ExtractMask ==
  /\ Call
  /\ HasMask /\ layer[1].mask[1].kept
  /\ layer' = <<[layer[1] EXCEPT !.mask[1].kept = FALSE]>>

MaskPosition(center) ==
  /\ Call
  /\ HasMask
  /\ layer' = <<[layer[1] EXCEPT !.mask[1].center = center]>>

\* mask_disabled, mask_relative_to_layer, mask_default_color, mask_density, mask_feather.
MaskSetting(field, value) ==
  /\ Call
  /\ layer' = <<[layer[1] EXCEPT !.settings[field] = value]>>

\* width and height: the number alone.
Resize(size) ==
  /\ Call
  /\ size # layer[1].size
  /\ size.w = layer[1].size.w \/ size.h = layer[1].size.h
  /\ layer' = <<[layer[1] EXCEPT !.size = size]>>

\* center_x and center_y.
Move(center) ==
  /\ Call
  /\ center.x = layer[1].center.x \/ center.y = layer[1].center.y
  /\ layer' = <<[layer[1] EXCEPT !.center = center]>>

-----------------------------------------------------------------------------
(* Files.                                                                   *)

HasMaskParams(settings) == settings.density # <<>> \/ settings.feather # <<>>

\* The section of the mask, with its marker: edges, color, flags and, if there
\* are any, parameters, padded to 4 bytes.
MaskSectionSize(settings) ==
  LET params == IF HasMaskParams(settings)
                THEN 1 + Len(settings.density) + 8 * Len(settings.feather) ELSE 0
  IN  ((4 + 18 + params + 3) \div 4) * 4

\* internal_generate_mask_data.
MaskOf(l) ==
  IF l.mask = <<>> THEN <<>>
  ELSE <<[extents  |-> Extents(l.mask[1].size, l.mask[1].center),
          of       |-> l.mask[1].of,
          settings |-> l.settings]>>

\* to_photoshop and write: edges for centers, channels without sizes.  (Channels
\* are sorted by index, which no reader relies on.)
FileOf(l) ==
  [extents |-> Extents(l.size, l.center),
   image   |-> [i \in DOMAIN l.image |-> l.image[i][1]],
   mask    |-> MaskOf(l)]

\* The layer is emptied.  A mask without pixels refuses before anything is moved;
\* channels that were moved out already are undefined, and clients here do not
\* write a layer again before they set them.
Write ==
  /\ layer # <<>>
  /\ \A i \in DOMAIN layer[1].image : layer[1].image[i] # <<>>
  /\ HasMask => layer[1].mask[1].kept
  /\ file' = <<FileOf(layer[1])>>
  /\ before' = layer
  /\ layer' = <<[layer[1] EXCEPT !.image = [i \in DOMAIN @ |-> <<>>], !.mask = <<>>]>>
  /\ UNCHANGED <<given, calls>>

\* The edges a channel is read with.
ExtentsOf(f, i) ==
  IF i = RealMaskIndex /\ f.mask # <<>> THEN f.mask[1].extents ELSE f.extents

ReadsAsWritten(f, i) == f.image[i].size = SizeOf(ExtentsOf(f, i))

ReadChannel(f, i) ==
  [size |-> SizeOf(ExtentsOf(f, i)),
   of   |-> IF ReadsAsWritten(f, i) THEN f.image[i].of ELSE Garbage]

\* Slip: parameters are only read where there is no room for them.
ReadSettingsUnmarked(written) ==
  IF HasMaskParams(written) /\ MaskSectionSize(written) > 20
  THEN [written EXCEPT !.density = <<>>, !.feather = <<>>]
  ELSE written

\* Parameters of a section of more than 28 bytes are not read.
ReadSettings(written) ==
  IF HasMaskParams(written) /\ MaskSectionSize(written) > 28
  THEN [written EXCEPT !.density = <<>>, !.feather = <<>>]
  ELSE written

ReadMask(m) ==
  <<[kept |-> TRUE, size |-> SizeOf(m.extents), center |-> CenterOf(m.extents), of |-> m.of]>>

\* A layer without size takes that of its mask.
LayerExtents(f) ==
  IF f.mask # <<>> /\ SizeOf(f.extents) = [w |-> 0, h |-> 0]
  THEN f.mask[1].extents ELSE f.extents

LayerOf(f) ==
  [size     |-> SizeOf(LayerExtents(f)),
   center   |-> CenterOf(LayerExtents(f)),
   image    |-> [i \in DOMAIN f.image |-> <<ReadChannel(f, i)>>],
   mask     |-> IF f.mask = <<>> THEN <<>> ELSE ReadMask(f.mask[1]),
   settings |-> IF f.mask = <<>> THEN DefaultSettings ELSE ReadSettings(f.mask[1].settings)]

ColorIsRead(f) == f.mask # <<>> => f.mask[1].settings.color \in {0, 255}

\* A reader takes the place of the writer.
Read ==
  /\ file # <<>>
  /\ ColorIsRead(file[1])
  /\ layer' = <<LayerOf(file[1])>>
  /\ file' = <<>>
  /\ UNCHANGED <<given, before, calls>>

\* Another color throws, and so may a channel of another size.
Refuse ==
  /\ file # <<>>
  /\ ~ColorIsRead(file[1]) \/ \E i \in DOMAIN file[1].image : ~ReadsAsWritten(file[1], i)
  /\ layer' = <<>>
  /\ file' = <<>>
  /\ UNCHANGED <<given, before, calls>>

-----------------------------------------------------------------------------
ImageInit ==
  /\ layer = <<>> /\ given = <<>> /\ file = <<>> /\ before = <<>>
  /\ calls = 0

ImageNext ==
  \/ SetParamsMask
  \/ NewLayer
  \/ /\ layer # <<>>
     /\ \E data \in Passed, size \in Sizes \cup {layer[1].size} : SetImageData(data, size)
  \/ \E data \in Passed : \E i \in DOMAIN data : SetChannel(i, data[i])
  \/ \E size \in Sizes, buffer \in Buffers, center \in Centers :
       SetMask(size, Middle(size), buffer) \/ SetMask(size, center, buffer)
  \/ ExtractMask
  \/ \E center \in Centers : MaskPosition(center) \/ Move(center)
  \/ \E field \in Fields : \E value \in Values[field] : MaskSetting(field, value)
  \/ \E size \in Sizes : Resize(size)
  \/ Write
  \/ Read
  \/ Refuse

ImageSpec == ImageInit /\ [][ImageNext]_imageVars

-----------------------------------------------------------------------------
IsSettings(s) ==
  /\ s = [color |-> s.color, disabled |-> s.disabled, relative |-> s.relative,
          density |-> s.density, feather |-> s.feather]
  /\ s.color \in Nat /\ s.disabled \in BOOLEAN /\ s.relative \in BOOLEAN
  /\ Optional(s.density, Nat) /\ Optional(s.feather, Nat)

IsImage(image) ==
  /\ image = [i \in DOMAIN image |-> image[i]]
  /\ \A i \in DOMAIN image : Optional(image[i], [size : Size, of : Images \cup {Garbage}])

IsMask(mask) == Optional(mask, [kept : BOOLEAN, size : Size, center : Center, of : Images])

IsLayer(l) ==
  /\ l = [size |-> l.size, center |-> l.center, image |-> l.image, mask |-> l.mask,
          settings |-> l.settings]
  /\ l.size \in Size /\ l.center \in Center
  /\ IsImage(l.image) /\ IsMask(l.mask) /\ IsSettings(l.settings)

ImageLayersTypeOK ==
  /\ layer # <<>> => layer = <<layer[1]>> /\ IsLayer(layer[1])
  /\ Optional(given, Buffers)
  /\ before # <<>> => before = <<before[1]>> /\ IsLayer(before[1])
  /\ calls \in 0..MaxCalls

-----------------------------------------------------------------------------
(* What should hold.                                                        *)

\* Half a pixel, in each direction.
Near(a, b) == a.x - b.x \in -2..2 /\ a.y - b.y \in -2..2

\* Whether the edges of something with this size and center lie between pixels.
OnPixels(size, center) ==
  (center.x - 2 * size.w) % 4 = 0 /\ (center.y - 2 * size.h) % 4 = 0

\* A channel with the index of the real mask is kept at the size of its layer,
\* and is read with that of the mask.
RealMaskAgrees(l) ==
  (RealMaskIndex \in DOMAIN l.image /\ l.mask # <<>>) => l.mask[1].size = l.size

EmptyWithMask(l) == l.size = [w |-> 0, h |-> 0] /\ l.mask # <<>>

\* The way of the layer that was written, `before', through the file.
ImageReturns ==
  LET was == before[1] IN
  before # <<>> /\ Fits(was) /\ RealMaskAgrees(was) /\ ~EmptyWithMask(was) =>
    /\ Refuse => was.settings.color \notin {0, 255}
    /\ Read =>
         /\ layer'[1].size = was.size
         /\ layer'[1].image = was.image
         /\ Near(layer'[1].center, was.center)
         /\ OnPixels(was.size, was.center) => layer'[1].center = was.center

SettingReturns(field) ==
  \/ layer'[1].settings[field] = before[1].settings[field]
  \/ field \in {"density", "feather"} /\ before[1].settings.feather # <<>>

MaskReturns ==
  LET was == before[1].mask
      is  == layer'[1].mask
  IN  /\ is = <<>> <=> was = <<>>
      /\ was # <<>> =>
           /\ is[1].size = was[1].size /\ is[1].of = was[1].of
           /\ Near(is[1].center, was[1].center)
           /\ OnPixels(was[1].size, was[1].center) => is[1].center = was[1].center
           /\ \A field \in Fields : SettingReturns(field)

\* What a second writing and reading would make of a layer.
Again(l) == LayerOf(FileOf(l))

\* A layer whose channels have its size is not refused unless for the color of
\* its mask, and comes back with its size and its channels, every pixel where
\* it was; its middle moves by half a pixel at most, and not at all if its edges
\* are on pixels.  An empty layer with a mask is a case of its own.
ImageComesBack == [][ImageReturns]_imageVars

\* The mask comes back with its own size, pixels and position, whatever layer it
\* is on, and so do its settings, but for the density and the feather of a mask
\* that has a feather.
MaskComesBack == [][Read => MaskReturns]_imageVars

\* What was read is settled: written and read once more, nothing of it changes,
\* whatever a first reading lost or moved.  Only an empty layer with a mask, which
\* takes over the size of the mask and not its channels, is never settled.
ReadLayersSettle ==
  [][Read /\ ~EmptyWithMask(before[1]) => Again(layer'[1]) = layer'[1]]_imageVars

(* What the documentation says and the code does not do.                    *)

\* ImageDataMixins.h: a channel has the dimensions of its layer.
ChannelsFitTheirLayer == layer # <<>> => Fits(layer[1])

\* MaskDataMixin.h: a mask has the feather it was given, after a file too.
FeatherComesBack ==
  [][Read /\ before[1].mask # <<>> =>
       layer'[1].settings.feather = before[1].settings.feather]_imageVars

\* An empty layer with a mask is read as it is written.
EmptyLayersSettle ==
  [][Read => Again(layer'[1]) = layer'[1]]_imageVars

\* Making a layer leaves the client's Params as they are.
ParamsAreKept == [][NewLayer => given' = given]_imageVars

\* The channels a color mode needs, by name, make a layer.
NamesMakeALayer ==
  \A data \in Passed : DOMAIN data = Required => \A d \in Remapped(data) : DOMAIN d = Required
=============================================================================
