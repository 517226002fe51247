---------------------------- MODULE MCChannelCodec ----------------------------
(* Small layers.  An 8-bit layer has a wide channel and a higher but narrower *)
(* mask, of two different bytes: one of them in any arrangement, the other    *)
(* one in two.  The other layers have one channel of a row and a second row   *)
(* that repeats its last pixel.                                               *)
EXTENDS ChannelCodec

CONSTANTS MCWidth, MCNarrow, MCCodecs

MCBytes == {0, Base - 1}
MCRows(width, pixels) == [1..width -> pixels]

MCWide   == MCRows(MCWidth, {<<b>> : b \in MCBytes})
MCMasks  == MCRows(2, MCRows(MCNarrow, {<<b>> : b \in MCBytes}))
MCStripe(width) == [x \in 1..width |-> <<IF x % 3 = 0 THEN 0 ELSE Base - 1>>]
MCFlat(width)   == [x \in 1..width |-> <<0>>]

MCLayer8(codec, wide, mask) ==
  [version |-> "Psd", size |-> 1,
   channels |-> <<[codec |-> codec, rows |-> <<wide>>], [codec |-> "Rle", rows |-> mask]>>]

MCLayers8 ==
  {MCLayer8(codec, wide, <<mask, mask>>) :
     codec \in MCCodecs, wide \in MCWide, mask \in {MCStripe(MCNarrow), MCFlat(MCNarrow)}}
  \cup
  {MCLayer8(codec, wide, mask) :
     codec \in MCCodecs, wide \in {MCStripe(MCWidth), MCFlat(MCWidth)}, mask \in MCMasks}

MCDeep(size, width, codecs, pixels) ==
  {[version |-> "Psb", size |-> size,
    channels |-> <<[codec |-> codec, rows |-> <<row, [x \in DOMAIN row |-> row[Len(row)]]>>]>>] :
     codec \in codecs, row \in MCRows(width, pixels)}

MCPixels16 == {<<0, 1>>, <<1, 0>>, <<Base - 1, 1>>, <<2, Base - 1>>}
MCPixels32 == {<<0, 1, 2, 3>>, <<Base - 1, 1, 0, 0>>, <<1, 1, 1, 2>>}

MCLayers ==
  MCLayers8 \cup MCDeep(1, 3, Codecs, {<<0>>, <<1>>, <<Base - 1>>})
            \cup MCDeep(2, 3, Codecs \ {"Rle"}, MCPixels16)
            \cup MCDeep(4, 2, Codecs \ {"Rle"}, MCPixels32)

MCLayers16 == MCDeep(2, 3, {"Rle"}, {<<0, 0>>, <<1, 0>>, <<0, 1>>})

\* One scanline of wide pixels that has more bytes than an entry of its table.
MCLayers32 ==
  {[version |-> "Psd", size |-> 4, channels |-> <<[codec |-> "Rle", rows |-> <<row>>]>>] :
     row \in MCRows(MCWidth, {<<0, 1, 2, 3>>, <<1, 1, 1, 1>>})}
=============================================================================
