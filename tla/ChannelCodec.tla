----------------------------- MODULE ChannelCodec -----------------------------
(***************************************************************************)
(* The channels of one layer, from pixels to the bytes of the file and back *)
(* (ChannelImageData::compressData and ChannelImageData::read).             *)
(*                                                                         *)
(* A channel has a codec and rows of pixels, a pixel being its bytes, the   *)
(* most significant one first: what big-endian order makes of the value in  *)
(* memory.  All channels of a layer are compressed through one scratch      *)
(* buffer and read through another one.  The scanlines of a channel are     *)
(* parallel tasks, each in a span of the buffer; nothing but the            *)
(* arithmetic of the spans keeps them apart.                                *)
(***************************************************************************)
EXTENDS PackBits, FiniteSets, SequencesExt

CONSTANTS
  Layers,      \* the layers to write: [version, size, channels]
  EntryLimit   \* entries of the table of a PSD file are below this: 2^16

Codecs   == {"Raw", "Rle", "Zip", "ZipPrediction"}
Versions == {"Psd", "Psb"}

\* A layer has channels, a channel at least one row of at least one pixel.
IsChannel(ch, size) ==
  /\ ch.codec \in Codecs
  /\ ch.rows \in Seq(Seq([1..size -> Byte])) /\ ch.rows # <<>>
  /\ \A y \in DOMAIN ch.rows : ch.rows[y] # <<>> /\ Len(ch.rows[y]) = Len(ch.rows[1])

ASSUME ChannelCodecAssumption ==
  /\ EntryLimit \in Nat \ {0}
  /\ \A l \in Layers :
       /\ l.version \in Versions
       /\ l.size \in {1, 2, 4}
       /\ l.channels \in Seq(Range(l.channels)) /\ l.channels # <<>>
       /\ \A c \in DOMAIN l.channels : IsChannel(l.channels[c], l.size)

VARIABLES
  layer,     \* the layer that is written and read
  phase,     \* what is done with the channel, "done" or "refused"
  at,        \* the channel that is next, or under way
  scratch,   \* compressData's buffer: the byte at every offset
  rows,      \* the task of each scanline that is compressed
  file,      \* the channels as the file has them
  buffer,    \* the buffer of read
  spans,     \* the task of each scanline that is decompressed
  result     \* the channels that were read

vars == <<layer, phase, at, scratch, rows, file, buffer, spans, result>>

Width(ch)    == Len(ch.rows[1])
Height(ch)   == Len(ch.rows)
Channel      == layer.channels[at]
RowBytes(ch) == Width(ch) * layer.size
Greatest(dim(_)) == Max({dim(layer.channels[c]) : c \in DOMAIN layer.channels})

-----------------------------------------------------------------------------
(* Pixels.                                                                  *)

Base == 2 * MaxRun

\* The numbers of pixels of one or two bytes.
Modulus == IF layer.size = 1 THEN Base ELSE Base * Base

Value(pixel) == IF layer.size = 1 THEN pixel[1] ELSE pixel[1] * Base + pixel[2]

PixelOf(value) == IF layer.size = 1 THEN <<value>> ELSE <<value \div Base, value % Base>>

Differences(s, m) == [x \in DOMAIN s |-> IF x = 1 THEN s[1] ELSE (s[x] - s[x - 1]) % m]

Sums(d, m) ==
  LET sum[x \in DOMAIN d] == IF x = 1 THEN d[1] ELSE (d[x] + sum[x - 1]) % m
  IN  sum

\* Parts of n bytes, one behind the other, and the m parts of bytes.
Contiguous(parts, n) ==
  [p \in 1..Len(parts) * n |-> parts[((p - 1) \div n) + 1][((p - 1) % n) + 1]]

Pieces(bytes, m, n) == [y \in 1..m |-> SubSeq(bytes, (y - 1) * n + 1, y * n)]

\* A scanline as its bytes, and as its pixels.
BytesOf(row) == Contiguous(row, layer.size)

PixelsOf(bytes) == Pieces(bytes, Len(bytes) \div layer.size, layer.size)

\* interleavedToPlanarFloat: all first bytes, all second bytes and so on.
Planar(row) == [x \in 1..4 * Len(row) |-> row[((x - 1) % Len(row)) + 1][((x - 1) \div Len(row)) + 1]]

Interleaved(bytes) ==
  LET width == Len(bytes) \div 4
  IN  [x \in 1..width |-> [k \in 1..4 |-> bytes[(k - 1) * width + x]]]

\* Whole numbers are predicted as numbers, floats as planes of bytes.
PredictionEncode(row) ==
  IF layer.size = 4 THEN Differences(Planar(row), Base)
  ELSE LET d == Differences([x \in DOMAIN row |-> Value(row[x])], Modulus)
       IN  BytesOf([x \in DOMAIN row |-> PixelOf(d[x])])

RemovePredictionEncoding(bytes) ==
  IF layer.size = 4 THEN Interleaved(Sums(bytes, Base))
  ELSE LET pixels == PixelsOf(bytes)
           v == Sums([x \in DOMAIN pixels |-> Value(pixels[x])], Modulus)
       IN  [x \in DOMAIN v |-> PixelOf(v[x])]

\* The zip library: what it deflates only it can inflate.
Deflate(bytes)   == [deflated |-> bytes]
Inflate(z)       == z.deflated
ZipBound(length) == length

-----------------------------------------------------------------------------
(* Buffers.  What is written behind the end of one is not in it.            *)

Filled(buf, offset, bytes) ==
  [p \in DOMAIN buf |-> IF p - offset \in DOMAIN bytes THEN bytes[p - offset] ELSE buf[p]]

BytesAt(buf, offset, n) == [p \in 1..n |-> buf[offset + p]]

\* Where scanlines of these sizes end when they are one behind the other.
Ends(sizes) ==
  LET end[y \in 0..Len(sizes)] == IF y = 0 THEN 0 ELSE end[y - 1] + sizes[y]
  IN  end

\* The rows of the bytes of a channel.
Cut(bytes, ch) == Pieces(bytes, Height(ch), RowBytes(ch))

\* The table of scanline sizes of a channel.
TableSize(height) == height * (IF layer.version = "Psd" THEN 2 ELSE 4)

Entry(n) == IF layer.version = "Psd" THEN n % EntryLimit ELSE n

\* MaxCompressedSize, with the table.
MaxCompressedSize(height, width) ==
  height * MaxScanlineSize(width, layer.size) + TableSize(height)

ScratchSize ==
  LET zip == ZipBound(Greatest(Width) * Greatest(Height) * layer.size)
  IN  IF \E c \in DOMAIN layer.channels : layer.channels[c].codec = "Rle"
      THEN Max({MaxCompressedSize(Greatest(Height), Greatest(Width)), zip})
      ELSE zip

Span == MaxScanlineSize(Width(Channel), layer.size)

-----------------------------------------------------------------------------
(* Compressing.                                                             *)

Init ==
  /\ layer \in Layers
  /\ phase = "compress"
  /\ at = 1
  /\ scratch = [p \in 1..ScratchSize |-> 0]
  /\ rows = <<>>
  /\ file = <<>>
  /\ buffer = <<>>
  /\ spans = <<>>
  /\ result = <<>>

\* Photoshop wants 32-bit channels predicted.
CodecOf(ch) == IF layer.size = 4 /\ ch.codec = "Zip" THEN "ZipPrediction" ELSE ch.codec

\* CompressData with any codec but Rle.  The scanlines of floats are predicted in
\* parallel as well, in place and without anything in common: one step.
CompressWhole ==
  /\ phase = "compress"
  /\ at <= Len(layer.channels)
  /\ LET codec == CodecOf(Channel)
         plain == Contiguous([y \in DOMAIN Channel.rows |-> BytesOf(Channel.rows[y])],
                             RowBytes(Channel))
         body  == CASE codec = "Raw" -> plain
                    [] codec = "Zip" -> Deflate(plain)
                    [] codec = "ZipPrediction" ->
                         Deflate(Contiguous([y \in DOMAIN Channel.rows |->
                                               PredictionEncode(Channel.rows[y])],
                                            RowBytes(Channel)))
     IN  /\ codec # "Rle"
         /\ file' = Append(file, [codec |-> codec, body |-> body])
  /\ at' = at + 1
  /\ UNCHANGED <<layer, phase, scratch, rows, buffer, spans, result>>

\* CompressRLE cuts the scratch buffer into a span for each scanline, if it is
\* large enough.
BeginRows ==
  /\ phase = "compress"
  /\ at <= Len(layer.channels)
  /\ CodecOf(Channel) = "Rle"
  /\ IF Span * Height(Channel) > Len(scratch)
     THEN /\ phase' = "refused"
          /\ UNCHANGED rows
     ELSE /\ phase' = "rows"
          /\ rows' = [y \in 1..Height(Channel) |->
                        [encoder |-> Fresh, written |-> 0, ended |-> FALSE]]
  /\ UNCHANGED <<layer, at, scratch, file, buffer, spans, result>>

Line(y) == BytesOf(Channel.rows[y])

\* A task that writes so many bytes where its scanline stands in its span.
Emit(y, out, e, ended) ==
  /\ scratch' = Filled(scratch, (y - 1) * Span + rows[y].written, out)
  /\ rows' = [rows EXCEPT ![y] = [encoder |-> e,
                                  written |-> rows[y].written + Len(out),
                                  ended   |-> ended]]
  /\ UNCHANGED <<layer, phase, at, file, buffer, spans, result>>

\* One iteration of CompressPackBits.
Same(y) ==
  LET e == rows[y].encoder
  IN  /\ phase = "rows"
      /\ e.at < RowBytes(Channel)
      /\ IsSame(Line(y), e)
      /\ Emit(y, SameOut(Line(y), e), SameNext(e), FALSE)

Differ(y) ==
  LET e == rows[y].encoder
  IN  /\ phase = "rows"
      /\ e.at < RowBytes(Channel)
      /\ ~IsSame(Line(y), e)
      /\ Emit(y, DifferOut(Line(y), e), DifferNext(e), FALSE)

\* What CompressPackBits does after its loop.
EndRow(y) ==
  LET e   == rows[y].encoder
      out == EndOut(Line(y), e)
  IN  /\ phase = "rows"
      /\ e.at = RowBytes(Channel)
      /\ ~rows[y].ended
      /\ Emit(y, out \o Padding(rows[y].written + Len(out)), e, TRUE)

\* The bytes of the spans that were written, one behind the other.
Gathered ==
  LET ends == Ends([y \in DOMAIN rows |-> rows[y].written])
  IN  [p \in 1..ends[Len(rows)] |->
         LET y == CHOOSE y \in DOMAIN rows : ends[y - 1] < p /\ p <= ends[y]
         IN  scratch[(y - 1) * Span + (p - ends[y - 1])]]

\* All tasks have ended: the sizes and the scanlines are gathered.
Gather ==
  /\ phase = "rows"
  /\ \A y \in DOMAIN rows : rows[y].ended
  /\ file' = Append(file,
       [codec |-> "Rle",
        body  |-> [entries |-> [y \in DOMAIN rows |-> Entry(rows[y].written)],
                   bytes   |-> Gathered]])
  /\ phase' = "compress"
  /\ at' = at + 1
  /\ rows' = <<>>
  /\ UNCHANGED <<layer, scratch, buffer, spans, result>>

-----------------------------------------------------------------------------
(* Reading.                                                                 *)

\* ChannelImageData::read allocates for the greatest extent.
BeginRead ==
  /\ phase = "compress"
  /\ at > Len(layer.channels)
  /\ phase' = "read"
  /\ at' = 1
  /\ buffer' = [p \in 1..Greatest(Width) * Greatest(Height) * layer.size |-> 0]
  /\ UNCHANGED <<layer, scratch, rows, file, spans, result>>

\* The channel is made from the part of the buffer it fills.
Kept(buf) == Cut(BytesAt(buf, 0, Height(Channel) * RowBytes(Channel)), Channel)

\* DecompressData with any codec but Rle.
ReadWhole ==
  /\ phase = "read"
  /\ at <= Len(file)
  /\ file[at].codec # "Rle"
  /\ LET body  == file[at].body
         bytes == CASE file[at].codec = "Raw" -> body
                    [] file[at].codec = "Zip" -> Inflate(body)
                    [] file[at].codec = "ZipPrediction" ->
                         Contiguous([y \in 1..Height(Channel) |->
                           BytesOf(RemovePredictionEncoding(Cut(Inflate(body), Channel)[y]))],
                           RowBytes(Channel))
     IN  /\ buffer' = Filled(buffer, 0, bytes)
         /\ result' = Append(result, Kept(buffer'))
  /\ at' = at + 1
  /\ UNCHANGED <<layer, phase, scratch, rows, file, spans>>

\* DecompressRLE adds up the table and cuts the data by it.
BeginSpans ==
  /\ phase = "read"
  /\ at <= Len(file)
  /\ file[at].codec = "Rle"
  /\ LET body == file[at].body
         ends == Ends(body.entries)
     IN  IF ends[Height(Channel)] # Len(body.bytes)
         THEN /\ phase' = "refused"
              /\ UNCHANGED spans
         ELSE /\ phase' = "spans"
              /\ spans' = [y \in DOMAIN body.entries |->
                             [next |-> ends[y - 1] + 1, end |-> ends[y], filled |-> 0]]
  /\ UNCHANGED <<layer, at, scratch, rows, file, buffer, result>>

\* One packet of DecompressPackBits.
Unpack(y) ==
  LET bytes == file[at].body.bytes
      s     == spans[y]
      out   == Unpacked(bytes, s.next)
  IN  /\ phase = "spans"
      /\ s.next <= s.end
      /\ buffer' = Filled(buffer, (y - 1) * RowBytes(Channel) + s.filled, out)
      /\ spans' = [spans EXCEPT ![y].next = s.next + PacketSize(bytes, s.next),
                                ![y].filled = s.filled + Len(out)]
      /\ UNCHANGED <<layer, phase, at, scratch, rows, file, result>>

\* All tasks have ended: the channel is made.
KeepChannel ==
  /\ phase = "spans"
  /\ \A y \in DOMAIN spans : spans[y].next > spans[y].end
  /\ result' = Append(result, Kept(buffer))
  /\ phase' = "read"
  /\ at' = at + 1
  /\ spans' = <<>>
  /\ UNCHANGED <<layer, scratch, rows, file, buffer>>

EndRead ==
  /\ phase = "read"
  /\ at > Len(file)
  /\ phase' = "done"
  /\ UNCHANGED <<layer, at, scratch, rows, file, buffer, spans, result>>

Finished == phase \in {"done", "refused"} /\ UNCHANGED vars

Next ==
  \/ CompressWhole \/ BeginRows \/ Gather
  \/ \E y \in DOMAIN rows : Same(y) \/ Differ(y) \/ EndRow(y)
  \/ BeginRead \/ ReadWhole \/ BeginSpans \/ KeepChannel \/ EndRead
  \/ \E y \in DOMAIN spans : Unpack(y)
  \/ Finished

Spec == Init /\ [][Next]_vars

-----------------------------------------------------------------------------
(* Properties.                                                              *)

\* The types: a task has looked at no more bytes than its scanline has, a
\* buffer holds bytes, and what is read so far is made of channels in their
\* order.
CodecTypeOK ==
  /\ layer.size \in {1, 2, 4}
  /\ phase \in {"compress", "rows", "read", "spans", "done", "refused"}
  /\ at \in 1..Len(layer.channels) + 1
  /\ Range(scratch) \cup Range(buffer) \subseteq Byte
  /\ \A y \in DOMAIN rows :
       /\ rows[y].encoder \in Encoders
       /\ rows[y].encoder.at \in 1..RowBytes(Channel)
       /\ rows[y].written \in Nat
  /\ \A c \in DOMAIN file : file[c].codec = CodecOf(layer.channels[c])
  /\ Len(file) <= Len(layer.channels)
  /\ Len(result) <= Len(file)

\* No scanline is compressed to more bytes than its span of the scratch buffer
\* has: beyond it is the span of the next scanline, which another thread writes.
\* MaxCompressedSize is "the maximum overhead for a RLE compressed stream".
RowsKeepToTheirSpan == \A y \in DOMAIN rows : rows[y].written <= Span

\* The two checks that throw, of the size of the scratch buffer and of the sum
\* of the table of scanlines, are met by no layer: the buffer allocated for the
\* widest and the highest channel has room for the spans of every other one.
NothingIsRefused == phase # "refused"

\* Whatever the order of the tasks, no layer is refused and at the end each of
\* its channels is read back with the pixels it was written with, also where the
\* buffers still hold those of another one.
ChannelsComeBack ==
  /\ NothingIsRefused
  /\ phase = "done" => Len(result) = Len(layer.channels)
  /\ \A c \in DOMAIN result :
       result[c] = [y \in DOMAIN layer.channels[c].rows |-> BytesOf(layer.channels[c].rows[y])]
=============================================================================
