------------------------- MODULE ChannelCodec_proofs -------------------------
(***************************************************************************)
(* What TLAPS proves of the compression, for channels of any size, any     *)
(* bytes and any order of the tasks: no scanline of one-byte pixels is     *)
(* compressed to more bytes than its span has, no layer is refused, and    *)
(* every channel is read back with the pixels it was written with.         *)
(*                                                                         *)
(* The argument of the first is an account of the headers.  A run of two   *)
(* bytes or more costs two bytes, so it is never longer than what it packs,*)
(* and a run of two pays for nothing else; a literal costs one byte more   *)
(* than it packs.  But a literal that ends before it is full is followed by*)
(* a run, so three packed bytes stand behind each of those headers.        *)
(*                                                                         *)
(* The argument of the second is a packing: the places where packets begin *)
(* and how much of the scanline is packed before each.  Every iteration of *)
(* the encoder makes it longer, copying it elsewhere keeps it, and the     *)
(* decoder goes through it packet by packet.  Spans do not meet, so no task*)
(* disturbs the packing of another one.                                    *)
(***************************************************************************)
EXTENDS ChannelCodec, SequenceTheorems, WellFoundedInduction, TLAPS

-----------------------------------------------------------------------------
(* Lengths of packets.                                                      *)

\* The bytes an encoder has packed: all but those of the run or literal it has
\* begun, and the last one it looked at.
Packed(e) == e.at - 1 - e.run - e.literal

\* What an encoder may have of a scanline of so many bytes.
EncoderOK(e, bytes) ==
  /\ e \in Encoders
  /\ e.at \in 1..bytes
  /\ e.run < MaxRun /\ e.literal < MaxRun
  /\ e.run # 0 => e.literal = 0
  /\ Packed(e) >= 0

\* The account: three packed bytes for each byte beyond the packed ones, but for
\* a literal whose run has only begun.
Paid(e, written) ==
  3 * (written - Packed(e)) <= Packed(e) + (IF e.run # 0 THEN 2 ELSE 0)

\* A literal is a header and the bytes it is made of.
LEMMA LiteralLength ==
  ASSUME NEW S, NEW line \in Seq(S), NEW m \in 1..Len(line), NEW n \in m..Len(line)
  PROVE  /\ Literal(SubSeq(line, m, n)) \in Seq(S \cup Int)
         /\ Len(Literal(SubSeq(line, m, n))) = n - m + 2
<1> DEFINE bytes == SubSeq(line, m, n)
<1>1. bytes \in Seq(S) /\ Len(bytes) = n - m + 1
  BY SubSeqProperties
<1>2. <<Len(bytes) - 1>> \in Seq(S \cup Int) /\ bytes \in Seq(S \cup Int)
  BY <1>1
<1> HIDE DEF bytes
<1>3. /\ <<Len(bytes) - 1>> \o bytes \in Seq(S \cup Int)
      /\ Len(<<Len(bytes) - 1>> \o bytes) = Len(<<Len(bytes) - 1>>) + Len(bytes)
  BY <1>2, ConcatProperties
<1> QED BY <1>1, <1>3 DEF Literal, bytes

\* A run is a header and one byte.
LEMMA RunLength ==
  ASSUME NEW S, NEW n \in Int, NEW byte \in S
  PROVE  Run(n, byte) \in Seq(S \cup Int) /\ Len(Run(n, byte)) = 2
BY PackBitsAssumption DEF Run

\* Without any padding the bound is a third of the width, rounded up; with it, the
\* span is even.
LEMMA WorstOverheadBounds ==
  ASSUME NEW width \in Nat
  PROVE  /\ WorstOverhead(width) \in Nat
         /\ 3 * WorstOverhead(width) >= width
         /\ (width + WorstOverhead(width)) % 2 = 0
<1> DEFINE n == width \div 3 + (IF width % 3 # 0 THEN 1 ELSE 0)
<1>1. n \in Nat /\ 3 * n >= width
  OBVIOUS
<1>2. WorstOverhead(width) = n + ((width + n) % 2)
  BY DEF WorstOverhead
<1> HIDE DEF n
<1> QED BY <1>1, <1>2

-----------------------------------------------------------------------------
(* One step of an encoder.                                                  *)

\* The numbers an encoder is made of, and what the account says of them.
LEMMA EncoderNumbers ==
  ASSUME NEW bytes \in Nat, NEW e, NEW written \in Nat,
         EncoderOK(e, bytes), Paid(e, written)
  PROVE  \E a \in Nat, r \in Nat, l \in Nat :
           /\ e = [at |-> a, run |-> r, literal |-> l]
           /\ 1 <= a /\ a <= bytes
           /\ r < MaxRun /\ l < MaxRun /\ (r = 0 \/ l = 0)
           /\ a - 1 - r - l >= 0
           /\ 3 * (written - (a - 1 - r - l)) <= (a - 1 - r - l) + (IF r # 0 THEN 2 ELSE 0)
<1>1. PICK a \in Nat, r \in Nat, l \in Nat : e = [at |-> a, run |-> r, literal |-> l]
  BY DEF EncoderOK, Encoders
<1>2. e.at = a /\ e.run = r /\ e.literal = l
  BY <1>1
<1>3. /\ 1 <= a /\ a <= bytes
      /\ r < MaxRun /\ l < MaxRun /\ (r = 0 \/ l = 0)
      /\ a - 1 - r - l >= 0
  BY <1>2 DEF EncoderOK, Packed
<1>4. 3 * (written - (a - 1 - r - l)) <= (a - 1 - r - l) + (IF r # 0 THEN 2 ELSE 0)
  BY <1>2 DEF Paid, Packed
<1> QED BY <1>1, <1>3, <1>4

\* Numbers that make an encoder keep its account.
LEMMA NumbersKeepTheAccount ==
  ASSUME NEW bytes \in Nat, NEW written \in Nat,
         NEW a \in Nat, NEW r \in Nat, NEW l \in Nat,
         1 <= a, a <= bytes, r < MaxRun, l < MaxRun, r = 0 \/ l = 0,
         a - 1 - r - l >= 0,
         3 * (written - (a - 1 - r - l)) <= (a - 1 - r - l) + (IF r # 0 THEN 2 ELSE 0)
  PROVE  /\ EncoderOK([at |-> a, run |-> r, literal |-> l], bytes)
         /\ Paid([at |-> a, run |-> r, literal |-> l], written)
<1> DEFINE e == [at |-> a, run |-> r, literal |-> l]
<1>1. e.at = a /\ e.run = r /\ e.literal = l /\ e \in Encoders
  BY DEF Encoders
<1> HIDE DEF e
<1>2. Packed(e) = a - 1 - r - l
  BY <1>1 DEF Packed
<1>3. EncoderOK(e, bytes)
  BY <1>1, <1>2 DEF EncoderOK
<1>4. Paid(e, written)
  BY <1>1, <1>2 DEF Paid
<1> QED BY <1>3, <1>4 DEF e

\* A byte like the one before it keeps the account: a literal that ends here has
\* its header paid by the run that begins.
LEMMA SameKeepsTheAccount ==
  ASSUME NEW S, NEW line \in Seq(S), NEW e, NEW written \in Nat,
         EncoderOK(e, Len(line)), e.at < Len(line), Paid(e, written)
  PROVE  /\ SameOut(line, e) \in Seq(S \cup Int) /\ Len(SameOut(line, e)) \in Nat
         /\ EncoderOK(SameNext(e), Len(line))
         /\ Paid(SameNext(e), written + Len(SameOut(line, e)))
<1> DEFINE n == Len(line)
           first  == IF e.literal = 0 THEN <<>>
                     ELSE Literal(SubSeq(line, e.at - e.literal, e.at - 1))
           second == IF e.run + 1 = MaxRun THEN Run(MaxRun, line[e.at]) ELSE <<>>
<1>1. n \in Nat
  BY LenProperties
<1>2. PICK a \in Nat, r \in Nat, l \in Nat :
           /\ e = [at |-> a, run |-> r, literal |-> l]
           /\ 1 <= a /\ a <= n
           /\ r < MaxRun /\ l < MaxRun /\ (r = 0 \/ l = 0)
           /\ a - 1 - r - l >= 0
           /\ 3 * (written - (a - 1 - r - l)) <= (a - 1 - r - l) + (IF r # 0 THEN 2 ELSE 0)
  BY <1>1, EncoderNumbers
<1>3. e.at = a /\ e.run = r /\ e.literal = l /\ a < n
  BY <1>2
<1>4. first \in Seq(S \cup Int) /\ Len(first) = (IF l = 0 THEN 0 ELSE l + 1)
  <2>1. CASE l = 0
    BY <1>3, <2>1
  <2>2. CASE l # 0
    <3>1. a - l \in 1..n /\ a - 1 \in (a - l)..n /\ (a - 1) - (a - l) + 2 = l + 1
      BY <1>1, <1>2, <2>2
    <3>2. /\ Literal(SubSeq(line, a - l, a - 1)) \in Seq(S \cup Int)
          /\ Len(Literal(SubSeq(line, a - l, a - 1))) = (a - 1) - (a - l) + 2
      BY <3>1, LiteralLength
    <3> QED BY <1>3, <2>2, <3>1, <3>2
  <2> QED BY <2>1, <2>2
<1>5. second \in Seq(S \cup Int) /\ Len(second) = (IF r + 1 = MaxRun THEN 2 ELSE 0)
  <2>1. a \in 1..n /\ MaxRun \in Int
    BY <1>1, <1>2, PackBitsAssumption
  <2>2. line[a] \in S
    BY <2>1, ElementOfSeq
  <2>3. Run(MaxRun, line[a]) \in Seq(S \cup Int) /\ Len(Run(MaxRun, line[a])) = 2
    BY <2>1, <2>2, RunLength
  <2>4. <<>> \in Seq(S \cup Int) /\ Len(<<>>) = 0
    OBVIOUS
  <2>5. CASE r + 1 = MaxRun
    <3>1. second = Run(MaxRun, line[a])
      BY <1>3, <2>5
    <3> QED BY <2>3, <2>5, <3>1
  <2>6. CASE r + 1 # MaxRun
    <3>1. second = <<>>
      BY <1>3, <2>6
    <3> HIDE DEF second
    <3> QED BY <2>4, <2>6, <3>1
  <2> QED BY <2>5, <2>6
<1> HIDE DEF first, second
<1>6. /\ SameOut(line, e) \in Seq(S \cup Int)
      /\ Len(SameOut(line, e)) = Len(first) + Len(second)
  <2>1. first \o second \in Seq(S \cup Int) /\ Len(first \o second) = Len(first) + Len(second)
    BY <1>4, <1>5, ConcatProperties
  <2> QED BY <2>1 DEF SameOut, first, second
<1> DEFINE out == Len(SameOut(line, e))
           next == IF r + 1 = MaxRun THEN 0 ELSE r + 1
<1>7. out = (IF l = 0 THEN 0 ELSE l + 1) + (IF r + 1 = MaxRun THEN 2 ELSE 0)
  BY <1>4, <1>5, <1>6
<1>8. SameNext(e) = [at |-> a + 1, run |-> next, literal |-> 0]
  BY <1>3 DEF SameNext
<1> HIDE DEF out, n
<1>9. /\ out \in Nat /\ next \in Nat /\ next < MaxRun
      /\ 1 <= a + 1 /\ a + 1 <= n
      /\ (a + 1) - 1 - next - 0 >= 0
  BY <1>1, <1>2, <1>3, <1>7, PackBitsAssumption
<1>10. 3 * ((written + out) - ((a + 1) - 1 - next - 0))
         <= ((a + 1) - 1 - next - 0) + (IF next # 0 THEN 2 ELSE 0)
  BY <1>1, <1>2, <1>3, <1>7, PackBitsAssumption
<1> HIDE DEF next
<1>11. /\ EncoderOK([at |-> a + 1, run |-> next, literal |-> 0], n)
       /\ Paid([at |-> a + 1, run |-> next, literal |-> 0], written + out)
  <2>1. written + out \in Nat /\ a + 1 \in Nat /\ 0 < MaxRun /\ 0 \in Nat
    BY <1>9, PackBitsAssumption
  <2> QED BY <1>1, <1>9, <1>10, <2>1, NumbersKeepTheAccount
<1> QED BY <1>6, <1>8, <1>9, <1>11 DEF out, n

\* Another byte keeps the account: a run packs at least the two bytes it costs,
\* and a literal that is full at least three.
LEMMA DifferKeepsTheAccount ==
  ASSUME NEW S, NEW line \in Seq(S), NEW e, NEW written \in Nat,
         EncoderOK(e, Len(line)), e.at < Len(line), Paid(e, written)
  PROVE  /\ DifferOut(line, e) \in Seq(S \cup Int) /\ Len(DifferOut(line, e)) \in Nat
         /\ EncoderOK(DifferNext(e), Len(line))
         /\ Paid(DifferNext(e), written + Len(DifferOut(line, e)))
<1> DEFINE n == Len(line)
<1>1. n \in Nat
  BY LenProperties
<1>2. PICK a \in Nat, r \in Nat, l \in Nat :
           /\ e = [at |-> a, run |-> r, literal |-> l]
           /\ 1 <= a /\ a <= n
           /\ r < MaxRun /\ l < MaxRun /\ (r = 0 \/ l = 0)
           /\ a - 1 - r - l >= 0
           /\ 3 * (written - (a - 1 - r - l)) <= (a - 1 - r - l) + (IF r # 0 THEN 2 ELSE 0)
  BY <1>1, EncoderNumbers
<1>3. e.at = a /\ e.run = r /\ e.literal = l /\ a < n
  BY <1>2
<1> DEFINE out == Len(DifferOut(line, e))
           next == IF r # 0 THEN l ELSE IF l + 1 = MaxRun THEN 0 ELSE l + 1
<1>4. /\ DifferOut(line, e) \in Seq(S \cup Int)
      /\ out = (IF r # 0 THEN 2 ELSE IF l + 1 = MaxRun THEN l + 2 ELSE 0)
  <2>1. CASE r # 0
    <3>1. a \in 1..n /\ r + 1 \in Int
      BY <1>1, <1>2
    <3>2. line[a] \in S
      BY <3>1, ElementOfSeq
    <3>3. Run(r + 1, line[a]) \in Seq(S \cup Int) /\ Len(Run(r + 1, line[a])) = 2
      BY <3>1, <3>2, RunLength
    <3> QED BY <1>3, <2>1, <3>3 DEF DifferOut
  <2>2. CASE r = 0 /\ l + 1 = MaxRun
    <3>1. a - l \in 1..n /\ a \in (a - l)..n /\ a - (a - l) + 2 = l + 2
      BY <1>1, <1>2, <2>2
    <3>2. /\ Literal(SubSeq(line, a - l, a)) \in Seq(S \cup Int)
          /\ Len(Literal(SubSeq(line, a - l, a))) = a - (a - l) + 2
      BY <3>1, LiteralLength
    <3> QED BY <1>3, <2>2, <3>1, <3>2 DEF DifferOut
  <2>3. CASE r = 0 /\ l + 1 # MaxRun
    <3>1. DifferOut(line, e) = <<>>
      BY <1>3, <2>3 DEF DifferOut
    <3> QED BY <2>3, <3>1
  <2> QED BY <2>1, <2>2, <2>3
<1>5. DifferNext(e) = [at |-> a + 1, run |-> 0, literal |-> next]
  BY <1>3 DEF DifferNext
<1> HIDE DEF out, n
<1>6. /\ out \in Nat /\ next \in Nat /\ next < MaxRun
      /\ 1 <= a + 1 /\ a + 1 <= n
      /\ (a + 1) - 1 - 0 - next >= 0
  BY <1>1, <1>2, <1>3, <1>4, PackBitsAssumption
<1>7. 3 * ((written + out) - ((a + 1) - 1 - 0 - next)) <= (a + 1) - 1 - 0 - next
  BY <1>1, <1>2, <1>3, <1>4, PackBitsAssumption
<1> HIDE DEF next
<1>8. /\ EncoderOK([at |-> a + 1, run |-> 0, literal |-> next], n)
      /\ Paid([at |-> a + 1, run |-> 0, literal |-> next], written + out)
  <2>1. /\ written + out \in Nat /\ a + 1 \in Nat /\ 0 < MaxRun /\ 0 \in Nat
        /\ (a + 1) - 1 - 0 - next \in Int
    BY <1>6, PackBitsAssumption
  <2>2. 3 * ((written + out) - ((a + 1) - 1 - 0 - next))
          <= ((a + 1) - 1 - 0 - next) + (IF 0 # 0 THEN 2 ELSE 0)
    BY <1>7, <2>1
  <2> QED BY <1>1, <1>6, <2>1, <2>2, NumbersKeepTheAccount
<1> QED BY <1>4, <1>5, <1>6, <1>8 DEF out, n

\* What an encoder has written on the way fits the span.
LEMMA PaidFits ==
  ASSUME NEW bytes \in Nat, NEW e, NEW written \in Nat,
         EncoderOK(e, bytes), Paid(e, written)
  PROVE  written <= MaxScanlineSize(bytes, 1)
<1>1. 3 * written <= 4 * bytes
  BY EncoderNumbers
<1>2. WorstOverhead(bytes) \in Nat /\ 3 * WorstOverhead(bytes) >= bytes
  BY WorstOverheadBounds
<1>3. MaxScanlineSize(bytes, 1) = bytes + WorstOverhead(bytes)
  BY <1>2 DEF MaxScanlineSize
<1> QED BY <1>1, <1>2, <1>3

\* And so does the whole scanline, with its padding.
LEMMA EndFits ==
  ASSUME NEW S, NEW line \in Seq(S), NEW e, NEW written \in Nat,
         EncoderOK(e, Len(line)), e.at = Len(line), Paid(e, written),
         NEW out, out = EndOut(line, e)
  PROVE  /\ out \o Padding(written + Len(out)) \in Seq(S \cup Int)
         /\ Len(out \o Padding(written + Len(out))) \in Nat
         /\ written + Len(out \o Padding(written + Len(out)))
              <= MaxScanlineSize(Len(line), 1)
<1> DEFINE n == Len(line)
           total == written + Len(out)
<1>1. n \in Nat
  BY LenProperties
<1>2. PICK a \in Nat, r \in Nat, l \in Nat :
           /\ e = [at |-> a, run |-> r, literal |-> l]
           /\ 1 <= a /\ a <= n
           /\ r < MaxRun /\ l < MaxRun /\ (r = 0 \/ l = 0)
           /\ a - 1 - r - l >= 0
           /\ 3 * (written - (a - 1 - r - l)) <= (a - 1 - r - l) + (IF r # 0 THEN 2 ELSE 0)
  BY <1>1, EncoderNumbers
<1>3. e.at = a /\ e.run = r /\ e.literal = l /\ a = n
  BY <1>2
<1>4. out \in Seq(S \cup Int) /\ Len(out) = (IF r # 0 THEN 2 ELSE l + 2)
  <2>1. CASE r # 0
    <3>1. n \in 1..n /\ r + 1 \in Int
      BY <1>1, <1>2
    <3>2. line[n] \in S
      BY <3>1, ElementOfSeq
    <3>3. Run(r + 1, line[n]) \in Seq(S \cup Int) /\ Len(Run(r + 1, line[n])) = 2
      BY <3>1, <3>2, RunLength
    <3> QED BY <1>3, <2>1, <3>3 DEF EndOut
  <2>2. CASE r = 0
    <3>1. n - l \in 1..n /\ n \in (n - l)..n /\ n - (n - l) + 2 = l + 2
      BY <1>1, <1>2, <1>3, <2>2
    <3>2. /\ Literal(SubSeq(line, n - l, n)) \in Seq(S \cup Int)
          /\ Len(Literal(SubSeq(line, n - l, n))) = n - (n - l) + 2
      BY <3>1, LiteralLength
    <3> QED BY <1>3, <2>2, <3>1, <3>2 DEF EndOut
  <2> QED BY <2>1, <2>2
<1>5. total \in Nat /\ Len(out) \in Nat
  BY <1>2, <1>4
<1>6. /\ out \o Padding(total) \in Seq(S \cup Int)
      /\ Len(out \o Padding(total)) = Len(out) + (total % 2)
  <2> HIDE DEF total
  <2>1. <<NoOp>> \in Seq(S \cup Int) /\ Len(<<NoOp>>) = 1
    BY PackBitsAssumption DEF NoOp
  <2>2. <<>> \in Seq(S \cup Int) /\ Len(<<>>) = 0
    OBVIOUS
  <2>3. total % 2 = 0 \/ total % 2 = 1
    BY <1>5
  <2>4. Padding(total) \in Seq(S \cup Int) /\ Len(Padding(total)) = total % 2
    BY <2>1, <2>2, <2>3 DEF Padding
  <2> DEFINE pad == Padding(total)
  <2> HIDE DEF pad
  <2>5. out \o pad \in Seq(S \cup Int) /\ Len(out \o pad) = Len(out) + Len(pad)
    <3>1. pad \in Seq(S \cup Int)
      BY <2>4 DEF pad
    <3> QED BY <1>4, <3>1, ConcatProperties
  <2> QED BY <2>4, <2>5 DEF pad
<1> HIDE DEF n
<1>7. /\ WorstOverhead(n) \in Nat /\ 3 * WorstOverhead(n) >= n
      /\ (n + WorstOverhead(n)) % 2 = 0
  BY <1>1, WorstOverheadBounds
<1>8. MaxScanlineSize(n, 1) = n + WorstOverhead(n)
  BY <1>1, <1>7 DEF MaxScanlineSize
<1>9. 3 * total <= 4 * n + 2
  BY <1>1, <1>2, <1>3, <1>4
<1> HIDE DEF total
<1>10. total + (total % 2) <= n + WorstOverhead(n)
  <2> DEFINE w == WorstOverhead(n)
  <2>1. w \in Nat /\ 3 * w >= n /\ (n + w) % 2 = 0
    BY <1>7
  <2> HIDE DEF w
  <2>2. total <= n + w
    BY <1>1, <1>5, <1>9, <2>1
  <2>3. total + (total % 2) <= n + w
    BY <1>1, <1>5, <2>1, <2>2
  <2> QED BY <2>3 DEF w
<1>11. /\ Len(out \o Padding(total)) \in Nat
       /\ written + Len(out \o Padding(total)) <= MaxScanlineSize(n, 1)
  <2>1. total = written + Len(out)
    BY DEF total
  <2>2. total % 2 \in Nat
    BY <1>5
  <2> QED BY <1>1, <1>5, <1>6, <1>7, <1>8, <1>10, <2>1, <2>2
<1> QED BY <1>6, <1>11 DEF total, n
-----------------------------------------------------------------------------
(* The inductive invariant.                                                 *)

\* Only layers of one byte to a pixel are compressed with Rle.
RleIsOfBytes ==
  \A l \in Layers : \A c \in DOMAIN l.channels : l.channels[c].codec = "Rle" => l.size = 1

\* A task of a scanline of so many bytes: it keeps its account until it ends, and
\* fits the span then as well.
TaskOK(task, bytes) ==
  /\ task.written \in Nat
  /\ EncoderOK(task.encoder, bytes)
  /\ Paid(task.encoder, task.written) \/ (task.ended /\ task.encoder.at = bytes)
  /\ task.written <= MaxScanlineSize(bytes, 1)

\* The tasks of the channel that is compressed; there are none at another time.
TasksOK ==
  IF phase = "rows"
  THEN /\ at \in DOMAIN layer.channels
       /\ CodecOf(Channel) = "Rle"
       /\ DOMAIN rows = 1..Height(Channel)
       /\ \A y \in DOMAIN rows : TaskOK(rows[y], RowBytes(Channel))
  ELSE rows = <<>>

\* The layer is one of the instance's, and its tasks are in order.
Inv == layer \in Layers /\ at \in Nat \ {0} /\ TasksOK

\* A channel that is compressed with Rle has scanlines of one byte to a pixel, all
\* as long as the first one.
LEMMA RleLines ==
  ASSUME RleIsOfBytes, layer \in Layers, at \in DOMAIN layer.channels,
         CodecOf(Channel) = "Rle"
  PROVE  /\ layer.size = 1
         /\ RowBytes(Channel) \in Nat \ {0}
         /\ Span = MaxScanlineSize(RowBytes(Channel), 1)
         /\ \A y \in 1..Height(Channel) :
              \E S : Line(y) \in Seq(S) /\ Len(Line(y)) = RowBytes(Channel)
<1>1. IsChannel(Channel, layer.size)
  BY ChannelCodecAssumption DEF Channel
<1>2. layer.size = 1
  BY DEF CodecOf, Channel, RleIsOfBytes
<1> DEFINE pixels == Channel.rows
           T == [1..1 -> Byte]
<1>3. /\ pixels \in Seq(Seq(T)) /\ pixels # <<>>
      /\ \A y \in DOMAIN pixels : pixels[y] # <<>> /\ Len(pixels[y]) = Len(pixels[1])
  BY <1>1, <1>2 DEF IsChannel
<1> HIDE DEF pixels, T
<1>4. Len(pixels) \in Nat \ {0} /\ DOMAIN pixels = 1..Len(pixels)
  BY <1>3, EmptySeq, LenProperties
<1>5. \A y \in DOMAIN pixels : pixels[y] \in Seq(T) /\ Len(pixels[y]) \in Nat \ {0}
  BY <1>3, <1>4, ElementOfSeq, LenProperties
<1>6. 1 \in DOMAIN pixels
  BY <1>4
<1>7. RowBytes(Channel) = Len(pixels[1]) /\ Width(Channel) = RowBytes(Channel)
  BY <1>2, <1>5, <1>6 DEF RowBytes, Width, pixels
<1>8. RowBytes(Channel) \in Nat \ {0}
  BY <1>5, <1>6, <1>7
<1>9. Span = MaxScanlineSize(RowBytes(Channel), 1)
  BY <1>2, <1>7 DEF Span
<1>10. ASSUME NEW y \in 1..Height(Channel)
       PROVE  \E S : Line(y) \in Seq(S) /\ Len(Line(y)) = RowBytes(Channel)
  <2> DEFINE n == RowBytes(Channel)
             byte(p) == pixels[y][((p - 1) \div 1) + 1][((p - 1) % 1) + 1]
             S == {byte(p) : p \in 1..n}
  <2>1. y \in DOMAIN pixels /\ Len(pixels[y]) = n
    BY <1>3, <1>4, <1>7 DEF Height, pixels
  <2>2. Line(y) = [p \in 1..n |-> byte(p)]
    <3>1. Len(pixels[y]) * layer.size = n
      BY <1>2, <1>8, <2>1
    <3> QED BY <1>2, <3>1 DEF Line, BytesOf, Contiguous, pixels
  <2>3. \A p \in 1..n : byte(p) \in S
    OBVIOUS
  <2> HIDE DEF byte, S, n
  <2>4. Line(y) \in [1..n -> S]
    BY <2>2, <2>3
  <2>5. n \in Nat
    BY <1>8 DEF n
  <2>6. Line(y) \in Seq(S) /\ Len(Line(y)) = n
    BY <2>4, <2>5
  <2> QED BY <2>6 DEF n
<1> QED BY <1>2, <1>8, <1>9, <1>10
-----------------------------------------------------------------------------
(* The steps.                                                               *)

\* What the tasks are while nothing but one of them changes.
LEMMA OneTaskChanges ==
  ASSUME RleIsOfBytes, Inv, phase = "rows",
         NEW y \in DOMAIN rows, NEW out, NEW e, NEW ended,
         Emit(y, out, e, ended),
         TaskOK([encoder |-> e, written |-> rows[y].written + Len(out), ended |-> ended],
                RowBytes(Channel))
  PROVE  Inv'
<1> DEFINE task == [encoder |-> e, written |-> rows[y].written + Len(out), ended |-> ended]
           n == RowBytes(Channel)
<1>1. /\ layer' = layer /\ at' = at /\ phase' = "rows"
      /\ rows' = [rows EXCEPT ![y] = task]
  BY DEF Emit
<1>2. RowBytes(Channel)' = n /\ Height(Channel)' = Height(Channel)
  BY <1>1 DEF RowBytes, Width, Height, Channel
<1>3. CodecOf(Channel)' = CodecOf(Channel)
  BY <1>1 DEF CodecOf, Channel
<1>4. /\ at \in DOMAIN layer.channels /\ CodecOf(Channel) = "Rle"
      /\ DOMAIN rows = 1..Height(Channel)
      /\ \A z \in DOMAIN rows : TaskOK(rows[z], n)
  BY DEF Inv, TasksOK
<1>5. TaskOK(task, n)
  OBVIOUS
<1> HIDE DEF task, n
<1>6. DOMAIN rows' = DOMAIN rows /\ \A z \in DOMAIN rows : TaskOK(rows'[z], n)
  BY <1>1, <1>4, <1>5
<1>7. TasksOK'
  BY <1>1, <1>2, <1>3, <1>4, <1>6 DEF TasksOK
<1> QED BY <1>1, <1>7 DEF Inv

\* A task that has looked at only a part of its scanline has not ended.
LEMMA TaskUnderWay ==
  ASSUME RleIsOfBytes, Inv, phase = "rows", NEW y \in DOMAIN rows
  PROVE  /\ rows[y].written \in Nat
         /\ EncoderOK(rows[y].encoder, RowBytes(Channel))
         /\ RowBytes(Channel) \in Nat \ {0}
         /\ rows[y].encoder.at < RowBytes(Channel) \/ ~rows[y].ended
              => Paid(rows[y].encoder, rows[y].written)
         /\ \E S : Line(y) \in Seq(S) /\ Len(Line(y)) = RowBytes(Channel)
<1>1. /\ at \in DOMAIN layer.channels /\ CodecOf(Channel) = "Rle"
      /\ y \in 1..Height(Channel)
      /\ TaskOK(rows[y], RowBytes(Channel))
  BY DEF Inv, TasksOK
<1>2. /\ RowBytes(Channel) \in Nat \ {0}
      /\ \E S : Line(y) \in Seq(S) /\ Len(Line(y)) = RowBytes(Channel)
  BY <1>1, RleLines DEF Inv
<1>3. /\ rows[y].written \in Nat
      /\ EncoderOK(rows[y].encoder, RowBytes(Channel))
      /\ Paid(rows[y].encoder, rows[y].written)
           \/ (rows[y].ended /\ rows[y].encoder.at = RowBytes(Channel))
  BY <1>1 DEF TaskOK
<1>4. rows[y].encoder.at < RowBytes(Channel) \/ ~rows[y].ended
        => Paid(rows[y].encoder, rows[y].written)
  BY <1>2, <1>3
<1> QED BY <1>2, <1>3, <1>4

\* A step of Same keeps the account of its task.
LEMMA SameKeepsInv ==
  ASSUME RleIsOfBytes, Inv, NEW y \in DOMAIN rows, Same(y)
  PROVE  Inv'
<1> DEFINE n == RowBytes(Channel)
           r == rows[y]
           out == SameOut(Line(y), r.encoder)
           e == SameNext(r.encoder)
<1>1. phase = "rows" /\ r.encoder.at < n /\ Emit(y, out, e, FALSE)
  BY DEF Same
<1>2. /\ r.written \in Nat /\ n \in Nat /\ EncoderOK(r.encoder, n) /\ Paid(r.encoder, r.written)
      /\ \E S : Line(y) \in Seq(S) /\ Len(Line(y)) = n
  BY <1>1, TaskUnderWay
<1>3. /\ Len(out) \in Nat
      /\ EncoderOK(e, n)
      /\ Paid(e, r.written + Len(out))
  <2> HIDE DEF n, r
  <2>1. PICK S : Line(y) \in Seq(S) /\ Len(Line(y)) = n
    BY <1>2
  <2> QED BY <1>1, <1>2, <2>1, SameKeepsTheAccount
<1> HIDE DEF n, out, e
<1>4. r.written + Len(out) \in Nat
  BY <1>2, <1>3
<1>5. r.written + Len(out) <= MaxScanlineSize(n, 1)
  BY <1>2, <1>3, <1>4, PaidFits
<1>6. TaskOK([encoder |-> e, written |-> r.written + Len(out), ended |-> FALSE], n)
  BY <1>3, <1>4, <1>5 DEF TaskOK
<1> QED BY <1>1, <1>6, OneTaskChanges DEF n

\* A step of Differ keeps the account of its task.
LEMMA DifferKeepsInv ==
  ASSUME RleIsOfBytes, Inv, NEW y \in DOMAIN rows, Differ(y)
  PROVE  Inv'
<1> DEFINE n == RowBytes(Channel)
           r == rows[y]
           out == DifferOut(Line(y), r.encoder)
           e == DifferNext(r.encoder)
<1>1. phase = "rows" /\ r.encoder.at < n /\ Emit(y, out, e, FALSE)
  BY DEF Differ
<1>2. /\ r.written \in Nat /\ n \in Nat /\ EncoderOK(r.encoder, n) /\ Paid(r.encoder, r.written)
      /\ \E S : Line(y) \in Seq(S) /\ Len(Line(y)) = n
  BY <1>1, TaskUnderWay
<1>3. /\ Len(out) \in Nat
      /\ EncoderOK(e, n)
      /\ Paid(e, r.written + Len(out))
  <2> HIDE DEF n, r
  <2>1. PICK S : Line(y) \in Seq(S) /\ Len(Line(y)) = n
    BY <1>2
  <2> QED BY <1>1, <1>2, <2>1, DifferKeepsTheAccount
<1> HIDE DEF n, out, e
<1>4. r.written + Len(out) \in Nat
  BY <1>2, <1>3
<1>5. r.written + Len(out) <= MaxScanlineSize(n, 1)
  BY <1>2, <1>3, <1>4, PaidFits
<1>6. TaskOK([encoder |-> e, written |-> r.written + Len(out), ended |-> FALSE], n)
  BY <1>3, <1>4, <1>5 DEF TaskOK
<1> QED BY <1>1, <1>6, OneTaskChanges DEF n

\* What is done after the loop still fits the span.
LEMMA EndRowKeepsInv ==
  ASSUME RleIsOfBytes, Inv, NEW y \in DOMAIN rows, EndRow(y)
  PROVE  Inv'
<1> DEFINE n == RowBytes(Channel)
           r == rows[y]
           end == EndOut(Line(y), r.encoder)
           out == end \o Padding(r.written + Len(end))
<1>1. phase = "rows" /\ r.encoder.at = n /\ ~r.ended /\ Emit(y, out, r.encoder, TRUE)
  BY DEF EndRow
<1>2. /\ r.written \in Nat /\ n \in Nat /\ EncoderOK(r.encoder, n) /\ Paid(r.encoder, r.written)
      /\ \E S : Line(y) \in Seq(S) /\ Len(Line(y)) = n
  BY <1>1, TaskUnderWay
<1>3. Len(out) \in Nat /\ r.written + Len(out) <= MaxScanlineSize(n, 1)
  <2> HIDE DEF n, r
  <2>1. PICK S : Line(y) \in Seq(S) /\ Len(Line(y)) = n
    BY <1>2
  <2> QED BY <1>1, <1>2, <2>1, EndFits
<1> HIDE DEF n, out
<1>4. r.written + Len(out) \in Nat
  BY <1>2, <1>3
<1>5. TaskOK([encoder |-> r.encoder, written |-> r.written + Len(out), ended |-> TRUE], n)
  BY <1>1, <1>2, <1>3, <1>4 DEF TaskOK
<1> QED BY <1>1, <1>5, OneTaskChanges DEF n

\* All tasks begin with nothing written and one byte looked at.
LEMMA BeginRowsKeepsInv ==
  ASSUME RleIsOfBytes, Inv, BeginRows
  PROVE  Inv'
<1> DEFINE n == RowBytes(Channel)
           begun == [encoder |-> Fresh, written |-> 0, ended |-> FALSE]
<1>1. /\ phase = "compress" /\ at <= Len(layer.channels) /\ CodecOf(Channel) = "Rle"
      /\ layer' = layer /\ at' = at
      /\ \/ phase' = "refused" /\ rows' = rows
         \/ phase' = "rows" /\ rows' = [y \in 1..Height(Channel) |-> begun]
  BY DEF BeginRows
<1>2. rows = <<>> /\ layer \in Layers /\ at \in Nat \ {0}
  BY <1>1 DEF Inv, TasksOK
<1>3. at \in DOMAIN layer.channels
  <2>1. layer.channels \in Seq(Range(layer.channels))
    BY <1>2, ChannelCodecAssumption
  <2> QED BY <1>1, <1>2, <2>1, LenProperties
<1>4. n \in Nat \ {0}
  BY <1>1, <1>2, <1>3, RleLines
<1>5. TaskOK(begun, n)
  <2> HIDE DEF n
  <2>1. EncoderOK([at |-> 1, run |-> 0, literal |-> 0], n) /\ Paid([at |-> 1, run |-> 0, literal |-> 0], 0)
    BY <1>4, NumbersKeepTheAccount, PackBitsAssumption
  <2>2. EncoderOK(Fresh, n) /\ Paid(Fresh, 0)
    BY <2>1 DEF Fresh
  <2>3. 0 <= MaxScanlineSize(n, 1)
    BY <1>4, <2>2, PaidFits
  <2> QED BY <2>2, <2>3 DEF TaskOK
<1>6. RowBytes(Channel)' = n /\ Height(Channel)' = Height(Channel)
  BY <1>1 DEF RowBytes, Width, Height, Channel
<1>7. CodecOf(Channel)' = CodecOf(Channel)
  BY <1>1 DEF CodecOf, Channel
<1> HIDE DEF n, begun
<1>8. CASE phase' = "refused" /\ rows' = rows
  BY <1>1, <1>2, <1>8 DEF Inv, TasksOK
<1>9. CASE phase' = "rows" /\ rows' = [y \in 1..Height(Channel) |-> begun]
  <2>1. TasksOK'
    BY <1>1, <1>3, <1>5, <1>6, <1>7, <1>9 DEF TasksOK
  <2> QED BY <1>1, <1>2, <2>1 DEF Inv
<1> QED BY <1>1, <1>8, <1>9

\* No other step has tasks of scanlines before or after it.
LEMMA OtherStepsKeepInv ==
  ASSUME Inv,
         \/ CompressWhole \/ Gather \/ BeginRead \/ ReadWhole \/ BeginSpans
         \/ KeepChannel \/ EndRead \/ \E y \in DOMAIN spans : Unpack(y)
  PROVE  Inv'
<1>1. layer' = layer /\ layer \in Layers
  BY DEF Inv, CompressWhole, Gather, BeginRead, ReadWhole, BeginSpans, KeepChannel, EndRead, Unpack
<1>2. at' \in {1, at, at + 1}
  BY DEF CompressWhole, Gather, BeginRead, ReadWhole, BeginSpans, KeepChannel, EndRead, Unpack
<1>3. rows' = <<>> /\ phase' # "rows"
  BY DEF Inv, TasksOK, CompressWhole, Gather, BeginRead, ReadWhole, BeginSpans, KeepChannel,
     EndRead, Unpack
<1>4. at' \in Nat \ {0}
  BY <1>2 DEF Inv
<1> QED BY <1>1, <1>3, <1>4 DEF Inv, TasksOK

\* Every step keeps the accounts.
LEMMA InvIsInductive ==
  ASSUME RleIsOfBytes
  PROVE  /\ Init => Inv
         /\ Inv /\ [Next]_vars => Inv'
<1>1. Init => Inv
  BY DEF Init, Inv, TasksOK
<1>2. ASSUME Inv, [Next]_vars
      PROVE  Inv'
  <2>1. CASE UNCHANGED vars
    <3>1. layer' = layer /\ at' = at /\ phase' = phase /\ rows' = rows
      BY <2>1 DEF vars
    <3>2. /\ RowBytes(Channel)' = RowBytes(Channel) /\ Height(Channel)' = Height(Channel)
          /\ CodecOf(Channel)' = CodecOf(Channel)
      BY <3>1 DEF RowBytes, Width, Height, Channel, CodecOf
    <3> QED BY <1>2, <3>1, <3>2 DEF Inv, TasksOK
  <2>2. CASE BeginRows
    BY <1>2, <2>2, BeginRowsKeepsInv
  <2>3. CASE \E y \in DOMAIN rows : Same(y) \/ Differ(y) \/ EndRow(y)
    BY <1>2, <2>3, SameKeepsInv, DifferKeepsInv, EndRowKeepsInv
  <2>4. CASE \/ CompressWhole \/ Gather \/ BeginRead \/ ReadWhole \/ BeginSpans
             \/ KeepChannel \/ EndRead \/ \E y \in DOMAIN spans : Unpack(y)
    BY <1>2, <2>4, OtherStepsKeepInv
  <2>5. CASE Finished
    BY <2>1, <2>5 DEF Finished
  <2> QED BY <1>2, <2>1, <2>2, <2>3, <2>4, <2>5 DEF Next
<1> QED BY <1>1, <1>2

\* With one byte to a pixel no scanline, of any width and whatever its bytes, is
\* ever compressed beyond its span of the scratch buffer: CompressPackBits stays
\* within what MaxCompressedSize says.  Of wider pixels it is not true
\* (16-bit layers: MCLayers16 of MCChannelCodec).
THEOREM SpansOfBytesAreKept ==
  ASSUME RleIsOfBytes
  PROVE  Spec => []RowsKeepToTheirSpan
<1>1. Inv => RowsKeepToTheirSpan
  <2> SUFFICES ASSUME Inv, NEW y \in DOMAIN rows
               PROVE  rows[y].written <= Span
    BY DEF RowsKeepToTheirSpan
  <2>1. phase = "rows"
    <3>1. DOMAIN <<>> = {}
      OBVIOUS
    <3>2. rows # <<>>
      BY <3>1
    <3> QED BY <3>2 DEF Inv, TasksOK
  <2>2. /\ layer \in Layers /\ at \in DOMAIN layer.channels /\ CodecOf(Channel) = "Rle"
        /\ TaskOK(rows[y], RowBytes(Channel))
    BY <2>1 DEF Inv, TasksOK
  <2>3. Span = MaxScanlineSize(RowBytes(Channel), 1)
    BY <2>2, RleLines
  <2> QED BY <2>2, <2>3 DEF TaskOK
<1> QED BY <1>1, InvIsInductive, PTL DEF Spec

-----------------------------------------------------------------------------
(* Numbers.                                                                 *)

\* A product of naturals is a natural, and no less with a greater factor.
LEMMA ProductGrows ==
  ASSUME NEW n \in Nat, NEW q \in Nat, NEW k \in Nat, q <= k
  PROVE  q * n \in Nat /\ k * n \in Nat /\ q * n <= k * n
<1>1. k * n = q * n + (k - q) * n
  OBVIOUS
<1>2. (k - q) * n >= 0 /\ q * n >= 0
  OBVIOUS
<1> QED BY <1>1, <1>2

\* Division finds the quotient and the rest.
LEMMA QuotientAndRest ==
  ASSUME NEW n \in Nat \ {0}, NEW q \in Int, NEW r \in 0..n - 1
  PROVE  (q * n + r) \div n = q /\ (q * n + r) % n = r
OBVIOUS

-----------------------------------------------------------------------------
(* What packed bytes stand for.                                             *)

\* What the packet with this header stands for, and its length.
Count(h) == IF h = NoOp THEN 0 ELSE IF h > NoOp THEN 2 * MaxRun + 1 - h ELSE h + 1
Size(h)  == IF h = NoOp THEN 1 ELSE IF h > NoOp THEN 2 ELSE h + 2

\* The packet at p of these bytes is line, from behind k on.
PacketIs(b, p, line, k) ==
  \A j \in 1..Count(b[p]) : line[k + j] = (IF b[p] > NoOp THEN b[p + 1] ELSE b[p + j])

\* The w bytes behind o are packets of the first k bytes of line: pos has the
\* places where packets begin, the end among them, and what was packed before each.
IsPacking(pos, b, o, w, line, k) ==
  /\ DOMAIN pos \subseteq 1..w + 1 /\ \A p \in DOMAIN pos : pos[p] \in 0..k
  /\ 1 \in DOMAIN pos /\ pos[1] = 0
  /\ w + 1 \in DOMAIN pos /\ pos[w + 1] = k
  /\ \A p \in DOMAIN pos : p <= w =>
       /\ b[o + p] \in Byte
       /\ p + Size(b[o + p]) \in DOMAIN pos
       /\ pos[p + Size(b[o + p])] = pos[p] + Count(b[o + p])
       /\ PacketIs(b, o + p, line, pos[p])

\* There is such a division into packets.
Packs(b, o, w, line, k) == \E pos : IsPacking(pos, b, o, w, line, k)

\* No bytes are a packing of nothing.
LEMMA NothingPacks ==
  ASSUME NEW b, NEW o \in Nat, NEW line
  PROVE  Packs(b, o, 0, line, 0)
<1> DEFINE pos == [p \in {1} |-> 0]
<1>1. IsPacking(pos, b, o, 0, line, 0)
  <2>1. DOMAIN pos = {1} /\ pos[1] = 0
    OBVIOUS
  <2> HIDE DEF pos
  <2> QED BY <2>1 DEF IsPacking
<1> QED BY <1>1 DEF Packs

\* What a header says are natural numbers.
LEMMA HeaderNumbers ==
  ASSUME NEW h \in Byte
  PROVE  Size(h) \in Nat \ {0} /\ Count(h) \in Nat
BY PackBitsAssumption DEF Size, Count, Byte, NoOp

\* One packet more.
LEMMA PackingGrows ==
  ASSUME NEW b, NEW o \in Nat, NEW w \in Nat, NEW line, NEW k \in Nat,
         NEW pos, IsPacking(pos, b, o, w, line, k),
         b[o + w + 1] \in Byte,
         PacketIs(b, o + w + 1, line, k)
  PROVE  Packs(b, o, w + Size(b[o + w + 1]), line, k + Count(b[o + w + 1]))
<1> DEFINE h == b[o + w + 1]
           v == w + Size(h)
           c == k + Count(h)
           D == DOMAIN pos \cup {v + 1}
           more == [p \in D |-> IF p = v + 1 THEN c ELSE pos[p]]
<1>1. PICK s \in Nat \ {0}, n \in Nat : s = Size(h) /\ n = Count(h)
  BY HeaderNumbers
<1>2. /\ v \in Nat /\ c \in Nat /\ v > w /\ c >= k /\ v = w + s /\ c = k + n
  BY <1>1
<1>3. /\ DOMAIN pos \subseteq 1..w + 1 /\ \A p \in DOMAIN pos : pos[p] \in 0..k
      /\ 1 \in DOMAIN pos /\ pos[1] = 0
      /\ w + 1 \in DOMAIN pos /\ pos[w + 1] = k
  BY DEF IsPacking
<1>4. \A p \in DOMAIN pos : p <= w =>
        /\ b[o + p] \in Byte
        /\ p + Size(b[o + p]) \in DOMAIN pos
        /\ pos[p + Size(b[o + p])] = pos[p] + Count(b[o + p])
        /\ PacketIs(b, o + p, line, pos[p])
  BY DEF IsPacking
<1>5. PacketIs(b, o + w + 1, line, k) /\ h \in Byte
  OBVIOUS
<1> HIDE DEF h, v, c
<1>6. /\ DOMAIN more = D /\ more[v + 1] = c
      /\ \A p \in DOMAIN pos : p \in D /\ more[p] = pos[p]
  BY <1>2, <1>3
<1>7. D \subseteq 1..v + 1 /\ \A p \in D : p = v + 1 \/ p \in DOMAIN pos
  BY <1>2, <1>3
<1> HIDE DEF D, more
<1>8. ASSUME NEW p \in DOMAIN more PROVE more[p] \in 0..c
  <2>1. CASE p = v + 1
    BY <1>2, <1>6, <2>1
  <2>2. CASE p \in DOMAIN pos
    <3>1. more[p] = pos[p] /\ pos[p] \in 0..k
      BY <1>3, <1>6, <2>2
    <3> QED BY <1>2, <3>1
  <2>3. p \in D
    BY <1>6
  <2> QED BY <1>7, <2>1, <2>2, <2>3
<1>9. 1 \in DOMAIN more /\ more[1] = 0 /\ v + 1 \in DOMAIN more
  BY <1>3, <1>6, <1>7 DEF D
<1>10. ASSUME NEW p \in DOMAIN more, p <= v
       PROVE  /\ b[o + p] \in Byte
              /\ p + Size(b[o + p]) \in DOMAIN more
              /\ more[p + Size(b[o + p])] = more[p] + Count(b[o + p])
              /\ PacketIs(b, o + p, line, more[p])
  <2>1. p \in DOMAIN pos /\ more[p] = pos[p] /\ p \in 1..w + 1
    <3>1. p \in D /\ p # v + 1
      BY <1>2, <1>6, <1>7, <1>10
    <3>2. p \in DOMAIN pos
      BY <1>7, <3>1
    <3> QED BY <1>3, <1>6, <3>2
  <2>2. CASE p <= w
    BY <1>4, <1>6, <2>1, <2>2
  <2>3. CASE p = w + 1
    <3>1. o + p = o + w + 1 /\ b[o + p] = h
      BY <2>3 DEF h
    <3>2. p + s = v + 1
      BY <1>2, <2>3
    <3>3. p + Size(b[o + p]) = v + 1 /\ Count(b[o + p]) = n
      BY <1>1, <3>1, <3>2
    <3>4. v + 1 \in DOMAIN more /\ more[v + 1] = k + n /\ more[p] = k
      BY <1>2, <1>3, <1>6, <1>9, <2>1, <2>3
    <3> QED BY <1>5, <3>1, <3>3, <3>4
  <2> QED BY <2>1, <2>2, <2>3
<1>11. IsPacking(more, b, o, v, line, c)
  BY <1>6, <1>7, <1>8, <1>9, <1>10 DEF IsPacking
<1> QED BY <1>11 DEF Packs, v, c, h

\* Behind what is packed there may be a run, a literal or a header that does
\* nothing.
LEMMA RunPacks ==
  ASSUME NEW b, NEW o \in Nat, NEW w \in Nat, NEW line, NEW k \in Nat,
         Packs(b, o, w, line, k),
         NEW n \in 2..MaxRun, NEW byte,
         b[o + w + 1] = 2 * MaxRun + 1 - n, b[o + w + 2] = byte,
         \A j \in 1..n : line[k + j] = byte
  PROVE  Packs(b, o, w + 2, line, k + n)
<1> DEFINE h == b[o + w + 1]
<1>1. h \in Byte /\ h > NoOp /\ h # NoOp /\ Size(h) = 2 /\ Count(h) = n
  BY PackBitsAssumption DEF Byte, NoOp, Size, Count
<1>2. (o + w + 1) + 1 = o + w + 2
  OBVIOUS
<1>3. PacketIs(b, o + w + 1, line, k)
  BY <1>1, <1>2 DEF PacketIs
<1>4. PICK pos : IsPacking(pos, b, o, w, line, k)
  BY DEF Packs
<1> HIDE DEF h
<1>5. Packs(b, o, w + Size(b[o + w + 1]), line, k + Count(b[o + w + 1]))
  BY <1>1, <1>3, <1>4, PackingGrows DEF h
<1> QED BY <1>1, <1>5 DEF h

\* A literal behind a packing makes a longer one.
LEMMA LiteralPacks ==
  ASSUME NEW b, NEW o \in Nat, NEW w \in Nat, NEW line, NEW k \in Nat,
         Packs(b, o, w, line, k),
         NEW n \in 1..MaxRun,
         b[o + w + 1] = n - 1,
         \A j \in 1..n : b[o + w + 1 + j] = line[k + j]
  PROVE  Packs(b, o, w + (n + 1), line, k + n)
<1> DEFINE h == b[o + w + 1]
<1>1. h \in Byte /\ ~(h > NoOp) /\ h # NoOp /\ Size(h) = n + 1 /\ Count(h) = n
  BY PackBitsAssumption DEF Byte, NoOp, Size, Count
<1>2. PacketIs(b, o + w + 1, line, k)
  BY <1>1 DEF PacketIs
<1>3. PICK pos : IsPacking(pos, b, o, w, line, k)
  BY DEF Packs
<1> HIDE DEF h
<1>4. Packs(b, o, w + Size(b[o + w + 1]), line, k + Count(b[o + w + 1]))
  BY <1>1, <1>2, <1>3, PackingGrows DEF h
<1> QED BY <1>1, <1>4 DEF h

\* The header that does nothing packs nothing more.
LEMMA NoOpPacks ==
  ASSUME NEW b, NEW o \in Nat, NEW w \in Nat, NEW line, NEW k \in Nat,
         Packs(b, o, w, line, k),
         b[o + w + 1] = NoOp
  PROVE  Packs(b, o, w + 1, line, k)
<1> DEFINE h == b[o + w + 1]
<1>1. h \in Byte /\ Size(h) = 1 /\ Count(h) = 0
  BY PackBitsAssumption DEF Byte, NoOp, Size, Count
<1>2. PacketIs(b, o + w + 1, line, k)
  BY <1>1 DEF PacketIs
<1>3. PICK pos : IsPacking(pos, b, o, w, line, k)
  BY DEF Packs
<1> HIDE DEF h
<1>4. Packs(b, o, w + Size(b[o + w + 1]), line, k + Count(b[o + w + 1]))
  BY <1>1, <1>2, <1>3, PackingGrows DEF h
<1>5. k + 0 = k
  OBVIOUS
<1> QED BY <1>1, <1>4, <1>5 DEF h

\* A packet that ends within the packed bytes is in them.
LEMMA PacketIsWithin ==
  ASSUME NEW b, NEW o \in Nat, NEW w \in Nat, NEW line, NEW k \in Nat,
         NEW pos, IsPacking(pos, b, o, w, line, k),
         NEW p \in DOMAIN pos, p <= w
  PROVE  /\ p \in 1..w /\ b[o + p] \in Byte
         /\ p + Size(b[o + p]) \in DOMAIN pos /\ p + Size(b[o + p]) <= w + 1
         /\ b[o + p] > NoOp => p + 1 \in 1..w
         /\ ~(b[o + p] > NoOp) => \A j \in 1..Count(b[o + p]) : p + j \in 1..w
<1> DEFINE h == b[o + p]
<1>1. /\ p + Size(h) \in DOMAIN pos
      /\ DOMAIN pos \subseteq 1..w + 1
  BY DEF IsPacking
<1>2. p \in 1..w
  BY <1>1
<1>3. h \in Byte
  BY DEF IsPacking
<1>4. p + Size(h) <= w + 1 /\ Size(h) \in Nat
  BY <1>1, <1>3, HeaderNumbers
<1> HIDE DEF h
<1>5. ASSUME h > NoOp PROVE p + 1 \in 1..w
  <2>1. Size(h) = 2
    BY <1>3, <1>5, PackBitsAssumption DEF Size, Byte, NoOp
  <2> QED BY <1>2, <1>4, <2>1
<1>6. ASSUME ~(h > NoOp), NEW j \in 1..Count(h) PROVE p + j \in 1..w
  <2>1. j + 1 <= Size(h)
    BY <1>3, <1>6, PackBitsAssumption DEF Size, Count, Byte, NoOp
  <2> QED BY <1>2, <1>4, <2>1
<1> QED BY <1>1, <1>2, <1>3, <1>4, <1>5, <1>6 DEF h

\* Packed bytes mean the same wherever they are.
LEMMA PackingMoves ==
  ASSUME NEW b, NEW o \in Nat, NEW w \in Nat, NEW line, NEW k \in Nat,
         Packs(b, o, w, line, k),
         NEW c, NEW m \in Nat,
         \A i \in 1..w : c[m + i] = b[o + i]
  PROVE  Packs(c, m, w, line, k)
<1>1. PICK pos : IsPacking(pos, b, o, w, line, k)
  BY DEF Packs
<1>2. /\ DOMAIN pos \subseteq 1..w + 1 /\ \A p \in DOMAIN pos : pos[p] \in 0..k
      /\ 1 \in DOMAIN pos /\ pos[1] = 0
      /\ w + 1 \in DOMAIN pos /\ pos[w + 1] = k
  BY <1>1 DEF IsPacking
<1>3. ASSUME NEW p \in DOMAIN pos, p <= w
      PROVE  /\ c[m + p] \in Byte
             /\ p + Size(c[m + p]) \in DOMAIN pos
             /\ pos[p + Size(c[m + p])] = pos[p] + Count(c[m + p])
             /\ PacketIs(c, m + p, line, pos[p])
  <2>1. /\ b[o + p] \in Byte
        /\ p + Size(b[o + p]) \in DOMAIN pos
        /\ pos[p + Size(b[o + p])] = pos[p] + Count(b[o + p])
        /\ PacketIs(b, o + p, line, pos[p])
    BY <1>1, <1>3 DEF IsPacking
  <2>2. /\ p \in 1..w
        /\ b[o + p] > NoOp => p + 1 \in 1..w
        /\ ~(b[o + p] > NoOp) => \A j \in 1..Count(b[o + p]) : p + j \in 1..w
    BY <1>1, <1>3, PacketIsWithin
  <2>3. c[m + p] = b[o + p]
    BY <2>2
  <2>4. PacketIs(c, m + p, line, pos[p])
    <3> SUFFICES ASSUME NEW j \in 1..Count(b[o + p])
                 PROVE  line[pos[p] + j]
                          = (IF b[o + p] > NoOp THEN c[m + p + 1] ELSE c[m + p + j])
      BY <2>3 DEF PacketIs
    <3>1. line[pos[p] + j] = (IF b[o + p] > NoOp THEN b[o + p + 1] ELSE b[o + p + j])
      BY <2>1 DEF PacketIs
    <3>2. CASE b[o + p] > NoOp
      <4>1. c[m + (p + 1)] = b[o + (p + 1)]
        BY <2>2, <3>2
      <4>2. m + (p + 1) = m + p + 1 /\ o + (p + 1) = o + p + 1
        BY <2>2
      <4> QED BY <3>1, <3>2, <4>1, <4>2
    <3>3. CASE ~(b[o + p] > NoOp)
      <4>1. p + j \in 1..w /\ j \in Int
        BY <2>2, <3>3
      <4>2. c[m + (p + j)] = b[o + (p + j)]
        BY <4>1
      <4>3. m + (p + j) = m + p + j /\ o + (p + j) = o + p + j
        BY <2>2, <4>1
      <4> QED BY <3>1, <3>3, <4>2, <4>3
    <3> QED BY <3>2, <3>3
  <2> QED BY <2>1, <2>3, <2>4
<1>4. IsPacking(pos, c, m, w, line, k)
  BY <1>2, <1>3 DEF IsPacking
<1> QED BY <1>4 DEF Packs

-----------------------------------------------------------------------------
(* What the encoder writes is a packing of what it has looked at.           *)

\* These bytes stand behind o.
Stands(b, o, bytes) == \A i \in 1..Len(bytes) : b[o + i] = bytes[i]

\* The encoder's literal of bytes m..n packs them.
LEMMA LiteralIsPacked ==
  ASSUME NEW S, NEW line \in Seq(S), NEW m \in 1..Len(line), NEW n \in m..Len(line),
         n - m < MaxRun,
         NEW b, NEW o \in Nat, NEW w \in Nat, Packs(b, o, w, line, m - 1),
         Stands(b, o + w, Literal(SubSeq(line, m, n)))
  PROVE  Packs(b, o, w + (n - m + 2), line, n)
<1> DEFINE bytes == SubSeq(line, m, n)
           k == n - m + 1
<1>1. Len(line) \in Nat /\ m \in Nat /\ n \in Nat
  BY LenProperties
<1>2. \A i \in m..n : line[i] \in S
  BY <1>1, ElementOfSeq
<1>3. bytes \in Seq(S) /\ Len(bytes) = k /\ \A i \in 1..k : bytes[i] = line[m + i - 1]
  BY <1>1, <1>2, SubSeqProperties
<1>4. <<Len(bytes) - 1>> \in Seq(S \cup Int) /\ bytes \in Seq(S \cup Int)
  BY <1>1, <1>3
<1>5. Literal(bytes) = <<Len(bytes) - 1>> \o bytes
  BY DEF Literal
<1> HIDE DEF bytes
<1>6. /\ Len(Literal(bytes)) = 1 + k
      /\ \A i \in 1..1 + k : Literal(bytes)[i]
                               = IF i <= 1 THEN <<Len(bytes) - 1>>[i] ELSE bytes[i - 1]
  <2> DEFINE header == <<Len(bytes) - 1>>
  <2>1. Len(header) = 1
    OBVIOUS
  <2> HIDE DEF header
  <2>2. /\ Len(header \o bytes) = Len(header) + Len(bytes)
        /\ \A i \in 1..Len(header) + Len(bytes) :
             (header \o bytes)[i] = IF i <= Len(header) THEN header[i] ELSE bytes[i - Len(header)]
    BY <1>4, ConcatProperties DEF header
  <2>3. Literal(bytes) = header \o bytes
    BY <1>5 DEF header
  <2>4. /\ Len(header \o bytes) = 1 + k
        /\ \A i \in 1..1 + k :
             (header \o bytes)[i] = IF i <= 1 THEN header[i] ELSE bytes[i - 1]
    BY <1>3, <2>1, <2>2
  <2> QED BY <2>3, <2>4 DEF header
<1>7. k \in 1..MaxRun /\ k \in Nat
  BY <1>1, PackBitsAssumption
<1>8. Stands(b, o + w, Literal(bytes))
  BY DEF bytes
<1> HIDE DEF k
<1>9. b[o + w + 1] = k - 1
  BY <1>3, <1>6, <1>7, <1>8 DEF Stands
<1>10. ASSUME NEW j \in 1..k PROVE b[o + w + 1 + j] = line[(m - 1) + j]
  <2>1. 1 + j \in 1..1 + k /\ ~(1 + j <= 1) /\ (1 + j) - 1 = j
    BY <1>7
  <2>2. b[(o + w) + (1 + j)] = Literal(bytes)[1 + j]
    BY <1>6, <1>8, <2>1 DEF Stands
  <2>3. Literal(bytes)[1 + j] = bytes[j]
    BY <1>6, <2>1
  <2>4. (o + w) + (1 + j) = o + w + 1 + j /\ m + j - 1 = (m - 1) + j
    BY <1>1, <1>7
  <2> QED BY <1>3, <2>2, <2>3, <2>4
<1>11. Packs(b, o, w + (k + 1), line, (m - 1) + k)
  <2>1. m - 1 \in Nat
    BY <1>1
  <2>2. \A j \in 1..k : b[o + w + 1 + j] = line[(m - 1) + j]
    BY <1>10
  <2> QED BY <1>7, <1>9, <2>1, <2>2, LiteralPacks
<1>12. k + 1 = n - m + 2 /\ (m - 1) + k = n
  BY <1>1 DEF k
<1> QED BY <1>11, <1>12

\* The encoder's run of equal bytes m..n packs them.
LEMMA RunIsPacked ==
  ASSUME NEW line, NEW m \in Nat \ {0}, NEW n \in Nat, n > m, n - m < MaxRun,
         NEW byte, \A j \in m..n : line[j] = byte,
         NEW b, NEW o \in Nat, NEW w \in Nat, Packs(b, o, w, line, m - 1),
         Stands(b, o + w, Run(n - m + 1, byte))
  PROVE  Packs(b, o, w + 2, line, n)
<1> DEFINE k == n - m + 1
<1>1. k \in 2..MaxRun /\ k \in Nat
  BY PackBitsAssumption
<1>2. /\ Len(Run(k, byte)) = 2
      /\ Run(k, byte)[1] = 2 * MaxRun + 1 - k /\ Run(k, byte)[2] = byte
  BY DEF Run
<1>3. b[(o + w) + 1] = 2 * MaxRun + 1 - k /\ b[(o + w) + 2] = byte
  BY <1>2 DEF Stands
<1>4. \A j \in 1..k : line[(m - 1) + j] = byte
  BY <1>1
<1>5. (m - 1) + k = n /\ m - 1 \in Nat
  OBVIOUS
<1> HIDE DEF k
<1>6. Packs(b, o, w + 2, line, (m - 1) + k)
  BY <1>1, <1>3, <1>4, <1>5, RunPacks
<1> QED BY <1>5, <1>6

\* The run that has begun is of the byte the encoder looked at last.
Pending(line, e) == \A j \in e.at - e.run..e.at : line[j] = line[e.at]

\* What an encoder has written packs what it has packed.
LEMMA SamePacks ==
  ASSUME NEW S, NEW line \in Seq(S), NEW e, NEW written \in Nat,
         EncoderOK(e, Len(line)), e.at < Len(line), Paid(e, written), IsSame(line, e),
         NEW b, NEW o \in Nat, Packs(b, o, written, line, Packed(e)), Pending(line, e),
         Stands(b, o + written, SameOut(line, e))
  PROVE  /\ Packs(b, o, written + Len(SameOut(line, e)), line, Packed(SameNext(e)))
         /\ Pending(line, SameNext(e))
<1> DEFINE n == Len(line)
<1>1. n \in Nat
  BY LenProperties
<1>2. PICK a \in Nat, r \in Nat, l \in Nat :
           /\ e = [at |-> a, run |-> r, literal |-> l]
           /\ 1 <= a /\ a <= n
           /\ r < MaxRun /\ l < MaxRun /\ (r = 0 \/ l = 0)
           /\ a - 1 - r - l >= 0
           /\ 3 * (written - (a - 1 - r - l)) <= (a - 1 - r - l) + (IF r # 0 THEN 2 ELSE 0)
  BY <1>1, EncoderNumbers
<1>3. e.at = a /\ e.run = r /\ e.literal = l /\ a < n
  BY <1>2
<1>4. /\ Packs(b, o, written, line, a - 1 - r - l)
      /\ \A j \in a - r..a : line[j] = line[a]
      /\ line[a + 1] = line[a]
  BY <1>3 DEF Packed, Pending, IsSame
<1> DEFINE next == IF r + 1 = MaxRun THEN 0 ELSE r + 1
<1>5. SameNext(e) = [at |-> a + 1, run |-> next, literal |-> 0]
  BY <1>3 DEF SameNext
<1>6. next \in Nat /\ SameNext(e).at = a + 1 /\ SameNext(e).run = next /\ SameNext(e).literal = 0
  BY <1>5
<1>7. Packed(SameNext(e)) = a - next
  BY <1>6 DEF Packed
<1>8. Pending(line, SameNext(e))
  <2>1. \A j \in (a + 1) - next..a + 1 : line[j] = line[a + 1]
    BY <1>4
  <2> QED BY <1>6, <2>1 DEF Pending
<1>9. CASE l # 0
  <2>1. r = 0 /\ r + 1 # MaxRun /\ next = 1
    BY <1>2, <1>9, PackBitsAssumption
  <2>2. a - l \in 1..n /\ a - 1 \in (a - l)..n /\ (a - 1) - (a - l) < MaxRun
    BY <1>1, <1>2, <1>9, PackBitsAssumption
  <2> DEFINE out == Literal(SubSeq(line, a - l, a - 1))
  <2>3. out \in Seq(S \cup Int) /\ Len(out) = (a - 1) - (a - l) + 2
    BY <2>2, LiteralLength
  <2>4. SameOut(line, e) = out
    <3>1. SameOut(line, e) = out \o <<>>
      BY <1>3, <1>9, <2>1 DEF SameOut
    <3> HIDE DEF out
    <3> QED BY <2>3, <3>1, ConcatEmptySeq
  <2>5. (a - l) - 1 = a - 1 - r - l /\ a - next = a - 1
    BY <2>1
  <2>6. Packs(b, o, written + ((a - 1) - (a - l) + 2), line, a - 1)
    <3>1. Packs(b, o, written, line, (a - l) - 1)
      BY <1>4, <2>5
    <3>2. Stands(b, o + written, out)
      BY <2>4
    <3> QED BY <2>2, <3>1, <3>2, LiteralIsPacked
  <2> HIDE DEF out
  <2> QED BY <1>7, <1>8, <2>3, <2>4, <2>5, <2>6
<1>10. CASE l = 0 /\ r + 1 = MaxRun
  <2>1. SameOut(line, e) = Run(MaxRun, line[a])
    <3>1. SameOut(line, e) = <<>> \o Run(MaxRun, line[a])
      BY <1>3, <1>10 DEF SameOut
    <3>2. a \in 1..n /\ MaxRun \in Int
      BY <1>1, <1>2, PackBitsAssumption
    <3>3. Run(MaxRun, line[a]) \in Seq(S \cup Int)
      BY <3>2, RunLength, ElementOfSeq
    <3> QED BY <3>1, <3>3, ConcatEmptySeq
  <2>2. Len(Run(MaxRun, line[a])) = 2
    BY DEF Run
  <2>3. /\ a - r \in Nat \ {0} /\ a > a - r /\ a - (a - r) < MaxRun /\ (a - r) - 1 = a - 1 - r - l
        /\ a - (a - r) + 1 = MaxRun /\ a - next = a
    BY <1>2, <1>10, PackBitsAssumption
  <2>4. Packs(b, o, written + 2, line, a)
    <3>1. Packs(b, o, written, line, (a - r) - 1)
      BY <1>4, <2>3
    <3>2. Stands(b, o + written, Run(a - (a - r) + 1, line[a]))
      BY <2>1, <2>3
    <3> QED BY <1>4, <2>3, <3>1, <3>2, RunIsPacked
  <2> QED BY <1>7, <1>8, <2>1, <2>2, <2>3, <2>4
<1>11. CASE l = 0 /\ r + 1 # MaxRun
  <2>1. SameOut(line, e) = <<>>
    <3>1. SameOut(line, e) = <<>> \o <<>>
      BY <1>3, <1>11 DEF SameOut
    <3>2. <<>> \in Seq(S)
      OBVIOUS
    <3> QED BY <3>1, <3>2, ConcatEmptySeq
  <2>2. Len(<<>>) = 0 /\ written + 0 = written /\ a - next = a - 1 - r - l
    BY <1>11
  <2> QED BY <1>4, <1>7, <1>8, <2>1, <2>2
<1> QED BY <1>9, <1>10, <1>11

\* An iteration that meets a different byte writes packets of what it has looked at.
LEMMA DifferPacks ==
  ASSUME NEW S, NEW line \in Seq(S), NEW e, NEW written \in Nat,
         EncoderOK(e, Len(line)), e.at < Len(line), Paid(e, written),
         NEW b, NEW o \in Nat, Packs(b, o, written, line, Packed(e)), Pending(line, e),
         Stands(b, o + written, DifferOut(line, e))
  PROVE  /\ Packs(b, o, written + Len(DifferOut(line, e)), line, Packed(DifferNext(e)))
         /\ Pending(line, DifferNext(e))
<1> DEFINE n == Len(line)
<1>1. n \in Nat
  BY LenProperties
<1>2. PICK a \in Nat, r \in Nat, l \in Nat :
           /\ e = [at |-> a, run |-> r, literal |-> l]
           /\ 1 <= a /\ a <= n
           /\ r < MaxRun /\ l < MaxRun /\ (r = 0 \/ l = 0)
           /\ a - 1 - r - l >= 0
           /\ 3 * (written - (a - 1 - r - l)) <= (a - 1 - r - l) + (IF r # 0 THEN 2 ELSE 0)
  BY <1>1, EncoderNumbers
<1>3. e.at = a /\ e.run = r /\ e.literal = l /\ a < n
  BY <1>2
<1>4. /\ Packs(b, o, written, line, a - 1 - r - l)
      /\ \A j \in a - r..a : line[j] = line[a]
  BY <1>3 DEF Packed, Pending
<1> DEFINE next == IF r # 0 THEN l ELSE IF l + 1 = MaxRun THEN 0 ELSE l + 1
<1>5. DifferNext(e) = [at |-> a + 1, run |-> 0, literal |-> next]
  BY <1>3 DEF DifferNext
<1>6. /\ next \in Nat /\ DifferNext(e).at = a + 1 /\ DifferNext(e).run = 0
      /\ DifferNext(e).literal = next
  BY <1>5
<1>7. Packed(DifferNext(e)) = a - next
  BY <1>6 DEF Packed
<1>8. Pending(line, DifferNext(e))
  BY <1>6 DEF Pending
<1>9. CASE r # 0
  <2>1. DifferOut(line, e) = Run(r + 1, line[a])
    BY <1>3, <1>9 DEF DifferOut
  <2>2. Len(Run(r + 1, line[a])) = 2
    BY DEF Run
  <2>3. /\ a - r \in Nat \ {0} /\ a > a - r /\ a - (a - r) < MaxRun /\ (a - r) - 1 = a - 1 - r - l
        /\ a - (a - r) + 1 = r + 1 /\ a - next = a
    BY <1>2, <1>9
  <2>4. Packs(b, o, written + 2, line, a)
    <3>1. Packs(b, o, written, line, (a - r) - 1)
      BY <1>4, <2>3
    <3>2. Stands(b, o + written, Run(a - (a - r) + 1, line[a]))
      BY <2>1, <2>3
    <3> QED BY <1>4, <2>3, <3>1, <3>2, RunIsPacked
  <2> QED BY <1>7, <1>8, <2>1, <2>2, <2>3, <2>4
<1>10. CASE r = 0 /\ l + 1 = MaxRun
  <2>1. DifferOut(line, e) = Literal(SubSeq(line, a - l, a))
    BY <1>3, <1>10 DEF DifferOut
  <2>2. a - l \in 1..n /\ a \in (a - l)..n /\ a - (a - l) < MaxRun
    BY <1>1, <1>2, <1>10
  <2>3. Len(Literal(SubSeq(line, a - l, a))) = a - (a - l) + 2
    BY <2>2, LiteralLength
  <2>4. (a - l) - 1 = a - 1 - r - l /\ a - next = a
    BY <1>10
  <2>5. Packs(b, o, written + (a - (a - l) + 2), line, a)
    <3>1. Packs(b, o, written, line, (a - l) - 1)
      BY <1>4, <2>4
    <3>2. Stands(b, o + written, Literal(SubSeq(line, a - l, a)))
      BY <2>1
    <3> QED BY <2>2, <3>1, <3>2, LiteralIsPacked
  <2> QED BY <1>7, <1>8, <2>1, <2>3, <2>4, <2>5
<1>11. CASE r = 0 /\ l + 1 # MaxRun
  <2>1. DifferOut(line, e) = <<>>
    BY <1>3, <1>11 DEF DifferOut
  <2>2. Len(<<>>) = 0 /\ written + 0 = written /\ a - next = a - 1 - r - l
    BY <1>11
  <2> QED BY <1>4, <1>7, <1>8, <2>1, <2>2
<1> QED BY <1>9, <1>10, <1>11

\* What is written after the loop completes the packing of the scanline.
LEMMA EndPacks ==
  ASSUME NEW S, NEW line \in Seq(S), NEW e, NEW written \in Nat,
         EncoderOK(e, Len(line)), e.at = Len(line), Paid(e, written),
         NEW b, NEW o \in Nat, Packs(b, o, written, line, Packed(e)), Pending(line, e),
         NEW out, out = EndOut(line, e),
         Stands(b, o + written, out \o Padding(written + Len(out)))
  PROVE  Packs(b, o, written + Len(out \o Padding(written + Len(out))), line, Len(line))
<1> DEFINE n == Len(line)
           pad == Padding(written + Len(out))
<1>1. n \in Nat
  BY LenProperties
<1>2. PICK a \in Nat, r \in Nat, l \in Nat :
           /\ e = [at |-> a, run |-> r, literal |-> l]
           /\ 1 <= a /\ a <= n
           /\ r < MaxRun /\ l < MaxRun /\ (r = 0 \/ l = 0)
           /\ a - 1 - r - l >= 0
           /\ 3 * (written - (a - 1 - r - l)) <= (a - 1 - r - l) + (IF r # 0 THEN 2 ELSE 0)
  BY <1>1, EncoderNumbers
<1>3. e.at = a /\ e.run = r /\ e.literal = l /\ a = n
  BY <1>2
<1>4. /\ Packs(b, o, written, line, n - 1 - r - l)
      /\ \A j \in n - r..n : line[j] = line[n]
  BY <1>3 DEF Packed, Pending
<1>5. PICK k \in Nat : /\ out \in Seq(S \cup Int) /\ Len(out) = k
                       /\ Stands(b, o + written, out) => Packs(b, o, written + k, line, n)
  <2>1. CASE r # 0
    <3>1. out = Run(r + 1, line[n])
      BY <1>3, <2>1 DEF EndOut
    <3>2. n \in 1..n /\ r + 1 \in Int
      BY <1>1, <1>2
    <3>3. out \in Seq(S \cup Int) /\ Len(out) = 2
      BY <3>1, <3>2, RunLength, ElementOfSeq
    <3>4. /\ n - r \in Nat \ {0} /\ n > n - r /\ n - (n - r) < MaxRun
          /\ (n - r) - 1 = n - 1 - r - l /\ n - (n - r) + 1 = r + 1
      <4>1. n \in Nat /\ n - 1 - r - l >= 0 /\ l = 0 /\ r < MaxRun /\ MaxRun \in Nat
        BY <1>1, <1>2, <1>3, <2>1, PackBitsAssumption
      <4> HIDE DEF n
      <4> QED BY <2>1, <4>1
    <3>5. ASSUME Stands(b, o + written, out) PROVE Packs(b, o, written + 2, line, n)
      <4>1. Packs(b, o, written, line, (n - r) - 1)
        BY <1>4, <3>4
      <4>2. Stands(b, o + written, Run(n - (n - r) + 1, line[n]))
        BY <3>1, <3>4, <3>5
      <4> QED BY <1>1, <1>4, <3>4, <4>1, <4>2, RunIsPacked
    <3> QED BY <3>3, <3>5
  <2>2. CASE r = 0
    <3>1. out = Literal(SubSeq(line, n - l, n))
      BY <1>3, <2>2 DEF EndOut
    <3>2. n - l \in 1..n /\ n \in (n - l)..n /\ n - (n - l) < MaxRun /\ n - (n - l) + 2 \in Nat
      BY <1>1, <1>2, <1>3, <2>2, PackBitsAssumption
    <3>3. out \in Seq(S \cup Int) /\ Len(out) = n - (n - l) + 2
      <4>1. /\ Literal(SubSeq(line, n - l, n)) \in Seq(S \cup Int)
            /\ Len(Literal(SubSeq(line, n - l, n))) = n - (n - l) + 2
        BY <3>2, LiteralLength
      <4> QED BY <3>1, <4>1
    <3>4. (n - l) - 1 = n - 1 - r - l
      BY <1>1, <2>2
    <3>5. ASSUME Stands(b, o + written, out)
          PROVE  Packs(b, o, written + (n - (n - l) + 2), line, n)
      <4>1. Packs(b, o, written, line, (n - l) - 1)
        BY <1>4, <3>4
      <4>2. Stands(b, o + written, Literal(SubSeq(line, n - l, n)))
        BY <3>1, <3>5
      <4> QED BY <3>2, <4>1, <4>2, LiteralIsPacked
    <3> QED BY <3>2, <3>3, <3>5
  <2> QED BY <2>1, <2>2
<1> HIDE DEF n
<1>6. pad \in Seq(S \cup Int) /\ (pad = <<NoOp>> \/ pad = <<>>)
  <2>1. <<NoOp>> \in Seq(S \cup Int) /\ <<>> \in Seq(S \cup Int)
    BY PackBitsAssumption DEF NoOp
  <2>2. pad = <<NoOp>> \/ pad = <<>>
    BY DEF Padding
  <2> HIDE DEF pad
  <2> QED BY <2>1, <2>2
<1>7. Stands(b, o + written, out \o pad)
  OBVIOUS
<1> HIDE DEF pad
<1>8. CASE pad = <<NoOp>>
  <2>1. Len(pad) = 1 /\ pad[1] = NoOp
    BY <1>8
  <2>2. /\ Len(out \o pad) = k + 1
        /\ \A i \in 1..k + 1 : (out \o pad)[i] = IF i <= k THEN out[i] ELSE pad[i - k]
    <3>1. /\ Len(out \o pad) = Len(out) + Len(pad)
          /\ \A i \in 1..Len(out) + Len(pad) :
               (out \o pad)[i] = IF i <= Len(out) THEN out[i] ELSE pad[i - Len(out)]
      <4>1. out \in Seq(S \cup Int) /\ pad \in Seq(S \cup Int)
        BY <1>5, <1>6
      <4> QED BY <4>1, ConcatProperties
    <3> QED BY <1>5, <2>1, <3>1
  <2>3. Stands(b, o + written, out)
    BY <1>5, <1>7, <2>2 DEF Stands
  <2>4. b[o + (written + k) + 1] = NoOp
    <3>1. k + 1 \in 1..k + 1 /\ ~(k + 1 <= k) /\ (k + 1) - k = 1
      BY <1>5
    <3>2. (out \o pad)[k + 1] = NoOp
      BY <2>1, <2>2, <3>1
    <3>3. b[(o + written) + (k + 1)] = NoOp
      BY <1>7, <2>2, <3>1, <3>2 DEF Stands
    <3>4. (o + written) + (k + 1) = o + (written + k) + 1
      BY <1>5
    <3> QED BY <3>3, <3>4
  <2>5. Packs(b, o, (written + k) + 1, line, n)
    BY <1>1, <1>5, <2>3, <2>4, NoOpPacks
  <2>6. (written + k) + 1 = written + (k + 1)
    BY <1>5
  <2> QED BY <2>2, <2>5, <2>6 DEF n, pad
<1>9. CASE pad = <<>>
  <2>1. out \o pad = out
    BY <1>5, <1>9, ConcatEmptySeq
  <2> QED BY <1>5, <1>7, <2>1 DEF n, pad
<1> QED BY <1>6, <1>8, <1>9

-----------------------------------------------------------------------------
(* Unpacking.                                                               *)

\* Any function on 1..n is a sequence.
LEMMA FunctionIsSequence ==
  ASSUME NEW n \in Nat, NEW f, f = [i \in 1..n |-> f[i]]
  PROVE  /\ f \in Seq({f[i] : i \in 1..n}) /\ Len(f) = n /\ DOMAIN f = 1..n
<1>1. f \in [1..n -> {f[i] : i \in 1..n}]
  OBVIOUS
<1> QED BY <1>1

\* The decoder finds in a packet what it is a packet of.
PacketRead(out, q, pos, p, w, line, k) ==
  /\ DOMAIN out = 1..Len(out) /\ Len(out) \in Nat
  /\ q \in DOMAIN pos /\ q \in Nat /\ q <= w + 1
  /\ pos[q] = pos[p] + Len(out) /\ pos[p] \in Nat /\ pos[q] <= k
  /\ \A j \in 1..Len(out) : out[j] = line[pos[p] + j]

\* Unpacking a packet of a packing gives the bytes it was made of, and the next packet.
LEMMA PacketUnpacks ==
  ASSUME NEW b, NEW o \in Nat, NEW w \in Nat, NEW line, NEW k \in Nat,
         NEW pos, IsPacking(pos, b, o, w, line, k),
         NEW p \in DOMAIN pos, p <= w
  PROVE  PacketRead(Unpacked(b, o + p), p + PacketSize(b, o + p), pos, p, w, line, k)
<1> DEFINE h == b[o + p]
           out == Unpacked(b, o + p)
           n == Count(h)
<1>1. /\ h \in Byte /\ p + Size(h) \in DOMAIN pos
      /\ pos[p + Size(h)] = pos[p] + n /\ PacketIs(b, o + p, line, pos[p])
      /\ DOMAIN pos \subseteq 1..w + 1 /\ \A q \in DOMAIN pos : pos[q] \in 0..k
  BY DEF IsPacking
<1>2. PacketSize(b, o + p) = Size(h)
  BY DEF PacketSize, Size
<1>3. n \in Nat /\ h \in Int /\ NoOp \in Int
  BY <1>1, HeaderNumbers, PackBitsAssumption DEF Byte, NoOp
<1>4. /\ DOMAIN out = 1..n /\ Len(out) = n
      /\ \A j \in 1..n : out[j] = IF h > NoOp THEN b[o + p + 1] ELSE b[o + p + j]
  <2>1. CASE h = NoOp
    <3>1. out = <<>> /\ n = 0
      BY <2>1 DEF Unpacked, Count
    <3> HIDE DEF out, n
    <3> QED BY <3>1
  <2>2. CASE h > NoOp
    <3>1. h # NoOp /\ n = 2 * MaxRun + 1 - h
      BY <1>3, <2>2 DEF Count
    <3>2. out = [j \in 1..n |-> b[o + p + 1]]
      BY <2>2, <3>1 DEF Unpacked
    <3> HIDE DEF out, n
    <3>3. out = [j \in 1..n |-> out[j]]
      BY <3>2
    <3>4. Len(out) = n /\ DOMAIN out = 1..n
      BY <1>3, <3>3, FunctionIsSequence
    <3> QED BY <2>2, <3>2, <3>4
  <2>3. CASE h # NoOp /\ ~(h > NoOp)
    <3>1. n = h + 1
      BY <2>3 DEF Count
    <3>2. out = SubSeq(b, o + p + 1, o + p + 1 + h)
      BY <2>3 DEF Unpacked
    <3> DEFINE m == o + p + 1
               T == {b[i] : i \in m..m + h}
    <3>3. m \in Int /\ m + h \in Int /\ \A i \in m..m + h : b[i] \in T
      BY <1>1, <1>3
    <3>4. (m + h) - m + 1 = n /\ m <= m + h
      BY <1>1, <1>3, <3>1, <3>3 DEF Byte
    <3> HIDE DEF m, T, out, n, h
    <3>5. /\ SubSeq(b, m, m + h) \in Seq(T)
          /\ Len(SubSeq(b, m, m + h)) = n
          /\ \A i \in 1..n : SubSeq(b, m, m + h)[i] = b[m + i - 1]
      BY <3>3, <3>4, SubSeqProperties
    <3>6. out \in Seq(T) /\ Len(out) = n /\ \A i \in 1..n : out[i] = b[m + i - 1]
      BY <3>2, <3>5 DEF m
    <3>7. DOMAIN out = 1..n
      BY <3>6, LenProperties
    <3>8. ASSUME NEW j \in 1..n PROVE m + j - 1 = o + p + j
      BY <1>1 DEF m
    <3> QED BY <2>3, <3>6, <3>7, <3>8
  <2> QED BY <1>3, <2>1, <2>2, <2>3
<1>5. p + Size(h) \in 1..w + 1 /\ pos[p] \in 0..k /\ pos[p + Size(h)] \in 0..k
  BY <1>1
<1>6. ASSUME NEW j \in 1..n PROVE out[j] = line[pos[p] + j]
  <2>1. line[pos[p] + j] = IF h > NoOp THEN b[o + p + 1] ELSE b[o + p + j]
    BY <1>1 DEF PacketIs
  <2> QED BY <1>4, <2>1
<1> HIDE DEF out, n, h
<1> QED BY <1>1, <1>2, <1>3, <1>4, <1>5, <1>6 DEF out, h, PacketRead

\* Bytes that are put into a buffer of n bytes stand where they are put, and
\* nothing else is changed.
Put(more, buf, n, offset, bytes) ==
  /\ DOMAIN more = 1..n /\ Len(more) = n
  /\ offset + Len(bytes) <= n => Stands(more, offset, bytes)
  /\ \A p \in 1..n : p <= offset \/ p > offset + Len(bytes) => more[p] = buf[p]

\* Filled writes at the offset and nowhere else.
LEMMA FilledBuffer ==
  ASSUME NEW n \in Nat, NEW buf, DOMAIN buf = 1..n,
         NEW offset \in Nat, NEW bytes, Len(bytes) \in Nat, DOMAIN bytes = 1..Len(bytes)
  PROVE  Put(Filled(buf, offset, bytes), buf, n, offset, bytes)
<1> DEFINE more == Filled(buf, offset, bytes)
<1>1. more = [p \in 1..n |-> IF p - offset \in DOMAIN bytes THEN bytes[p - offset] ELSE buf[p]]
  BY DEF Filled
<1> HIDE DEF more
<1>2. more = [p \in 1..n |-> more[p]]
  BY <1>1
<1>3. DOMAIN more = 1..n /\ Len(more) = n
  BY <1>2, FunctionIsSequence
<1>4. ASSUME offset + Len(bytes) <= n PROVE Stands(more, offset, bytes)
  <2> SUFFICES ASSUME NEW i \in 1..Len(bytes) PROVE more[offset + i] = bytes[i]
    BY DEF Stands
  <2>1. offset + i \in 1..n /\ (offset + i) - offset = i
    BY <1>4
  <2>2. more[offset + i] = IF (offset + i) - offset \in DOMAIN bytes
                           THEN bytes[(offset + i) - offset] ELSE buf[offset + i]
    BY <1>1, <2>1
  <2> QED BY <2>1, <2>2
<1>5. ASSUME NEW p \in 1..n, p <= offset \/ p > offset + Len(bytes) PROVE more[p] = buf[p]
  <2>1. p - offset \notin DOMAIN bytes
    BY <1>5
  <2> QED BY <1>1, <2>1
<1> QED BY <1>3, <1>4, <1>5 DEF more, Put

-----------------------------------------------------------------------------
(* Induction over the natural numbers, for sets, and the ends of scanlines. *)

\* A set of naturals that is not empty has a least member.
LEMMA LeastMember ==
  ASSUME NEW T \in SUBSET Nat, T # {}
  PROVE  \E x \in T : \A y \in T : x <= y
<1>1. PICK x \in T : \A y \in T : ~ (<<y, x>> \in OpToRel(<, Nat))
  BY NatLessThanWellFounded, WFMin
<1>2. \A y \in T : ~ (y < x)
  BY <1>1 DEF OpToRel
<1> QED BY <1>2

\* A set that has 0 and the successor of every member has every natural.
LEMMA SetInduction ==
  ASSUME NEW S, 0 \in S, \A n \in Nat : n \in S => n + 1 \in S
  PROVE  Nat \subseteq S
<1> DEFINE T == {n \in Nat : n \notin S}
<1>1. SUFFICES ASSUME T # {} PROVE FALSE
  OBVIOUS
<1>2. PICK x \in T : \A y \in T : x <= y
  BY <1>1, LeastMember
<1>3. x # 0 /\ x - 1 \in Nat /\ x - 1 \notin T
  BY <1>2
<1>4. x \in S
  BY <1>3, x = (x - 1) + 1
<1> QED BY <1>4

\* What the sums of the sizes of scanlines are.
AreEnds(end, sizes, n) ==
  end = [y \in 0..n |-> IF y = 0 THEN 0 ELSE end[y - 1] + sizes[y]]

\* The recursion of Ends has a solution.
LEMMA EndsExist ==
  ASSUME NEW N \in Nat, NEW sizes, \A y \in 1..N : sizes[y] \in Nat
  PROVE  \E end : AreEnds(end, sizes, N)
<1> DEFINE S == {n \in Nat : n <= N => \E end \in [0..n -> Nat] : AreEnds(end, sizes, n)}
<1>1. 0 \in S
  <2> DEFINE end == [y \in 0..0 |-> 0]
  <2>1. end \in [0..0 -> Nat] /\ AreEnds(end, sizes, 0)
    BY DEF AreEnds
  <2> QED BY <2>1
<1>2. ASSUME NEW n \in Nat, n \in S PROVE n + 1 \in S
  <2> SUFFICES ASSUME n + 1 <= N
               PROVE  \E end \in [0..n + 1 -> Nat] : AreEnds(end, sizes, n + 1)
    OBVIOUS
  <2>1. PICK end \in [0..n -> Nat] : AreEnds(end, sizes, n)
    BY <1>2
  <2>2. \A y \in 0..n : end[y] = IF y = 0 THEN 0 ELSE end[y - 1] + sizes[y]
    BY <2>1 DEF AreEnds
  <2>3. end[n] \in Nat /\ sizes[n + 1] \in Nat
    OBVIOUS
  <2> DEFINE more == [y \in 0..n + 1 |-> IF y = n + 1 THEN end[n] + sizes[n + 1] ELSE end[y]]
  <2>4. more \in [0..n + 1 -> Nat]
    BY <2>3
  <2>5. ASSUME NEW y \in 0..n + 1
        PROVE  more[y] = IF y = 0 THEN 0 ELSE more[y - 1] + sizes[y]
    <3>1. CASE y = n + 1
      <4>1. more[y] = end[n] + sizes[n + 1] /\ more[y - 1] = end[n] /\ y - 1 = n /\ y # 0
        BY <3>1
      <4> QED BY <3>1, <4>1
    <3>2. CASE y # n + 1
      <4>1. y \in 0..n /\ more[y] = end[y]
        BY <3>2
      <4>2. y # 0 => y - 1 \in 0..n /\ more[y - 1] = end[y - 1]
        BY <3>2
      <4> HIDE DEF more
      <4> QED BY <2>2, <4>1, <4>2
    <3> QED BY <3>1, <3>2
  <2>6. AreEnds(more, sizes, n + 1)
    <3>1. more = [y \in 0..n + 1 |-> more[y]]
      OBVIOUS
    <3> HIDE DEF more
    <3> QED BY <2>5, <3>1 DEF AreEnds
  <2> QED BY <2>4, <2>6
<1> HIDE DEF S
<1>3. N \in S
  BY <1>1, <1>2, SetInduction
<1> QED BY <1>3 DEF S

\* Every end is as far behind the one before it as its scanline is long.
LEMMA EndsAreSums ==
  ASSUME NEW N \in Nat, NEW sizes, Len(sizes) = N, \A y \in 1..N : sizes[y] \in Nat
  PROVE  /\ Ends(sizes)[0] = 0
         /\ \A y \in 0..N : Ends(sizes)[y] \in Nat
         /\ \A y \in 1..N : Ends(sizes)[y] = Ends(sizes)[y - 1] + sizes[y]
         /\ \A y, z \in 0..N : y <= z => Ends(sizes)[y] <= Ends(sizes)[z]
<1> DEFINE e == Ends(sizes)
<1>1. AreEnds(e, sizes, N)
  <2>1. e = CHOOSE end : AreEnds(end, sizes, N)
    BY DEF Ends, AreEnds
  <2> QED BY <2>1, EndsExist
<1> HIDE DEF e
<1>2. e[0] = 0 /\ \A y \in 1..N : e[y] = e[y - 1] + sizes[y]
  BY <1>1 DEF AreEnds
<1>3. ASSUME NEW y \in 0..N PROVE e[y] \in Nat
  <2> DEFINE S == {n \in Nat : n <= N => e[n] \in Nat}
  <2>1. 0 \in S
    BY <1>2
  <2>2. ASSUME NEW n \in Nat, n \in S PROVE n + 1 \in S
    <3> SUFFICES ASSUME n + 1 <= N PROVE e[n + 1] \in Nat
      OBVIOUS
    <3>1. n + 1 \in 1..N /\ (n + 1) - 1 = n /\ e[n] \in Nat
      BY <2>2
    <3>2. e[n + 1] = e[n] + sizes[n + 1]
      BY <1>2, <3>1
    <3> QED BY <3>1, <3>2
  <2> HIDE DEF S
  <2>3. Nat \subseteq S
    BY <2>1, <2>2, SetInduction
  <2>4. y \in S
    BY <2>3
  <2> QED BY <2>4 DEF S
<1>4. ASSUME NEW y \in 0..N, NEW z \in 0..N, y <= z PROVE e[y] <= e[z]
  <2> DEFINE S == {n \in Nat : y + n <= N => e[y] <= e[y + n]}
  <2>1. 0 \in S
    BY <1>3
  <2>2. ASSUME NEW n \in Nat, n \in S PROVE n + 1 \in S
    <3> SUFFICES ASSUME y + (n + 1) <= N PROVE e[y] <= e[y + (n + 1)]
      OBVIOUS
    <3>1. /\ y + (n + 1) \in 1..N /\ (y + (n + 1)) - 1 = y + n /\ y + n \in 0..N
          /\ e[y] <= e[y + n]
      BY <2>2
    <3>2. e[y + (n + 1)] = e[y + n] + sizes[y + (n + 1)]
      BY <1>2, <3>1
    <3>3. e[y] \in Nat /\ e[y + n] \in Nat /\ sizes[y + (n + 1)] \in Nat
      BY <1>3, <3>1
    <3> QED BY <3>1, <3>2, <3>3
  <2> HIDE DEF S
  <2>3. Nat \subseteq S
    BY <2>1, <2>2, SetInduction
  <2>4. z - y \in S /\ y + (z - y) = z
    BY <1>4, <2>3
  <2> QED BY <2>4 DEF S
<1> QED BY <1>2, <1>3, <1>4 DEF e

\* The same of a table, up to each scanline.
LEMMA TableEnds ==
  ASSUME NEW H \in Nat \ {0}, NEW entries, Len(entries) = H,
         \A y \in 1..H : entries[y] \in Nat
  PROVE  \A y \in 1..H : /\ Ends(entries)[y - 1] \in Nat
                         /\ Ends(entries)[y] = Ends(entries)[y - 1] + entries[y]
<1>1. /\ \A y \in 0..H : Ends(entries)[y] \in Nat
      /\ \A y \in 1..H : Ends(entries)[y] = Ends(entries)[y - 1] + entries[y]
  BY EndsAreSums
<1>2. \A y \in 1..H : y - 1 \in 0..H
  OBVIOUS
<1> QED BY <1>1, <1>2

\* A byte is of the scanline it is found in.
LEMMA FoundInItsScanline ==
  ASSUME NEW N \in Nat, NEW sizes, Len(sizes) = N, \A y \in 1..N : sizes[y] \in Nat,
         NEW y \in 1..N, NEW i \in 1..sizes[y]
  PROVE  LET e == Ends(sizes)
             p == e[y - 1] + i
         IN  /\ p \in 1..e[N]
             /\ e[y - 1] < p /\ p <= e[y]
             /\ \A z \in 1..N : e[z - 1] < p /\ p <= e[z] => z = y
<1> DEFINE e == Ends(sizes)
           p == e[y - 1] + i
<1>1. /\ \A z \in 0..N : e[z] \in Nat
      /\ \A z \in 1..N : e[z] = e[z - 1] + sizes[z]
      /\ \A x, z \in 0..N : x <= z => e[x] <= e[z]
  BY EndsAreSums
<1> HIDE DEF e
<1>2. y - 1 \in 0..N /\ y \in 0..N /\ N \in 0..N /\ y <= N
  OBVIOUS
<1>3. e[y - 1] \in Nat /\ e[y] = e[y - 1] + sizes[y] /\ e[y] <= e[N] /\ e[N] \in Nat
  BY <1>1, <1>2
<1>4. e[y - 1] < p /\ p <= e[y] /\ p \in 1..e[N] /\ p \in Nat
  BY <1>3
<1>5. ASSUME NEW z \in 1..N, e[z - 1] < p, p <= e[z] PROVE z = y
  <2>1. z \in 1..N /\ z \in 0..N /\ z - 1 \in 0..N /\ e[z] \in Nat /\ e[z - 1] \in Nat
    BY <1>1
  <2>2. CASE z < y
    <3>1. e[z] <= e[y - 1]
      BY <1>1, <1>2, <2>1, <2>2, z <= y - 1
    <3> QED BY <1>3, <1>4, <1>5, <2>1, <3>1
  <2>3. CASE y < z
    <3>1. e[y] <= e[z - 1]
      BY <1>1, <1>2, <2>1, <2>3, y <= z - 1
    <3>2. e[y] \in Nat
      BY <1>1, <1>2
    <3> QED BY <1>4, <1>5, <2>1, <3>1, <3>2
  <2> QED BY <2>1, <2>2, <2>3
<1> HIDE DEF p
<1> QED BY <1>4, <1>5 DEF e, p

-----------------------------------------------------------------------------
(* Scanlines, one behind the other.                                         *)

\* Where a byte of a scanline of n bytes is, and whose byte it is.
LEMMA PlaceOfByte ==
  ASSUME NEW m \in Nat, NEW n \in Nat \ {0}, NEW y \in 1..m, NEW x \in 1..n
  PROVE  LET p == (y - 1) * n + x
         IN  /\ p \in 1..m * n
             /\ ((p - 1) \div n) + 1 = y /\ ((p - 1) % n) + 1 = x
<1> DEFINE q == y - 1
           r == x - 1
           p == q * n + x
<1>1. q \in Nat /\ r \in 0..n - 1 /\ q \in Int /\ n \in Nat
  OBVIOUS
<1>2. (q * n + r) \div n = q /\ (q * n + r) % n = r
  BY <1>1, QuotientAndRest
<1>3. q * n \in Nat /\ m * n \in Nat /\ y * n <= m * n /\ y * n = q * n + n
  <2>1. q <= m /\ y <= m /\ y \in Nat
    OBVIOUS
  <2>2. q * n \in Nat /\ m * n \in Nat /\ y * n <= m * n
    BY <1>1, <2>1, ProductGrows
  <2>3. (q + 1) * n = q * n + n /\ q + 1 = y
    OBVIOUS
  <2> QED BY <2>2, <2>3
<1> HIDE DEF q
<1>4. p - 1 = q * n + r /\ p \in 1..m * n
  BY <1>1, <1>3
<1>5. q + 1 = y /\ r + 1 = x
  BY DEF q
<1> HIDE DEF p, r
<1> QED BY <1>2, <1>4, <1>5 DEF p, q

\* Every byte is at such a place.
LEMMA ByteOfPlace ==
  ASSUME NEW m \in Nat, NEW n \in Nat \ {0}, NEW p \in 1..m * n
  PROVE  /\ ((p - 1) \div n) + 1 \in 1..m /\ ((p - 1) % n) + 1 \in 1..n
         /\ p = (((p - 1) \div n) + 1 - 1) * n + (((p - 1) % n) + 1)
<1> DEFINE q == (p - 1) \div n
           r == (p - 1) % n
<1>1. m * n \in Nat /\ p - 1 \in Nat
  BY ProductGrows
<1>2. q \in Nat /\ r \in 0..n - 1 /\ p - 1 = q * n + r
  BY <1>1
<1> HIDE DEF q, r
<1>3. q < m
  <2>1. SUFFICES ASSUME m <= q PROVE FALSE
    BY <1>2
  <2>2. m * n <= q * n /\ q * n \in Nat
    BY <1>2, <2>1, ProductGrows
  <2> QED BY <1>1, <1>2, <2>2
<1>4. q + 1 - 1 = q
  BY <1>2
<1>5. p = q * n + (r + 1)
  <2>1. q * n \in Nat
    BY <1>2, ProductGrows
  <2> QED BY <1>2, <2>1
<1> QED BY <1>2, <1>3, <1>4, <1>5 DEF q, r

\* These bytes are m parts of n bytes, one behind the other.
Laid(parts, m, n, bytes) ==
  \A y \in 1..m, x \in 1..n : bytes[(y - 1) * n + x] = parts[y][x]

\* What is where in parts that are put one behind the other.
LEMMA ContiguousParts ==
  ASSUME NEW m \in Nat, NEW n \in Nat \ {0}, NEW parts, Len(parts) = m
  PROVE  LET bytes == Contiguous(parts, n)
         IN  /\ DOMAIN bytes = 1..m * n /\ Len(bytes) = m * n /\ m * n \in Nat
             /\ Laid(parts, m, n, bytes)
             /\ \A T : (\A y \in 1..m, x \in 1..n : parts[y][x] \in T) => bytes \in Seq(T)
<1> DEFINE bytes == Contiguous(parts, n)
<1>1. m * n \in Nat
  BY ProductGrows
<1>2. bytes = [p \in 1..m * n |-> parts[((p - 1) \div n) + 1][((p - 1) % n) + 1]]
  BY DEF Contiguous
<1> DEFINE N == m * n
<1> HIDE DEF bytes, N
<1>3. bytes = [p \in 1..N |-> bytes[p]] /\ N \in Nat
  BY <1>1, <1>2 DEF N
<1>4. DOMAIN bytes = 1..N /\ Len(bytes) = N
  BY <1>3, FunctionIsSequence
<1>5. ASSUME NEW y \in 1..m, NEW x \in 1..n PROVE bytes[(y - 1) * n + x] = parts[y][x]
  <2> DEFINE p == (y - 1) * n + x
  <2>1. p \in 1..m * n /\ ((p - 1) \div n) + 1 = y /\ ((p - 1) % n) + 1 = x
    BY PlaceOfByte
  <2> HIDE DEF p
  <2>2. bytes[p] = parts[((p - 1) \div n) + 1][((p - 1) % n) + 1]
    BY <1>2, <2>1
  <2> QED BY <2>1, <2>2 DEF p
<1>6. ASSUME NEW T, \A y \in 1..m, x \in 1..n : parts[y][x] \in T PROVE bytes \in Seq(T)
  <2>1. ASSUME NEW p \in 1..m * n PROVE bytes[p] \in T
    <3>1. ((p - 1) \div n) + 1 \in 1..m /\ ((p - 1) % n) + 1 \in 1..n
      BY ByteOfPlace
    <3>2. bytes[p] = parts[((p - 1) \div n) + 1][((p - 1) % n) + 1]
      BY <1>2
    <3> QED BY <1>6, <3>1, <3>2
  <2>2. bytes \in [1..N -> T]
    BY <1>3, <2>1 DEF N
  <2> QED BY <1>3, <2>2
<1>7. Laid(parts, m, n, bytes)
  BY <1>5 DEF Laid
<1> QED BY <1>1, <1>4, <1>6, <1>7 DEF bytes, N

\* The n bytes behind o.
LEMMA BytesBehind ==
  ASSUME NEW bytes, NEW o \in Nat, NEW n \in Nat \ {0}, NEW T,
         \A x \in 1..n : bytes[o + x] \in T
  PROVE  LET piece == SubSeq(bytes, o + 1, o + n)
         IN  /\ piece \in Seq(T) /\ Len(piece) = n
             /\ \A x \in 1..n : piece[x] = bytes[o + x]
<1> DEFINE piece == SubSeq(bytes, o + 1, o + n)
<1>1. \A i \in o + 1..o + n : bytes[i] \in T
  <2> SUFFICES ASSUME NEW i \in o + 1..o + n PROVE bytes[i] \in T
    OBVIOUS
  <2>1. i - o \in 1..n /\ o + (i - o) = i
    OBVIOUS
  <2>2. bytes[o + (i - o)] \in T
    BY <2>1
  <2> QED BY <2>1, <2>2
<1>2. o + 1 \in Int /\ o + n \in Int /\ o + 1 <= o + n /\ (o + n) - (o + 1) + 1 = n
  OBVIOUS
<1>3. /\ piece \in Seq(T) /\ Len(piece) = n
      /\ \A i \in 1..n : piece[i] = bytes[(o + 1) + i - 1]
  BY <1>1, <1>2, SubSeqProperties
<1>4. \A i \in 1..n : (o + 1) + i - 1 = o + i
  OBVIOUS
<1> HIDE DEF piece
<1> QED BY <1>3, <1>4 DEF piece

\* And cutting the bytes gives the parts.
LEMMA PiecesAreParts ==
  ASSUME NEW m \in Nat, NEW n \in Nat \ {0}, NEW T, NEW parts,
         parts = [y \in 1..m |-> parts[y]],
         \A y \in 1..m : parts[y] \in Seq(T) /\ Len(parts[y]) = n,
         NEW bytes, Laid(parts, m, n, bytes)
  PROVE  Pieces(bytes, m, n) = parts
<1>1. ASSUME NEW y \in 1..m
      PROVE  SubSeq(bytes, (y - 1) * n + 1, y * n) = parts[y]
  <2>1. PICK o \in Nat : o = (y - 1) * n
    BY ProductGrows, y - 1 \in Nat
  <2>2. y * n = o + n
    BY <2>1
  <2>3. \A x \in 1..n : bytes[o + x] = parts[y][x] /\ parts[y][x] \in T
    BY <2>1, ElementOfSeq DEF Laid
  <2> DEFINE piece == SubSeq(bytes, o + 1, o + n)
  <2>5. /\ piece \in Seq(T) /\ Len(piece) = n
        /\ \A i \in 1..n : piece[i] = bytes[o + i]
    <3>1. \A x \in 1..n : bytes[o + x] \in T
      BY <2>3
    <3> QED BY <3>1, BytesBehind
  <2> HIDE DEF piece
  <2>6. piece = parts[y]
    <3> DEFINE part == parts[y]
    <3>1. part \in Seq(T) /\ Len(part) = n /\ \A i \in 1..n : piece[i] = part[i]
      BY <2>3, <2>5
    <3> HIDE DEF part
    <3>2. piece = part
      BY <2>5, <3>1, SeqEqual
    <3> QED BY <3>2 DEF part
  <2> QED BY <2>1, <2>2, <2>6 DEF piece
<1> QED BY <1>1 DEF Pieces

-----------------------------------------------------------------------------
(* The prediction.                                                          *)

\* Adding modulo m undoes subtracting modulo m.
LEMMA DifferenceModulo ==
  ASSUME NEW m \in Nat \ {0}, NEW a \in 0..m - 1, NEW b \in 0..m - 1
  PROVE  (a - b) % m \in 0..m - 1 /\ (((a - b) % m) + b) % m = a
<1>1. CASE b <= a
  <2>1. PICK c \in 0..m - 1 : c = a - b
    BY <1>1
  <2>2. (0 * m + c) % m = c /\ (0 * m + a) % m = a
    BY QuotientAndRest
  <2>3. 0 * m + c = a - b /\ 0 * m + a = c + b
    BY <2>1
  <2> QED BY <2>1, <2>2, <2>3
<1>2. CASE a < b
  <2>1. PICK c \in 0..m - 1 : c = a - b + m
    BY <1>2
  <2>2. ((-1) * m + c) % m = c /\ (1 * m + a) % m = a
    BY QuotientAndRest
  <2>3. (-1) * m + c = a - b /\ 1 * m + a = c + b
    BY <2>1
  <2> QED BY <2>1, <2>2, <2>3
<1> QED BY <1>1, <1>2

\* Sums undo differences.
LEMMA SumsOfDifferences ==
  ASSUME NEW n \in Nat, NEW m \in Nat \ {0}, NEW s \in [1..n -> 0..m - 1]
  PROVE  /\ Sums(Differences(s, m), m) = s
         /\ Differences(s, m) \in [1..n -> 0..m - 1]
<1> DEFINE d == Differences(s, m)
           AreSums(f) == f = [x \in DOMAIN d |-> IF x = 1 THEN d[1] ELSE (d[x] + f[x - 1]) % m]
           sums == Sums(d, m)
<1>1. d = [x \in 1..n |-> IF x = 1 THEN s[1] ELSE (s[x] - s[x - 1]) % m]
  BY DEF Differences
<1>2. ASSUME NEW x \in 1..n, x # 1
      PROVE  /\ d[x] \in 0..m - 1 /\ (d[x] + s[x - 1]) % m = s[x]
  <2>1. PICK a \in 0..m - 1, b \in 0..m - 1 : a = s[x] /\ b = s[x - 1]
    BY <1>2
  <2>2. d[x] = (a - b) % m
    BY <1>1, <1>2, <2>1
  <2>3. (a - b) % m \in 0..m - 1 /\ (((a - b) % m) + b) % m = a
    BY DifferenceModulo
  <2> QED BY <2>1, <2>2, <2>3
<1>3. d \in [1..n -> 0..m - 1]
  <2>1. ASSUME NEW x \in 1..n PROVE d[x] \in 0..m - 1
    <3>1. CASE x = 1
      BY <1>1, <3>1
    <3> QED BY <1>2, <3>1
  <2> QED BY <1>1, <2>1
<1>4. 1 \in 1..n => d[1] = s[1]
  BY <1>1
<1> HIDE DEF d
<1>5. AreSums(s)
  <2>1. ASSUME NEW x \in 1..n PROVE s[x] = IF x = 1 THEN d[1] ELSE (d[x] + s[x - 1]) % m
    BY <1>2, <1>4
  <2>2. s = [x \in 1..n |-> s[x]] /\ DOMAIN d = 1..n
    BY <1>3
  <2> QED BY <2>1, <2>2
<1>6. sums = CHOOSE f : AreSums(f)
  BY DEF Sums
<1>7. AreSums(sums)
  BY <1>5, <1>6
<1> HIDE DEF sums
<1>8. /\ DOMAIN sums = 1..n
      /\ \A x \in 1..n : sums[x] = IF x = 1 THEN d[1] ELSE (d[x] + sums[x - 1]) % m
      /\ sums = [x \in 1..n |-> sums[x]]
  BY <1>3, <1>7
<1>9. ASSUME NEW x \in 1..n PROVE sums[x] = s[x]
  <2> DEFINE S == {k \in Nat : k + 1 <= n => sums[k + 1] = s[k + 1]}
  <2>1. 0 \in S
    <3> SUFFICES ASSUME 0 + 1 <= n PROVE sums[0 + 1] = s[0 + 1]
      OBVIOUS
    <3>1. 1 \in 1..n /\ 0 + 1 = 1
      OBVIOUS
    <3>2. sums[1] = d[1]
      BY <1>8, <3>1
    <3> QED BY <1>4, <3>1, <3>2
  <2>2. ASSUME NEW k \in Nat, k \in S PROVE k + 1 \in S
    <3> SUFFICES ASSUME (k + 1) + 1 <= n PROVE sums[(k + 1) + 1] = s[(k + 1) + 1]
      OBVIOUS
    <3> DEFINE z == (k + 1) + 1
    <3>1. z \in 1..n /\ z # 1 /\ z - 1 = k + 1 /\ sums[k + 1] = s[k + 1]
      BY <2>2
    <3> HIDE DEF z
    <3>2. sums[z] = (d[z] + sums[z - 1]) % m
      BY <1>8, <3>1
    <3>3. (d[z] + s[z - 1]) % m = s[z]
      BY <1>2, <3>1
    <3>4. sums[z] = s[z]
      BY <3>1, <3>2, <3>3
    <3> QED BY <3>4 DEF z
  <2> HIDE DEF S
  <2>3. Nat \subseteq S
    BY <2>1, <2>2, SetInduction
  <2>4. x - 1 \in S /\ (x - 1) + 1 = x
    BY <2>3
  <2> QED BY <2>4 DEF S
<1>10. sums = s
  BY <1>8, <1>9
<1> QED BY <1>3, <1>10 DEF sums, d

\* A pixel of one or two bytes is a number below Modulus.
LEMMA PixelsAreNumbers ==
  ASSUME layer.size \in {1, 2}
  PROVE  /\ Modulus \in Nat \ {0}
         /\ \A pixel \in [1..layer.size -> Byte] :
              Value(pixel) \in 0..Modulus - 1 /\ PixelOf(Value(pixel)) = pixel
         /\ \A v \in 0..Modulus - 1 :
              PixelOf(v) \in [1..layer.size -> Byte] /\ Value(PixelOf(v)) = v
<1>1. PICK B \in Nat \ {0} : B = Base
  BY PackBitsAssumption DEF Base
<1>2. Byte = 0..B - 1
  BY <1>1 DEF Base, Byte
<1>3. CASE layer.size = 1
  <2>1. Modulus = B
    BY <1>1, <1>3 DEF Modulus
  <2>2. ASSUME NEW pixel \in [1..1 -> Byte]
        PROVE  Value(pixel) \in 0..B - 1 /\ PixelOf(Value(pixel)) = pixel
    <3>1. Value(pixel) = pixel[1] /\ PixelOf(Value(pixel)) = <<pixel[1]>> /\ pixel[1] \in Byte
      BY <1>3 DEF Value, PixelOf
    <3>2. pixel = <<pixel[1]>>
      OBVIOUS
    <3> QED BY <1>2, <3>1, <3>2
  <2>3. ASSUME NEW v \in 0..B - 1
        PROVE  PixelOf(v) \in [1..1 -> Byte] /\ Value(PixelOf(v)) = v
    <3>1. PixelOf(v) = <<v>>
      BY <1>3 DEF PixelOf
    <3>2. Value(<<v>>) = v
      BY <1>3 DEF Value
    <3>3. <<v>> \in [1..1 -> Byte]
      BY <1>2
    <3> QED BY <3>1, <3>2, <3>3
  <2> QED BY <1>3, <2>1, <2>2, <2>3
<1>4. CASE layer.size = 2
  <2>1. Modulus = B * B /\ B * B \in Nat \ {0}
    <3>1. Modulus = B * B
      BY <1>1, <1>4 DEF Modulus
    <3>2. 1 * B <= B * B /\ B * B \in Nat
      BY ProductGrows, 1 <= B
    <3> QED BY <3>1, <3>2
  <2>2. ASSUME NEW pixel \in [1..2 -> Byte]
        PROVE  Value(pixel) \in 0..B * B - 1 /\ PixelOf(Value(pixel)) = pixel
    <3>1. PICK q \in 0..B - 1, r \in 0..B - 1 : q = pixel[1] /\ r = pixel[2]
      BY <1>2
    <3>2. Value(pixel) = q * B + r
      BY <1>1, <1>4, <3>1 DEF Value
    <3>3. PixelOf(q * B + r) = <<q, r>>
      <4>1. (q * B + r) \div B = q /\ (q * B + r) % B = r
        BY QuotientAndRest
      <4> QED BY <1>1, <1>4, <4>1 DEF PixelOf
    <3>4. pixel = <<q, r>>
      BY <3>1
    <3>5. q * B + r \in 0..B * B - 1
      <4>1. q + 1 \in 1..B /\ r + 1 \in 1..B
        OBVIOUS
      <4>2. ((q + 1) - 1) * B + (r + 1) \in 1..B * B
        BY <4>1, PlaceOfByte
      <4>3. ((q + 1) - 1) * B + (r + 1) = (q * B + r) + 1 /\ q * B \in Nat
        BY ProductGrows
      <4> QED BY <2>1, <4>2, <4>3
    <3> QED BY <3>2, <3>3, <3>4, <3>5
  <2>3. ASSUME NEW v \in 0..B * B - 1
        PROVE  PixelOf(v) \in [1..2 -> Byte] /\ Value(PixelOf(v)) = v
    <3>1. PICK q \in 0..B - 1, r \in 0..B - 1 : q = v \div B /\ r = v % B /\ v = q * B + r
      <4>1. v + 1 \in 1..B * B
        BY <2>1
      <4>2. /\ (((v + 1) - 1) \div B) + 1 \in 1..B /\ (((v + 1) - 1) % B) + 1 \in 1..B
            /\ v + 1 = ((((v + 1) - 1) \div B) + 1 - 1) * B + ((((v + 1) - 1) % B) + 1)
        BY <4>1, ByteOfPlace
      <4>3. (v + 1) - 1 = v /\ v \in Nat
        BY <2>1
      <4>4. v \div B \in Int /\ v % B \in Int
        BY <4>3
      <4>5. v \div B \in 0..B - 1 /\ v % B \in 0..B - 1
        BY <4>2, <4>3, <4>4
      <4>6. v = (v \div B) * B + (v % B)
        BY <4>3
      <4> QED BY <4>5, <4>6
    <3>2. PixelOf(v) = <<q, r>>
      BY <1>1, <1>4, <3>1 DEF PixelOf
    <3>3. Value(<<q, r>>) = q * B + r
      BY <1>1, <1>4 DEF Value
    <3>4. <<q, r>> \in [1..2 -> Byte]
      BY <1>2
    <3> QED BY <3>1, <3>2, <3>3, <3>4
  <2> QED BY <1>4, <2>1, <2>2, <2>3
<1> QED BY <1>3, <1>4

\* A row of pixels is what its bytes are the pixels of.
LEMMA RowAsBytes ==
  ASSUME layer.size \in {1, 2, 4}, NEW row \in Seq([1..layer.size -> Byte]), row # <<>>
  PROVE  /\ Len(row) \in Nat \ {0}
         /\ BytesOf(row) \in Seq(Byte) /\ Len(BytesOf(row)) = Len(row) * layer.size
         /\ PixelsOf(BytesOf(row)) = row
<1>1. PICK W \in Nat \ {0}, n \in Nat \ {0} : W = Len(row) /\ n = layer.size
  BY EmptySeq
<1>2. ASSUME NEW x \in 1..W
      PROVE  row[x] \in Seq(Byte) /\ Len(row[x]) = n /\ \A k \in 1..n : row[x][k] \in Byte
  <2>1. row[x] \in [1..n -> Byte]
    BY <1>1, ElementOfSeq
  <2> QED BY <2>1
<1>3. /\ Len(BytesOf(row)) = W * n /\ W * n \in Nat /\ BytesOf(row) \in Seq(Byte)
      /\ Laid(row, W, n, BytesOf(row))
  <2>1. \A x \in 1..W, k \in 1..n : row[x][k] \in Byte
    BY <1>2
  <2>2. BytesOf(row) = Contiguous(row, n)
    BY <1>1 DEF BytesOf
  <2> DEFINE bytes == Contiguous(row, n)
  <2>3. /\ Len(bytes) = W * n /\ W * n \in Nat /\ Laid(row, W, n, bytes)
        /\ \A T : (\A x \in 1..W, k \in 1..n : row[x][k] \in T) => bytes \in Seq(T)
    <3>1. W \in Nat /\ Len(row) = W
      BY <1>1
    <3> QED BY <3>1, ContiguousParts
  <2> HIDE DEF bytes
  <2>4. bytes \in Seq(Byte)
    BY <2>1, <2>3
  <2> QED BY <2>2, <2>3, <2>4 DEF bytes
<1>4. (W * n) \div n = W
  <2>1. (W * n + 0) \div n = W
    BY QuotientAndRest
  <2> QED BY <1>3, <2>1
<1>5. row = [x \in 1..W |-> row[x]]
  BY <1>1, LenProperties
<1>6. Pieces(BytesOf(row), W, n) = row
  <2>1. \A x \in 1..W : row[x] \in Seq(Byte) /\ Len(row[x]) = n
    BY <1>2
  <2> QED BY <1>3, <1>5, <2>1, PiecesAreParts
<1>7. PixelsOf(BytesOf(row)) = row
  BY <1>1, <1>3, <1>4, <1>5, <1>6 DEF PixelsOf
<1> QED BY <1>1, <1>3, <1>7

\* Planes of bytes are a row again when they are interleaved.
LEMMA PlanesComeBack ==
  ASSUME NEW row \in Seq([1..4 -> Byte]), row # <<>>
  PROVE  /\ Planar(row) \in [1..4 * Len(row) -> Byte]
         /\ Interleaved(Planar(row)) = row
<1>1. PICK W \in Nat \ {0} : W = Len(row)
  BY EmptySeq
<1> DEFINE planes == Planar(row)
<1>2. planes = [p \in 1..4 * W |-> row[((p - 1) % W) + 1][((p - 1) \div W) + 1]]
  BY <1>1 DEF Planar
<1>3. \A x \in 1..W : row[x] \in [1..4 -> Byte]
  BY <1>1, ElementOfSeq
<1> HIDE DEF planes
<1>4. planes \in [1..4 * W -> Byte]
  <2>1. ASSUME NEW p \in 1..4 * W PROVE planes[p] \in Byte
    <3>1. ((p - 1) \div W) + 1 \in 1..4 /\ ((p - 1) % W) + 1 \in 1..W
      BY ByteOfPlace
    <3> QED BY <1>2, <1>3, <3>1
  <2> QED BY <1>2, <2>1
<1>5. ASSUME NEW x \in 1..W, NEW k \in 1..4 PROVE planes[(k - 1) * W + x] = row[x][k]
  <2> DEFINE p == (k - 1) * W + x
  <2>1. p \in 1..4 * W /\ ((p - 1) \div W) + 1 = k /\ ((p - 1) % W) + 1 = x
    <3>1. PICK m \in Nat : m = 4
      OBVIOUS
    <3>2. ASSUME NEW y \in 1..m
          PROVE  LET z == (y - 1) * W + x
                 IN  z \in 1..m * W /\ ((z - 1) \div W) + 1 = y /\ ((z - 1) % W) + 1 = x
      BY PlaceOfByte
    <3> QED BY <3>1, <3>2
  <2> HIDE DEF p
  <2>2. planes[p] = row[((p - 1) % W) + 1][((p - 1) \div W) + 1]
    BY <1>2, <2>1
  <2> QED BY <2>1, <2>2 DEF p
<1>6. Len(planes) = 4 * W /\ (4 * W) \div 4 = W
  <2>1. 4 * W \in Nat
    OBVIOUS
  <2>2. planes = [p \in 1..4 * W |-> planes[p]]
    BY <1>4
  <2> QED BY <2>1, <2>2, FunctionIsSequence
<1>7. Interleaved(planes) = [x \in 1..W |-> [k \in 1..4 |-> planes[(k - 1) * W + x]]]
  BY <1>6 DEF Interleaved
<1>8. ASSUME NEW x \in 1..W PROVE [k \in 1..4 |-> planes[(k - 1) * W + x]] = row[x]
  <2>1. row[x] = [k \in 1..4 |-> row[x][k]]
    BY <1>3
  <2> QED BY <1>5, <2>1
<1>9. row = [x \in 1..W |-> row[x]]
  BY <1>1, LenProperties
<1>10. Interleaved(planes) = row
  BY <1>7, <1>8, <1>9
<1> QED BY <1>1, <1>4, <1>10 DEF planes

\* A row that was predicted has as many bytes as it had, and comes back.
LEMMA PredictionComesBack ==
  ASSUME layer.size \in {1, 2, 4}, NEW row \in Seq([1..layer.size -> Byte]), row # <<>>
  PROVE  /\ PredictionEncode(row) \in Seq(Byte)
         /\ Len(PredictionEncode(row)) = Len(row) * layer.size
         /\ RemovePredictionEncoding(PredictionEncode(row)) = row
<1>1. PICK W \in Nat \ {0} : W = Len(row)
  BY EmptySeq
<1>2. PICK B \in Nat \ {0} : B = Base /\ Byte = 0..B - 1
  BY PackBitsAssumption DEF Base, Byte
<1>3. CASE layer.size = 4
  <2>1. Planar(row) \in [1..4 * W -> 0..B - 1] /\ Interleaved(Planar(row)) = row
    BY <1>1, <1>2, <1>3, PlanesComeBack
  <2> DEFINE N == 4 * W
             encoded == Differences(Planar(row), B)
  <2>2. N \in Nat /\ Planar(row) \in [1..N -> 0..B - 1]
    BY <2>1
  <2> HIDE DEF N
  <2>3. Sums(encoded, B) = Planar(row) /\ encoded \in [1..N -> 0..B - 1]
    BY <2>2, SumsOfDifferences
  <2>4. PredictionEncode(row) = encoded
    BY <1>2, <1>3 DEF PredictionEncode
  <2> HIDE DEF encoded
  <2>5. encoded \in Seq(Byte) /\ Len(encoded) = N
    BY <1>2, <2>2, <2>3
  <2>6. RemovePredictionEncoding(encoded) = row
    BY <1>2, <1>3, <2>1, <2>3 DEF RemovePredictionEncoding
  <2>7. N = W * 4
    BY DEF N
  <2> QED BY <1>1, <1>3, <2>4, <2>5, <2>6, <2>7
<1>4. CASE layer.size \in {1, 2}
  <2>1. PICK M \in Nat \ {0} :
          /\ M = Modulus
          /\ \A pixel \in [1..layer.size -> Byte] :
               Value(pixel) \in 0..M - 1 /\ PixelOf(Value(pixel)) = pixel
          /\ \A v \in 0..M - 1 :
               PixelOf(v) \in [1..layer.size -> Byte] /\ Value(PixelOf(v)) = v
    BY <1>4, PixelsAreNumbers
  <2> DEFINE values == [x \in DOMAIN row |-> Value(row[x])]
             d == Differences(values, M)
             encoded == [x \in DOMAIN row |-> PixelOf(d[x])]
  <2>2. DOMAIN row = 1..W /\ \A x \in 1..W : row[x] \in [1..layer.size -> Byte]
    BY <1>1, ElementOfSeq, LenProperties
  <2>3. values \in [1..W -> 0..M - 1]
    BY <2>1, <2>2
  <2>4. \A x \in 1..W : PixelOf(values[x]) = row[x]
    BY <2>1, <2>2
  <2>5. PredictionEncode(row) = BytesOf(encoded)
    BY <1>4, <2>1, <2>2 DEF PredictionEncode
  <2> HIDE DEF values
  <2>6. Sums(d, M) = values /\ d \in [1..W -> 0..M - 1]
    BY <2>3, SumsOfDifferences
  <2> HIDE DEF d
  <2>7. encoded \in [1..W -> [1..layer.size -> Byte]]
    BY <2>1, <2>2, <2>6
  <2>8. \A x \in 1..W : Value(encoded[x]) = d[x]
    BY <2>1, <2>2, <2>6
  <2> HIDE DEF encoded
  <2>9. encoded \in Seq([1..layer.size -> Byte]) /\ Len(encoded) = W /\ encoded # <<>>
        /\ DOMAIN encoded = 1..W
    BY <2>7
  <2>10. /\ BytesOf(encoded) \in Seq(Byte) /\ Len(BytesOf(encoded)) = W * layer.size
         /\ PixelsOf(BytesOf(encoded)) = encoded
    BY <2>9, RowAsBytes
  <2>11. [x \in DOMAIN encoded |-> Value(encoded[x])] = d
    BY <2>6, <2>8, <2>9
  <2>12. RemovePredictionEncoding(BytesOf(encoded)) = [x \in DOMAIN values |-> PixelOf(values[x])]
    BY <1>4, <2>1, <2>6, <2>10, <2>11 DEF RemovePredictionEncoding
  <2>13. [x \in DOMAIN values |-> PixelOf(values[x])] = row
    <3>1. row = [x \in 1..W |-> row[x]]
      BY <1>1, LenProperties
    <3> QED BY <2>3, <2>4, <3>1
  <2> QED BY <1>1, <2>5, <2>10, <2>12, <2>13
<1> QED BY <1>3, <1>4

-----------------------------------------------------------------------------
(* The sizes of channels and of the buffers.                                *)

\* What a layer's channels are made of.
LEMMA ChannelFacts ==
  ASSUME layer \in Layers, NEW c \in DOMAIN layer.channels
  PROVE  LET ch == layer.channels[c]
         IN  /\ layer.size \in {1, 2, 4}
             /\ Width(ch) \in Nat \ {0} /\ Height(ch) \in Nat \ {0}
             /\ RowBytes(ch) = Width(ch) * layer.size /\ RowBytes(ch) \in Nat \ {0}
             /\ DOMAIN ch.rows = 1..Height(ch)
             /\ \A y \in 1..Height(ch) :
                  /\ ch.rows[y] \in Seq([1..layer.size -> Byte]) /\ ch.rows[y] # <<>>
                  /\ Len(ch.rows[y]) = Width(ch)
                  /\ BytesOf(ch.rows[y]) \in Seq(Byte)
                  /\ Len(BytesOf(ch.rows[y])) = RowBytes(ch)
<1> DEFINE ch == layer.channels[c]
           T == [1..layer.size -> Byte]
<1>1. layer.size \in {1, 2, 4} /\ IsChannel(ch, layer.size)
  BY ChannelCodecAssumption
<1>2. /\ ch.rows \in Seq(Seq(T)) /\ ch.rows # <<>>
      /\ \A y \in DOMAIN ch.rows : ch.rows[y] # <<>> /\ Len(ch.rows[y]) = Len(ch.rows[1])
  BY <1>1 DEF IsChannel
<1> HIDE DEF ch
<1>3. Height(ch) \in Nat \ {0} /\ DOMAIN ch.rows = 1..Height(ch)
  BY <1>2, EmptySeq, LenProperties DEF Height
<1>4. ASSUME NEW y \in 1..Height(ch)
      PROVE  ch.rows[y] \in Seq(T) /\ ch.rows[y] # <<>> /\ Len(ch.rows[y]) = Width(ch)
  <2>1. y \in 1..Len(ch.rows) /\ y \in DOMAIN ch.rows
    BY <1>3 DEF Height
  <2>2. ch.rows[y] \in Seq(T)
    BY <1>2, <2>1, ElementOfSeq
  <2> QED BY <1>2, <2>1, <2>2 DEF Width
<1>5. Width(ch) \in Nat \ {0}
  <2>1. 1 \in 1..Height(ch)
    BY <1>3
  <2>2. ch.rows[1] \in Seq(T) /\ ch.rows[1] # <<>> /\ Len(ch.rows[1]) = Width(ch)
    BY <1>4, <2>1
  <2> QED BY <2>2, EmptySeq
<1>6. RowBytes(ch) = Width(ch) * layer.size /\ RowBytes(ch) \in Nat \ {0}
  <2>1. RowBytes(ch) = Width(ch) * layer.size
    BY DEF RowBytes
  <2> QED BY <1>1, <1>5, <2>1
<1>7. ASSUME NEW y \in 1..Height(ch)
      PROVE  BytesOf(ch.rows[y]) \in Seq(Byte) /\ Len(BytesOf(ch.rows[y])) = RowBytes(ch)
  <2> DEFINE row == ch.rows[y]
  <2>1. row \in Seq([1..layer.size -> Byte]) /\ row # <<>> /\ Len(row) = Width(ch)
    BY <1>4
  <2> HIDE DEF row
  <2>2. BytesOf(row) \in Seq(Byte) /\ Len(BytesOf(row)) = Len(row) * layer.size
    BY <1>1, <2>1, RowAsBytes
  <2> QED BY <1>6, <2>1, <2>2 DEF row
<1> QED BY <1>1, <1>3, <1>4, <1>5, <1>6, <1>7 DEF ch

\* A few naturals have a greatest one.
LEMMA GreatestOfFew ==
  ASSUME NEW n \in Nat \ {0}, NEW f \in [1..n -> Nat]
  PROVE  \E i \in 1..n : \A j \in 1..n : f[j] <= f[i]
<1> DEFINE S == {k \in Nat : k + 1 <= n => \E i \in 1..k + 1 : \A j \in 1..k + 1 : f[j] <= f[i]}
<1>1. 0 \in S
  <2> SUFFICES \E i \in 1..0 + 1 : \A j \in 1..0 + 1 : f[j] <= f[i]
    OBVIOUS
  <2>1. 1 \in 1..0 + 1 /\ \A j \in 1..0 + 1 : j = 1
    OBVIOUS
  <2>2. f[1] <= f[1]
    OBVIOUS
  <2> QED BY <2>1, <2>2
<1>2. ASSUME NEW k \in Nat, k \in S PROVE k + 1 \in S
  <2> SUFFICES ASSUME (k + 1) + 1 <= n
               PROVE  \E i \in 1..(k + 1) + 1 : \A j \in 1..(k + 1) + 1 : f[j] <= f[i]
    OBVIOUS
  <2>1. PICK i \in 1..k + 1 : \A j \in 1..k + 1 : f[j] <= f[i]
    BY <1>2
  <2> DEFINE z == (k + 1) + 1
  <2>2. /\ z \in 1..n /\ z \in 1..z /\ i \in 1..z /\ f[z] \in Nat /\ f[i] \in Nat
        /\ \A j \in 1..z : j = z \/ j \in 1..k + 1
        /\ \A j \in 1..z : f[j] \in Nat
    OBVIOUS
  <2> HIDE DEF z
  <2>3. CASE f[z] <= f[i]
    BY <2>1, <2>2, <2>3 DEF z
  <2>4. CASE f[i] <= f[z]
    <3>1. ASSUME NEW j \in 1..z PROVE f[j] <= f[z]
      <4>1. CASE j = z
        BY <2>2, <4>1
      <4>2. CASE j \in 1..k + 1
        BY <2>1, <2>2, <2>4, <4>2
      <4> QED BY <2>2, <4>1, <4>2
    <3> QED BY <2>2, <3>1 DEF z
  <2> QED BY <2>2, <2>3, <2>4
<1> HIDE DEF S
<1>3. Nat \subseteq S
  BY <1>1, <1>2, SetInduction
<1>4. n - 1 \in S /\ (n - 1) + 1 = n
  BY <1>3
<1> QED BY <1>4 DEF S

\* The maximum of finitely many natural numbers is the greatest of them.
LEMMA MaxOfFew ==
  ASSUME NEW n \in Nat \ {0}, NEW f \in [1..n -> Nat]
  PROVE  LET m == Max({f[i] : i \in 1..n})
         IN  m \in Nat /\ \A i \in 1..n : f[i] <= m
<1> DEFINE S == {f[i] : i \in 1..n}
<1>1. S \subseteq Nat /\ \A i \in 1..n : f[i] \in S
  OBVIOUS
<1>2. \E x \in S : \A y \in S : x >= y
  BY GreatestOfFew
<1> HIDE DEF S
<1>3. Max(S) \in S /\ \A y \in S : Max(S) >= y
  BY <1>2 DEF Max
<1>4. Max(S) \in Nat /\ \A i \in 1..n : f[i] <= Max(S)
  BY <1>1, <1>3
<1> QED BY <1>4 DEF S

\* The greatest extents are at least those of every channel.
LEMMA Extents ==
  ASSUME layer \in Layers, NEW c \in DOMAIN layer.channels
  PROVE  /\ Greatest(Width) \in Nat /\ Width(layer.channels[c]) <= Greatest(Width)
         /\ Greatest(Height) \in Nat /\ Height(layer.channels[c]) <= Greatest(Height)
<1>1. PICK n \in Nat \ {0} : DOMAIN layer.channels = 1..n
  <2>1. layer.channels \in Seq(Range(layer.channels)) /\ layer.channels # <<>>
    BY ChannelCodecAssumption
  <2> QED BY <2>1, EmptySeq, LenProperties
<1>2. \A i \in 1..n : /\ Width(layer.channels[i]) \in Nat
                      /\ Height(layer.channels[i]) \in Nat
  BY <1>1, ChannelFacts
<1>3. Greatest(Width) \in Nat /\ \A i \in 1..n : Width(layer.channels[i]) <= Greatest(Width)
  <2> DEFINE f == [i \in 1..n |-> Width(layer.channels[i])]
  <2>1. f \in [1..n -> Nat]
    BY <1>2
  <2>2. \A i \in 1..n : f[i] = Width(layer.channels[i])
    OBVIOUS
  <2>3. Greatest(Width) = Max({f[i] : i \in 1..n})
    <3>1. {Width(layer.channels[i]) : i \in DOMAIN layer.channels} = {f[i] : i \in 1..n}
      BY <1>1, <2>2
    <3> QED BY <3>1 DEF Greatest
  <2> HIDE DEF f
  <2>4. Max({f[i] : i \in 1..n}) \in Nat /\ \A i \in 1..n : f[i] <= Max({f[j] : j \in 1..n})
    BY <2>1, MaxOfFew
  <2> QED BY <2>2, <2>3, <2>4
<1>4. Greatest(Height) \in Nat /\ \A i \in 1..n : Height(layer.channels[i]) <= Greatest(Height)
  <2> DEFINE f == [i \in 1..n |-> Height(layer.channels[i])]
  <2>1. f \in [1..n -> Nat]
    BY <1>2
  <2>2. \A i \in 1..n : f[i] = Height(layer.channels[i])
    OBVIOUS
  <2>3. Greatest(Height) = Max({f[i] : i \in 1..n})
    <3>1. {Height(layer.channels[i]) : i \in DOMAIN layer.channels} = {f[i] : i \in 1..n}
      BY <1>1, <2>2
    <3> QED BY <3>1 DEF Greatest
  <2> HIDE DEF f
  <2>4. Max({f[i] : i \in 1..n}) \in Nat /\ \A i \in 1..n : f[i] <= Max({f[j] : j \in 1..n})
    BY <2>1, MaxOfFew
  <2> QED BY <2>2, <2>3, <2>4
<1> QED BY <1>1, <1>3, <1>4

\* A wider scanline has no smaller span.
LEMMA SpansGrow ==
  ASSUME NEW w \in Nat, NEW v \in Nat, w <= v
  PROVE  /\ MaxScanlineSize(w, 1) \in Nat /\ MaxScanlineSize(v, 1) \in Nat
         /\ MaxScanlineSize(w, 1) <= MaxScanlineSize(v, 1)
<1> DEFINE n(x) == x \div 3 + (IF x % 3 # 0 THEN 1 ELSE 0)
<1>1. PICK a \in Nat, b \in Nat : a = n(w) /\ b = n(v)
  OBVIOUS
<1>2. a <= b
  BY <1>1
<1>3. MaxScanlineSize(w, 1) = w + (a + ((w + a) % 2))
  BY <1>1 DEF MaxScanlineSize, WorstOverhead
<1>4. MaxScanlineSize(v, 1) = v + (b + ((v + b) % 2))
  BY <1>1 DEF MaxScanlineSize, WorstOverhead
<1> HIDE DEF n
<1>5. PICK r \in 0..1, q \in 0..1 : r = (w + a) % 2 /\ q = (v + b) % 2
  OBVIOUS
<1>6. w + a + r <= v + b + q
  <2>1. CASE w + a = v + b
    BY <1>5, <2>1
  <2>2. CASE w + a < v + b
    BY <1>5, <2>2
  <2> QED BY <1>2, <2>1, <2>2
<1> QED BY <1>3, <1>4, <1>5, <1>6

\* The scratch buffer has a size, and room for the spans of every channel.
LEMMA ScratchIsEnough ==
  ASSUME RleIsOfBytes, layer \in Layers
  PROVE  /\ ScratchSize \in Nat
         /\ at \in DOMAIN layer.channels /\ CodecOf(Channel) = "Rle"
              => Span * Height(Channel) <= ScratchSize
<1>1. layer.channels \in Seq(Range(layer.channels)) /\ layer.channels # <<>>
      /\ layer.size \in {1, 2, 4}
  BY ChannelCodecAssumption
<1>2. 1 \in DOMAIN layer.channels
  BY <1>1, EmptySeq, LenProperties
<1>3. PICK W \in Nat, H \in Nat : W = Greatest(Width) /\ H = Greatest(Height)
  BY <1>2, Extents
<1> DEFINE zip == ZipBound(Greatest(Width) * Greatest(Height) * layer.size)
           rle == MaxCompressedSize(H, W)
           IsRle == \E c \in DOMAIN layer.channels : layer.channels[c].codec = "Rle"
<1>4. zip \in Nat
  BY <1>1, <1>3 DEF ZipBound
<1>5. ScratchSize = IF IsRle THEN Max({rle, zip}) ELSE zip
  BY <1>3 DEF ScratchSize
<1> HIDE DEF zip, rle
<1>6. CASE ~IsRle
  <2>1. ~(at \in DOMAIN layer.channels /\ CodecOf(Channel) = "Rle")
    BY <1>6 DEF CodecOf, Channel
  <2> HIDE DEF IsRle
  <2> QED BY <1>4, <1>5, <1>6, <2>1
<1>7. CASE IsRle
  <2>1. layer.size = 1
    BY <1>7 DEF RleIsOfBytes
  <2>2. PICK m \in Nat : m = MaxScanlineSize(W, 1)
    BY SpansGrow
  <2>3. H * m \in Nat
    OBVIOUS
  <2>4. TableSize(H) \in Nat
    BY DEF TableSize
  <2>5. rle = H * m + TableSize(H)
    BY <2>1, <2>2 DEF rle, MaxCompressedSize
  <2>6. rle \in Nat /\ H * m <= rle
    BY <2>3, <2>4, <2>5
  <2> HIDE DEF IsRle
  <2>7. ScratchSize \in Nat /\ rle <= ScratchSize
    <3>1. ScratchSize = Max({rle, zip})
      BY <1>5, <1>7
    <3>2. \E x \in {rle, zip} : \A y \in {rle, zip} : x >= y
      BY <1>4, <2>6
    <3>3. Max({rle, zip}) \in {rle, zip} /\ \A y \in {rle, zip} : Max({rle, zip}) >= y
      BY <3>2 DEF Max
    <3> QED BY <1>4, <2>6, <3>1, <3>3
  <2>8. ASSUME at \in DOMAIN layer.channels, CodecOf(Channel) = "Rle"
        PROVE  Span * Height(Channel) <= ScratchSize
    <3>1. PICK w \in Nat, h \in Nat : /\ w = Width(Channel) /\ h = Height(Channel)
                                      /\ w <= W /\ h <= H
      BY <1>3, <2>8, ChannelFacts, Extents DEF Channel
    <3>2. PICK s \in Nat : s = MaxScanlineSize(w, 1) /\ s <= m
      BY <2>2, <3>1, SpansGrow
    <3>3. Span = s
      BY <2>1, <3>1, <3>2 DEF Span
    <3>4. s * h <= H * m
      <4>1. s * h <= m * h
        BY <3>1, <3>2, ProductGrows
      <4>2. h * m <= H * m /\ h * m \in Nat
        BY <3>1, ProductGrows
      <4>3. m * h = h * m
        OBVIOUS
      <4>4. s * h \in Nat
        BY ProductGrows
      <4> QED BY <2>3, <4>1, <4>2, <4>3, <4>4
    <3>5. s * h \in Nat
      OBVIOUS
    <3> QED BY <2>3, <2>6, <2>7, <3>1, <3>3, <3>4, <3>5
  <2> QED BY <2>7, <2>8
<1> QED BY <1>6, <1>7

\* The buffer that is read into, and that it holds every channel.
BufferSize == Greatest(Width) * Greatest(Height) * layer.size

LEMMA BufferIsEnough ==
  ASSUME layer \in Layers, NEW c \in DOMAIN layer.channels
  PROVE  LET ch == layer.channels[c]
         IN  BufferSize \in Nat /\ Height(ch) * RowBytes(ch) <= BufferSize
<1> DEFINE ch == layer.channels[c]
<1>1. PICK w \in Nat, h \in Nat, W \in Nat, H \in Nat, n \in Nat :
        /\ w = Width(ch) /\ h = Height(ch) /\ W = Greatest(Width) /\ H = Greatest(Height)
        /\ w <= W /\ h <= H /\ n = layer.size /\ RowBytes(ch) = w * n
  <2>1. /\ Width(ch) \in Nat /\ Height(ch) \in Nat /\ layer.size \in Nat
        /\ RowBytes(ch) = Width(ch) * layer.size
    BY ChannelFacts
  <2>2. /\ Greatest(Width) \in Nat /\ Width(ch) <= Greatest(Width)
        /\ Greatest(Height) \in Nat /\ Height(ch) <= Greatest(Height)
    BY Extents
  <2> HIDE DEF ch
  <2> QED BY <2>1, <2>2
<1>2. w * H <= W * H /\ W * H \in Nat /\ w * H \in Nat /\ h * w <= H * w
  BY <1>1, ProductGrows
<1>3. h * w <= W * H /\ h * w \in Nat
  <2>1. H * w = w * H
    OBVIOUS
  <2> QED BY <1>2, <2>1
<1>4. (h * w) * n <= (W * H) * n /\ (W * H) * n \in Nat
  BY <1>2, <1>3, ProductGrows
<1>5. h * (w * n) = (h * w) * n
  OBVIOUS
<1> HIDE DEF ch
<1> QED BY <1>1, <1>4, <1>5 DEF BufferSize, ch

-----------------------------------------------------------------------------
(* What the file, the buffers and the result are made of.                   *)

\* The table of a PSD file has room for the size of a scanline: of one byte to a
\* pixel, as wide as the format allows, it is far below 2^16.
EntriesFit ==
  \A l \in Layers : \A c \in DOMAIN l.channels :
    l.version = "Psd" /\ l.channels[c].codec = "Rle"
      => MaxScanlineSize(Width(l.channels[c]), 1) < EntryLimit

\* Span, of any channel.
SpanOf(ch) == MaxScanlineSize(Width(ch), layer.size)

\* The task of scanline y has packed in its span what its encoder has packed.
RowPacked(buf, y, task, ch) ==
  /\ Packs(buf, (y - 1) * SpanOf(ch), task.written, BytesOf(ch.rows[y]),
           IF task.ended THEN RowBytes(ch) ELSE Packed(task.encoder))
  /\ task.ended \in BOOLEAN
  /\ IF task.ended THEN task.encoder.at = RowBytes(ch)
     ELSE Pending(BytesOf(ch.rows[y]), task.encoder)

\* A table whose entries are the lengths of the packed scanlines.
RowsStored(body, ch) ==
  /\ Len(body.entries) = Height(ch) /\ DOMAIN body.entries = 1..Height(ch)
  /\ \A y \in 1..Height(ch) : body.entries[y] \in Nat
  /\ Len(body.bytes) = Ends(body.entries)[Height(ch)]
  /\ \A y \in 1..Height(ch) :
       Packs(body.bytes, Ends(body.entries)[y - 1], body.entries[y],
             BytesOf(ch.rows[y]), RowBytes(ch))

\* The bytes of a channel, and its predicted bytes.
Plain(ch) == Contiguous([y \in DOMAIN ch.rows |-> BytesOf(ch.rows[y])], RowBytes(ch))

Predicted(ch) == Contiguous([y \in DOMAIN ch.rows |-> PredictionEncode(ch.rows[y])], RowBytes(ch))

\* What the file has of a channel.
Stored(entry, ch) ==
  /\ entry.codec = CodecOf(ch) /\ entry.codec \in Codecs
  /\ entry.codec = "Rle" => RowsStored(entry.body, ch)
  /\ entry.codec = "Raw" => entry.body = Plain(ch)
  /\ entry.codec = "Zip" => entry.body = Deflate(Plain(ch))
  /\ entry.codec = "ZipPrediction" => entry.body = Deflate(Predicted(ch))

\* The task of scanline y is at a packet, and what is before it is in the buffer.
SpanRead(buf, y, s, body, ch) ==
  LET o    == Ends(body.entries)[y - 1]
      line == BytesOf(ch.rows[y])
  IN  /\ DOMAIN s = {"next", "end", "filled"}
      /\ \E pos, p :
           /\ IsPacking(pos, body.bytes, o, body.entries[y], line, RowBytes(ch))
           /\ p \in DOMAIN pos
           /\ s.next = o + p /\ s.end = o + body.entries[y] /\ s.filled = pos[p]
           /\ \A j \in 1..pos[p] : buf[(y - 1) * RowBytes(ch) + j] = line[j]

\* What is to be read of a channel.
Expected(ch) == [y \in DOMAIN ch.rows |-> BytesOf(ch.rows[y])]

\* A sequence, of whatever it is.
IsSeq(s) == \E T : s \in Seq(T)

\* While channels are compressed: every task has packed what its encoder has packed.
Writing ==
  /\ phase \in {"compress", "rows"}
  /\ at \in 1..Len(layer.channels) + 1
  /\ Len(file) = at - 1 /\ result = <<>> /\ spans = <<>>
  /\ DOMAIN scratch = 1..ScratchSize /\ Len(scratch) = ScratchSize
  /\ phase = "rows" => /\ Len(rows) = Height(Channel)
                       /\ \A y \in DOMAIN rows : RowPacked(scratch, y, rows[y], Channel)

\* While channels are read: those before the one at hand were read, and every task
\* has unpacked what is before its next packet.
Reading ==
  /\ phase \in {"read", "spans", "done"}
  /\ at \in 1..Len(layer.channels) + 1
  /\ Len(file) = Len(layer.channels)
  /\ IsSeq(result) /\ Len(result) = at - 1
  /\ \A c \in 1..at - 1 : result[c] = Expected(layer.channels[c])
  /\ DOMAIN buffer = 1..BufferSize
  /\ phase = "done" => at = Len(layer.channels) + 1
  /\ IF phase = "spans"
     THEN /\ at \in DOMAIN layer.channels /\ file[at].codec = "Rle"
          /\ DOMAIN spans = 1..Height(Channel)
          /\ \A y \in 1..Height(Channel) : SpanRead(buffer, y, spans[y], file[at].body, Channel)
     ELSE spans = <<>>

\* The invariant: what the file has is what the channels are made of.
Contents ==
  /\ IsSeq(file)
  /\ \A c \in 1..Len(file) : Stored(file[c], layer.channels[c])
  /\ Writing \/ Reading

-----------------------------------------------------------------------------
(* Compressing keeps it.                                                    *)

\* What a layer's channels are does not change.
LEMMA LayerStays ==
  ASSUME layer' = layer
  PROVE  /\ \A ch : RowBytes(ch)' = RowBytes(ch) /\ SpanOf(ch)' = SpanOf(ch)
                    /\ Expected(ch)' = Expected(ch)
         /\ \A row : BytesOf(row)' = BytesOf(row)
         /\ \A buf, y, task, ch : RowPacked(buf, y, task, ch)' <=> RowPacked(buf, y, task, ch)
         /\ \A entry, ch : Stored(entry, ch)' <=> Stored(entry, ch)
         /\ \A buf, y, s, body, ch :
              SpanRead(buf, y, s, body, ch)' <=> SpanRead(buf, y, s, body, ch)
         /\ ScratchSize' = ScratchSize /\ BufferSize' = BufferSize
<1>1. \A row : BytesOf(row)' = BytesOf(row)
  BY DEF BytesOf
<1>2. \A ch : RowBytes(ch)' = RowBytes(ch) /\ SpanOf(ch)' = SpanOf(ch)
  BY DEF RowBytes, SpanOf, Width
<1>3. \A ch : Expected(ch)' = Expected(ch)
  BY <1>1 DEF Expected
<1>4. \A buf, y, task, ch : RowPacked(buf, y, task, ch)' <=> RowPacked(buf, y, task, ch)
  BY <1>1, <1>2 DEF RowPacked
<1>5. \A buf, y, s, body, ch :
              SpanRead(buf, y, s, body, ch)' <=> SpanRead(buf, y, s, body, ch)
  BY <1>1, <1>2 DEF SpanRead
<1>6. \A entry, ch : Stored(entry, ch)' <=> Stored(entry, ch)
  <2>1. \A row : PredictionEncode(row)' = PredictionEncode(row)
    BY <1>1 DEF PredictionEncode, Modulus, Value, PixelOf
  <2>2. \A ch : Plain(ch)' = Plain(ch) /\ Predicted(ch)' = Predicted(ch) /\ CodecOf(ch)' = CodecOf(ch)
    BY <1>1, <1>2, <2>1 DEF Plain, Predicted, CodecOf
  <2>3. \A body, ch : RowsStored(body, ch)' <=> RowsStored(body, ch)
    BY <1>1, <1>2 DEF RowsStored, Height
  <2> QED BY <2>2, <2>3 DEF Stored
<1>7. ScratchSize' = ScratchSize /\ BufferSize' = BufferSize
  BY DEF ScratchSize, BufferSize, Greatest, MaxCompressedSize, TableSize
<1> QED BY <1>1, <1>2, <1>3, <1>4, <1>5, <1>6, <1>7

\* The spans of two scanlines have no byte in common.
LEMMA SpansApart ==
  ASSUME NEW H \in Nat, NEW S \in Nat, NEW y \in 1..H, NEW z \in 1..H, NEW i \in 1..S
  PROVE  /\ (y - 1) * S \in Nat /\ (y - 1) * S + S <= H * S /\ H * S \in Nat
         /\ (z - 1) * S + i \in 1..H * S
         /\ z # y => \/ (z - 1) * S + i <= (y - 1) * S
                     \/ (z - 1) * S + i > (y - 1) * S + S
<1>1. PICK a \in Nat, b \in Nat : a = y - 1 /\ b = z - 1
  OBVIOUS
<1>2. /\ a * S \in Nat /\ (a + 1) * S = a * S + S /\ (a + 1) * S <= H * S /\ H * S \in Nat
      /\ b * S \in Nat /\ (b + 1) * S = b * S + S /\ (b + 1) * S <= H * S
  <2>1. a + 1 \in Nat /\ a + 1 <= H /\ b + 1 \in Nat /\ b + 1 <= H /\ a <= a + 1 /\ b <= b + 1
    BY <1>1
  <2>2. (a + 1) * S <= H * S /\ H * S \in Nat /\ (b + 1) * S <= H * S
    BY <2>1, ProductGrows
  <2>3. a * S \in Nat /\ b * S \in Nat
    BY <2>1, ProductGrows
  <2>4. (a + 1) * S = a * S + S /\ (b + 1) * S = b * S + S
    OBVIOUS
  <2> QED BY <2>2, <2>3, <2>4
<1>3. CASE b < a
  <2>1. (b + 1) * S <= a * S
    BY <1>3, ProductGrows, b + 1 <= a
  <2> QED BY <1>1, <1>2, <2>1
<1>4. CASE a < b
  <2>1. (a + 1) * S <= b * S
    BY <1>4, ProductGrows, a + 1 <= b
  <2> QED BY <1>1, <1>2, <2>1
<1>5. CASE a = b
  BY <1>1, <1>2, <1>5
<1> QED BY <1>3, <1>4, <1>5

\* The channels that are read stay what they are.
LEMMA ResultStays ==
  ASSUME Reading, layer' = layer, result' = result
  PROVE  /\ IsSeq(result)'
         /\ \A c \in 1..at - 1 : result'[c] = Expected(layer.channels[c])'
<1>1. IsSeq(result)'
  BY DEF Reading, IsSeq
<1>2. ASSUME NEW c \in 1..at - 1 PROVE result'[c] = Expected(layer.channels[c])'
  <2>1. result'[c] = Expected(layer.channels[c])
    BY DEF Reading
  <2>2. PICK ch : ch = layer.channels[c]
    OBVIOUS
  <2>3. Expected(ch)' = Expected(ch)
    BY LayerStays
  <2>4. Expected(layer.channels[c])' = Expected(ch)'
    BY <2>2 DEF Expected
  <2> QED BY <2>1, <2>2, <2>3, <2>4
<1> QED BY <1>1, <1>2

\* The channels that are stored stay what they are.
LEMMA FileStays ==
  ASSUME Contents, layer' = layer, file' = file
  PROVE  /\ IsSeq(file)'
         /\ \A c \in 1..Len(file') : Stored(file[c], layer.channels[c])'
<1>1. IsSeq(file)'
  BY DEF Contents, IsSeq
<1>2. ASSUME NEW c \in 1..Len(file') PROVE Stored(file[c], layer.channels[c])'
  <2>1. Stored(file[c], layer.channels[c])
    BY DEF Contents
  <2>2. \A ent, chan : Stored(ent, chan)' <=> Stored(ent, chan)
    BY LayerStays
  <2> QED BY <2>1, <2>2 DEF Stored
<1> QED BY <1>1, <1>2

\* Behind what the task has packed these bytes pack what it says next.
Continues(y, out, e, ended) ==
  \A b : /\ Packs(b, (y - 1) * Span, rows[y].written, Line(y), Packed(rows[y].encoder))
         /\ Stands(b, (y - 1) * Span + rows[y].written, out)
         => /\ Packs(b, (y - 1) * Span, rows[y].written + Len(out), Line(y),
                     IF ended THEN RowBytes(Channel) ELSE Packed(e))
            /\ IF ended THEN e.at = RowBytes(Channel) ELSE Pending(Line(y), e)

\* What a task writes packs more of its scanline and leaves the other spans alone.
LEMMA EmitKeepsContents ==
  ASSUME RleIsOfBytes, Inv, Contents, phase = "rows",
         NEW y \in DOMAIN rows, ~rows[y].ended,
         NEW out, Len(out) \in Nat, DOMAIN out = 1..Len(out), NEW e, NEW ended \in BOOLEAN,
         Emit(y, out, e, ended),
         rows[y].written + Len(out) <= Span,
         Continues(y, out, e, ended)
  PROVE  Contents'
<1> DEFINE H == Height(Channel)
           task == [encoder |-> e, written |-> rows[y].written + Len(out), ended |-> ended]
<1>1. /\ scratch' = Filled(scratch, (y - 1) * Span + rows[y].written, out)
      /\ rows' = [rows EXCEPT ![y] = task]
      /\ layer' = layer /\ phase' = "rows" /\ at' = at /\ file' = file
      /\ spans' = spans /\ result' = result
  BY DEF Emit
<1>2. /\ layer \in Layers /\ at \in DOMAIN layer.channels /\ CodecOf(Channel) = "Rle"
      /\ DOMAIN rows = 1..H
      /\ \A z \in 1..H : rows[z].written \in Nat /\ rows[z].written <= Span
  <2>1. /\ layer \in Layers /\ at \in DOMAIN layer.channels /\ CodecOf(Channel) = "Rle"
        /\ DOMAIN rows = 1..H
        /\ \A z \in 1..H : TaskOK(rows[z], RowBytes(Channel))
    BY DEF Inv, TasksOK
  <2>2. Span = MaxScanlineSize(RowBytes(Channel), 1)
    BY <2>1, RleLines
  <2> QED BY <2>1, <2>2 DEF TaskOK
<1>3. Writing
  BY DEF Contents, Reading
<1>4. /\ Channel' = Channel /\ ScratchSize' = ScratchSize /\ RowBytes(Channel)' = RowBytes(Channel)
      /\ \A buf, z, t, ch : RowPacked(buf, z, t, ch)' <=> RowPacked(buf, z, t, ch)
  <2>1. Channel' = Channel
    BY <1>1 DEF Channel
  <2> QED BY <1>1, <2>1, LayerStays DEF RowBytes, Width
<1>5. PICK h \in Nat, S \in Nat, N \in Nat :
        h = H /\ S = Span /\ N = ScratchSize /\ h * S <= N
  <2>1. H \in Nat
    BY <1>2, ChannelFacts DEF Channel
  <2>2. Span \in Nat
    <3>1. RowBytes(Channel) \in Nat /\ Span = MaxScanlineSize(RowBytes(Channel), 1)
      BY <1>2, RleLines
    <3> QED BY <3>1, SpansGrow
  <2>3. ScratchSize \in Nat /\ Span * H <= ScratchSize
    BY <1>2, ScratchIsEnough
  <2>4. H * Span = Span * H
    BY <2>1, <2>2
  <2> QED BY <2>1, <2>2, <2>3, <2>4
<1>6. y \in 1..h /\ rows[y].written \in Nat /\ SpanOf(Channel) = S
  BY <1>2, <1>5 DEF SpanOf, Span
<1> DEFINE o == (y - 1) * S
           w == rows[y].written
           n == Len(out)
<1>7. w + n <= S /\ w \in Nat /\ n \in Nat
  BY <1>5, <1>6
<1>8. o \in Nat /\ o + S <= N /\ o + w \in Nat /\ o + w + n <= N
  <2>1. o \in Nat /\ o + S <= h * S /\ h * S \in Nat
    <3>1. S \in Nat /\ y \in 1..h
      BY <1>6
    <3>2. y - 1 \in Nat /\ y \in Nat /\ y <= h /\ y - 1 <= h
      BY <3>1
    <3>3. (y - 1) * S \in Nat /\ y * S <= h * S /\ h * S \in Nat
      BY <3>2, ProductGrows
    <3>4. y * S = (y - 1) * S + S
      BY <3>2
    <3> QED BY <3>3, <3>4
  <2> HIDE DEF o
  <2> QED BY <1>5, <1>7, <2>1
<1>9. /\ DOMAIN scratch' = 1..N /\ Len(scratch') = N
      /\ Stands(scratch', o + w, out)
      /\ \A p \in 1..N : p <= o + w \/ p > o + w + n => scratch'[p] = scratch[p]
  <2>1. DOMAIN scratch = 1..N
    BY <1>3, <1>5 DEF Writing
  <2>2. scratch' = Filled(scratch, o + w, out)
    BY <1>1, <1>5
  <2>3. PICK m \in Nat : m = o + w /\ m + Len(out) <= N
    BY <1>8
  <2> DEFINE buf == scratch
             more == Filled(buf, m, out)
  <2>4. scratch' = more /\ DOMAIN buf = 1..N
    BY <2>1, <2>2, <2>3
  <2> HIDE DEF o, w, n, H, task, buf
  <2>5. Put(more, buf, N, m, out)
    BY <2>4, FilledBuffer
  <2> HIDE DEF more
  <2> QED BY <2>3, <2>4, <2>5 DEF buf, n, Put
<1>10. ASSUME NEW z \in 1..h PROVE RowPacked(scratch, z, rows[z], Channel)
  BY <1>2, <1>3, <1>5 DEF Writing
<1>11. RowPacked(scratch', y, task, Channel)
  <2>1. Packs(scratch, o, w, Line(y), Packed(rows[y].encoder))
    BY <1>6, <1>10 DEF RowPacked, Line
  <2> DEFINE k == Packed(rows[y].encoder)
  <2>2. k \in Nat
    BY <1>2, <1>6, TaskUnderWay DEF EncoderOK, Packed, Encoders
  <2>3. \A i \in 1..w : scratch'[o + i] = scratch[o + i]
    <3> HIDE DEF o, w, n
    <3> QED BY <1>7, <1>8, <1>9
  <2>4. Packs(scratch', o, w, Line(y), k)
    <3> HIDE DEF o, w, k
    <3> QED BY <1>7, <1>8, <2>1, <2>2, <2>3, PackingMoves DEF k
  <2>5. /\ Packs(scratch', o, w + n, Line(y), IF ended THEN RowBytes(Channel) ELSE Packed(e))
        /\ IF ended THEN e.at = RowBytes(Channel) ELSE Pending(Line(y), e)
    BY <1>5, <1>9, <2>4 DEF Continues
  <2>6. task.written = w + n /\ task.ended = ended /\ task.encoder = e
    OBVIOUS
  <2> HIDE DEF task
  <2> QED BY <1>6, <2>5, <2>6 DEF RowPacked, Line
<1>12. ASSUME NEW z \in 1..h, z # y PROVE RowPacked(scratch', z, rows[z], Channel)
  <2> DEFINE a == (z - 1) * S
             v == rows[z].written
             k == IF rows[z].ended THEN RowBytes(Channel) ELSE Packed(rows[z].encoder)
             line == BytesOf(Channel.rows[z])
  <2>1. Packs(scratch, a, v, line, k)
    BY <1>6, <1>10 DEF RowPacked
  <2>2. k \in Nat /\ v \in Nat /\ v <= S
    <3>1. z \in DOMAIN rows /\ z \in 1..H
      BY <1>2, <1>5
    <3>2. rows[z].written \in Nat /\ rows[z].written <= Span
      BY <1>2, <3>1
    <3>3. EncoderOK(rows[z].encoder, RowBytes(Channel)) /\ RowBytes(Channel) \in Nat
      BY <3>1, TaskUnderWay
    <3>4. Packed(rows[z].encoder) \in Nat
      BY <3>3 DEF EncoderOK, Packed, Encoders
    <3> QED BY <1>5, <3>2, <3>3, <3>4
  <2>3. ASSUME NEW i \in 1..v PROVE scratch'[a + i] = scratch[a + i]
    <3>1. i \in 1..S
      BY <2>2
    <3>2. a + i \in 1..h * S /\ (a + i <= o \/ a + i > o + S)
      BY <1>6, <1>12, <3>1, SpansApart
    <3>3. a + i \in 1..N
      BY <1>5, <3>2
    <3> HIDE DEF a, o, w, n
    <3> QED BY <1>7, <1>8, <1>9, <3>2, <3>3
  <2>4. a \in Nat
    BY ProductGrows, z - 1 \in Nat
  <2> HIDE DEF a, v, k, line
  <2>5. Packs(scratch', a, v, line, k)
    BY <2>1, <2>2, <2>3, <2>4, PackingMoves
  <2> QED BY <1>6, <1>10, <2>5 DEF RowPacked, a, v, k, line
<1>13. ASSUME NEW z \in DOMAIN rows' PROVE RowPacked(scratch, z, rows[z], Channel)'
  <2>1. z \in 1..h /\ rows'[z] = IF z = y THEN task ELSE rows[z]
    BY <1>1, <1>2, <1>5
  <2>2. RowPacked(scratch', z, rows'[z], Channel)
    BY <1>11, <1>12, <2>1
  <2> HIDE DEF task
  <2> QED BY <1>4, <2>2 DEF RowPacked
<1>14. Len(rows') = h
  <2>1. rows' = [z \in 1..h |-> rows'[z]]
    BY <1>1, <1>2, <1>5
  <2> QED BY <2>1, FunctionIsSequence
<1>15. Height(Channel)' = h
  BY <1>4, <1>5 DEF Height
<1>16. Writing'
  <2>1. at \in 1..Len(layer.channels) + 1 /\ Len(file) = at - 1 /\ result = <<>> /\ spans = <<>>
    BY <1>3 DEF Writing
  <2> HIDE DEF task, H, o, w, n
  <2> QED BY <1>1, <1>4, <1>5, <1>9, <1>13, <1>14, <1>15, <2>1 DEF Writing
<1> QED BY <1>1, <1>16, FileStays DEF Contents

\* What a task under way has: its scanline, and that what it packed stands in its span.
LEMMA TaskContents ==
  ASSUME RleIsOfBytes, Inv, Contents, phase = "rows", NEW y \in DOMAIN rows,
         rows[y].encoder.at < RowBytes(Channel) \/ ~rows[y].ended
  PROVE  /\ ~rows[y].ended
         /\ rows[y].written \in Nat /\ (y - 1) * Span \in Nat
         /\ Line(y) \in Seq(Byte) /\ Len(Line(y)) = RowBytes(Channel)
         /\ RowBytes(Channel) \in Nat
         /\ EncoderOK(rows[y].encoder, RowBytes(Channel))
         /\ Paid(rows[y].encoder, rows[y].written)
         /\ Pending(Line(y), rows[y].encoder)
         /\ \A n : n <= MaxScanlineSize(RowBytes(Channel), 1) => n <= Span
<1>1. /\ layer \in Layers /\ at \in DOMAIN layer.channels /\ CodecOf(Channel) = "Rle"
      /\ y \in 1..Height(Channel)
  BY DEF Inv, TasksOK
<1>2. Writing
  BY DEF Contents, Reading
<1>3. RowPacked(scratch, y, rows[y], Channel)
  BY <1>2 DEF Writing
<1>4. /\ rows[y].written \in Nat
      /\ EncoderOK(rows[y].encoder, RowBytes(Channel))
      /\ RowBytes(Channel) \in Nat \ {0}
      /\ Paid(rows[y].encoder, rows[y].written)
  BY TaskUnderWay
<1>5. ~rows[y].ended
  BY <1>3, <1>4 DEF RowPacked
<1>6. Pending(Line(y), rows[y].encoder)
  BY <1>3, <1>5 DEF RowPacked, Line
<1>7. Line(y) \in Seq(Byte) /\ Len(Line(y)) = RowBytes(Channel) /\ Height(Channel) \in Nat
  BY <1>1, ChannelFacts DEF Line, Channel
<1>8. Span = MaxScanlineSize(RowBytes(Channel), 1) /\ Span \in Nat
  BY <1>1, <1>4, RleLines, SpansGrow
<1>9. (y - 1) * Span \in Nat
  <2>1. PICK S \in Nat : S = Span
    BY <1>8
  <2>2. PICK a \in Nat : a = y - 1
    BY <1>1, <1>7
  <2>3. a * S \in Nat
    BY ProductGrows
  <2> QED BY <2>1, <2>2, <2>3
<1> QED BY <1>4, <1>5, <1>6, <1>7, <1>8, <1>9

\* A step of Same adds its packet to the packing of its span and disturbs no other one.
LEMMA SameKeepsContents ==
  ASSUME RleIsOfBytes, Inv, Contents, NEW y \in DOMAIN rows, Same(y)
  PROVE  Contents'
<1> DEFINE r == rows[y]
           line == Line(y)
           out == SameOut(line, r.encoder)
           e == SameNext(r.encoder)
           o == (y - 1) * Span
<1>1. /\ phase = "rows" /\ r.encoder.at < RowBytes(Channel) /\ IsSame(line, r.encoder)
      /\ Emit(y, out, e, FALSE)
  BY DEF Same
<1>2. /\ ~r.ended
      /\ r.written \in Nat /\ o \in Nat
      /\ line \in Seq(Byte) /\ Len(line) = RowBytes(Channel) /\ RowBytes(Channel) \in Nat
      /\ EncoderOK(r.encoder, RowBytes(Channel))
      /\ Paid(r.encoder, r.written)
      /\ Pending(line, r.encoder)
      /\ \A n : n <= MaxScanlineSize(RowBytes(Channel), 1) => n <= Span
  BY <1>1, TaskContents
<1>3. /\ out \in Seq(Byte \cup Int) /\ Len(out) \in Nat
      /\ EncoderOK(e, RowBytes(Channel))
      /\ Paid(e, r.written + Len(out))
  <2> HIDE DEF r, line
  <2> QED BY <1>1, <1>2, SameKeepsTheAccount
<1>4. DOMAIN out = 1..Len(out)
  BY <1>3, LenProperties
<1>5. r.written + Len(out) <= Span
  <2> HIDE DEF out, e, r
  <2> QED BY <1>2, <1>3, PaidFits
<1>6. ASSUME NEW b, Packs(b, o, r.written, line, Packed(r.encoder)), Stands(b, o + r.written, out)
      PROVE  Packs(b, o, r.written + Len(out), line, Packed(e)) /\ Pending(line, e)
  <2> HIDE DEF r, line, o
  <2> QED BY <1>1, <1>2, <1>6, SamePacks
<1>7. Continues(y, out, e, FALSE)
  BY <1>6 DEF Continues
<1> HIDE DEF out, e
<1> QED BY <1>1, <1>2, <1>3, <1>4, <1>5, <1>7, EmitKeepsContents


\* So does a step of Differ.
LEMMA DifferKeepsContents ==
  ASSUME RleIsOfBytes, Inv, Contents, NEW y \in DOMAIN rows, Differ(y)
  PROVE  Contents'
<1> DEFINE r == rows[y]
           line == Line(y)
           out == DifferOut(line, r.encoder)
           e == DifferNext(r.encoder)
           o == (y - 1) * Span
<1>1. /\ phase = "rows" /\ r.encoder.at < RowBytes(Channel) /\ ~IsSame(line, r.encoder)
      /\ Emit(y, out, e, FALSE)
  BY DEF Differ
<1>2. /\ ~r.ended
      /\ r.written \in Nat /\ o \in Nat
      /\ line \in Seq(Byte) /\ Len(line) = RowBytes(Channel) /\ RowBytes(Channel) \in Nat
      /\ EncoderOK(r.encoder, RowBytes(Channel))
      /\ Paid(r.encoder, r.written)
      /\ Pending(line, r.encoder)
      /\ \A n : n <= MaxScanlineSize(RowBytes(Channel), 1) => n <= Span
  BY <1>1, TaskContents
<1>3. /\ out \in Seq(Byte \cup Int) /\ Len(out) \in Nat
      /\ EncoderOK(e, RowBytes(Channel))
      /\ Paid(e, r.written + Len(out))
  <2> HIDE DEF r, line
  <2> QED BY <1>1, <1>2, DifferKeepsTheAccount
<1>4. DOMAIN out = 1..Len(out)
  BY <1>3, LenProperties
<1>5. r.written + Len(out) <= Span
  <2> HIDE DEF out, e, r
  <2> QED BY <1>2, <1>3, PaidFits
<1>6. ASSUME NEW b, Packs(b, o, r.written, line, Packed(r.encoder)), Stands(b, o + r.written, out)
      PROVE  Packs(b, o, r.written + Len(out), line, Packed(e)) /\ Pending(line, e)
  <2> HIDE DEF r, line, o
  <2> QED BY <1>1, <1>2, <1>6, DifferPacks
<1>7. Continues(y, out, e, FALSE)
  BY <1>6 DEF Continues
<1> HIDE DEF out, e
<1> QED BY <1>1, <1>2, <1>3, <1>4, <1>5, <1>7, EmitKeepsContents


\* So does the last step of a task.
LEMMA EndRowKeepsContents ==
  ASSUME RleIsOfBytes, Inv, Contents, NEW y \in DOMAIN rows, EndRow(y)
  PROVE  Contents'
<1> DEFINE r == rows[y]
           line == Line(y)
           end == EndOut(line, r.encoder)
           out == end \o Padding(r.written + Len(end))
           e == r.encoder
           o == (y - 1) * Span
<1>1. /\ phase = "rows" /\ r.encoder.at = RowBytes(Channel) /\ ~r.ended
      /\ Emit(y, out, e, TRUE)
  BY DEF EndRow
<1>2. /\ ~r.ended
      /\ r.written \in Nat /\ o \in Nat
      /\ line \in Seq(Byte) /\ Len(line) = RowBytes(Channel) /\ RowBytes(Channel) \in Nat
      /\ EncoderOK(r.encoder, RowBytes(Channel))
      /\ Paid(r.encoder, r.written)
      /\ Pending(line, r.encoder)
      /\ \A n : n <= MaxScanlineSize(RowBytes(Channel), 1) => n <= Span
  BY <1>1, TaskContents
<1>3. /\ out \in Seq(Byte \cup Int) /\ Len(out) \in Nat
      /\ r.written + Len(out) <= MaxScanlineSize(RowBytes(Channel), 1)
  <2> HIDE DEF r, line
  <2> QED BY <1>1, <1>2, EndFits
<1>4. DOMAIN out = 1..Len(out)
  BY <1>3, LenProperties
<1>5. r.written + Len(out) <= Span
  <2> HIDE DEF out, e, r
  <2> QED BY <1>2, <1>3
<1>6. ASSUME NEW b, Packs(b, o, r.written, line, Packed(r.encoder)), Stands(b, o + r.written, out)
      PROVE  Packs(b, o, r.written + Len(out), line, RowBytes(Channel))
  <2> HIDE DEF r, line, o
  <2> QED BY <1>1, <1>2, <1>6, EndPacks
<1>7. Continues(y, out, e, TRUE)
  BY <1>1, <1>6 DEF Continues
<1> HIDE DEF out, e
<1> QED BY <1>1, <1>2, <1>3, <1>4, <1>5, <1>7, EmitKeepsContents

\* One more behind a sequence.
LEMMA OneMore ==
  ASSUME NEW s, IsSeq(s), NEW x
  PROVE  /\ IsSeq(Append(s, x)) /\ Len(Append(s, x)) = Len(s) + 1 /\ Len(s) \in Nat
         /\ \A i \in 1..Len(s) : Append(s, x)[i] = s[i]
         /\ Append(s, x)[Len(s) + 1] = x
<1>1. PICK T : s \in Seq(T)
  BY DEF IsSeq
<1>2. s \in Seq(T \cup {x}) /\ Len(s) \in Nat
  BY <1>1
<1>3. /\ Append(s, x) \in Seq(T \cup {x}) /\ Len(Append(s, x)) = Len(s) + 1
      /\ \A i \in 1..Len(s) : Append(s, x)[i] = s[i]
      /\ Append(s, x)[Len(s) + 1] = x
  BY <1>2, AppendProperties
<1> QED BY <1>2, <1>3 DEF IsSeq

\* One channel more is stored.
LEMMA FileGrows ==
  ASSUME Contents, layer' = layer, at \in Nat, at \in DOMAIN layer.channels, Len(file) = at - 1,
         NEW entry, file' = Append(file, entry), Stored(entry, Channel)
  PROVE  /\ IsSeq(file)'
         /\ Len(file') = at
         /\ \A c \in 1..Len(file') : Stored(file[c], layer.channels[c])'
<1>1. /\ IsSeq(file') /\ Len(file') = Len(file) + 1 /\ Len(file) \in Nat
      /\ \A i \in 1..Len(file) : file'[i] = file[i]
      /\ file'[Len(file) + 1] = entry
  BY OneMore DEF Contents
<1>2. IsSeq(file)'
  BY <1>1 DEF IsSeq
<1>3. Len(file') = at
  <2>1. PICK n \in Nat : n = Len(file)
    BY <1>1
  <2> QED BY <1>1, <2>1
<1>4. ASSUME NEW c \in 1..Len(file') PROVE Stored(file[c], layer.channels[c])'
  <2>1. Stored(file'[c], layer.channels[c])
    BY <1>1, <1>3 DEF Contents, Channel
  <2>2. PICK x, ch : x = file'[c] /\ ch = layer'.channels[c]
    OBVIOUS
  <2>3. Stored(x, ch)
    BY <2>1, <2>2
  <2>4. Stored(x, ch)'
    BY <2>3, LayerStays
  <2> QED BY <2>2, <2>4 DEF Stored
<1> QED BY <1>2, <1>3, <1>4

\* The number of channels of a layer.
LEMMA ChannelsOfLayer ==
  ASSUME layer \in Layers
  PROVE  /\ Len(layer.channels) \in Nat \ {0}
         /\ DOMAIN layer.channels = 1..Len(layer.channels)
<1>1. layer.channels \in Seq(Range(layer.channels)) /\ layer.channels # <<>>
  BY ChannelCodecAssumption
<1> QED BY <1>1, EmptySeq, LenProperties

\* It holds at the beginning.
LEMMA InitContents ==
  ASSUME RleIsOfBytes, Init
  PROVE  Contents
<1>1. /\ layer \in Layers /\ phase = "compress" /\ at = 1 /\ file = <<>> /\ result = <<>>
      /\ spans = <<>> /\ scratch = [p \in 1..ScratchSize |-> 0]
  BY DEF Init
<1>2. ScratchSize \in Nat
  BY <1>1, ScratchIsEnough
<1>3. DOMAIN scratch = 1..ScratchSize /\ Len(scratch) = ScratchSize
  <2>1. PICK n \in Nat : n = ScratchSize
    BY <1>2
  <2>2. scratch = [p \in 1..n |-> scratch[p]]
    BY <1>1, <2>1
  <2> QED BY <2>1, <2>2, FunctionIsSequence
<1>4. IsSeq(file) /\ Len(file) = 0
  <2>1. <<>> \in Seq({}) /\ Len(<<>>) = 0
    OBVIOUS
  <2> QED BY <1>1, <2>1 DEF IsSeq
<1>5. at \in 1..Len(layer.channels) + 1
  BY <1>1, ChannelsOfLayer
<1>6. Writing
  <2>1. /\ phase \in {"compress", "rows"} /\ phase # "rows" /\ result = <<>> /\ spans = <<>>
        /\ Len(file) = at - 1
    BY <1>1, <1>4
  <2> QED BY <1>3, <1>5, <2>1 DEF Writing
<1>7. \A c \in 1..Len(file) : Stored(file[c], layer.channels[c])
  BY <1>4
<1> QED BY <1>4, <1>6, <1>7 DEF Contents

\* A channel with any other codec is stored whole.
LEMMA CompressWholeKeepsContents ==
  ASSUME RleIsOfBytes, Inv, Contents, CompressWhole
  PROVE  Contents'
<1> DEFINE codec == CodecOf(Channel)
           body  == CASE codec = "Raw" -> Plain(Channel)
                      [] codec = "Zip" -> Deflate(Plain(Channel))
                      [] codec = "ZipPrediction" -> Deflate(Predicted(Channel))
           entry == [codec |-> codec, body |-> body]
<1>1. /\ phase = "compress" /\ at <= Len(layer.channels) /\ codec # "Rle"
      /\ file' = Append(file, entry)
      /\ at' = at + 1 /\ layer' = layer /\ phase' = phase /\ scratch' = scratch
      /\ rows' = rows /\ result' = result /\ spans' = spans
  BY DEF CompressWhole, Plain, Predicted
<1>2. /\ layer \in Layers /\ at \in Nat \ {0} /\ at \in DOMAIN layer.channels
      /\ at + 1 \in 1..Len(layer.channels) + 1
  BY <1>1, ChannelsOfLayer DEF Inv
<1>3. Writing
  BY <1>1 DEF Contents, Reading
<1>4. codec \in Codecs
  <2>1. Channel.codec \in Codecs
    BY <1>2, ChannelCodecAssumption DEF IsChannel, Channel
  <2> QED BY <2>1 DEF CodecOf, Codecs
<1>5. Stored(entry, Channel)
  <2>1. entry.codec = codec /\ entry.body = body
    OBVIOUS
  <2> HIDE DEF entry
  <2>2. codec = "Raw" => body = Plain(Channel)
    OBVIOUS
  <2>3. codec = "Zip" => body = Deflate(Plain(Channel))
    OBVIOUS
  <2>4. codec = "ZipPrediction" => body = Deflate(Predicted(Channel))
    OBVIOUS
  <2> HIDE DEF body
  <2> QED BY <1>1, <1>4, <2>1, <2>2, <2>3, <2>4 DEF Stored
<1> HIDE DEF entry
<1>6. /\ IsSeq(file)' /\ Len(file') = at
      /\ \A c \in 1..Len(file') : Stored(file[c], layer.channels[c])'
  <2>1. Len(file) = at - 1
    BY <1>3 DEF Writing
  <2> QED BY <1>1, <1>2, <1>5, <2>1, FileGrows
<1>7. Writing'
  <2>1. ScratchSize' = ScratchSize
    BY <1>1, LayerStays
  <2> QED BY <1>1, <1>2, <1>3, <1>6, <2>1 DEF Writing
<1> QED BY <1>6, <1>7 DEF Contents

\* The spans of the scanlines have room, and no scanline is packed yet.
LEMMA BeginRowsKeepsContents ==
  ASSUME RleIsOfBytes, Inv, Contents, BeginRows
  PROVE  Contents'
<1> DEFINE begun == [encoder |-> Fresh, written |-> 0, ended |-> FALSE]
           H == Height(Channel)
<1>1. /\ phase = "compress" /\ at <= Len(layer.channels) /\ CodecOf(Channel) = "Rle"
      /\ layer' = layer /\ at' = at /\ scratch' = scratch /\ file' = file
      /\ result' = result /\ spans' = spans
      /\ ~(Span * H > Len(scratch)) => phase' = "rows" /\ rows' = [y \in 1..H |-> begun]
  BY DEF BeginRows
<1>2. layer \in Layers /\ at \in DOMAIN layer.channels
  BY <1>1, ChannelsOfLayer DEF Inv
<1>3. Writing
  BY <1>1 DEF Contents, Reading
<1>4. ScratchSize \in Nat /\ Span * H <= ScratchSize /\ Len(scratch) = ScratchSize
  BY <1>1, <1>2, <1>3, ScratchIsEnough DEF Writing
<1>5. Span \in Nat /\ H \in Nat
  <2>1. RowBytes(Channel) \in Nat /\ Span = MaxScanlineSize(RowBytes(Channel), 1)
    BY <1>1, <1>2, RleLines
  <2>2. H \in Nat
    BY <1>2, ChannelFacts DEF Channel
  <2> QED BY <2>1, <2>2, SpansGrow
<1>6. phase' = "rows" /\ rows' = [y \in 1..H |-> begun]
  <2>1. PICK s \in Nat, h \in Nat : s = Span /\ h = H
    BY <1>5
  <2>2. s * h \in Nat
    BY <2>1, ProductGrows
  <2>3. Span * H \in Nat
    BY <2>1, <2>2
  <2> QED BY <1>1, <1>4, <2>3
<1>7. /\ Channel' = Channel /\ ScratchSize' = ScratchSize /\ Height(Channel)' = H
      /\ \A buf, z, t, ch : RowPacked(buf, z, t, ch)' <=> RowPacked(buf, z, t, ch)
  <2>1. Channel' = Channel
    BY <1>1 DEF Channel
  <2> QED BY <1>1, <2>1, LayerStays DEF Height
<1>8. ASSUME NEW y \in 1..H PROVE RowPacked(scratch, y, begun, Channel)
  <2> DEFINE o == (y - 1) * SpanOf(Channel)
             line == BytesOf(Channel.rows[y])
  <2>1. o \in Nat
    <3>1. PICK s \in Nat, a \in Nat : s = SpanOf(Channel) /\ a = y - 1
      BY <1>5 DEF SpanOf, Span
    <3>2. a * s \in Nat
      BY <3>1, ProductGrows
    <3> QED BY <3>1, <3>2
  <2>2. begun.written = 0 /\ begun.ended = FALSE /\ begun.encoder = Fresh
    OBVIOUS
  <2>3. Packed(Fresh) = 0 /\ Pending(line, Fresh)
    <3>1. Fresh.at = 1 /\ Fresh.run = 0 /\ Fresh.literal = 0
      BY DEF Fresh
    <3>2. \A j \in 1 - 0..1 : j = 1
      OBVIOUS
    <3> QED BY <3>1, <3>2 DEF Packed, Pending
  <2> HIDE DEF o, line, begun
  <2>4. Packs(scratch, o, 0, line, 0)
    BY <2>1, NothingPacks
  <2> QED BY <2>2, <2>3, <2>4 DEF RowPacked, o, line
<1>9. /\ DOMAIN rows' = 1..H /\ Len(rows') = H
      /\ \A y \in 1..H : rows'[y] = begun
  <2> HIDE DEF begun
  <2>1. DOMAIN rows' = 1..H /\ rows' = [y \in 1..H |-> rows'[y]] /\ \A y \in 1..H : rows'[y] = begun
    BY <1>6
  <2>2. PICK h \in Nat : h = H
    BY <1>5
  <2> QED BY <2>1, <2>2, FunctionIsSequence
<1> HIDE DEF begun, H
<1>10. ASSUME NEW y \in DOMAIN rows' PROVE RowPacked(scratch, y, rows[y], Channel)'
  <2>1. RowPacked(scratch', y, rows'[y], Channel)
    BY <1>1, <1>8, <1>9
  <2> QED BY <1>7, <2>1 DEF RowPacked
<1>11. Writing'
  <2>1. /\ at \in 1..Len(layer.channels) + 1 /\ Len(file) = at - 1 /\ result = <<>> /\ spans = <<>>
        /\ DOMAIN scratch = 1..ScratchSize
    BY <1>3 DEF Writing
  <2> QED BY <1>1, <1>4, <1>6, <1>7, <1>9, <1>10, <2>1 DEF Writing
<1> QED BY <1>1, <1>11, FileStays DEF Contents

\* The scanlines are gathered with the table of their sizes.
LEMMA GatherKeepsContents ==
  ASSUME RleIsOfBytes, EntriesFit, Inv, Contents, Gather
  PROVE  Contents'
<1> DEFINE H == Height(Channel)
           sizes == [y \in DOMAIN rows |-> rows[y].written]
           entries == [y \in DOMAIN rows |-> Entry(rows[y].written)]
           body == [entries |-> entries, bytes |-> Gathered]
           entry == [codec |-> "Rle", body |-> body]
           ends == Ends(sizes)
<1>1. /\ phase = "rows" /\ \A y \in DOMAIN rows : rows[y].ended
      /\ file' = Append(file, entry)
      /\ phase' = "compress" /\ at' = at + 1 /\ layer' = layer /\ scratch' = scratch
      /\ result' = result /\ spans' = spans
  BY DEF Gather
<1>2. /\ layer \in Layers /\ at \in Nat \ {0} /\ at \in DOMAIN layer.channels
      /\ CodecOf(Channel) = "Rle" /\ DOMAIN rows = 1..H
      /\ \A y \in 1..H : TaskOK(rows[y], RowBytes(Channel))
  BY <1>1 DEF Inv, TasksOK
<1>3. Writing
  BY <1>1 DEF Contents, Reading
<1>4. PICK h \in Nat, S \in Nat : h = H /\ S = Span /\ S = SpanOf(Channel)
  <2>1. H \in Nat
    BY <1>2, ChannelFacts DEF Channel
  <2>2. Span \in Nat
    <3>1. RowBytes(Channel) \in Nat /\ Span = MaxScanlineSize(RowBytes(Channel), 1)
      BY <1>2, RleLines
    <3> QED BY <3>1, SpansGrow
  <2> QED BY <2>1, <2>2 DEF SpanOf, Span
<1>5. Len(rows) = h
  BY <1>1, <1>3, <1>4 DEF Writing
<1>6. ASSUME NEW y \in 1..h
      PROVE  /\ rows[y].written \in Nat /\ rows[y].written <= S
             /\ Packs(scratch, (y - 1) * S, rows[y].written, BytesOf(Channel.rows[y]), RowBytes(Channel))
  <2>1. /\ TaskOK(rows[y], RowBytes(Channel)) /\ rows[y].ended
        /\ RowPacked(scratch, y, rows[y], Channel)
    BY <1>1, <1>2, <1>3, <1>4 DEF Writing
  <2>2. Span = MaxScanlineSize(RowBytes(Channel), 1)
    BY <1>2, RleLines
  <2>3. Packs(scratch, (y - 1) * S, rows[y].written, BytesOf(Channel.rows[y]), RowBytes(Channel))
    BY <1>4, <2>1 DEF RowPacked
  <2> QED BY <1>4, <2>1, <2>2, <2>3 DEF TaskOK
<1>7. ASSUME NEW y \in 1..h PROVE Entry(rows[y].written) = rows[y].written
  <2>1. CASE layer.version = "Psd"
    <3>1. MaxScanlineSize(Width(Channel), 1) < EntryLimit
      <4>1. Channel.codec = "Rle"
        BY <1>2 DEF CodecOf
      <4> QED BY <1>2, <2>1, <4>1 DEF EntriesFit, Channel
    <3>2. layer.size = 1
      BY <1>2, RleLines
    <3>3. S < EntryLimit
      BY <1>4, <3>1, <3>2 DEF Span
    <3>4. PICK n \in Nat, m \in Nat : n = rows[y].written /\ m = EntryLimit /\ n < m
      BY <1>6, <3>3, ChannelCodecAssumption
    <3>5. n % m = n
      BY <3>4
    <3> QED BY <2>1, <3>4, <3>5 DEF Entry
  <2>2. CASE layer.version # "Psd"
    BY <2>2 DEF Entry
  <2> QED BY <2>1, <2>2
<1>8. entries = sizes
  BY <1>2, <1>4, <1>7
<1>9. /\ sizes = [y \in 1..h |-> sizes[y]] /\ DOMAIN sizes = 1..h
      /\ \A y \in 1..h : sizes[y] = rows[y].written /\ sizes[y] \in Nat
  BY <1>2, <1>4, <1>6
<1> HIDE DEF entries
<1>10. Len(sizes) = h
  <2> HIDE DEF sizes
  <2> QED BY <1>9, FunctionIsSequence
<1>11. /\ ends[0] = 0 /\ \A y \in 0..h : ends[y] \in Nat
       /\ \A y \in 1..h : ends[y] = ends[y - 1] + sizes[y]
       /\ \A y, z \in 0..h : y <= z => ends[y] <= ends[z]
  <2> HIDE DEF sizes
  <2> QED BY <1>9, <1>10, EndsAreSums
<1> DEFINE bytes == Gathered
           at2(p) == CHOOSE y \in DOMAIN rows : ends[y - 1] < p /\ p <= ends[y]
<1>12. bytes = [p \in 1..ends[h] |-> scratch[(at2(p) - 1) * S + (p - ends[at2(p) - 1])]]
  BY <1>4, <1>5 DEF Gathered
<1>13. Len(bytes) = ends[h]
  <2>1. PICK n \in Nat : n = ends[h]
    BY <1>11
  <2>2. bytes = [p \in 1..n |-> bytes[p]]
    <3> HIDE DEF at2, ends, sizes
    <3> QED BY <1>12, <2>1
  <2> HIDE DEF bytes
  <2>3. Len(bytes) = n
    BY <2>2, FunctionIsSequence
  <2> QED BY <2>1, <2>3
<1>14. ASSUME NEW y \in 1..h, NEW i \in 1..sizes[y]
       PROVE  bytes[ends[y - 1] + i] = scratch[(y - 1) * S + i]
  <2> DEFINE p == ends[y - 1] + i
  <2>1. p \in 1..ends[h] /\ at2(p) = y
    <3>1. \A z \in 1..h : sizes[z] \in Nat
      BY <1>9
    <3>2. DOMAIN rows = 1..h
      BY <1>2, <1>4
    <3> HIDE DEF sizes
    <3>3. /\ p \in 1..ends[h] /\ ends[y - 1] < p /\ p <= ends[y]
          /\ \A z \in 1..h : ends[z - 1] < p /\ p <= ends[z] => z = y
      BY <1>10, <3>1, FoundInItsScanline
    <3> HIDE DEF p, ends
    <3> QED BY <3>2, <3>3
  <2>2. p - ends[y - 1] = i
    BY <1>9, <1>11
  <2> HIDE DEF p, at2, bytes
  <2>3. bytes[p] = scratch[(y - 1) * S + i]
    BY <1>12, <2>1, <2>2
  <2> QED BY <2>3 DEF p
<1> HIDE DEF sizes, bytes, at2
<1>15. ASSUME NEW y \in 1..h
       PROVE  Packs(bytes, ends[y - 1], sizes[y], BytesOf(Channel.rows[y]), RowBytes(Channel))
  <2> DEFINE line == BytesOf(Channel.rows[y])
  <2>1. PICK o \in Nat, m \in Nat, w \in Nat, k \in Nat :
          o = (y - 1) * S /\ m = ends[y - 1] /\ w = sizes[y] /\ k = RowBytes(Channel)
    <3>1. PICK a \in Nat : a = y - 1
      OBVIOUS
    <3>2. a * S \in Nat
      BY ProductGrows
    <3>3. ends[y - 1] \in Nat
      BY <1>11
    <3>4. RowBytes(Channel) \in Nat
      BY <1>2, RleLines
    <3> QED BY <1>9, <3>1, <3>2, <3>3, <3>4
  <2>2. Packs(scratch, o, w, line, k)
    BY <1>6, <1>9, <2>1
  <2>3. \A i \in 1..w : bytes[m + i] = scratch[o + i]
    BY <1>14, <2>1
  <2> HIDE DEF line
  <2>4. Packs(bytes, m, w, line, k)
    BY <2>2, <2>3, PackingMoves
  <2> QED BY <2>1, <2>4 DEF line
<1>16. RowsStored(body, Channel)
  <2>1. body.entries = sizes /\ body.bytes = bytes
    BY <1>8 DEF bytes
  <2> HIDE DEF body
  <2> QED BY <1>4, <1>9, <1>10, <1>13, <1>15, <2>1 DEF RowsStored
<1>17. Stored(entry, Channel)
  <2>1. entry.codec = "Rle" /\ entry.body = body
    OBVIOUS
  <2> HIDE DEF entry, body
  <2> QED BY <1>2, <1>16, <2>1 DEF Stored, Codecs
<1> HIDE DEF entry
<1>18. /\ IsSeq(file)' /\ Len(file') = at
       /\ \A c \in 1..Len(file') : Stored(file[c], layer.channels[c])'
  <2>1. Len(file) = at - 1
    BY <1>3 DEF Writing
  <2> QED BY <1>1, <1>2, <1>17, <2>1, FileGrows
<1>19. Writing'
  <2>1. ScratchSize' = ScratchSize
    BY <1>1, LayerStays
  <2>2. at + 1 \in 1..Len(layer.channels) + 1
    BY <1>2, ChannelsOfLayer
  <2> QED BY <1>1, <1>2, <1>3, <1>18, <2>1, <2>2 DEF Writing
<1> QED BY <1>18, <1>19 DEF Contents

-----------------------------------------------------------------------------
(* Reading keeps it.                                                        *)

\* The buffer of reading is as large as it should be, and nothing is in it yet.
LEMMA BeginReadKeepsContents ==
  ASSUME RleIsOfBytes, Inv, Contents, BeginRead
  PROVE  Contents'
<1>1. /\ phase = "compress" /\ at > Len(layer.channels)
      /\ phase' = "read" /\ at' = 1
      /\ buffer' = [p \in 1..BufferSize |-> 0]
      /\ layer' = layer /\ file' = file /\ spans' = spans /\ result' = result
  BY DEF BeginRead, BufferSize
<1>2. Writing
  BY <1>1 DEF Contents, Reading
<1>3. Len(layer.channels) \in Nat
  BY ChannelsOfLayer DEF Inv
<1>4. Len(file) = Len(layer.channels) /\ result = <<>> /\ spans = <<>>
  BY <1>1, <1>2, <1>3 DEF Writing
<1>5. IsSeq(result)' /\ Len(result') = 0
  <2>1. <<>> \in Seq({}) /\ Len(<<>>) = 0
    OBVIOUS
  <2> QED BY <1>1, <1>4, <2>1 DEF IsSeq
<1>6. BufferSize' = BufferSize
  BY <1>1, LayerStays
<1>7. Reading'
  <2>1. at' \in 1..Len(layer'.channels) + 1 /\ at' - 1 = 0 /\ DOMAIN buffer' = 1..BufferSize'
    BY <1>1, <1>3, <1>6
  <2>2. \A c \in 1..at' - 1 : FALSE
    BY <2>1
  <2> QED BY <1>1, <1>4, <1>5, <2>1, <2>2 DEF Reading
<1> QED BY <1>1, <1>7, FileStays DEF Contents

\* A channel is made of a buffer that holds its scanlines, one behind the other.
LEMMA KeptIsExpected ==
  ASSUME layer \in Layers, at \in DOMAIN layer.channels, NEW buf,
         Laid(Expected(Channel), Height(Channel), RowBytes(Channel), buf)
  PROVE  Kept(buf) = Expected(Channel)
<1> DEFINE parts == Expected(Channel)
<1>1. PICK H \in Nat, R \in Nat \ {0} : H = Height(Channel) /\ R = RowBytes(Channel)
  BY ChannelFacts DEF Channel
<1>2. /\ parts = [y \in 1..H |-> parts[y]]
      /\ \A y \in 1..H : parts[y] \in Seq(Byte) /\ Len(parts[y]) = R
  <2>1. /\ DOMAIN Channel.rows = 1..H
        /\ \A y \in 1..H : /\ BytesOf(Channel.rows[y]) \in Seq(Byte)
                           /\ Len(BytesOf(Channel.rows[y])) = R
    BY <1>1, ChannelFacts DEF Channel
  <2>2. parts = [y \in 1..H |-> BytesOf(Channel.rows[y])]
    BY <2>1 DEF Expected
  <2> HIDE DEF parts
  <2> QED BY <2>1, <2>2
<1> DEFINE n == H * R
           bytes == BytesAt(buf, 0, n)
<1>3. Laid(parts, H, R, bytes)
  <2> SUFFICES ASSUME NEW y \in 1..H, NEW x \in 1..R
               PROVE  bytes[(y - 1) * R + x] = parts[y][x]
    BY DEF Laid
  <2>1. buf[(y - 1) * R + x] = parts[y][x]
    BY <1>1 DEF Laid
  <2> DEFINE p == (y - 1) * R + x
  <2>2. p \in 1..n
    BY PlaceOfByte
  <2>3. n \in Nat
    BY ProductGrows
  <2> HIDE DEF p, n
  <2>4. bytes[p] = buf[0 + p] /\ 0 + p = p
    BY <2>2, <2>3 DEF BytesAt
  <2> QED BY <2>1, <2>4 DEF p
<1> HIDE DEF parts, bytes
<1>4. Pieces(bytes, H, R) = parts
  BY <1>2, <1>3, PiecesAreParts
<1> QED BY <1>1, <1>4 DEF Kept, Cut, bytes, parts

\* One channel more is read.
LEMMA ResultGrows ==
  ASSUME Reading, layer' = layer, at \in Nat,
         result' = Append(result, Expected(Channel)), at' = at + 1
  PROVE  /\ IsSeq(result)' /\ Len(result') = at' - 1
         /\ \A c \in 1..at' - 1 : result'[c] = Expected(layer.channels[c])'
<1>1. /\ IsSeq(result) /\ Len(result) = at - 1
      /\ \A c \in 1..at - 1 : result[c] = Expected(layer.channels[c])
  BY DEF Reading
<1>2. /\ IsSeq(result') /\ Len(result') = Len(result) + 1
      /\ \A i \in 1..Len(result) : result'[i] = result[i]
      /\ result'[Len(result) + 1] = Expected(Channel)
  BY <1>1, OneMore
<1>3. IsSeq(result)'
  BY <1>2 DEF IsSeq
<1>4. Len(result') = at' - 1
  BY <1>1, <1>2
<1>5. ASSUME NEW c \in 1..at' - 1 PROVE result'[c] = Expected(layer.channels[c])'
  <2>1. result'[c] = Expected(layer.channels[c])
    BY <1>1, <1>2 DEF Channel
  <2>2. PICK ch : ch = layer.channels[c]
    OBVIOUS
  <2>3. Expected(ch)' = Expected(ch)
    BY LayerStays
  <2>4. Expected(layer.channels[c])' = Expected(ch)'
    BY <2>2 DEF Expected
  <2> QED BY <2>1, <2>2, <2>3, <2>4
<1> QED BY <1>3, <1>4, <1>5

\* What is read of a channel while it is under way.
LEMMA ReadingFacts ==
  ASSUME Inv, Contents, phase \in {"read", "spans"}, at <= Len(file)
  PROVE  /\ Reading /\ layer \in Layers /\ at \in Nat /\ at \in DOMAIN layer.channels
         /\ at + 1 \in 1..Len(layer.channels) + 1
         /\ Stored(file[at], Channel)
         /\ DOMAIN buffer = 1..BufferSize
         /\ \E H \in Nat \ {0}, R \in Nat \ {0}, N \in Nat :
              /\ H = Height(Channel) /\ R = RowBytes(Channel) /\ N = BufferSize
              /\ H * R <= N
<1>1. Reading /\ layer \in Layers /\ at \in Nat \ {0}
  BY DEF Contents, Writing, Inv
<1>2. Len(file) = Len(layer.channels) /\ DOMAIN buffer = 1..BufferSize
  BY <1>1 DEF Reading
<1>3. at \in DOMAIN layer.channels /\ at + 1 \in 1..Len(layer.channels) + 1 /\ at \in 1..Len(file)
  BY <1>1, <1>2, ChannelsOfLayer
<1>4. Stored(file[at], Channel)
  BY <1>3 DEF Contents, Channel
<1>5. /\ Height(Channel) \in Nat \ {0} /\ RowBytes(Channel) \in Nat \ {0}
  BY <1>1, <1>3, ChannelFacts DEF Channel
<1>6. BufferSize \in Nat /\ Height(Channel) * RowBytes(Channel) <= BufferSize
  BY <1>1, <1>3, BufferIsEnough DEF Channel
<1> QED BY <1>1, <1>2, <1>3, <1>4, <1>5, <1>6

\* What the file has of a channel that is stored whole gives its bytes.
LEMMA WholeComesBack ==
  ASSUME layer \in Layers, at \in DOMAIN layer.channels,
         NEW entry, Stored(entry, Channel), entry.codec # "Rle"
  PROVE  (CASE entry.codec = "Raw" -> entry.body
            [] entry.codec = "Zip" -> Inflate(entry.body)
            [] entry.codec = "ZipPrediction" ->
                 Contiguous([y \in 1..Height(Channel) |->
                   BytesOf(RemovePredictionEncoding(Cut(Inflate(entry.body), Channel)[y]))],
                   RowBytes(Channel)))
           = Plain(Channel)
<1>1. entry.codec \in {"Raw", "Zip", "ZipPrediction"}
  BY DEF Stored, Codecs
<1>2. CASE entry.codec = "Raw"
  BY <1>2 DEF Stored
<1>3. CASE entry.codec = "Zip"
  <2>1. entry.body = Deflate(Plain(Channel))
    BY <1>3 DEF Stored
  <2>2. Inflate(entry.body) = Plain(Channel)
    BY <2>1 DEF Deflate, Inflate
  <2> QED BY <1>3, <2>2
<1>4. CASE entry.codec = "ZipPrediction"
  <2>1. Inflate(entry.body) = Predicted(Channel)
    BY <1>4 DEF Stored, Deflate, Inflate
  <2>2. PICK H \in Nat \ {0}, R \in Nat \ {0} : H = Height(Channel) /\ R = RowBytes(Channel)
    BY ChannelFacts DEF Channel
  <2>3. /\ layer.size \in {1, 2, 4} /\ DOMAIN Channel.rows = 1..H
        /\ R = Width(Channel) * layer.size
        /\ \A y \in 1..H : /\ Channel.rows[y] \in Seq([1..layer.size -> Byte])
                           /\ Channel.rows[y] # <<>>
                           /\ Len(Channel.rows[y]) = Width(Channel)
    BY <2>2, ChannelFacts DEF Channel
  <2> DEFINE parts == [y \in 1..H |-> PredictionEncode(Channel.rows[y])]
             bytes == Contiguous(parts, R)
  <2>4. Predicted(Channel) = bytes
    BY <2>2, <2>3 DEF Predicted
  <2>5. ASSUME NEW y \in 1..H
        PROVE  /\ PredictionEncode(Channel.rows[y]) \in Seq(Byte)
               /\ Len(PredictionEncode(Channel.rows[y])) = R
               /\ RemovePredictionEncoding(PredictionEncode(Channel.rows[y])) = Channel.rows[y]
    BY <2>3, PredictionComesBack
  <2>6. /\ parts = [y \in 1..H |-> parts[y]]
        /\ \A y \in 1..H : parts[y] \in Seq(Byte) /\ Len(parts[y]) = R
        /\ \A y \in 1..H : RemovePredictionEncoding(parts[y]) = Channel.rows[y]
    BY <2>5
  <2>7. Len(parts) = H
    <3> HIDE DEF parts
    <3> QED BY <2>6, FunctionIsSequence
  <2> HIDE DEF parts
  <2>8. Laid(parts, H, R, bytes)
    BY <2>7, ContiguousParts
  <2> HIDE DEF bytes
  <2>9. Pieces(bytes, H, R) = parts
    BY <2>6, <2>8, PiecesAreParts
  <2>10. Cut(Inflate(entry.body), Channel) = parts
    BY <2>1, <2>2, <2>4, <2>9 DEF Cut
  <2>11. [y \in 1..Height(Channel) |->
            BytesOf(RemovePredictionEncoding(Cut(Inflate(entry.body), Channel)[y]))]
           = [y \in DOMAIN Channel.rows |-> BytesOf(Channel.rows[y])]
    BY <2>2, <2>3, <2>6, <2>10
  <2> QED BY <1>4, <2>11 DEF Plain
<1> QED BY <1>1, <1>2, <1>3, <1>4

\* The bytes of a channel fill the part of the buffer it is made from.
LEMMA ReadWholeKeepsContents ==
  ASSUME RleIsOfBytes, Inv, Contents, ReadWhole
  PROVE  Contents'
<1>1. /\ phase = "read" /\ at <= Len(file) /\ file[at].codec # "Rle"
      /\ at' = at + 1 /\ layer' = layer /\ phase' = phase /\ file' = file /\ spans' = spans
      /\ result' = Append(result, Kept(buffer'))
  BY DEF ReadWhole
<1>2. /\ Reading /\ layer \in Layers /\ at \in Nat /\ at \in DOMAIN layer.channels
      /\ at + 1 \in 1..Len(layer.channels) + 1
      /\ Stored(file[at], Channel)
      /\ DOMAIN buffer = 1..BufferSize
  BY <1>1, ReadingFacts
<1>3. PICK H \in Nat \ {0}, R \in Nat \ {0}, N \in Nat :
        /\ H = Height(Channel) /\ R = RowBytes(Channel) /\ N = BufferSize
        /\ H * R <= N
  BY <1>1, ReadingFacts
<1>4. buffer' = Filled(buffer, 0, Plain(Channel))
  <2>1. PICK entry : entry = file[at]
    OBVIOUS
  <2>2. Stored(entry, Channel) /\ entry.codec # "Rle"
    BY <1>1, <1>2, <2>1
  <2> DEFINE bytes == CASE entry.codec = "Raw" -> entry.body
            [] entry.codec = "Zip" -> Inflate(entry.body)
            [] entry.codec = "ZipPrediction" ->
                 Contiguous([y \in 1..Height(Channel) |->
                   BytesOf(RemovePredictionEncoding(Cut(Inflate(entry.body), Channel)[y]))],
                   RowBytes(Channel))
  <2>3. bytes = Plain(Channel)
    BY <1>2, <2>2, WholeComesBack
  <2>4. buffer' = Filled(buffer, 0, bytes)
    BY <2>1 DEF ReadWhole
  <2> HIDE DEF bytes
  <2> QED BY <2>3, <2>4
<1> DEFINE parts == Expected(Channel)
           plain == Plain(Channel)
<1>5. plain = Contiguous(parts, R) /\ Len(parts) = H
  <2>1. parts = [y \in 1..H |-> BytesOf(Channel.rows[y])]
    BY <1>2, <1>3, ChannelFacts DEF Expected, Channel
  <2>2. plain = Contiguous(parts, R)
    BY <1>3 DEF Plain, Expected
  <2>3. parts = [y \in 1..H |-> parts[y]]
    BY <2>1
  <2> HIDE DEF parts
  <2> QED BY <2>2, <2>3, FunctionIsSequence
<1> HIDE DEF parts, plain
<1>6. /\ DOMAIN plain = 1..H * R /\ Len(plain) = H * R /\ H * R \in Nat
      /\ Laid(parts, H, R, plain)
  BY <1>5, ContiguousParts
<1>7. Put(buffer', buffer, N, 0, plain)
  <2>1. PICK buf : buf = buffer /\ DOMAIN buf = 1..N /\ buffer' = Filled(buf, 0, plain)
    BY <1>2, <1>3, <1>4 DEF plain
  <2>2. Len(plain) \in Nat /\ DOMAIN plain = 1..Len(plain)
    BY <1>6
  <2>3. Put(Filled(buf, 0, plain), buf, N, 0, plain)
    BY <2>1, <2>2, FilledBuffer
  <2> QED BY <2>1, <2>3
<1>8. DOMAIN buffer' = 1..N /\ \A p \in 1..H * R : buffer'[p] = plain[p]
  <2>1. PICK n \in Nat : n = H * R
    BY <1>6
  <2>2. DOMAIN buffer' = 1..N /\ \A i \in 1..n : buffer'[0 + i] = plain[i]
    BY <1>3, <1>6, <1>7, <2>1 DEF Put, Stands
  <2>3. \A p \in 1..n : 0 + p = p
    OBVIOUS
  <2> QED BY <2>1, <2>2, <2>3
<1>9. Laid(parts, H, R, buffer')
  <2> SUFFICES ASSUME NEW y \in 1..H, NEW x \in 1..R
               PROVE  buffer'[(y - 1) * R + x] = parts[y][x]
    BY DEF Laid
  <2>1. plain[(y - 1) * R + x] = parts[y][x]
    BY <1>6 DEF Laid
  <2>2. (y - 1) * R + x \in 1..H * R
    BY PlaceOfByte
  <2> QED BY <1>8, <2>1, <2>2
<1>10. Kept(buffer') = Expected(Channel)
  BY <1>2, <1>3, <1>9, KeptIsExpected DEF parts
<1>11. /\ IsSeq(result)' /\ Len(result') = at' - 1
       /\ \A c \in 1..at' - 1 : result'[c] = Expected(layer.channels[c])'
  BY <1>1, <1>2, <1>10, ResultGrows
<1>12. Reading'
  <2>1. BufferSize' = BufferSize /\ Len(file) = Len(layer.channels) /\ spans = <<>>
    BY <1>1, <1>2, LayerStays DEF Reading
  <2> QED BY <1>1, <1>2, <1>3, <1>8, <1>11, <2>1 DEF Reading
<1> QED BY <1>1, <1>12, FileStays DEF Contents

\* When every channel of the file was read, every channel of the layer was.
LEMMA EndReadKeepsContents ==
  ASSUME Inv, Contents, EndRead
  PROVE  Contents'
<1>1. /\ phase = "read" /\ at > Len(file) /\ phase' = "done"
      /\ layer' = layer /\ at' = at /\ file' = file /\ buffer' = buffer /\ spans' = spans
      /\ result' = result
  BY DEF EndRead
<1>2. Reading /\ Len(layer.channels) \in Nat
  BY <1>1, ChannelsOfLayer DEF Contents, Writing, Inv
<1>3. at = Len(layer.channels) + 1
  BY <1>1, <1>2 DEF Reading
<1>4. /\ IsSeq(result)' /\ BufferSize' = BufferSize
      /\ \A c \in 1..at' - 1 : result'[c] = Expected(layer.channels[c])'
  <2>1. IsSeq(result)' /\ BufferSize' = BufferSize
    BY <1>1, <1>2, LayerStays DEF Reading, IsSeq
  <2>2. \A c \in 1..at' - 1 : result'[c] = Expected(layer.channels[c])'
    BY <1>1, <1>2, ResultStays
  <2> QED BY <2>1, <2>2
<1>5. Reading'
  BY <1>1, <1>2, <1>3, <1>4 DEF Reading
<1> QED BY <1>1, <1>5, FileStays DEF Contents

\* The table gives back where each scanline begins and ends.
LEMMA BeginSpansKeepsContents ==
  ASSUME RleIsOfBytes, Inv, Contents, BeginSpans
  PROVE  Contents'
<1> DEFINE body == file[at].body
           ends == Ends(body.entries)
<1>1. /\ phase = "read" /\ at <= Len(file) /\ file[at].codec = "Rle"
      /\ layer' = layer /\ at' = at /\ file' = file /\ buffer' = buffer /\ result' = result
      /\ ends[Height(Channel)] = Len(body.bytes) =>
           /\ phase' = "spans"
           /\ spans' = [y \in DOMAIN body.entries |->
                          [next |-> ends[y - 1] + 1, end |-> ends[y], filled |-> 0]]
  BY DEF BeginSpans
<1>2. /\ Reading /\ layer \in Layers /\ at \in DOMAIN layer.channels
      /\ Stored(file[at], Channel)
  BY <1>1, ReadingFacts
<1>3. PICK H \in Nat \ {0}, R \in Nat \ {0} : H = Height(Channel) /\ R = RowBytes(Channel)
  BY <1>1, ReadingFacts
<1>4. RowsStored(body, Channel)
  BY <1>1, <1>2 DEF Stored
<1> HIDE DEF body
<1>5. /\ Len(body.entries) = H /\ DOMAIN body.entries = 1..H
      /\ \A y \in 1..H : body.entries[y] \in Nat
      /\ Len(body.bytes) = ends[H]
      /\ \A y \in 1..H : Packs(body.bytes, ends[y - 1], body.entries[y],
                               BytesOf(Channel.rows[y]), R)
  BY <1>3, <1>4 DEF RowsStored
<1>6. \A y \in 1..H : ends[y - 1] \in Nat /\ ends[y] = ends[y - 1] + body.entries[y]
  <2>1. PICK sizes : sizes = body.entries
    OBVIOUS
  <2>2. Len(sizes) = H /\ \A y \in 1..H : sizes[y] \in Nat
    BY <1>5, <2>1
  <2> QED BY <2>1, <2>2, TableEnds
<1> DEFINE begun(y) == [next |-> ends[y - 1] + 1, end |-> ends[y], filled |-> 0]
<1>7. phase' = "spans" /\ spans' = [y \in 1..H |-> begun(y)]
  BY <1>1, <1>3, <1>5
<1>8. ASSUME NEW y \in 1..H PROVE SpanRead(buffer, y, begun(y), body, Channel)
  <2> DEFINE line == BytesOf(Channel.rows[y])
             s == begun(y)
  <2>1. PICK pos : IsPacking(pos, body.bytes, ends[y - 1], body.entries[y], line, R)
    BY <1>5 DEF Packs
  <2>2. 1 \in DOMAIN pos /\ pos[1] = 0
    BY <2>1 DEF IsPacking
  <2>3. /\ DOMAIN s = {"next", "end", "filled"}
        /\ s.next = ends[y - 1] + 1 /\ s.end = ends[y - 1] + body.entries[y] /\ s.filled = pos[1]
    BY <1>6, <2>2
  <2>4. \A j \in 1..pos[1] : buffer[(y - 1) * R + j] = line[j]
    BY <2>2
  <2> HIDE DEF s
  <2>5. SpanRead(buffer, y, s, body, Channel)
    BY <1>3, <2>1, <2>2, <2>3, <2>4 DEF SpanRead
  <2> QED BY <2>5 DEF s
<1>9. DOMAIN spans' = 1..H /\ \A y \in 1..H : SpanRead(buffer, y, spans'[y], body, Channel)
  <2> HIDE DEF begun
  <2> QED BY <1>7, <1>8
<1> HIDE DEF begun, ends
<1>10. \A y \in 1..H : SpanRead(buffer, y, spans[y], file[at].body, Channel)'
  <2> SUFFICES ASSUME NEW y \in 1..H
               PROVE  SpanRead(buffer, y, spans[y], file[at].body, Channel)'
    OBVIOUS
  <2>1. PICK buf, s, bd, ch :
          buf = buffer /\ s = spans'[y] /\ bd = body /\ ch = Channel
    OBVIOUS
  <2>2. SpanRead(buf, y, s, bd, ch)
    BY <1>9, <2>1
  <2>3. SpanRead(buf, y, s, bd, ch)'
    BY <1>1, <2>2, LayerStays
  <2>4. buf = buffer' /\ bd = file'[at'].body /\ ch = Channel'
    BY <1>1, <2>1 DEF Channel, body
  <2> QED BY <2>1, <2>3, <2>4 DEF SpanRead
<1>11. Reading'
  <2>1. /\ at \in 1..Len(layer.channels) + 1 /\ Len(file) = Len(layer.channels)
        /\ IsSeq(result)' /\ Len(result) = at - 1
        /\ DOMAIN buffer = 1..BufferSize
    BY <1>1, <1>2 DEF Reading, IsSeq
  <2>2. /\ BufferSize' = BufferSize /\ Height(Channel)' = H
    BY <1>1, <1>3, LayerStays DEF Height, Channel
  <2>3. \A c \in 1..at' - 1 : result'[c] = Expected(layer.channels[c])'
    BY <1>1, <1>2, ResultStays
  <2> QED BY <1>1, <1>2, <1>7, <1>9, <1>10, <2>1, <2>2, <2>3 DEF Reading
<1> QED BY <1>1, <1>11, FileStays DEF Contents

\* What is before the packet a task is at is a part of its scanline.
LEMMA SpanIsWithin ==
  ASSUME NEW buf, NEW y, NEW s, NEW body, NEW ch, SpanRead(buf, y, s, body, ch),
         RowBytes(ch) \in Nat
  PROVE  s.filled \in 0..RowBytes(ch)
BY DEF SpanRead, IsPacking

\* All packets were unpacked: the scanline is in the buffer.
LEMMA SpanIsRead ==
  ASSUME NEW buf, NEW y, NEW s, NEW body, NEW ch, SpanRead(buf, y, s, body, ch),
         Ends(body.entries)[y - 1] \in Nat, body.entries[y] \in Nat, RowBytes(ch) \in Nat,
         s.next > s.end
  PROVE  \A j \in 1..RowBytes(ch) : buf[(y - 1) * RowBytes(ch) + j] = BytesOf(ch.rows[y])[j]
<1> DEFINE o == Ends(body.entries)[y - 1]
           w == body.entries[y]
           line == BytesOf(ch.rows[y])
           R == RowBytes(ch)
<1>1. PICK pos, p :
        /\ IsPacking(pos, body.bytes, o, w, line, R)
        /\ p \in DOMAIN pos
        /\ s.next = o + p /\ s.end = o + w /\ s.filled = pos[p]
        /\ \A j \in 1..pos[p] : buf[(y - 1) * R + j] = line[j]
  BY DEF SpanRead
<1>2. p \in 1..w + 1 /\ pos[w + 1] = R
  BY <1>1 DEF IsPacking
<1>3. p = w + 1
  <2> HIDE DEF o, w
  <2>1. PICK a \in Nat, v \in Nat : a = o /\ v = w
    BY DEF o, w
  <2> QED BY <1>1, <1>2, <2>1
<1>4. pos[p] = R
  BY <1>2, <1>3
<1> HIDE DEF o, w, line, R
<1>5. \A j \in 1..R : buf[(y - 1) * R + j] = line[j]
  BY <1>1, <1>4
<1> QED BY <1>5 DEF line, R

\* A channel whose tasks have ended was read as it was.
LEMMA KeepChannelKeepsContents ==
  ASSUME RleIsOfBytes, Inv, Contents, KeepChannel
  PROVE  Contents'
<1>1. /\ phase = "spans" /\ \A y \in DOMAIN spans : spans[y].next > spans[y].end
      /\ result' = Append(result, Kept(buffer))
      /\ phase' = "read" /\ at' = at + 1 /\ spans' = <<>>
      /\ layer' = layer /\ file' = file /\ buffer' = buffer
  BY DEF KeepChannel
<1>2. Reading
  BY <1>1 DEF Contents, Writing
<1>3. at <= Len(file)
  BY <1>1, <1>2, ChannelsOfLayer DEF Reading, Inv
<1>4. /\ layer \in Layers /\ at \in Nat /\ at \in DOMAIN layer.channels
      /\ at + 1 \in 1..Len(layer.channels) + 1
      /\ Stored(file[at], Channel)
      /\ DOMAIN buffer = 1..BufferSize
  BY <1>1, <1>3, ReadingFacts
<1>5. PICK H \in Nat \ {0}, R \in Nat \ {0} : H = Height(Channel) /\ R = RowBytes(Channel)
  BY <1>1, <1>3, ReadingFacts
<1> DEFINE body == file[at].body
           parts == Expected(Channel)
<1>6. RowsStored(body, Channel)
  BY <1>1, <1>2, <1>4 DEF Stored, Reading
<1>7. /\ DOMAIN spans = 1..H
      /\ \A y \in 1..H : SpanRead(buffer, y, spans[y], body, Channel)
  BY <1>1, <1>2, <1>5 DEF Reading
<1>8. parts = [y \in 1..H |-> BytesOf(Channel.rows[y])]
  BY <1>4, <1>5, ChannelFacts DEF Expected, Channel
<1> HIDE DEF body
<1>9. Len(body.entries) = H /\ \A y \in 1..H : body.entries[y] \in Nat
  BY <1>5, <1>6 DEF RowsStored
<1>10. \A y \in 1..H : Ends(body.entries)[y - 1] \in Nat
  <2>1. PICK sizes : sizes = body.entries
    OBVIOUS
  <2>2. Len(sizes) = H /\ \A y \in 1..H : sizes[y] \in Nat
    BY <1>9, <2>1
  <2> QED BY <2>1, <2>2, TableEnds
<1>11. Laid(parts, H, R, buffer)
  <2> SUFFICES ASSUME NEW y \in 1..H, NEW x \in 1..R
               PROVE  buffer[(y - 1) * R + x] = parts[y][x]
    BY DEF Laid
  <2>1. \A j \in 1..R : buffer[(y - 1) * R + j] = BytesOf(Channel.rows[y])[j]
    <3>1. PICK buf, s, bd, ch :
            buf = buffer /\ s = spans[y] /\ bd = body /\ ch = Channel
      OBVIOUS
    <3>2. SpanRead(buf, y, s, bd, ch) /\ s.next > s.end
      BY <1>1, <1>7, <3>1
    <3>3. Ends(bd.entries)[y - 1] \in Nat /\ bd.entries[y] \in Nat /\ RowBytes(ch) \in Nat
      BY <1>5, <1>9, <1>10, <3>1
    <3>4. \A j \in 1..RowBytes(ch) : buf[(y - 1) * RowBytes(ch) + j] = BytesOf(ch.rows[y])[j]
      BY <3>2, <3>3, SpanIsRead
    <3> QED BY <1>5, <3>1, <3>4
  <2> QED BY <1>8, <2>1
<1> HIDE DEF parts
<1>12. Kept(buffer) = Expected(Channel)
  BY <1>4, <1>5, <1>11, KeptIsExpected DEF parts
<1>13. /\ IsSeq(result)' /\ Len(result') = at' - 1
       /\ \A c \in 1..at' - 1 : result'[c] = Expected(layer.channels[c])'
  BY <1>1, <1>2, <1>4, <1>12, ResultGrows
<1>14. Reading'
  <2>1. BufferSize' = BufferSize /\ Len(file) = Len(layer.channels)
    BY <1>1, <1>2, LayerStays DEF Reading
  <2> QED BY <1>1, <1>4, <1>13, <2>1 DEF Reading
<1> QED BY <1>1, <1>14, FileStays DEF Contents

\* A packet more of a scanline is in the buffer, and none of another one is lost.
LEMMA UnpackKeepsContents ==
  ASSUME RleIsOfBytes, Inv, Contents, NEW y \in DOMAIN spans, Unpack(y)
  PROVE  Contents'
<1> DEFINE body == file[at].body
           s == spans[y]
           out == Unpacked(body.bytes, s.next)
           next == s.next + PacketSize(body.bytes, s.next)
           filled == s.filled + Len(out)
<1>1. /\ phase = "spans" /\ s.next <= s.end
      /\ buffer' = Filled(buffer, (y - 1) * RowBytes(Channel) + s.filled, out)
      /\ spans' = [spans EXCEPT ![y].next = next, ![y].filled = filled]
      /\ layer' = layer /\ phase' = phase /\ at' = at /\ file' = file /\ result' = result
  BY DEF Unpack
<1>2. Reading
  BY <1>1 DEF Contents, Writing
<1>3. at <= Len(file)
  BY <1>1, <1>2, ChannelsOfLayer DEF Reading, Inv
<1>4. /\ layer \in Layers /\ at \in DOMAIN layer.channels
      /\ Stored(file[at], Channel)
      /\ DOMAIN buffer = 1..BufferSize
  BY <1>1, <1>3, ReadingFacts
<1>5. PICK H \in Nat \ {0}, R \in Nat \ {0}, N \in Nat :
        H = Height(Channel) /\ R = RowBytes(Channel) /\ N = BufferSize /\ H * R <= N
  BY <1>1, <1>3, ReadingFacts
<1>6. RowsStored(body, Channel)
  BY <1>1, <1>2, <1>4 DEF Stored, Reading
<1>7. /\ DOMAIN spans = 1..H
      /\ \A z \in 1..H : SpanRead(buffer, z, spans[z], body, Channel)
  BY <1>1, <1>2, <1>5 DEF Reading
<1> HIDE DEF body
<1>8. Len(body.entries) = H /\ \A z \in 1..H : body.entries[z] \in Nat
  BY <1>5, <1>6 DEF RowsStored
<1>9. \A z \in 1..H : Ends(body.entries)[z - 1] \in Nat
  <2>1. PICK sizes : sizes = body.entries
    OBVIOUS
  <2>2. Len(sizes) = H /\ \A z \in 1..H : sizes[z] \in Nat
    BY <1>8, <2>1
  <2> QED BY <2>1, <2>2, TableEnds
<1> DEFINE line == BytesOf(Channel.rows[y])
<1>10. PICK o \in Nat, w \in Nat : o = Ends(body.entries)[y - 1] /\ w = body.entries[y]
  BY <1>7, <1>8, <1>9
<1>11. PICK pos, p :
         /\ IsPacking(pos, body.bytes, o, w, line, R)
         /\ p \in DOMAIN pos
         /\ s.next = o + p /\ s.end = o + w /\ s.filled = pos[p]
         /\ \A j \in 1..pos[p] : buffer[(y - 1) * R + j] = line[j]
  <2>1. SpanRead(buffer, y, s, body, Channel)
    BY <1>7
  <2> HIDE DEF s
  <2> QED BY <1>5, <1>10, <2>1 DEF SpanRead
<1>12. p \in Nat /\ p <= w
  <2>1. p \in 1..w + 1
    BY <1>11 DEF IsPacking
  <2> HIDE DEF s
  <2> QED BY <1>1, <1>11, <2>1
<1> DEFINE q == p + PacketSize(body.bytes, o + p)
<1>13. /\ DOMAIN out = 1..Len(out) /\ Len(out) \in Nat
       /\ q \in DOMAIN pos /\ q \in Nat
       /\ pos[q] = pos[p] + Len(out) /\ pos[p] \in Nat /\ pos[q] <= R
       /\ \A j \in 1..Len(out) : out[j] = line[pos[p] + j]
  <2>1. out = Unpacked(body.bytes, o + p)
    BY <1>11
  <2>2. PICK b : b = body.bytes
    OBVIOUS
  <2>3. IsPacking(pos, b, o, w, line, R) /\ p \in DOMAIN pos /\ R \in Nat
    BY <1>11, <2>2
  <2>4. PacketRead(Unpacked(b, o + p), p + PacketSize(b, o + p), pos, p, w, line, R)
    BY <1>12, <2>3, PacketUnpacks
  <2>5. PacketRead(out, q, pos, p, w, line, R)
    BY <2>1, <2>2, <2>4
  <2> HIDE DEF q, out
  <2> QED BY <2>5 DEF PacketRead
<1>14. next = o + q /\ filled = pos[q]
  <2>1. PICK size : size = PacketSize(body.bytes, o + p)
    OBVIOUS
  <2>2. next = (o + p) + size /\ q = p + size
    BY <1>11, <2>1
  <2> HIDE DEF out
  <2>3. filled = pos[q]
    BY <1>11, <1>13
  <2>4. size \in Int
    <3>1. body.bytes[o + p] \in Byte
      BY <1>11, <1>12 DEF IsPacking
    <3> QED BY <2>1, <3>1 DEF PacketSize, Byte
  <2> HIDE DEF s, next, q
  <2> QED BY <1>12, <2>2, <2>3, <2>4
<1> HIDE DEF q, next, filled, out
<1>15. PICK a \in Nat, f \in Nat, n \in Nat :
         a = (y - 1) * R /\ f = pos[p] /\ n = Len(out) /\ f + n = pos[q] /\ f + n <= R
  <2>1. PICK b \in Nat : b = y - 1
    BY <1>7
  <2>2. b * R \in Nat
    BY ProductGrows
  <2> QED BY <1>13, <2>1, <2>2
<1>16. a + R <= N /\ f + n <= R
  <2>1. y \in 1..H /\ H \in Nat /\ R \in Nat /\ 1 \in 1..R
    BY <1>7
  <2>2. (y - 1) * R \in Nat /\ (y - 1) * R + R <= H * R /\ H * R \in Nat
    BY <2>1, SpansApart
  <2>3. PICK m \in Nat : m = H * R
    BY <2>2
  <2>4. a + R <= m /\ m <= N
    BY <1>5, <1>15, <2>2, <2>3
  <2>5. f + n <= R
    BY <1>15
  <2> QED BY <2>4, <2>5
<1>17. Put(buffer', buffer, N, a + f, out)
  <2>1. PICK buf : buf = buffer /\ DOMAIN buf = 1..N /\ buffer' = Filled(buf, a + f, out)
    BY <1>1, <1>4, <1>5, <1>11, <1>15
  <2>2. PICK m \in Nat : m = a + f
    OBVIOUS
  <2>3. Put(Filled(buf, m, out), buf, N, m, out)
    BY <1>13, <2>1, <2>2, FilledBuffer
  <2> QED BY <2>1, <2>2, <2>3
<1>18. /\ DOMAIN buffer' = 1..N
       /\ \A i \in 1..n : buffer'[(a + f) + i] = out[i]
       /\ \A i \in 1..N : i <= a + f \/ i > a + f + n => buffer'[i] = buffer[i]
  <2>1. (a + f) + n <= N
    BY <1>16
  <2> QED BY <1>15, <1>17, <2>1 DEF Put, Stands
<1> DEFINE task == [s EXCEPT !.next = next, !.filled = filled]
<1>19. SpanRead(buffer', y, task, body, Channel)
  <2>1. ASSUME NEW j \in 1..pos[q] PROVE buffer'[a + j] = line[j]
    <3>1. j \in 1..f + n
      BY <1>15
    <3>2. CASE j <= f
      <4>1. buffer[a + j] = line[j]
        BY <1>11, <1>15, <3>1, <3>2
      <4>2. a + j \in 1..N /\ a + j <= a + f
        BY <1>16, <3>1, <3>2
      <4> QED BY <1>18, <4>1, <4>2
    <3>3. CASE j > f
      <4>1. PICK i \in 1..n : j = f + i
        BY <3>1, <3>3
      <4>2. buffer'[(a + f) + i] = line[f + i]
        BY <1>13, <1>15, <1>18
      <4>3. (a + f) + i = a + j
        BY <4>1
      <4> QED BY <4>1, <4>2, <4>3
    <3> QED BY <3>1, <3>2, <3>3
  <2>2. task.next = o + q /\ task.end = o + w /\ task.filled = pos[q]
    <3>1. DOMAIN s = {"next", "end", "filled"}
      <4>1. SpanRead(buffer, y, s, body, Channel)
        BY <1>7
      <4> HIDE DEF s
      <4> QED BY <4>1 DEF SpanRead
    <3> HIDE DEF s
    <3> QED BY <1>11, <1>14, <3>1
  <2>4. DOMAIN task = {"next", "end", "filled"}
    <3>1. SpanRead(buffer, y, s, body, Channel)
      BY <1>7
    <3> HIDE DEF s
    <3> QED BY <3>1 DEF SpanRead
  <2> HIDE DEF task
  <2>3. \A j \in 1..pos[q] : buffer'[(y - 1) * R + j] = line[j]
    BY <1>15, <2>1
  <2> QED BY <1>5, <1>10, <1>11, <1>13, <2>2, <2>3, <2>4 DEF SpanRead
<1>20. ASSUME NEW z \in 1..H, z # y PROVE SpanRead(buffer', z, spans[z], body, Channel)
  <2>1. SpanRead(buffer, z, spans[z], body, Channel)
    BY <1>7
  <2> DEFINE o2 == Ends(body.entries)[z - 1]
             w2 == body.entries[z]
             line2 == BytesOf(Channel.rows[z])
  <2>2. PICK pos2, p2 :
          /\ IsPacking(pos2, body.bytes, o2, w2, line2, R)
          /\ p2 \in DOMAIN pos2
          /\ spans[z].next = o2 + p2 /\ spans[z].end = o2 + w2 /\ spans[z].filled = pos2[p2]
          /\ \A j \in 1..pos2[p2] : buffer[(z - 1) * R + j] = line2[j]
    BY <1>5, <2>1 DEF SpanRead
  <2>3. pos2[p2] \in 0..R
    BY <2>2 DEF IsPacking
  <2>4. ASSUME NEW j \in 1..pos2[p2] PROVE buffer'[(z - 1) * R + j] = line2[j]
    <3>1. j \in 1..R /\ y \in 1..H /\ H \in Nat /\ R \in Nat
      BY <1>7, <2>3
    <3>2. /\ (z - 1) * R + j \in 1..H * R
          /\ z # y => \/ (z - 1) * R + j <= (y - 1) * R
                      \/ (z - 1) * R + j > (y - 1) * R + R
      BY <3>1, SpansApart
    <3>3. PICK i \in 1..N : i = (z - 1) * R + j /\ (i <= a \/ i > a + R)
      <4>1. PICK m \in Nat : m = H * R /\ m <= N
        BY <1>5, <3>1, ProductGrows
      <4> QED BY <1>15, <1>20, <3>2, <4>1
    <3>4. i <= a + f \/ i > a + f + n
      <4>1. i <= a \/ i > a + R
        BY <3>3
      <4> QED BY <1>16, <4>1
    <3>5. buffer'[i] = buffer[i]
      BY <1>18, <3>4
    <3> QED BY <2>2, <3>3, <3>5
  <2> HIDE DEF o2, w2, line2
  <2>5. DOMAIN spans[z] = {"next", "end", "filled"}
    BY <2>1 DEF SpanRead
  <2> QED BY <1>5, <2>2, <2>4, <2>5 DEF SpanRead, o2, w2, line2
<1>21. DOMAIN spans' = 1..H /\ \A z \in 1..H : SpanRead(buffer', z, spans'[z], body, Channel)
  <2>1. DOMAIN spans' = 1..H /\ \A z \in 1..H : spans'[z] = IF z = y THEN task ELSE spans[z]
    BY <1>1, <1>7
  <2> HIDE DEF task
  <2> QED BY <1>19, <1>20, <2>1
<1> HIDE DEF task, s
<1>22. \A z \in 1..H : SpanRead(buffer, z, spans[z], file[at].body, Channel)'
  <2> SUFFICES ASSUME NEW z \in 1..H
               PROVE  SpanRead(buffer, z, spans[z], file[at].body, Channel)'
    OBVIOUS
  <2>1. PICK buf, t, bd, ch :
          buf = buffer' /\ t = spans'[z] /\ bd = body /\ ch = Channel
    OBVIOUS
  <2>2. SpanRead(buf, z, t, bd, ch)
    BY <1>21, <2>1
  <2>3. SpanRead(buf, z, t, bd, ch)'
    BY <1>1, <2>2, LayerStays
  <2>4. bd = file'[at'].body /\ ch = Channel'
    BY <1>1, <2>1 DEF Channel, body
  <2> QED BY <2>1, <2>3, <2>4 DEF SpanRead
<1>23. Reading'
  <2>1. /\ at \in 1..Len(layer.channels) + 1 /\ Len(file) = Len(layer.channels)
        /\ IsSeq(result)' /\ Len(result) = at - 1 /\ file[at].codec = "Rle"
    BY <1>1, <1>2 DEF Reading, IsSeq
  <2>2. /\ BufferSize' = N /\ Height(Channel)' = H
    BY <1>1, <1>5, LayerStays DEF Height, Channel
  <2>3. \A c \in 1..at' - 1 : result'[c] = Expected(layer.channels[c])'
    BY <1>1, <1>2, ResultStays
  <2> QED BY <1>1, <1>4, <1>18, <1>21, <1>22, <2>1, <2>2, <2>3 DEF Reading
<1> QED BY <1>1, <1>23, FileStays DEF Contents

\* Nothing changes when no variable does.
LEMMA StutterKeepsContents ==
  ASSUME Contents, UNCHANGED vars
  PROVE  Contents'
<1>1. /\ layer' = layer /\ phase' = phase /\ at' = at /\ scratch' = scratch /\ rows' = rows
      /\ file' = file /\ buffer' = buffer /\ spans' = spans /\ result' = result
  BY DEF vars
<1>2. /\ Channel' = Channel /\ Height(Channel)' = Height(Channel)
      /\ ScratchSize' = ScratchSize /\ BufferSize' = BufferSize
  BY <1>1, LayerStays DEF Channel, Height
<1>3. ASSUME Writing PROVE Writing'
  <2>1. ASSUME phase = "rows", NEW y \in DOMAIN rows
        PROVE  RowPacked(scratch, y, rows[y], Channel)'
    <3>1. PICK buf, t, ch : buf = scratch /\ t = rows[y] /\ ch = Channel
      OBVIOUS
    <3>2. RowPacked(buf, y, t, ch)
      BY <1>3, <2>1, <3>1 DEF Writing
    <3>3. RowPacked(buf, y, t, ch)'
      BY <1>1, <3>2, LayerStays
    <3> QED BY <1>1, <1>2, <3>1, <3>3 DEF RowPacked
  <2> QED BY <1>1, <1>2, <1>3, <2>1 DEF Writing
<1>4. ASSUME Reading PROVE Reading'
  <2>1. ASSUME phase = "spans", NEW y \in 1..Height(Channel)
        PROVE  SpanRead(buffer, y, spans[y], file[at].body, Channel)'
    <3>1. PICK buf, s, bd, ch :
            buf = buffer /\ s = spans[y] /\ bd = file[at].body /\ ch = Channel
      OBVIOUS
    <3>2. SpanRead(buf, y, s, bd, ch)
      BY <1>4, <2>1, <3>1 DEF Reading
    <3>3. SpanRead(buf, y, s, bd, ch)'
      BY <1>1, <3>2, LayerStays
    <3> QED BY <1>1, <1>2, <3>1, <3>3 DEF SpanRead
  <2>2. \A c \in 1..at' - 1 : result'[c] = Expected(layer.channels[c])'
    BY <1>1, <1>4, ResultStays
  <2>3. IsSeq(result)'
    BY <1>1, <1>4 DEF Reading, IsSeq
  <2> QED BY <1>1, <1>2, <1>4, <2>1, <2>2, <2>3 DEF Reading
<1> QED BY <1>1, <1>3, <1>4, FileStays DEF Contents

\* Together with the account of the spans, Contents is inductive.
LEMMA ContentsIsInductive ==
  ASSUME RleIsOfBytes, EntriesFit
  PROVE  /\ Init => Inv /\ Contents
         /\ Inv /\ Contents /\ [Next]_vars => (Inv /\ Contents)'
<1>1. Init => Inv /\ Contents
  BY InvIsInductive, InitContents
<1>2. ASSUME Inv, Contents, [Next]_vars
      PROVE  Contents'
  <2>1. CASE CompressWhole
    BY <1>2, <2>1, CompressWholeKeepsContents
  <2>2. CASE BeginRows
    BY <1>2, <2>2, BeginRowsKeepsContents
  <2>3. CASE Gather
    BY <1>2, <2>3, GatherKeepsContents
  <2>4. CASE \E y \in DOMAIN rows : Same(y) \/ Differ(y) \/ EndRow(y)
    BY <1>2, <2>4, SameKeepsContents, DifferKeepsContents, EndRowKeepsContents
  <2>5. CASE BeginRead
    BY <1>2, <2>5, BeginReadKeepsContents
  <2>6. CASE ReadWhole
    BY <1>2, <2>6, ReadWholeKeepsContents
  <2>7. CASE BeginSpans
    BY <1>2, <2>7, BeginSpansKeepsContents
  <2>8. CASE KeepChannel
    BY <1>2, <2>8, KeepChannelKeepsContents
  <2>9. CASE EndRead
    BY <1>2, <2>9, EndReadKeepsContents
  <2>10. CASE \E y \in DOMAIN spans : Unpack(y)
    BY <1>2, <2>10, UnpackKeepsContents
  <2>11. CASE UNCHANGED vars
    BY <1>2, <2>11, StutterKeepsContents
  <2>12. CASE Finished
    BY <2>11, <2>12 DEF Finished
  <2> QED
    BY <1>2, <2>1, <2>2, <2>3, <2>4, <2>5, <2>6, <2>7, <2>8, <2>9, <2>10, <2>11, <2>12 DEF Next
<1> QED BY <1>1, <1>2, InvIsInductive

\* Whatever the order of the tasks that compress and decompress scanlines, and
\* whatever the channels before left in the two buffers: no layer is refused by
\* the two checks that throw (compressData, DecompressRLE), and every channel that
\* is read has the pixels it was written with, of whatever codec, size and bytes.
\* Rle is used with one byte to a pixel only, and the table of a PSD file can hold
\* the sizes of scanlines; without either it is not true.
THEOREM LayersComeBack ==
  ASSUME RleIsOfBytes, EntriesFit
  PROVE  Spec => []ChannelsComeBack
<1>1. Contents => ChannelsComeBack
  <2> SUFFICES ASSUME Contents
               PROVE  ChannelsComeBack
    OBVIOUS
  <2>1. NothingIsRefused
    BY DEF Contents, Writing, Reading, NothingIsRefused
  <2>2. phase = "done" => Len(result) = Len(layer.channels)
    <3> SUFFICES ASSUME phase = "done" PROVE Len(result) = Len(layer.channels)
      OBVIOUS
    <3>1. Reading
      BY DEF Contents, Writing
    <3>2. at = Len(layer.channels) + 1 /\ Len(result) = at - 1 /\ at \in 1..Len(layer.channels) + 1
      BY <3>1 DEF Reading
    <3>3. IsSeq(result)
      BY <3>1 DEF Reading
    <3>4. Len(result) \in Nat
      BY <3>3 DEF IsSeq
    <3> QED BY <3>2, <3>4
  <2>3. ASSUME NEW c \in DOMAIN result PROVE result[c] = Expected(layer.channels[c])
    <3>1. DOMAIN <<>> = {}
      OBVIOUS
    <3>2. Reading
      BY <3>1 DEF Contents, Writing
    <3>3. IsSeq(result) /\ Len(result) = at - 1
      BY <3>2 DEF Reading
    <3>4. c \in 1..at - 1
      BY <3>3, LenProperties DEF IsSeq
    <3> QED BY <3>2, <3>4 DEF Reading
  <2> QED BY <2>1, <2>2, <2>3 DEF ChannelsComeBack, Expected
<1> QED BY <1>1, ContentsIsInductive, PTL DEF Spec
=============================================================================
