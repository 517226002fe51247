------------------------------- MODULE PackBits -------------------------------
(***************************************************************************)
(* The PackBits codec of one scanline, a step at a time, and the bound that *)
(* the scratch buffer of the compression is cut by.                         *)
(*                                                                         *)
(* A packet is a header byte with one byte that is repeated, or with a      *)
(* literal.  MaxRun is the 128 of the code: the longest run and the longest *)
(* literal.  Bytes are 0 .. 2 * MaxRun - 1.  Sequences count from 1: at is  *)
(* the number of bytes the encoder has looked at, line[at] the last one.    *)
(***************************************************************************)
EXTENDS Integers, Sequences

CONSTANT MaxRun

\* 128 is far from the least value: a literal that nothing follows must have three
\* bytes for the bound to hold.
ASSUME PackBitsAssumption == MaxRun \in Nat /\ MaxRun >= 3

Byte == 0..2 * MaxRun - 1
NoOp == MaxRun

Run(n, byte) == <<2 * MaxRun + 1 - n, byte>>
Literal(bytes) == <<Len(bytes) - 1>> \o bytes

-----------------------------------------------------------------------------
(* The encoder.  It has run + 1 or literal + 1 bytes it has not packed yet. *)

Encoders == [at : Nat, run : Nat, literal : Nat]
Fresh    == [at |-> 1, run |-> 0, literal |-> 0]

\* The next byte is the one before it: a run starts or goes on.
IsSame(line, e) == line[e.at + 1] = line[e.at]

\* Slip: a literal before a run is taken up to the run's first byte.
SameOutOneLate(line, e) ==
  (IF e.literal = 0 THEN <<>> ELSE Literal(SubSeq(line, e.at - e.literal + 1, e.at)))
    \o (IF e.run + 1 = MaxRun THEN Run(MaxRun, line[e.at]) ELSE <<>>)

SameOut(line, e) ==
  (IF e.literal = 0 THEN <<>> ELSE Literal(SubSeq(line, e.at - e.literal, e.at - 1)))
    \o (IF e.run + 1 = MaxRun THEN Run(MaxRun, line[e.at]) ELSE <<>>)

SameNext(e) ==
  [at |-> e.at + 1, run |-> IF e.run + 1 = MaxRun THEN 0 ELSE e.run + 1, literal |-> 0]

\* The next byte is another one: a run ends, or a literal grows.
DifferOut(line, e) ==
  IF e.run # 0 THEN Run(e.run + 1, line[e.at])
  ELSE IF e.literal + 1 = MaxRun THEN Literal(SubSeq(line, e.at - e.literal, e.at))
  ELSE <<>>

DifferNext(e) ==
  [at      |-> e.at + 1,
   run     |-> 0,
   literal |-> IF e.run # 0 THEN e.literal
               ELSE IF e.literal + 1 = MaxRun THEN 0 ELSE e.literal + 1]

\* After the last byte what is left is packed.
EndOut(line, e) ==
  IF e.run # 0 THEN Run(e.run + 1, line[Len(line)])
  ELSE Literal(SubSeq(line, Len(line) - e.literal, Len(line)))

\* A scanline is padded to two bytes with a header that does nothing.
Padding(n) == IF n % 2 # 0 THEN <<NoOp>> ELSE <<>>

\* Slip: the padding of the bound is forgotten.
WorstOverheadUnpadded(width) == width \div 3 + (IF width % 3 # 0 THEN 1 ELSE 0)

\* MaxCompressedSize for one scanline of elements of so many bytes, without
\* its entry in the table.
WorstOverhead(width) ==
  LET n == width \div 3 + (IF width % 3 # 0 THEN 1 ELSE 0)
  IN  n + ((width + n) % 2)

MaxScanlineSize(width, size) == width * size + WorstOverhead(width)

-----------------------------------------------------------------------------
(* The decoder: what the packet at position p stands for, and how long it   *)
(* is.                                                                      *)

Unpacked(bytes, p) ==
  LET header == bytes[p]
  IN  IF header = NoOp THEN <<>>
      ELSE IF header > NoOp
           THEN [j \in 1..2 * MaxRun + 1 - header |-> bytes[p + 1]]
           ELSE SubSeq(bytes, p + 1, p + 1 + header)

PacketSize(bytes, p) ==
  LET header == bytes[p]
  IN  IF header = NoOp THEN 1 ELSE IF header > NoOp THEN 2 ELSE header + 2
=============================================================================
