-------------------------- MODULE DocumentFile_proofs -------------------------
(***************************************************************************)
(* What TLAPS proves of the file of a document: for any paths, documents,  *)
(* settings and files of other programs, that a file opens exactly if it   *)
(* was saved as far as its layers, and that the readers find the same      *)
(* places.                                                                 *)
(*                                                                         *)
(* The invariant gives each path its story: the save that made the file,   *)
(* how far it came, and which blocks the file has for that (HasStory).  A  *)
(* save has written what comes before its next step (SaveIsUnderWay); a    *)
(* reader has read what comes before its next step, whatever the file is   *)
(* (ReadIsUnderWay).                                                       *)
(***************************************************************************)
EXTENDS DocumentFile, FiniteSetTheorems, WellFoundedInduction, TLAPS

-----------------------------------------------------------------------------
(* Induction.                                                              *)

\* A set of naturals that is not empty has a least member.
LEMMA LeastMember ==
  ASSUME NEW T \in SUBSET Nat, T # {}
  PROVE  \E x \in T : \A y \in T : x <= y
<1>1. PICK x \in T : \A y \in T : ~ (<<y, x>> \in OpToRel(<, Nat))
  BY NatLessThanWellFounded, WFMin
<1>2. \A y \in T : ~ (y < x)
  BY <1>1 DEF OpToRel
<1> QED BY <1>2

\* A set that has 0 and the successor of every member has every natural.
LEMMA SetInduction ==
  ASSUME NEW S, 0 \in S, \A n \in Nat : n \in S => n + 1 \in S
  PROVE  Nat \subseteq S
<1> DEFINE T == {n \in Nat : n \notin S}
<1>1. SUFFICES ASSUME T # {} PROVE FALSE
  OBVIOUS
<1>2. PICK x \in T : \A y \in T : x <= y
  BY <1>1, LeastMember
<1>3. x # 0 /\ x - 1 \in Nat /\ x - 1 \notin T
  BY <1>2
<1>4. x \in S
  BY <1>3, x = (x - 1) + 1
<1> QED BY <1>4

-----------------------------------------------------------------------------
(* The file of a document: what stands at an offset, and what putting a      *)
(* block there leaves alone.                                                 *)

\* A stream with blocks up to its offset, and one that ends before it.
IsStream(d) ==
  /\ d = [blocks |-> d.blocks, offset |-> d.offset]
  /\ d.offset \in Nat
  /\ \A o \in DOMAIN d.blocks : o \in Nat /\ o <= d.offset

\* No block stands at the offset or beyond.
IsEnded(d) == IsStream(d) /\ \A o \in DOMAIN d.blocks : o < d.offset

\* The block at o says val.
Says(d, o, kind, val) ==
  o \in DOMAIN d.blocks /\ d.blocks[o].kind = kind /\ d.blocks[o].val = val

\* Nothing changes at o from d to e.
IsSame(d, e, o) ==
  /\ o \in DOMAIN d.blocks <=> o \in DOMAIN e.blocks
  /\ o \in DOMAIN d.blocks => e.blocks[o] = d.blocks[o]

\* Nothing changes before b.
IsSameBefore(d, e, b) == \A o \in Nat : o < b => IsSame(d, e, o)

\* A block is put at the offset.
LEMMA PutSays ==
  ASSUME NEW d, IsStream(d), NEW kind, NEW val, NEW len \in Nat,
         NEW e, e = Put(d, kind, val, len)
  PROVE  /\ IsStream(e) /\ e.offset = d.offset + len
         /\ len # 0 => IsEnded(e)
         /\ Says(e, d.offset, kind, val)
         /\ \A o : o # d.offset => IsSame(d, e, o)
         /\ IsSameBefore(d, e, d.offset)
<1>1. /\ e.offset = d.offset + len
      /\ e.blocks = [o \in DOMAIN d.blocks \cup {d.offset} |->
                       IF o = d.offset THEN Block(kind, val, len) ELSE d.blocks[o]]
      /\ e = [blocks |-> e.blocks, offset |-> e.offset]
  BY DEF Put
<1>2. d.offset \in Nat /\ \A o \in DOMAIN d.blocks : o \in Nat /\ o <= d.offset
  BY DEF IsStream
<1>3. /\ d.offset \in DOMAIN e.blocks /\ e.blocks[d.offset] = Block(kind, val, len)
      /\ DOMAIN e.blocks = DOMAIN d.blocks \cup {d.offset}
      /\ \A o \in DOMAIN d.blocks : o # d.offset => e.blocks[o] = d.blocks[o]
  BY <1>1
<1>4. Says(e, d.offset, kind, val)
  BY <1>3 DEF Says, Block
<1>5. ASSUME NEW o \in DOMAIN e.blocks
      PROVE  o \in Nat /\ o <= e.offset /\ (len # 0 => o < e.offset)
  <2>1. o = d.offset \/ o \in DOMAIN d.blocks
    BY <1>3
  <2>2. o \in Nat /\ o <= d.offset
    BY <1>2, <2>1
  <2>3. e.offset = d.offset + len /\ d.offset \in Nat
    BY <1>1, <1>2
  <2> QED BY <2>2, <2>3
<1>6. IsStream(e) /\ (len # 0 => IsEnded(e))
  BY <1>1, <1>2, <1>5 DEF IsStream, IsEnded
<1>7. \A o : o # d.offset => IsSame(d, e, o)
  BY <1>3 DEF IsSame
<1>8. IsSameBefore(d, e, d.offset)
  BY <1>2, <1>7 DEF IsSameBefore
<1> QED BY <1>1, <1>4, <1>6, <1>7, <1>8

\* Padding is put at the offset as well.
LEMMA PaddingSays ==
  ASSUME NEW d, IsStream(d), NEW len \in Nat, NEW e, e = PutPadding(d, len)
  PROVE  /\ IsStream(e) /\ e.offset = d.offset + len /\ IsSameBefore(d, e, d.offset)
         /\ IsEnded(d) => IsEnded(e)
         /\ len # 0 => IsEnded(e)
         /\ len = 0 => e = d
<1>1. d.offset \in Nat
  BY DEF IsStream
<1>2. CASE len = 0
  <2>1. e = d
    BY <1>2 DEF PutPadding
  <2>2. IsSameBefore(d, d, d.offset)
    BY DEF IsSameBefore, IsSame
  <2> QED BY <1>1, <1>2, <2>1, <2>2
<1>3. CASE len # 0
  <2>1. e = Put(d, "padding", 0, len)
    BY <1>3 DEF PutPadding
  <2> QED BY <1>1, <1>3, <2>1, PutSays
<1> QED BY <1>2, <1>3

\* Filling in a marker changes that block only; padding goes to the end.
LEMMA PatchSays ==
  ASSUME NEW d, IsStream(d), NEW mark \in Nat, mark < d.offset, NEW width \in Nat, NEW length,
         NEW padding \in Nat, NEW e, e = Patch(d, mark, width, length, padding)
  PROVE  /\ IsStream(e) /\ e.offset = d.offset + padding
         /\ IsEnded(d) => IsEnded(e)
         /\ padding = 0 => \A o : o # mark => IsSame(d, e, o)
         /\ Says(e, mark, "length", length)
         /\ \A o \in Nat : o < d.offset /\ o # mark => IsSame(d, e, o)
<1> DEFINE patched == [o \in DOMAIN d.blocks \cup {mark} |->
                         IF o = mark THEN Block("length", length, width) ELSE d.blocks[o]]
           back    == [blocks |-> patched, offset |-> d.offset]
<1>1. d.offset \in Nat /\ (\A o \in DOMAIN d.blocks : o \in Nat /\ o <= d.offset)
      /\ d = [blocks |-> d.blocks, offset |-> d.offset]
  BY DEF IsStream
<1>2. SetOffset(Put(SetOffset(d, mark), "length", length, width), d.offset) = back
  <2>1. SetOffset(d, mark) = [blocks |-> d.blocks, offset |-> mark]
    BY <1>1 DEF SetOffset
  <2>2. Put([blocks |-> d.blocks, offset |-> mark], "length", length, width)
          = [blocks |-> patched, offset |-> mark + width]
    BY DEF Put
  <2> QED BY <2>1, <2>2 DEF SetOffset
<1>3. e = PutPadding(back, padding)
  BY <1>2 DEF Patch
<1>4. DOMAIN patched = DOMAIN d.blocks \cup {mark}
      /\ patched[mark] = Block("length", length, width)
      /\ \A o \in DOMAIN d.blocks : o # mark => patched[o] = d.blocks[o]
  OBVIOUS
<1>5. back.blocks = patched /\ back.offset = d.offset
      /\ back = [blocks |-> back.blocks, offset |-> back.offset]
  OBVIOUS
<1> HIDE DEF patched, back
<1>6. IsStream(back)
  BY <1>1, <1>4, <1>5 DEF IsStream
<1>7. /\ IsStream(e) /\ e.offset = d.offset + padding /\ IsSameBefore(back, e, d.offset)
      /\ IsEnded(back) => IsEnded(e)
      /\ padding = 0 => e = back
  BY <1>3, <1>5, <1>6, PaddingSays
<1>8. \A o \in Nat : o < d.offset => IsSame(back, e, o)
  BY <1>7 DEF IsSameBefore
<1>9. Says(back, mark, "length", length)
  BY <1>4, <1>5 DEF Says, Block
<1>10. Says(e, mark, "length", length)
  BY <1>8, <1>9 DEF IsSame, Says
<1>11. \A o : o # mark => IsSame(d, back, o)
  BY <1>4, <1>5 DEF IsSame
<1>12. \A o \in Nat : o < d.offset /\ o # mark => IsSame(d, e, o)
  <2> SUFFICES ASSUME NEW o \in Nat, o < d.offset, o # mark PROVE IsSame(d, e, o)
    OBVIOUS
  <2>1. IsSame(back, e, o)
    BY <1>8
  <2>2. IsSame(d, back, o)
    BY <1>11
  <2> QED BY <2>1, <2>2 DEF IsSame
<1>13. IsEnded(d) => IsEnded(back)
  BY <1>1, <1>4, <1>5, <1>6 DEF IsEnded, IsStream
<1> QED BY <1>7, <1>10, <1>11, <1>12, <1>13

\* What is the same says the same.
LEMMA SameSays ==
  ASSUME NEW d, NEW e, NEW o, IsSame(d, e, o), NEW kind, NEW val, Says(d, o, kind, val)
  PROVE  Says(e, o, kind, val)
BY DEF IsSame, Says

\* What is said before b stays said when nothing changes there.
LEMMA KeepsSaying ==
  ASSUME NEW d, NEW e, NEW b, IsSameBefore(d, e, b), NEW o \in Nat, o < b,
         NEW kind, NEW val, Says(d, o, kind, val)
  PROVE  Says(e, o, kind, val)
BY SameSays DEF IsSameBefore

\* Nothing stands where a stream goes on.
LEMMA NothingAtEnd ==
  ASSUME NEW d, IsEnded(d), NEW o, o >= d.offset, NEW kind
  PROVE  ~HasBlock(d.blocks, o, kind)
BY DEF IsEnded, IsStream, HasBlock

\* Nor is the end found to be something that is kept.
LEMMA NothingKeptAtEnd ==
  ASSUME NEW d, IsEnded(d)
  PROVE  ~HasBlock(d.blocks, d.offset, "profile") /\ ~HasBlock(d.blocks, d.offset, "resolution")
BY DEF IsEnded, IsStream, HasBlock

\* What is said of a place is found there.
LEMMA SaidIsFound ==
  ASSUME NEW d, NEW o, NEW kind, NEW val, Says(d, o, kind, val)
  PROVE  /\ HasBlock(d.blocks, o, kind) /\ d.blocks[o].val = val
         /\ \A other : other # kind => ~HasBlock(d.blocks, o, other)
BY DEF Says, HasBlock

\* Two steps that change nothing before b and c.
LEMMA SameTwice ==
  ASSUME NEW d, NEW e, NEW f, NEW b \in Nat, NEW c \in Nat, b <= c,
         IsSameBefore(d, e, b), IsSameBefore(e, f, c)
  PROVE  IsSameBefore(d, f, b)
<1> SUFFICES ASSUME NEW o \in Nat, o < b PROVE IsSame(d, f, o)
  BY DEF IsSameBefore
<1>1. IsSame(d, e, o) /\ IsSame(e, f, o)
  BY DEF IsSameBefore
<1> QED BY <1>1 DEF IsSame

-----------------------------------------------------------------------------
(* What a file of a document has, section by section.                        *)

\* The header: version and settings.
HeaderIn(d, v, s) ==
  v \in {"psd", "psb"} /\ Says(d, 4, "version", v) /\ Says(d, 6, "header", s)

\* Nothing that a document keeps stands at o.
NothingKept(d, o) == ~HasBlock(d.blocks, o, "profile") /\ ~HasBlock(d.blocks, o, "resolution")

\* What a reader keeps of a resource, if it is the first of its kind.
KeptOf(kept, kind, raw, val) ==
  CASE kind = "profile" /\ kind \notin kept.found ->
         [Finding(kept, "profile") EXCEPT !.profile = Normalized([val EXCEPT !.size = raw])]
    [] kind = "resolution" /\ kind \notin kept.found ->
         [Finding(kept, "resolution") EXCEPT !.dpi = val]
    [] OTHER -> kept

\* What is kept of the resources before the first is read.
NoneKept == [dpi |-> 72, profile |-> NoProfile, found |-> {}]

\* What a reader keeps is a record of these.
HasKept(kept) == kept = [dpi |-> kept.dpi, profile |-> kept.profile, found |-> kept.found]

\* What is kept of all of them is what s says, whichever kinds were found.
IsKeptOf(kept, s) ==
  kept = [dpi |-> s.dpi, profile |-> Normalized(s.profile), found |-> kept.found]

\* A resource of this kind stands at p, with its length at mark and its end at q; a
\* reader keeps so much before and after it.
ResourceSays(d, p, mark, q, kind, name, raw, val, before, after) ==
  /\ Says(d, p, "resource", kind) /\ Says(d, p + 6, "name", name) /\ Says(d, mark, "length", raw)
  /\ q = mark + 4 + RoundUpToMultiple(raw, 2)
  /\ \/ kind = "profile" /\ raw # 0 /\ Says(d, mark + 4, "profile", val)
     \/ kind = "resolution" /\ raw = 16 /\ Says(d, mark + 4, "resolution", val)
     \/ kind = "other" /\ (raw # 0 => NothingKept(d, mark + 4))
  /\ HasKept(before) /\ after = KeptOf(before, kind, raw, val)

\* A resource from p to q, and what a reader keeps before and after it.
ResourceIn(d, p, q, before, after) ==
  \E kind, val : \E name \in 0..253, raw \in Nat :
    ResourceSays(d, p, p + 6 + RoundUpToMultiple(name + 1, 2), q, kind, name, raw, val,
                 before, after)

\* The resources: where each ends, and what a reader has kept by then.
ResourcesIn(d, start, n, ends, keeps) ==
  /\ ends \in [0..n -> Nat] /\ ends[0] = start
  /\ keeps[0] = NoneKept
  /\ \A k \in 1..n : ResourceIn(d, ends[k - 1], ends[k], keeps[k - 1], keeps[k])
  /\ \A k \in 0..n : start <= ends[k] /\ (k # n => ends[k] < ends[n])

\* The color data has c bytes, the n resources end at e and say what s does.
FrontOf(d, v, s, e, c, n, ends, keeps) ==
  /\ HeaderIn(d, v, s)
  /\ Says(d, 26, "length", c)
  /\ Says(d, 30 + c, "length", e - (34 + c)) /\ (e - (34 + c)) % 2 = 0
  /\ ResourcesIn(d, 34 + c, n, ends, keeps)
  /\ e = ends[n] /\ e <= d.offset
  /\ IsKeptOf(keeps[n], s)
  /\ NothingKept(d, e)

\* All that stands before the layers.
FrontIn(d, v, s, e) ==
  \E c, n \in Nat : \E ends, keeps : FrontOf(d, v, s, e, c, n, ends, keeps)

\* A file that was written up to the color data, the resources, the section.
UpToHeader(d, v, s) == IsEnded(d) /\ d.offset = 26 /\ HeaderIn(d, v, s)

\* The same behind the color data.
UpToColor(d, v, s, c) ==
  IsEnded(d) /\ d.offset = 30 + c /\ HeaderIn(d, v, s) /\ Says(d, 26, "length", c)

\* The same up to p in the resources, which are of an even length and of which a
\* reader has kept so much.
AmongResources(d, v, s, c, p, kept) ==
  /\ IsStream(d) /\ d.offset = p /\ HeaderIn(d, v, s)
  /\ Says(d, 26, "length", c) /\ Says(d, 30 + c, "length", 0)
  /\ NothingKept(d, p) /\ (p - (34 + c)) % 2 = 0 /\ p >= 34 + c /\ HasKept(kept)
  /\ \E n \in Nat : \E ends, keeps :
       ResourcesIn(d, 34 + c, n, ends, keeps) /\ ends[n] = p /\ keeps[n] = kept

\* The same behind the resources.
UpToFront(d, v, s, e) == IsStream(d) /\ d.offset = e /\ FrontIn(d, v, s, e)

\* Whether the layers are in a tagged block, and where they are then.
IsDeep(s) == s.depth >= 16

\* Where the layers are.
BodyPlace(v, s, e) == e + (IF IsDeep(s) THEN 3 * Width(v) + 12 ELSE 2 * Width(v))

\* The markers: of the section at e, and of the layer info with the layers.
SectionIn(d, v, s, e, size, info) ==
  /\ Says(d, e, "length", size)
  /\ IF IsDeep(s)
     THEN /\ Says(d, e + Width(v), "length", 0)
          /\ Says(d, e + 2 * Width(v), "mask", 0)
          /\ Says(d, e + 2 * Width(v) + 4, "tagged", 0)
          /\ Says(d, e + 2 * Width(v) + 12, "length", info)
     ELSE Says(d, e + Width(v), "length", info)

\* The layers, and the mask info behind them.
LayersIn(d, v, s, e) == Says(d, BodyPlace(v, s, e), "layers", 0)

\* The mask info of a document with 8 bits.
MaskIn(d, v, s, e) == IsDeep(s) \/ Says(d, BodyPlace(v, s, e) + 44, "mask", 0)

\* The length of the section, and where it ends.
SectionSize(v, s) == IF IsDeep(s) THEN 2 * Width(v) + 56 ELSE Width(v) + 48

\* Where the merged image is.
ImageStart(v, s, e) == e + Width(v) + SectionSize(v, s)

\* A file that was written up to the layers, the mask info, the end of the
\* section, the merged image.
UpToBody(d, v, s, e) ==
  /\ IsEnded(d) /\ FrontIn(d, v, s, e) /\ SectionIn(d, v, s, e, 0, 0)
  /\ d.offset = BodyPlace(v, s, e)

\* The same behind the layers.
UpToLayersEnd(d, v, s, e) ==
  /\ IsEnded(d) /\ FrontIn(d, v, s, e) /\ SectionIn(d, v, s, e, 0, 44) /\ LayersIn(d, v, s, e)
  /\ d.offset = BodyPlace(v, s, e) + 44

\* The same behind the mask info.
UpToMask(d, v, s, e) ==
  /\ IsEnded(d) /\ FrontIn(d, v, s, e) /\ SectionIn(d, v, s, e, 0, 44) /\ LayersIn(d, v, s, e)
  /\ MaskIn(d, v, s, e)
  /\ d.offset = BodyPlace(v, s, e) + (IF IsDeep(s) THEN 44 ELSE 48)

\* The same with the length of the section.
UpToImage(d, v, s, e) ==
  /\ IsEnded(d) /\ FrontIn(d, v, s, e)
  /\ SectionIn(d, v, s, e, SectionSize(v, s), 44) /\ LayersIn(d, v, s, e) /\ MaskIn(d, v, s, e)
  /\ d.offset = ImageStart(v, s, e)

-----------------------------------------------------------------------------
\* The even number from n on.
LEMMA RoundedUp ==
  ASSUME NEW n \in Nat
  PROVE  /\ RoundUpToMultiple(n, 2) \in Nat
         /\ RoundUpToMultiple(n, 2) = n + (n % 2)
         /\ n % 2 = 0 => RoundUpToMultiple(n, 2) = n
         /\ RoundUpToMultiple(n, 2) % 2 = 0
<1>1. n % 2 = 0 \/ n % 2 = 1
  OBVIOUS
<1>2. CASE n % 2 = 0
  <2>1. PICK half \in Nat : n = 2 * half
    BY <1>2
  <2>2. (n + 2 - 1) \div 2 = half
    BY <2>1
  <2>3. RoundUpToMultiple(n, 2) = n
    BY <2>1, <2>2 DEF RoundUpToMultiple
  <2>4. n = n + (n % 2)
    BY <1>2
  <2> QED BY <1>2, <2>3, <2>4
<1>3. CASE n % 2 = 1
  <2>1. PICK half \in Nat : n = 2 * half + 1
    BY <1>3
  <2>2. (n + 2 - 1) \div 2 = half + 1
    BY <2>1
  <2>3. RoundUpToMultiple(n, 2) = n + 1
    BY <2>1, <2>2 DEF RoundUpToMultiple
  <2>4. n + 1 \in Nat /\ n + 1 = n + (n % 2) /\ (n + 1) % 2 = 0 /\ n % 2 # 0
    BY <1>3, <2>1
  <2> QED BY <2>3, <2>4
<1> QED BY <1>1, <1>2, <1>3

\* Where the name of a resource ends.
LEMMA NameEnds ==
  ASSUME NEW p \in Nat, NEW name \in Nat
  PROVE  /\ p + 6 + RoundUpToMultiple(name + 1, 2) \in Nat
         /\ p + 6 < p + 6 + RoundUpToMultiple(name + 1, 2)
<1> DEFINE padded == RoundUpToMultiple(name + 1, 2)
<1>1. padded \in Nat /\ padded >= name + 1
  <2>1. name + 1 \in Nat
    OBVIOUS
  <2> QED BY <2>1, RoundedUp
<1> HIDE DEF padded
<1>2. p + 6 + padded \in Nat /\ p + 6 < p + 6 + padded
  BY <1>1
<1> QED BY <1>2 DEF padded

\* Where a resource ends.
LEMMA ResourceEnds ==
  ASSUME NEW d, NEW p, NEW mark \in Nat, NEW q, NEW kind, NEW name, NEW raw \in Nat, NEW val,
         NEW before, NEW after,
         ResourceSays(d, p, mark, q, kind, name, raw, val, before, after)
  PROVE  q \in Nat /\ mark + 4 <= q /\ (raw # 0 => mark + 4 < q)
<1> DEFINE data == RoundUpToMultiple(raw, 2)
<1>1. data \in Nat /\ data >= raw
  BY RoundedUp
<1>2. q = mark + 4 + data
  BY DEF ResourceSays
<1> HIDE DEF data
<1> QED BY <1>1, <1>2

\* A resource stays where nothing changes from its start to its end.
LEMMA ResourceStays ==
  ASSUME NEW d, NEW f, NEW p \in Nat, NEW q, NEW before, NEW after, NEW b \in Nat, q <= b,
         ResourceIn(d, p, q, before, after), \A o \in Nat : p <= o /\ o < b => IsSame(d, f, o)
  PROVE  ResourceIn(f, p, q, before, after)
<1>1. PICK kind, val : \E name \in 0..253, raw \in Nat :
        ResourceSays(d, p, p + 6 + RoundUpToMultiple(name + 1, 2), q, kind, name, raw, val,
                     before, after)
  BY DEF ResourceIn
<1>2. PICK name \in 0..253, raw \in Nat :
        ResourceSays(d, p, p + 6 + RoundUpToMultiple(name + 1, 2), q, kind, name, raw, val,
                     before, after)
  BY <1>1
<1> DEFINE mark == p + 6 + RoundUpToMultiple(name + 1, 2)
<1>3. ResourceSays(d, p, mark, q, kind, name, raw, val, before, after)
  BY <1>2
<1>4. SUFFICES ResourceSays(f, p, mark, q, kind, name, raw, val, before, after)
  BY DEF ResourceIn
<1>5. /\ mark \in Nat /\ p + 6 < mark /\ q \in Nat /\ mark + 4 <= q
      /\ raw # 0 => mark + 4 < q
  <2>1. mark \in Nat /\ p + 6 < mark
    BY NameEnds
  <2> HIDE DEF mark
  <2> QED BY <1>3, <2>1, ResourceEnds
<1> HIDE DEF mark
<1>6. IsSame(d, f, p) /\ IsSame(d, f, p + 6) /\ IsSame(d, f, mark)
      /\ (raw # 0 => IsSame(d, f, mark + 4))
  <2>1. /\ p \in Nat /\ p <= p /\ p < b /\ p + 6 \in Nat /\ p <= p + 6 /\ p + 6 < b
        /\ p <= mark /\ mark < b /\ (raw # 0 => mark + 4 < b) /\ mark + 4 \in Nat /\ p <= mark + 4
    BY <1>5
  <2> QED BY <1>5, <2>1
<1>7. raw # 0 /\ NothingKept(d, mark + 4) => NothingKept(f, mark + 4)
  BY <1>6 DEF NothingKept, HasBlock, IsSame
<1>8. /\ Says(f, p, "resource", kind) /\ Says(f, p + 6, "name", name)
      /\ Says(f, mark, "length", raw)
  BY <1>3, <1>6, SameSays DEF ResourceSays
<1>9. \A k : raw # 0 /\ Says(d, mark + 4, k, val) => Says(f, mark + 4, k, val)
  BY <1>6, SameSays
<1> QED BY <1>3, <1>7, <1>8, <1>9 DEF ResourceSays

\* What stands before the section stays when nothing changes there.
LEMMA FrontStays ==
  ASSUME NEW d, NEW f, NEW v, NEW s, NEW e, FrontIn(d, v, s, e), IsSameBefore(d, f, e),
         e <= f.offset, NothingKept(f, e)
  PROVE  FrontIn(f, v, s, e)
<1>1. PICK c \in Nat, n \in Nat : \E ends, keeps : FrontOf(d, v, s, e, c, n, ends, keeps)
  BY DEF FrontIn
<1>2. PICK ends, keeps : FrontOf(d, v, s, e, c, n, ends, keeps)
  BY <1>1
<1>3. /\ ends \in [0..n -> Nat] /\ ends[0] = 34 + c /\ e = ends[n]
      /\ \A k \in 0..n : k # n => ends[k] < ends[n]
      /\ \A k \in 1..n : ResourceIn(d, ends[k - 1], ends[k], keeps[k - 1], keeps[k])
  BY <1>2 DEF FrontOf, ResourcesIn
<1>4. e \in Nat /\ e >= 34 + c
  <2>1. n \in 0..n /\ 0 \in 0..n
    OBVIOUS
  <2>2. n = 0 \/ ends[0] < ends[n]
    BY <1>3, <2>1
  <2>3. ends[n] \in Nat
    BY <1>3, <2>1
  <2> QED BY <1>3, <2>2, <2>3
<1>5. HeaderIn(f, v, s) /\ Says(f, 26, "length", c) /\ Says(f, 30 + c, "length", e - (34 + c))
  <2>1. /\ 4 \in Nat /\ 6 \in Nat /\ 26 \in Nat /\ 30 + c \in Nat
        /\ 4 < e /\ 6 < e /\ 26 < e /\ 30 + c < e
    BY <1>4
  <2>2. IsSame(d, f, 4) /\ IsSame(d, f, 6) /\ IsSame(d, f, 26) /\ IsSame(d, f, 30 + c)
    BY <2>1 DEF IsSameBefore
  <2> QED BY <1>2, <2>2, SameSays DEF FrontOf, HeaderIn
<1>6. ASSUME NEW k \in 1..n
      PROVE  ResourceIn(f, ends[k - 1], ends[k], keeps[k - 1], keeps[k])
  <2>1. k - 1 \in 0..n /\ k \in 0..n
    OBVIOUS
  <2>2. ends[k - 1] \in Nat /\ ends[k] \in Nat /\ ends[k] <= e
    BY <1>3, <2>1
  <2> QED BY <1>3, <1>4, <2>2, ResourceStays DEF IsSameBefore
<1>7. ResourcesIn(f, 34 + c, n, ends, keeps)
  BY <1>2, <1>6 DEF FrontOf, ResourcesIn
<1>8. FrontOf(f, v, s, e, c, n, ends, keeps)
  BY <1>2, <1>5, <1>7 DEF FrontOf
<1> QED BY <1>8 DEF FrontIn

\* The place of the section is found by adding up the markers before it.
LEMMA FrontPlace ==
  ASSUME NEW d, NEW v, NEW s, NEW e, FrontIn(d, v, s, e)
  PROVE  /\ e \in Nat /\ e >= 34 /\ SectionPlace(d.blocks) = e
         /\ HasBlock(d.blocks, 26, "length")
         /\ HasBlock(d.blocks, 26 + ColorDataSize(d.blocks), "length")
         /\ v \in {"psd", "psb"} /\ d.blocks[4].val = v
<1>1. PICK c \in Nat, n \in Nat : \E ends, keeps : FrontOf(d, v, s, e, c, n, ends, keeps)
  BY DEF FrontIn
<1>2. PICK ends, keeps : FrontOf(d, v, s, e, c, n, ends, keeps)
  BY <1>1
<1>3. /\ ends \in [0..n -> Nat] /\ ends[0] = 34 + c /\ e = ends[n]
      /\ \A k \in 0..n : k # n => ends[k] < ends[n]
  BY <1>2 DEF FrontOf, ResourcesIn
<1>4. e \in Nat /\ e >= 34 + c
  <2>1. n \in 0..n /\ 0 \in 0..n
    OBVIOUS
  <2>2. n = 0 \/ ends[0] < ends[n]
    BY <1>3, <2>1
  <2>3. ends[n] \in Nat
    BY <1>3, <2>1
  <2> QED BY <1>3, <2>2, <2>3
<1>5. HasBlock(d.blocks, 26, "length") /\ ColorDataSize(d.blocks) = c + 4
  BY <1>2 DEF FrontOf, Says, HasBlock, ColorDataSize, HeaderLength
<1>6. 26 + (c + 4) = 30 + c
  BY <1>1
<1> DEFINE m == e - (34 + c)
<1>7. m \in Nat /\ RoundUpToMultiple(m, 2) = m /\ e = (30 + c) + m + 4
  <2>1. m \in Nat /\ m % 2 = 0
    BY <1>2, <1>4 DEF FrontOf
  <2> QED BY <1>4, <2>1, RoundedUp
<1>8. HasBlock(d.blocks, 30 + c, "length") /\ d.blocks[30 + c].val = m
  BY <1>2 DEF FrontOf, Says, HasBlock
<1> HIDE DEF m
<1>9. SectionPlace(d.blocks) = e
  <2>1. HeaderLength + ColorDataSize(d.blocks) = 30 + c
    BY <1>5, <1>6 DEF HeaderLength
  <2> QED BY <1>7, <1>8, <2>1 DEF SectionPlace
<1>10. v \in {"psd", "psb"} /\ d.blocks[4].val = v
  BY <1>2 DEF FrontOf, HeaderIn, Says
<1> QED BY <1>4, <1>5, <1>6, <1>8, <1>9, <1>10

-----------------------------------------------------------------------------
(* How the parts of a file are written.                                      *)

\* The header.
LEMMA HeaderIsWritten ==
  ASSUME NEW v \in {"psd", "psb"}, NEW s
  PROVE  UpToHeader(HeaderBlocks(EmptyDocument, v, s), v, s)
<1> DEFINE d1 == Put(EmptyDocument, "signature", 0, 4)
           d2 == Put(d1, "version", v, 2)
           d3 == Put(d2, "header", s, 20)
<1>1. IsStream(EmptyDocument) /\ EmptyDocument.offset = 0
  BY DEF EmptyDocument, IsStream
<1>2. IsStream(d1) /\ d1.offset = 4
  BY <1>1, PutSays
<1> HIDE DEF d1
<1>3. IsStream(d2) /\ d2.offset = 6 /\ Says(d2, 4, "version", v)
  BY <1>2, PutSays
<1> HIDE DEF d2
<1>4. IsEnded(d3) /\ d3.offset = 26 /\ Says(d3, 6, "header", s) /\ IsSame(d2, d3, 4)
  BY <1>3, PutSays
<1>5. Says(d3, 4, "version", v)
  BY <1>3, <1>4, SameSays
<1>6. HeaderBlocks(EmptyDocument, v, s) = d3
  BY DEF HeaderBlocks, d1, d2
<1> HIDE DEF d3
<1> QED BY <1>4, <1>5, <1>6 DEF UpToHeader, HeaderIn

\* The header stays where nothing changes up to its end.
LEMMA HeaderStays ==
  ASSUME NEW d, NEW e, NEW b \in Nat, b > 6, IsSameBefore(d, e, b), NEW v, NEW s, HeaderIn(d, v, s)
  PROVE  HeaderIn(e, v, s)
<1>1. IsSame(d, e, 4) /\ IsSame(d, e, 6)
  BY DEF IsSameBefore
<1> QED BY <1>1, SameSays DEF HeaderIn

\* The color data.
LEMMA ColorIsWritten ==
  ASSUME NEW d, NEW v, NEW s, UpToHeader(d, v, s), NEW c \in Nat,
         NEW e, e = IF c = 0 THEN Put(d, "length", 0, 4)
                    ELSE Put(Put(d, "length", c, 4), "color", 0, c)
  PROVE  UpToColor(e, v, s, c)
<1>1. IsStream(d) /\ d.offset = 26 /\ HeaderIn(d, v, s)
  BY DEF UpToHeader, IsEnded
<1> DEFINE m == Put(d, "length", c, 4)
<1>2. IsEnded(m) /\ m.offset = 30 /\ Says(m, 26, "length", c) /\ IsSameBefore(d, m, 26)
  BY <1>1, PutSays
<1>3. IsStream(m) /\ HeaderIn(m, v, s)
  BY <1>1, <1>2, HeaderStays DEF IsEnded
<1>4. CASE c = 0
  <2>1. e = m
    BY <1>4
  <2> QED BY <1>2, <1>3, <1>4, <2>1 DEF UpToColor
<1>5. CASE c # 0
  <2>1. e = Put(m, "color", 0, c)
    BY <1>5
  <2> HIDE DEF m
  <2>2. IsEnded(e) /\ e.offset = 30 + c /\ IsSameBefore(m, e, 30) /\ IsSame(m, e, 26)
    BY <1>2, <1>3, <1>5, <2>1, PutSays
  <2>3. Says(e, 26, "length", c)
    BY <1>2, <2>2, SameSays
  <2>4. HeaderIn(e, v, s)
    BY <1>3, <2>2, HeaderStays
  <2> QED BY <2>2, <2>3, <2>4 DEF UpToColor
<1> QED BY <1>4, <1>5

\* Names that fit their byte are padded to an even length.
LEMMA SizeOfName ==
  ASSUME NEW n \in 0..253
  PROVE  NameSize(n) = RoundUpToMultiple(n + 1, 2) /\ n + 1 <= RoundUpToMultiple(n + 1, 2)
<1>1. (n + 1) % 256 = n + 1 /\ n + 1 \in Nat
  OBVIOUS
<1> DEFINE r == RoundUpToMultiple(n + 1, 2)
<1>2. r = (n + 1) + ((n + 1) % 2) /\ r \in Nat
  BY <1>1, RoundedUp
<1>3. r \in 0..255 /\ n + 1 <= r
  <2>1. (n + 1) % 2 \in 0..1
    OBVIOUS
  <2> QED BY <1>2, <2>1
<1> HIDE DEF r
<1>4. r % 256 = r
  BY <1>3
<1> QED BY <1>1, <1>3, <1>4 DEF NameSize, r

\* The name of a resource is put at the end of a stream.
LEMMA NameIsPut ==
  ASSUME NEW d, IsStream(d), NEW kind, NEW name, NEW size \in Nat, size # 0, NEW pad \in Nat,
         NEW e, e = PutPadding(Put(Put(d, "resource", kind, 6), "name", name, size), pad)
  PROVE  /\ IsEnded(e) /\ IsSameBefore(d, e, d.offset)
         /\ e.offset = d.offset + 6 + size + pad
         /\ Says(e, d.offset, "resource", kind) /\ Says(e, d.offset + 6, "name", name)
<1> DEFINE p    == d.offset
           d1   == Put(d, "resource", kind, 6)
           d2   == Put(d1, "name", name, size)
<1>1. p \in Nat /\ p + 6 \in Nat /\ size \in Nat /\ size # 0
  BY DEF IsStream
<1>2. /\ IsStream(d1) /\ d1.offset = p + 6 /\ Says(d1, p, "resource", kind)
      /\ IsSameBefore(d, d1, p)
  BY PutSays
<1> HIDE DEF d1
<1>3. /\ IsEnded(d2) /\ IsStream(d2) /\ d2.offset = p + 6 + size
      /\ Says(d2, p + 6, "name", name) /\ IsSameBefore(d1, d2, p + 6)
  BY <1>1, <1>2, PutSays
<1>4. e = PutPadding(d2, pad)
  BY DEF d1
<1> HIDE DEF d2
<1>5. IsEnded(d2) /\ IsStream(d2)
  BY <1>3
<1>6. IsEnded(e) /\ e.offset = d2.offset + pad /\ IsSameBefore(d2, e, d2.offset)
  BY <1>4, <1>5, PaddingSays
<1>7. e.offset = p + 6 + size + pad
  BY <1>3, <1>6
<1>8. IsSameBefore(d2, e, p + 6 + size)
  BY <1>3, <1>6
<1>9. Says(e, p + 6, "name", name)
  <2>1. p + 6 < p + 6 + size
    BY <1>1
  <2> QED BY <1>1, <1>3, <1>8, <2>1, SameSays DEF IsSameBefore
<1>10. IsSameBefore(d1, e, p + 6)
  <2>1. p + 6 + size \in Nat /\ p + 6 <= p + 6 + size
    BY <1>1
  <2> QED BY <1>1, <1>3, <1>8, <2>1, SameTwice
<1>11. Says(e, p, "resource", kind)
  <2>1. p < p + 6
    BY <1>1
  <2> QED BY <1>1, <1>2, <1>10, <2>1, SameSays DEF IsSameBefore
<1>12. IsSameBefore(d, e, p)
  <2>1. p <= p + 6
    BY <1>1
  <2> QED BY <1>1, <1>2, <1>10, <2>1, SameTwice
<1> QED BY <1>6, <1>7, <1>9, <1>11, <1>12

\* The length and the data of a resource are put there.
LEMMA DataIsPut ==
  ASSUME NEW d, IsStream(d), NEW raw, NEW kind, NEW val, NEW len \in Nat, NEW rest \in Nat,
         len = 0 => rest = 0,
         NEW e, e = PutPadding(Put(Put(d, "length", raw, 4), kind, val, len), rest)
  PROVE  /\ IsStream(e) /\ IsSameBefore(d, e, d.offset) /\ e.offset = d.offset + 4 + len + rest
         /\ Says(e, d.offset, "length", raw) /\ Says(e, d.offset + 4, kind, val)
         /\ len # 0 => IsEnded(e)
<1> DEFINE p    == d.offset
           d1   == Put(d, "length", raw, 4)
           d2   == Put(d1, kind, val, len)
<1>1. p \in Nat /\ p + 4 \in Nat
  BY DEF IsStream
<1>2. /\ IsStream(d1) /\ d1.offset = p + 4 /\ Says(d1, p, "length", raw)
      /\ IsSameBefore(d, d1, p)
  BY PutSays
<1> HIDE DEF d1
<1>3. /\ IsStream(d2) /\ d2.offset = p + 4 + len /\ Says(d2, p + 4, kind, val)
      /\ IsSameBefore(d1, d2, p + 4) /\ (len # 0 => IsEnded(d2))
  BY <1>2, PutSays
<1>4. e = PutPadding(d2, rest)
  BY DEF d1
<1> HIDE DEF d2
<1>5. /\ IsStream(e) /\ e.offset = d2.offset + rest /\ IsSameBefore(d2, e, d2.offset)
      /\ (len # 0 => IsEnded(e)) /\ (len = 0 => e = d2)
  BY <1>3, <1>4, PaddingSays
<1>6. Says(e, p + 4, kind, val)
  <2>1. CASE len = 0
    BY <1>3, <1>5, <2>1
  <2>2. CASE len # 0
    <3>1. p + 4 < p + 4 + len
      BY <1>1, <2>2
    <3> QED BY <1>1, <1>3, <1>5, <3>1, SameSays DEF IsSameBefore
  <2> QED BY <2>1, <2>2
<1>7. IsSameBefore(d1, e, p + 4)
  <2>1. p + 4 <= p + 4 + len /\ p + 4 + len \in Nat
    BY <1>1
  <2>2. IsSameBefore(d2, e, p + 4 + len)
    BY <1>3, <1>5
  <2> QED BY <1>1, <1>3, <2>1, <2>2, SameTwice
<1>8. Says(e, p, "length", raw)
  <2>1. p < p + 4
    BY <1>1
  <2> QED BY <1>1, <1>2, <1>7, <2>1, SameSays DEF IsSameBefore
<1>9. IsSameBefore(d, e, p)
  <2>1. p <= p + 4
    BY <1>1
  <2> QED BY <1>1, <1>2, <1>7, <2>1, SameTwice
<1> QED BY <1>3, <1>5, <1>6, <1>8, <1>9

\* A resource is put at the end of a stream.
LEMMA ResourceIsPut ==
  ASSUME NEW d, IsStream(d), NEW kind, NEW name, NEW size \in Nat, size # 0, NEW pad \in Nat,
         NEW raw, NEW val, NEW len \in Nat, NEW rest \in Nat, len = 0 => rest = 0,
         NEW named, named = PutPadding(Put(Put(d, "resource", kind, 6), "name", name, size), pad),
         NEW e, e = PutPadding(Put(Put(named, "length", raw, 4), kind, val, len), rest),
         NEW mark, mark = d.offset + 6 + size + pad
  PROVE  /\ IsStream(e) /\ IsSameBefore(d, e, d.offset) /\ e.offset = mark + 4 + len + rest
         /\ Says(e, d.offset, "resource", kind) /\ Says(e, d.offset + 6, "name", name)
         /\ Says(e, mark, "length", raw) /\ Says(e, mark + 4, kind, val)
         /\ len # 0 => IsEnded(e)
<1> DEFINE p == d.offset
<1>1. p \in Nat
  BY DEF IsStream
<1>2. mark \in Nat /\ p + 6 < mark /\ p + 6 \in Nat /\ p < mark /\ p <= mark
  BY <1>1
<1>3. /\ IsEnded(named) /\ IsSameBefore(d, named, p) /\ named.offset = mark
      /\ Says(named, p, "resource", kind) /\ Says(named, p + 6, "name", name)
  <2>1. /\ IsEnded(named) /\ IsSameBefore(d, named, d.offset)
        /\ named.offset = d.offset + 6 + size + pad
        /\ Says(named, d.offset, "resource", kind) /\ Says(named, d.offset + 6, "name", name)
    BY NameIsPut
  <2> QED BY <2>1
<1>4. IsStream(named)
  BY <1>3 DEF IsEnded
<1>5. /\ IsStream(e) /\ IsSameBefore(named, e, mark) /\ e.offset = mark + 4 + len + rest
      /\ Says(e, mark, "length", raw) /\ Says(e, mark + 4, kind, val)
      /\ len # 0 => IsEnded(e)
  BY <1>3, <1>4, DataIsPut
<1>6. Says(e, p, "resource", kind) /\ Says(e, p + 6, "name", name)
  BY <1>1, <1>2, <1>3, <1>5, SameSays DEF IsSameBefore
<1>7. IsSameBefore(d, e, p)
  BY <1>1, <1>2, <1>3, <1>5, SameTwice
<1> QED BY <1>5, <1>6, <1>7

\* Even numbers are twice another.
LEMMA EvenMeans ==
  ASSUME NEW m \in Nat, m % 2 = 0
  PROVE  \E x \in Nat : m = 2 * x
OBVIOUS

\* Resources end one behind the other.
LEMMA EndsGrow ==
  ASSUME NEW d, NEW start, NEW n \in Nat, NEW ends, NEW keeps,
         ResourcesIn(d, start, n, ends, keeps), NEW k \in 0..n
  PROVE  ends[k] \in Nat /\ ends[n] \in Nat /\ start <= ends[k] /\ ends[k] <= ends[n]
<1>1. n \in 0..n
  OBVIOUS
<1>2. ends[k] \in Nat /\ ends[n] \in Nat
  BY <1>1 DEF ResourcesIn
<1>3. start <= ends[k] /\ (k # n => ends[k] < ends[n])
  BY DEF ResourcesIn
<1>4. CASE k = n
  BY <1>2, <1>3, <1>4
<1>5. CASE k # n
  BY <1>2, <1>3, <1>5
<1> QED BY <1>4, <1>5

\* Another resource behind those that are there.
LEMMA AnotherResource ==
  ASSUME NEW d, NEW v, NEW s, NEW c \in Nat, NEW p, NEW kept, AmongResources(d, v, s, c, p, kept),
         NEW e, IsStream(e), IsSameBefore(d, e, p), NEW q \in Nat, p < q, (q - p) % 2 = 0,
         e.offset = q, NothingKept(e, q), NEW after, ResourceIn(e, p, q, kept, after),
         HasKept(after)
  PROVE  AmongResources(e, v, s, c, q, after)
<1>1. /\ d.offset = p /\ HeaderIn(d, v, s) /\ Says(d, 26, "length", c)
      /\ Says(d, 30 + c, "length", 0) /\ (p - (34 + c)) % 2 = 0 /\ p >= 34 + c /\ IsStream(d)
  BY DEF AmongResources
<1>2. PICK n \in Nat : \E ends, keeps :
        ResourcesIn(d, 34 + c, n, ends, keeps) /\ ends[n] = p /\ keeps[n] = kept
  BY DEF AmongResources
<1>3. PICK ends, keeps :
        ResourcesIn(d, 34 + c, n, ends, keeps) /\ ends[n] = p /\ keeps[n] = kept
  BY <1>2
<1>4. p \in Nat
  BY <1>1 DEF IsStream
<1>5. HeaderIn(e, v, s) /\ Says(e, 26, "length", c) /\ Says(e, 30 + c, "length", 0)
  <2>1. 30 + c \in Nat /\ 30 + c < p /\ 26 < p /\ 26 \in Nat /\ p > 6
    BY <1>1, <1>4
  <2> QED BY <1>1, <1>4, <2>1, HeaderStays, KeepsSaying
<1>6. (q - (34 + c)) % 2 = 0 /\ q >= 34 + c
  <2>1. PICK x \in Nat : p - (34 + c) = 2 * x
    <3>1. p - (34 + c) \in Nat
      BY <1>1, <1>4
    <3> QED BY <1>1, <3>1, EvenMeans
  <2>2. PICK y \in Nat : q - p = 2 * y
    <3>1. q - p \in Nat
      BY <1>4
    <3> QED BY <3>1, EvenMeans
  <2>3. q - (34 + c) = 2 * (x + y)
    BY <1>4, <2>1, <2>2
  <2>4. (2 * (x + y)) % 2 = 0
    OBVIOUS
  <2> QED BY <1>1, <1>4, <2>3, <2>4
<1> DEFINE more == [k \in 0..(n + 1) |-> IF k = n + 1 THEN q ELSE ends[k]]
           also == [k \in 0..(n + 1) |-> IF k = n + 1 THEN after ELSE keeps[k]]
<1>7. /\ ends \in [0..n -> Nat] /\ ends[0] = 34 + c
      /\ keeps[0] = NoneKept
      /\ \A k \in 1..n : ResourceIn(d, ends[k - 1], ends[k], keeps[k - 1], keeps[k])
      /\ \A k \in 0..n : 34 + c <= ends[k] /\ (k # n => ends[k] < ends[n])
      /\ ends[n] = p /\ keeps[n] = kept
  BY <1>3 DEF ResourcesIn
<1>8. /\ \A k \in 0..n : more[k] = ends[k] /\ also[k] = keeps[k]
      /\ more[n + 1] = q /\ also[n + 1] = after
      /\ more \in [0..(n + 1) -> Nat]
  BY <1>7
<1> HIDE DEF more, also
<1>9. ASSUME NEW k \in 1..(n + 1)
      PROVE  ResourceIn(e, more[k - 1], more[k], also[k - 1], also[k])
  <2>1. CASE k = n + 1
    <3>1. k - 1 = n /\ n \in 0..n
      BY <2>1
    <3>2. more[k - 1] = p /\ more[k] = q /\ also[k - 1] = kept /\ also[k] = after
      BY <1>7, <1>8, <2>1, <3>1
    <3> QED BY <3>2
  <2>2. CASE k # n + 1
    <3>1. k \in 1..n /\ k \in 0..n /\ k - 1 \in 0..n /\ n \in 0..n
      BY <2>2
    <3>2. ends[k - 1] \in Nat /\ ends[k] <= p
      BY <1>3, <3>1, EndsGrow
    <3>3. ResourceIn(d, ends[k - 1], ends[k], keeps[k - 1], keeps[k])
      BY <1>7, <3>1
    <3>4. ResourceIn(e, ends[k - 1], ends[k], keeps[k - 1], keeps[k])
      BY <1>4, <3>2, <3>3, ResourceStays DEF IsSameBefore
    <3>5. /\ more[k - 1] = ends[k - 1] /\ more[k] = ends[k]
          /\ also[k - 1] = keeps[k - 1] /\ also[k] = keeps[k]
      BY <1>8, <3>1
    <3> QED BY <3>4, <3>5
  <2> QED BY <2>1, <2>2
<1>10. ASSUME NEW k \in 0..(n + 1)
       PROVE  34 + c <= more[k] /\ (k # n + 1 => more[k] < more[n + 1])
  <2>1. CASE k = n + 1
    BY <1>6, <1>8, <2>1
  <2>2. CASE k # n + 1
    <3>1. k \in 0..n
      BY <2>2
    <3>2. ends[k] \in Nat /\ 34 + c <= ends[k] /\ ends[k] <= p
      BY <1>3, <3>1, EndsGrow
    <3> QED BY <1>4, <1>8, <3>1, <3>2
  <2> QED BY <2>1, <2>2
<1>11. ResourcesIn(e, 34 + c, n + 1, more, also)
  <2>1. 0 \in 0..n
    OBVIOUS
  <2> QED BY <1>7, <1>8, <1>9, <1>10, <2>1 DEF ResourcesIn
<1>12. n + 1 \in Nat
  OBVIOUS
<1> QED BY <1>5, <1>6, <1>8, <1>11, <1>12 DEF AmongResources

\* With another kind found, the rest is as it was.
LEMMA FindingIs ==
  ASSUME NEW kept, HasKept(kept), NEW kind, NEW more, more = kept.found \cup {kind}
  PROVE  Finding(kept, kind) = [dpi |-> kept.dpi, profile |-> kept.profile, found |-> more]
<1>1. Finding(kept, kind) = [kept EXCEPT !.found = more]
  BY DEF Finding
<1> QED BY <1>1 DEF HasKept

\* It is such a record again.
LEMMA KeptOfHas ==
  ASSUME NEW kept, HasKept(kept), NEW kind, NEW raw, NEW val
  PROVE  HasKept(KeptOf(kept, kind, raw, val))
<1> DEFINE icc == Normalized([val EXCEPT !.size = raw])
<1>1. KeptOf(kept, kind, raw, val) \in
        {kept, [dpi |-> kept.dpi, profile |-> icc, found |-> kept.found \cup {"profile"}],
         [dpi |-> val, profile |-> kept.profile, found |-> kept.found \cup {"resolution"}]}
  BY DEF HasKept, KeptOf, Finding
<1> HIDE DEF icc
<1> QED BY <1>1 DEF HasKept

\* The lengths of a resource and of what pads its name and its data.
IsLaidOut(kind, name, size, pad, raw, len, rest) ==
  /\ kind \in {"profile", "resolution", "other"} /\ name \in 0..253 /\ size = name + 1
  /\ pad \in Nat /\ size + pad = RoundUpToMultiple(size, 2)
  /\ raw \in Nat /\ len \in Nat /\ rest \in Nat /\ len + rest = RoundUpToMultiple(raw, 2)
  /\ len = 0 => rest = 0 /\ raw = 0
  /\ kind = "profile" => raw # 0
  /\ kind = "resolution" => raw = 16

\* A resource is written behind others.
LEMMA ResourceGoesOn ==
  ASSUME NEW d, NEW v, NEW s, NEW c \in Nat, NEW p, NEW kept, AmongResources(d, v, s, c, p, kept),
         NEW kind, NEW name, NEW size, NEW pad, NEW raw, NEW val, NEW len, NEW rest,
         IsLaidOut(kind, name, size, pad, raw, len, rest),
         NEW named, named = PutPadding(Put(Put(d, "resource", kind, 6), "name", name, size), pad),
         NEW e, e = PutPadding(Put(Put(named, "length", raw, 4), kind, val, len), rest)
  PROVE  /\ AmongResources(e, v, s, c, e.offset, KeptOf(kept, kind, raw, val))
         /\ raw # 0 => IsEnded(e)
<1>1. IsStream(d) /\ d.offset = p /\ p \in Nat
  BY DEF AmongResources, IsStream
<1>0. /\ kind \in {"profile", "resolution", "other"} /\ name \in 0..253
      /\ size \in Nat /\ size = name + 1
      /\ pad \in Nat /\ size + pad = RoundUpToMultiple(size, 2)
      /\ raw \in Nat /\ len \in Nat /\ rest \in Nat /\ len + rest = RoundUpToMultiple(raw, 2)
      /\ len = 0 => rest = 0 /\ raw = 0
      /\ kind = "profile" => raw # 0
      /\ kind = "resolution" => raw = 16
  BY DEF IsLaidOut
<1> DEFINE mark == p + 6 + size + pad
           q    == mark + 4 + len + rest
<1>2. /\ IsStream(e) /\ IsSameBefore(d, e, p) /\ e.offset = q
      /\ Says(e, p, "resource", kind) /\ Says(e, p + 6, "name", name)
      /\ Says(e, mark, "length", raw) /\ Says(e, mark + 4, kind, val)
      /\ len # 0 => IsEnded(e)
  <2>1. size # 0
    BY <1>0
  <2> QED BY <1>0, <1>1, <2>1, ResourceIsPut
<1>3. mark \in Nat /\ q \in Nat /\ p < q /\ mark = p + 6 + (size + pad) /\ q = mark + 4 + (len + rest)
  BY <1>0, <1>1
<1> HIDE DEF mark, q
<1>4. (q - p) % 2 = 0
  <2>1. PICK x \in Nat : size + pad = 2 * x
    <3>1. size + pad \in Nat /\ (size + pad) % 2 = 0
      BY <1>0, RoundedUp
    <3> QED BY <3>1
  <2>2. PICK y \in Nat : len + rest = 2 * y
    <3>1. len + rest \in Nat /\ (len + rest) % 2 = 0
      BY <1>0, RoundedUp
    <3> QED BY <3>1
  <2>3. q - p = 2 * (5 + x + y)
    BY <1>1, <1>3, <2>1, <2>2
  <2> QED BY <2>3
<1>5. q = mark + 4 + RoundUpToMultiple(raw, 2) /\ mark = p + 6 + RoundUpToMultiple(name + 1, 2)
  BY <1>0, <1>3
<1>6. NothingKept(e, q)
  <2>1. CASE len # 0
    <3>1. IsEnded(e) /\ e.offset = q
      BY <1>2, <2>1
    <3> QED BY <3>1, NothingKeptAtEnd DEF NothingKept
  <2>2. CASE len = 0
    <3>1. raw = 0 /\ rest = 0 /\ q = mark + 4
      BY <1>0, <1>3, <2>2
    <3>2. kind = "other"
      BY <1>0, <3>1
    <3>3. Says(e, q, "other", val)
      BY <1>2, <3>1, <3>2
    <3>4. ~HasBlock(e.blocks, q, "profile") /\ ~HasBlock(e.blocks, q, "resolution")
      BY <3>3, SaidIsFound
    <3> QED BY <3>4 DEF NothingKept
  <2> QED BY <2>1, <2>2
<1> DEFINE after == KeptOf(kept, kind, raw, val)
<1>7. after = KeptOf(kept, kind, raw, val)
  OBVIOUS
<1> HIDE DEF after
<1>8. HasKept(kept) /\ HasKept(after)
  BY KeptOfHas DEF AmongResources, after
<1>9. kind = "other" => NothingKept(e, mark + 4)
  BY <1>2 DEF NothingKept, Says, HasBlock
<1>10. ResourceIn(e, p, q, kept, after)
  <2>1. ResourceSays(e, p, mark, q, kind, name, raw, val, kept, after)
    <3>1. \/ kind = "profile" /\ raw # 0 /\ Says(e, mark + 4, "profile", val)
          \/ kind = "resolution" /\ raw = 16 /\ Says(e, mark + 4, "resolution", val)
          \/ kind = "other" /\ (raw # 0 => NothingKept(e, mark + 4))
      BY <1>0, <1>2, <1>9
    <3> QED BY <1>2, <1>5, <1>7, <1>8, <3>1 DEF ResourceSays
  <2> QED BY <1>0, <1>5, <2>1 DEF ResourceIn
<1>11. AmongResources(e, v, s, c, q, after)
  BY <1>2, <1>3, <1>4, <1>6, <1>10, <1>8, AnotherResource
<1> QED BY <1>0, <1>2, <1>11 DEF after

\* A profile whose padding is not part of it: it says how long it is, or has none.
SaysItsSize(p) == p.declared \in 128..p.size \/ p.size % 2 = 0

\* A padded profile is read as the profile.
LEMMA PaddingIsCut ==
  ASSUME NEW p, IsProfile(p), SaysItsSize(p)
  PROVE  Normalized([p EXCEPT !.size = RoundUpToMultiple(p.size, 2)]) = Normalized(p)
<1> DEFINE padded == RoundUpToMultiple(p.size, 2)
<1>1. p.size \in Nat /\ p.declared \in Nat
      /\ p = [name |-> p.name, size |-> p.size, declared |-> p.declared]
  BY DEF IsProfile
<1>2. padded \in Nat /\ p.size <= padded /\ (p.size % 2 = 0 => padded = p.size)
  BY <1>1, RoundedUp
<1> HIDE DEF padded
<1> DEFINE q == [p EXCEPT !.size = padded]
<1>3. q.declared = p.declared /\ q.size = padded
      /\ q = [name |-> p.name, size |-> padded, declared |-> p.declared]
  BY <1>1
<1>4. CASE p.declared \in 128..p.size
  <2>1. p.declared \in 128..padded
    BY <1>1, <1>2, <1>4
  <2>2. Normalized(q) = [q EXCEPT !.size = p.declared]
    BY <1>3, <2>1 DEF Normalized
  <2>3. Normalized(p) = [p EXCEPT !.size = p.declared]
    BY <1>4 DEF Normalized
  <2>4. [q EXCEPT !.size = p.declared] = [p EXCEPT !.size = p.declared]
    BY <1>1, <1>3
  <2> QED BY <2>2, <2>3, <2>4 DEF padded
<1>5. CASE p.size % 2 = 0
  <2>1. q = p
    BY <1>1, <1>2, <1>3, <1>5
  <2> QED BY <2>1 DEF padded
<1> QED BY <1>4, <1>5 DEF SaysItsSize

\* A document that opened has a profile of this kind again.
LEMMA NormalizedIsProfile ==
  ASSUME NEW p, IsProfile(p), SaysItsSize(p)
  PROVE  /\ IsProfile(Normalized(p)) /\ SaysItsSize(Normalized(p))
         /\ Normalized(Normalized(p)) = Normalized(p)
<1>1. p.size \in Nat /\ p.declared \in Nat
      /\ p = [name |-> p.name, size |-> p.size, declared |-> p.declared]
  BY DEF IsProfile
<1>2. CASE p.declared \in 128..p.size
  <2> DEFINE q == [p EXCEPT !.size = p.declared]
  <2>1. Normalized(p) = q
    BY <1>2 DEF Normalized
  <2>2. q.declared = p.declared /\ q.size = p.declared
        /\ q = [name |-> p.name, size |-> p.declared, declared |-> p.declared]
    BY <1>1
  <2>3. p.declared # 0 /\ p.declared \in 128..p.declared
    BY <1>1, <1>2
  <2> HIDE DEF q
  <2>4. IsProfile(q) /\ SaysItsSize(q)
    BY <1>1, <2>2, <2>3 DEF IsProfile, SaysItsSize
  <2>5. Normalized(q) = [q EXCEPT !.size = q.declared]
    BY <2>2, <2>3 DEF Normalized
  <2>6. [q EXCEPT !.size = q.declared] = q
    BY <2>2
  <2> QED BY <2>1, <2>4, <2>5, <2>6
<1>3. CASE p.declared \notin 128..p.size
  BY <1>3 DEF Normalized
<1> QED BY <1>2, <1>3

\* The profile of a document.
LEMMA ProfileIsWritten ==
  ASSUME NEW d, NEW v, NEW s, NEW c \in Nat, NEW p, NEW kept, AmongResources(d, v, s, c, p, kept),
         NEW profile, IsProfile(profile), SaysItsSize(profile), profile.size # 0,
         "profile" \notin kept.found, NEW e, e = PutProfile(d, profile)
  PROVE  AmongResources(e, v, s, c, e.offset,
                        [Finding(kept, "profile") EXCEPT !.profile = Normalized(profile)])
<1> DEFINE raw   == RoundUpToMultiple(profile.size, 2)
           len   == profile.size
           rest  == raw - len
           named == PutPadding(Put(Put(d, "resource", "profile", 6), "name", 0, 1), 1)
<1>1. len \in Nat /\ raw \in Nat /\ len <= raw /\ RoundUpToMultiple(raw, 2) = raw
      /\ len # 0
  <2>1. len \in Nat
    BY DEF IsProfile
  <2> QED BY <2>1, RoundedUp
<1>2. NameSize(0) - 1 = 1 /\ RoundUpToMultiple(1, 2) = 2
  BY DEF NameSize, RoundUpToMultiple
<1>3. e = PutPadding(Put(Put(named, "length", raw, 4), "profile", profile, len), rest)
  BY <1>2 DEF PutProfile, PutEmptyName
<1>4. KeptOf(kept, "profile", raw, profile)
        = [Finding(kept, "profile") EXCEPT !.profile = Normalized(profile)]
  BY PaddingIsCut DEF KeptOf
<1> HIDE DEF raw, len
<1>5. rest \in Nat /\ len + rest = raw /\ raw # 0
  BY <1>1
<1> HIDE DEF rest
<1>6. PICK nm : nm = named
  OBVIOUS
<1>7. nm = PutPadding(Put(Put(d, "resource", "profile", 6), "name", 0, 1), 1)
      /\ e = PutPadding(Put(Put(nm, "length", raw, 4), "profile", profile, len), rest)
  BY <1>3, <1>6
<1> HIDE DEF named
<1>8. 0 \in 0..253 /\ 1 \in Nat /\ 1 = 0 + 1 /\ 1 + 1 = RoundUpToMultiple(1, 2)
  BY <1>2
<1>9. AmongResources(e, v, s, c, e.offset, KeptOf(kept, "profile", raw, profile))
  <2>1. IsLaidOut("profile", 0, 1, 1, raw, len, rest)
    BY <1>1, <1>5, <1>8 DEF IsLaidOut
  <2> QED BY <1>7, <2>1, ResourceGoesOn
<1> QED BY <1>4, <1>9

\* The resolution of a document.
LEMMA ResolutionIsWritten ==
  ASSUME NEW d, NEW v, NEW s, NEW c \in Nat, NEW p, NEW kept, AmongResources(d, v, s, c, p, kept),
         NEW dpi, "resolution" \notin kept.found, NEW e, e = PutResolution(d, dpi)
  PROVE  /\ AmongResources(e, v, s, c, e.offset,
                           [Finding(kept, "resolution") EXCEPT !.dpi = dpi])
         /\ IsEnded(e)
<1> DEFINE named == PutPadding(Put(Put(d, "resource", "resolution", 6), "name", 0, 1), 1)
           body  == Put(Put(named, "length", 16, 4), "resolution", dpi, 16)
<1>1. NameSize(0) - 1 = 1 /\ RoundUpToMultiple(1, 2) = 2 /\ RoundUpToMultiple(16, 2) = 16
  BY DEF NameSize, RoundUpToMultiple
<1>2. e = body
  BY <1>1 DEF PutResolution, PutEmptyName
<1>3. body = PutPadding(body, 0)
  BY DEF PutPadding
<1>4. KeptOf(kept, "resolution", 16, dpi)
        = [Finding(kept, "resolution") EXCEPT !.dpi = dpi]
  BY DEF KeptOf
<1>5. PICK nm : nm = named
  OBVIOUS
<1>6. nm = PutPadding(Put(Put(d, "resource", "resolution", 6), "name", 0, 1), 1)
      /\ e = PutPadding(Put(Put(nm, "length", 16, 4), "resolution", dpi, 16), 0)
  BY <1>2, <1>3, <1>5
<1> HIDE DEF named, body
<1>7. 0 \in 0..253 /\ 1 \in Nat /\ 1 = 0 + 1 /\ 1 + 1 = RoundUpToMultiple(1, 2)
      /\ 16 \in Nat /\ 0 \in Nat /\ 16 + 0 = RoundUpToMultiple(16, 2) /\ 16 # 0
  BY <1>1
<1>8. AmongResources(e, v, s, c, e.offset, KeptOf(kept, "resolution", 16, dpi)) /\ IsEnded(e)
  <2>1. IsLaidOut("resolution", 0, 1, 1, 16, 16, 0)
    BY <1>7 DEF IsLaidOut
  <2> QED BY <1>6, <2>1, ResourceGoesOn
<1> QED BY <1>4, <1>8

\* The resources begin behind the color data.
LEMMA ResourcesBegin ==
  ASSUME NEW d, NEW v, NEW s, NEW c \in Nat, UpToColor(d, v, s, c),
         NEW e, e = Put(d, "length", 0, 4)
  PROVE  AmongResources(e, v, s, c, 34 + c, NoneKept) /\ IsEnded(e)
<1>1. IsStream(d) /\ d.offset = 30 + c /\ HeaderIn(d, v, s) /\ Says(d, 26, "length", c)
  BY DEF UpToColor, IsEnded
<1>2. /\ IsEnded(e) /\ e.offset = 34 + c /\ Says(e, 30 + c, "length", 0)
      /\ IsSameBefore(d, e, 30 + c)
  <2>1. /\ IsEnded(e) /\ e.offset = d.offset + 4 /\ Says(e, d.offset, "length", 0)
        /\ IsSameBefore(d, e, d.offset)
    BY <1>1, PutSays
  <2> QED BY <1>1, <2>1
<1>3. HeaderIn(e, v, s) /\ Says(e, 26, "length", c)
  <2>1. 30 + c \in Nat /\ 30 + c > 6 /\ 26 < 30 + c /\ 26 \in Nat
    OBVIOUS
  <2> QED BY <1>1, <1>2, <2>1, HeaderStays, KeepsSaying
<1>4. NothingKept(e, 34 + c)
  BY <1>2, NothingKeptAtEnd DEF NothingKept
<1>5. (34 + c - (34 + c)) % 2 = 0 /\ 34 + c >= 34 + c
  OBVIOUS
<1> DEFINE kept  == NoneKept
           ends  == [k \in 0..0 |-> 34 + c]
           keeps == [k \in 0..0 |-> kept]
<1>6. /\ ends \in [0..0 -> Nat] /\ ends[0] = 34 + c /\ keeps[0] = kept
      /\ \A k \in 0..0 : k = 0
      /\ \A k \in 1..0 : FALSE
  OBVIOUS
<1> HIDE DEF kept, ends, keeps
<1>7. ResourcesIn(e, 34 + c, 0, ends, keeps)
  BY <1>6 DEF ResourcesIn, kept
<1>8. 0 \in Nat
  OBVIOUS
<1>9. AmongResources(e, v, s, c, 34 + c, kept)
  <2>1. IsStream(e)
    BY <1>2 DEF IsEnded
  <2>2. HasKept(kept)
    BY DEF HasKept, NoneKept, kept
  <2> QED BY <1>2, <1>3, <1>4, <1>5, <1>6, <1>7, <1>8, <2>1, <2>2 DEF AmongResources
<1> QED BY <1>2, <1>9 DEF kept

\* The resources end when their length is filled in.
LEMMA ResourcesEnd ==
  ASSUME NEW d, NEW v, NEW s, NEW c \in Nat, NEW p,
         NEW kept, AmongResources(d, v, s, c, p, kept), IsKeptOf(kept, s),
         NEW mark, mark = 30 + c, NEW e, e = PatchLength(d, mark, 4, 2)
  PROVE  UpToFront(e, v, s, p) /\ (IsEnded(d) => IsEnded(e))
<1>1. /\ IsStream(d) /\ d.offset = p /\ HeaderIn(d, v, s) /\ Says(d, 26, "length", c)
      /\ NothingKept(d, p) /\ (p - (34 + c)) % 2 = 0 /\ p >= 34 + c
  BY DEF AmongResources
<1>2. p \in Nat
  BY <1>1 DEF IsStream
<1> DEFINE size == p - (34 + c)
<1>3. size \in Nat /\ RoundUpToMultiple(size, 2) = size
  <2>1. size \in Nat /\ size % 2 = 0
    BY <1>1, <1>2
  <2> HIDE DEF size
  <2> QED BY <2>1, RoundedUp
<1>4. e = Patch(d, mark, 4, size, 0)
  <2>1. d.offset - mark - 4 = size /\ size - size = 0
    BY <1>1, <1>2
  <2> HIDE DEF size
  <2> QED BY <1>3, <2>1 DEF PatchLength
<1>5. mark \in Nat /\ mark < d.offset /\ mark = 30 + c
  BY <1>1, <1>2
<1>6. /\ IsStream(e) /\ e.offset = p /\ (IsEnded(d) => IsEnded(e)) /\ Says(e, mark, "length", size)
      /\ \A o : o # mark => IsSame(d, e, o)
  <2> HIDE DEF size
  <2>1. /\ IsStream(e) /\ e.offset = d.offset + 0 /\ (IsEnded(d) => IsEnded(e))
        /\ Says(e, mark, "length", size) /\ \A o : o # mark => IsSame(d, e, o)
    BY <1>1, <1>4, <1>5, PatchSays
  <2> QED BY <1>1, <1>2, <2>1
<1>7. IsSame(d, e, 4) /\ IsSame(d, e, 6) /\ IsSame(d, e, 26) /\ IsSame(d, e, p)
  <2>1. 4 # mark /\ 6 # mark /\ 26 # mark /\ p # mark
    BY <1>1, <1>2, <1>5
  <2> QED BY <1>6, <2>1
<1>8. HeaderIn(e, v, s) /\ Says(e, 26, "length", c) /\ NothingKept(e, p)
  <2>1. HeaderIn(e, v, s)
    BY <1>1, <1>7, SameSays DEF HeaderIn
  <2>2. Says(e, 26, "length", c)
    BY <1>1, <1>7, SameSays
  <2>3. NothingKept(e, p)
    BY <1>1, <1>7 DEF NothingKept, HasBlock, IsSame
  <2> QED BY <2>1, <2>2, <2>3
<1>9. PICK n \in Nat : \E ends, keeps :
        /\ ResourcesIn(d, 34 + c, n, ends, keeps) /\ ends[n] = p
        /\ keeps[n] = kept
  BY DEF AmongResources
<1>10. PICK ends, keeps :
        /\ ResourcesIn(d, 34 + c, n, ends, keeps) /\ ends[n] = p
        /\ keeps[n] = kept
  BY <1>9
<1>11. ResourcesIn(e, 34 + c, n, ends, keeps)
  <2>1. ASSUME NEW k \in 1..n
        PROVE  ResourceIn(e, ends[k - 1], ends[k], keeps[k - 1], keeps[k])
    <3>1. k - 1 \in 0..n /\ k \in 0..n
      OBVIOUS
    <3>2. ends[k - 1] \in Nat /\ ends[k] <= p
      BY <1>10, <3>1, EndsGrow
    <3>3. 34 + c <= ends[k - 1]
      BY <1>10, <3>1, EndsGrow
    <3>4. \A o \in Nat : ends[k - 1] <= o /\ o < p => IsSame(d, e, o)
      BY <1>5, <1>6, <3>2, <3>3
    <3>5. ResourceIn(d, ends[k - 1], ends[k], keeps[k - 1], keeps[k])
      BY <1>10 DEF ResourcesIn
    <3> QED BY <1>2, <3>2, <3>4, <3>5, ResourceStays
  <2> QED BY <1>10, <2>1 DEF ResourcesIn
<1>12. FrontOf(e, v, s, p, c, n, ends, keeps)
  <2>1. p <= e.offset
    BY <1>2, <1>6
  <2>2. Says(e, 30 + c, "length", p - (34 + c))
    BY <1>5, <1>6
  <2> QED BY <1>1, <1>8, <1>10, <1>11, <2>1, <2>2 DEF FrontOf
<1> QED BY <1>6, <1>12 DEF UpToFront, FrontIn

\* The resources of a document.
LEMMA ResourcesAreWritten ==
  ASSUME NEW d, NEW v, NEW s, NEW c \in Nat, UpToColor(d, v, s, c), NEW t,
         t.dpi = s.dpi, t.profile = s.profile, IsProfile(s.profile), SaysItsSize(s.profile),
         NEW e, e = PutResources(d, t)
  PROVE  \E p : UpToFront(e, v, s, p) /\ IsEnded(e)
<1> DEFINE none     == NoneKept
           marked   == Put(d, "length", 0, 4)
           profiled == IF s.profile.size = 0 THEN marked ELSE PutProfile(marked, s.profile)
           resolved == PutResolution(profiled, s.dpi)
           kept(f)  == [dpi |-> 72, profile |-> Normalized(s.profile), found |-> f]
           mark     == d.offset
<1>1. mark = 30 + c
  BY DEF UpToColor
<1>2. AmongResources(marked, v, s, c, 34 + c, none)
  BY ResourcesBegin
<1>3. e = PatchLength(resolved, mark, 4, 2)
  BY DEF PutResources
<1> HIDE DEF marked
<1>4. \E p, f : AmongResources(profiled, v, s, c, p, kept(f)) /\ "resolution" \notin f
  <2>1. CASE s.profile.size = 0
    <3>1. s.profile = NoProfile
      BY <2>1 DEF IsProfile
    <3>2. Normalized(NoProfile) = NoProfile
      BY DEF Normalized, NoProfile
    <3>3. profiled = marked /\ kept({}) = none
      BY <2>1, <3>1, <3>2 DEF NoneKept
    <3>4. AmongResources(profiled, v, s, c, 34 + c, kept({}))
      BY <1>2, <3>3
    <3> QED BY <3>4
  <2>2. CASE s.profile.size # 0
    <3>1. profiled = PutProfile(marked, s.profile)
      BY <2>2
    <3>2. /\ [Finding(none, "profile") EXCEPT !.profile = Normalized(s.profile)]
               = kept({"profile"})
          /\ "profile" \notin none.found
      <4>1. /\ none = [dpi |-> 72, profile |-> NoProfile, found |-> {}] /\ HasKept(none)
            /\ "profile" \notin none.found
        BY DEF NoneKept, HasKept
      <4>2. PICK more : more = {"profile"}
        OBVIOUS
      <4>3. more = none.found \cup {"profile"}
        BY <4>1, <4>2
      <4> HIDE DEF none
      <4>4. Finding(none, "profile") = [dpi |-> 72, profile |-> NoProfile, found |-> more]
        BY <4>1, <4>3, FindingIs
      <4> QED BY <4>1, <4>2, <4>4
    <3> HIDE DEF profiled, none
    <3>3. AmongResources(profiled, v, s, c, profiled.offset,
                         [Finding(none, "profile") EXCEPT !.profile = Normalized(s.profile)])
      BY <1>2, <2>2, <3>1, <3>2, ProfileIsWritten
    <3>4. AmongResources(profiled, v, s, c, profiled.offset, kept({"profile"}))
      BY <3>2, <3>3
    <3>5. "resolution" \notin {"profile"}
      OBVIOUS
    <3> QED BY <3>4, <3>5
  <2> QED BY <2>1, <2>2
<1> HIDE DEF profiled
<1>5. PICK p, f : AmongResources(profiled, v, s, c, p, kept(f)) /\ "resolution" \notin f
  BY <1>4
<1> DEFINE most == kept(f)
           all  == [Finding(most, "resolution") EXCEPT !.dpi = s.dpi]
<1>6. IsKeptOf(all, s) /\ most.found = f
  <2>1. most.found = f
    OBVIOUS
  <2>2. most.profile = Normalized(s.profile) /\ HasKept(most)
    BY DEF HasKept
  <2>3. PICK more : more = f \cup {"resolution"}
    OBVIOUS
  <2> HIDE DEF kept, none, most
  <2>4. Finding(most, "resolution") = [dpi |-> most.dpi, profile |-> most.profile, found |-> more]
    BY <2>1, <2>2, <2>3, FindingIs
  <2>5. all = [dpi |-> s.dpi, profile |-> most.profile, found |-> more]
    BY <2>4
  <2> HIDE DEF all
  <2> QED BY <2>1, <2>2, <2>5 DEF IsKeptOf
<1> HIDE DEF kept, none, most
<1>7. AmongResources(resolved, v, s, c, resolved.offset, all) /\ IsEnded(resolved)
  <2>1. AmongResources(profiled, v, s, c, p, most) /\ "resolution" \notin most.found
    BY <1>5, <1>6 DEF most
  <2> QED BY <2>1, ResolutionIsWritten
<1> HIDE DEF all
<1> HIDE DEF resolved, mark
<1>8. UpToFront(e, v, s, resolved.offset) /\ IsEnded(e)
  BY <1>1, <1>3, <1>6, <1>7, ResourcesEnd
<1> QED BY <1>8

\* The kinds of the first n resources that a reader looks for.
FoundAmong(resources, n) ==
  {kind \in {"profile", "resolution"} : \E k \in 1..n : resources[k].kind = kind}

\* What a reader has kept of the first n resources.
KeptAfter(resources, n) ==
  [dpi |-> FirstOf(resources, n, "resolution", 72),
   profile |-> Normalized(FirstOf(resources, n, "profile", NoProfile)),
   found |-> FoundAmong(resources, n)]

\* The first resource of a kind is one of those before the next, or the next.
LEMMA FirstOfMore ==
  ASSUME NEW resources, NEW n \in Nat, NEW kind, NEW default
  PROVE  FirstOf(resources, n + 1, kind, default)
           = IF resources[n + 1].kind = kind /\ ~\E k \in 1..n : resources[k].kind = kind
             THEN resources[n + 1].val
             ELSE FirstOf(resources, n, kind, default)
<1> DEFINE places(m) == {k \in 1..m : resources[k].kind = kind}
           first(m)  == CHOOSE k \in places(m) : \A j \in places(m) : k <= j
<1>1. \A m : FirstOf(resources, m, kind, default)
               = IF places(m) = {} THEN default ELSE resources[first(m)].val
  BY DEF FirstOf
<1>2. CASE places(n) = {} /\ resources[n + 1].kind = kind
  <2>1. n + 1 \in places(n + 1) /\ \A j \in places(n + 1) : j = n + 1
    BY <1>2
  <2>2. \A j \in places(n + 1) : n + 1 <= j
    BY <2>1
  <2> HIDE DEF places
  <2>3. first(n + 1) \in places(n + 1)
    BY <2>1, <2>2
  <2>4. first(n + 1) = n + 1
    BY <2>1, <2>3
  <2>5. ~\E k \in 1..n : resources[k].kind = kind
    BY <1>2 DEF places
  <2> QED BY <1>1, <1>2, <2>1, <2>4, <2>5
<1>3. CASE resources[n + 1].kind # kind
  <2>1. places(n + 1) = places(n)
    BY <1>3
  <2> HIDE DEF places
  <2> QED BY <1>1, <1>3, <2>1
<1>4. CASE places(n) # {}
  <2>1. PICK k0 \in 1..n : resources[k0].kind = kind
    BY <1>4
  <2>2. k0 \in places(n) /\ k0 \in places(n + 1)
    BY <2>1
  <2>3. ASSUME NEW k
        PROVE  (k \in places(n) /\ \A j \in places(n) : k <= j)
                 <=> (k \in places(n + 1) /\ \A j \in places(n + 1) : k <= j)
    <3>1. ASSUME k \in places(n), \A j \in places(n) : k <= j
          PROVE  k \in places(n + 1) /\ \A j \in places(n + 1) : k <= j
      BY <3>1
    <3>2. ASSUME k \in places(n + 1), \A j \in places(n + 1) : k <= j
          PROVE  k \in places(n) /\ \A j \in places(n) : k <= j
      <4>1. k <= k0
        BY <2>2, <3>2
      <4>2. k \in 1..n /\ \A j \in places(n) : j \in places(n + 1)
        BY <2>1, <3>2, <4>1
      <4> QED BY <3>2, <4>2
    <3> HIDE DEF places
    <3> QED BY <3>1, <3>2
  <2>4. places(n + 1) # {}
    BY <2>2
  <2>5. \E k \in 1..n : resources[k].kind = kind
    BY <2>1
  <2> HIDE DEF places
  <2>6. first(n) = first(n + 1)
    BY <2>3, Zenon
  <2> QED BY <1>1, <1>4, <2>4, <2>5, <2>6
<1> QED BY <1>2, <1>3, <1>4

\* What is kept of one resource more.
LEMMA KeptAfterMore ==
  ASSUME NEW resources, NEW n \in Nat, IsResource(resources[n + 1])
  PROVE  KeptAfter(resources, n + 1)
           = KeptOf(KeptAfter(resources, n), resources[n + 1].kind, resources[n + 1].size,
                    resources[n + 1].val)
<1> DEFINE r == resources[n + 1]
           b == KeptAfter(resources, n)
           a == KeptAfter(resources, n + 1)
           dpi(m)   == FirstOf(resources, m, "resolution", 72)
           icc(m)   == FirstOf(resources, m, "profile", NoProfile)
           found(m) == FoundAmong(resources, m)
<1>1. b = [dpi |-> dpi(n), profile |-> Normalized(icc(n)), found |-> found(n)]
      /\ a = [dpi |-> dpi(n + 1), profile |-> Normalized(icc(n + 1)), found |-> found(n + 1)]
  BY DEF KeptAfter
<1>2. dpi(n + 1) = IF r.kind = "resolution" /\ "resolution" \notin found(n) THEN r.val ELSE dpi(n)
  <2>1. dpi(n + 1) = IF r.kind = "resolution" /\ ~\E k \in 1..n : resources[k].kind = "resolution"
                     THEN r.val ELSE dpi(n)
    <3>1. \A default : FirstOf(resources, n + 1, "resolution", default)
             = IF r.kind = "resolution" /\ ~\E k \in 1..n : resources[k].kind = "resolution"
               THEN r.val ELSE FirstOf(resources, n, "resolution", default)
      BY FirstOfMore
    <3> HIDE DEF r
    <3> QED BY <3>1
  <2>2. "resolution" \in found(n) <=> \E k \in 1..n : resources[k].kind = "resolution"
    BY DEF FoundAmong
  <2> HIDE DEF r, dpi, icc, found
  <2> QED BY <2>1, <2>2
<1>3. icc(n + 1) = IF r.kind = "profile" /\ "profile" \notin found(n) THEN r.val ELSE icc(n)
  <2>1. icc(n + 1) = IF r.kind = "profile" /\ ~\E k \in 1..n : resources[k].kind = "profile"
                     THEN r.val ELSE icc(n)
    BY FirstOfMore
  <2>2. "profile" \in found(n) <=> \E k \in 1..n : resources[k].kind = "profile"
    BY DEF FoundAmong
  <2> HIDE DEF r, dpi, icc, found
  <2> QED BY <2>1, <2>2
<1>4. r.kind = "profile" => [r.val EXCEPT !.size = r.size] = r.val
  BY DEF IsResource, IsProfile
<1>5. found(n + 1) = IF r.kind \in {"profile", "resolution"} THEN found(n) \cup {r.kind} ELSE found(n)
  <2>1. \A kind : (\E k \in 1..(n + 1) : resources[k].kind = kind)
                     <=> (\E k \in 1..n : resources[k].kind = kind) \/ r.kind = kind
    <3>1. 1..(n + 1) = (1..n) \cup {n + 1}
      OBVIOUS
    <3> QED BY <3>1
  <2> HIDE DEF r
  <2> QED BY <2>1 DEF FoundAmong
<1> HIDE DEF r, b, a, dpi, icc, found
<1>6. b.found = found(n)
  BY <1>1
<1>7. a = KeptOf(b, r.kind, r.size, r.val)
  <2>1. CASE r.kind = "profile" /\ "profile" \notin found(n)
    <3>1. KeptOf(b, r.kind, r.size, r.val)
            = [Finding(b, "profile") EXCEPT !.profile = Normalized(r.val)]
      BY <1>4, <1>6, <2>1 DEF KeptOf
    <3>2. a = [dpi |-> dpi(n), profile |-> Normalized(r.val), found |-> found(n) \cup {"profile"}]
      BY <1>1, <1>2, <1>3, <1>5, <2>1
    <3> QED BY <1>1, <3>1, <3>2 DEF Finding
  <2>2. CASE r.kind = "resolution" /\ "resolution" \notin found(n)
    <3>1. KeptOf(b, r.kind, r.size, r.val)
            = [Finding(b, "resolution") EXCEPT !.dpi = r.val]
      BY <1>6, <2>2 DEF KeptOf
    <3>2. a = [dpi |-> r.val, profile |-> Normalized(icc(n)),
               found |-> found(n) \cup {"resolution"}]
      BY <1>1, <1>2, <1>3, <1>5, <2>2
    <3> QED BY <1>1, <3>1, <3>2 DEF Finding
  <2>3. CASE r.kind \in found(n) \/ r.kind \notin {"profile", "resolution"}
    <3>1. KeptOf(b, r.kind, r.size, r.val) = b
      BY <1>6, <2>3 DEF KeptOf
    <3>2. dpi(n + 1) = dpi(n) /\ icc(n + 1) = icc(n) /\ found(n + 1) = found(n)
      BY <1>2, <1>3, <1>5, <2>3
    <3> QED BY <1>1, <3>1, <3>2
  <2> QED BY <2>1, <2>2, <2>3
<1> QED BY <1>7 DEF r, b, a

\* A resource of another program.
LEMMA ForeignIsWritten ==
  ASSUME NEW d, NEW v, NEW s, NEW c \in Nat, NEW p, NEW kept, AmongResources(d, v, s, c, p, kept),
         NEW r, IsResource(r), r.name <= 253, NEW e, e = PutResource(d, r)
  PROVE  AmongResources(e, v, s, c, e.offset, KeptOf(kept, r.kind, r.size, r.val))
<1>1. /\ r.kind \in {"profile", "resolution", "other"} /\ r.name \in Nat /\ r.size \in Nat
      /\ r.kind = "profile" => r.size # 0
      /\ r.kind = "resolution" => r.size = 16
  BY DEF IsResource
<1> DEFINE pad   == (r.name + 1) % 2
           rest  == r.size % 2
           size  == 1 + r.name
           named == PutPadding(Put(Put(d, "resource", r.kind, 6), "name", r.name, size), pad)
<1>2. e = PutPadding(Put(Put(named, "length", r.size, 4), r.kind, r.val, r.size), rest)
  BY DEF PutResource
<1>3. /\ r.name \in 0..253 /\ size = r.name + 1 /\ pad \in Nat /\ rest \in Nat /\ size \in Nat
      /\ pad = size % 2 /\ (r.size = 0 => rest = 0)
  BY <1>1
<1>4. RoundUpToMultiple(r.size, 2) = r.size + rest
  BY <1>1, RoundedUp
<1> HIDE DEF rest
<1>5. RoundUpToMultiple(size, 2) = size + pad
  <2>1. size \in Nat /\ pad = size % 2
    BY <1>3
  <2> HIDE DEF size, pad
  <2>2. RoundUpToMultiple(size, 2) = size + (size % 2)
    BY <2>1, RoundedUp
  <2> QED BY <2>1, <2>2
<1> HIDE DEF pad, size
<1>6. IsLaidOut(r.kind, r.name, size, pad, r.size, r.size, rest)
  BY <1>1, <1>3, <1>4, <1>5 DEF IsLaidOut
<1> QED BY <1>2, <1>6, ResourceGoesOn

\* All of them, one behind the other.
LEMMA ForeignAreWritten ==
  ASSUME NEW d, NEW v, NEW s, NEW c \in Nat, NEW p,
         NEW resources, AmongResources(d, v, s, c, p, KeptAfter(resources, 0)),
         Len(resources) \in Nat,
         \A k \in 1..Len(resources) : IsResource(resources[k]) /\ resources[k].name <= 253,
         NEW e, e = PutAll(d, resources)
  PROVE  \E q : AmongResources(e, v, s, c, q, KeptAfter(resources, Len(resources)))
<1> DEFINE N == Len(resources)
           Body(w, m) == [n \in 0..m |-> IF n = 0 THEN d ELSE PutResource(w[n - 1], resources[n])]
           upto == CHOOSE w : w = Body(w, N)
<1>1. e = upto[N]
  BY DEF PutAll
<1>2. \E w : w = Body(w, N)
  <2> DEFINE S == {m \in Nat : \E w : w = Body(w, m)}
  <2>1. 0 \in S
    <3>1. [n \in 0..0 |-> d] = Body([n \in 0..0 |-> d], 0)
      OBVIOUS
    <3> QED BY <3>1
  <2>2. ASSUME NEW m \in Nat, m \in S PROVE m + 1 \in S
    <3>1. PICK w : w = Body(w, m)
      BY <2>2
    <3> DEFINE x == [n \in 0..(m + 1) |-> IF n = m + 1 THEN PutResource(w[m], resources[m + 1])
                                          ELSE w[n]]
    <3>2. ASSUME NEW n \in 0..(m + 1)
          PROVE  x[n] = IF n = 0 THEN d ELSE PutResource(x[n - 1], resources[n])
      <4>1. CASE n = m + 1
        <5>1. n # 0 /\ n - 1 = m /\ m \in 0..(m + 1) /\ m # m + 1
          BY <4>1
        <5>2. x[n] = PutResource(w[m], resources[m + 1]) /\ x[m] = w[m]
          BY <4>1, <5>1
        <5> QED BY <4>1, <5>1, <5>2
      <4>2. CASE n # m + 1
        <5>1. n \in 0..m /\ x[n] = w[n]
          BY <4>2
        <5>2. w[n] = IF n = 0 THEN d ELSE PutResource(w[n - 1], resources[n])
          BY <3>1, <5>1, Zenon
        <5>3. n # 0 => n - 1 \in 0..(m + 1) /\ n - 1 # m + 1
          BY <5>1
        <5>4. n # 0 => x[n - 1] = w[n - 1]
          BY <5>3
        <5> QED BY <5>1, <5>2, <5>4
      <4> QED BY <4>1, <4>2
    <3>3. x = [n \in 0..(m + 1) |-> x[n]]
      OBVIOUS
    <3> HIDE DEF x
    <3>4. x = Body(x, m + 1)
      BY <3>2, <3>3
    <3>5. m + 1 \in Nat
      OBVIOUS
    <3> HIDE DEF Body
    <3> QED BY <3>4, <3>5
  <2> HIDE DEF S
  <2>3. N \in S
    BY <2>1, <2>2, SetInduction
  <2> QED BY <2>3 DEF S
<1>3. upto = Body(upto, N)
  <2> HIDE DEF Body
  <2> QED BY <1>2
<1> HIDE DEF upto
<1>4. upto[0] = d /\ \A n \in 1..N : upto[n] = PutResource(upto[n - 1], resources[n])
  <2>1. 0 \in 0..N /\ \A n \in 1..N : n \in 0..N /\ n # 0
    OBVIOUS
  <2> QED BY <1>3, <2>1
<1> DEFINE T == {m \in Nat : m <= N => \E q : AmongResources(upto[m], v, s, c, q,
                                                            KeptAfter(resources, m))}
<1>5. 0 \in T
  BY <1>4
<1>6. ASSUME NEW m \in Nat, m \in T PROVE m + 1 \in T
  <2> SUFFICES ASSUME m + 1 <= N
               PROVE  \E q : AmongResources(upto[m + 1], v, s, c, q, KeptAfter(resources, m + 1))
    OBVIOUS
  <2>1. m <= N /\ m + 1 \in 1..N /\ (m + 1) - 1 = m
    OBVIOUS
  <2>2. PICK q : AmongResources(upto[m], v, s, c, q, KeptAfter(resources, m))
    BY <1>6, <2>1
  <2> DEFINE r == resources[m + 1]
             u == upto[m + 1]
  <2>3. u = PutResource(upto[m], r) /\ IsResource(r) /\ r.name <= 253
    BY <1>4, <2>1
  <2>4. KeptAfter(resources, m + 1) = KeptOf(KeptAfter(resources, m), r.kind, r.size, r.val)
    BY <2>3, KeptAfterMore
  <2> HIDE DEF r, u
  <2>5. AmongResources(u, v, s, c, u.offset,
                       KeptOf(KeptAfter(resources, m), r.kind, r.size, r.val))
    BY <2>2, <2>3, ForeignIsWritten
  <2> QED BY <2>4, <2>5 DEF u
<1> HIDE DEF T
<1>7. N \in T
  BY <1>5, <1>6, SetInduction
<1> QED BY <1>1, <1>7 DEF T

\* What is put at the offset is there, and what was there before.
LEMMA PutGoesOn ==
  ASSUME NEW d, IsStream(d), NEW p, p = d.offset, NEW kind, NEW val, NEW len \in Nat, len # 0,
         NEW e, e = Put(d, kind, val, len)
  PROVE  /\ IsStream(e) /\ IsEnded(e) /\ e.offset = p + len /\ Says(e, p, kind, val)
         /\ \A o \in Nat : o < p => IsSame(d, e, o)
         /\ \A b \in Nat : \A a : b <= p /\ IsSameBefore(a, d, b) => IsSameBefore(a, e, b)
<1>1. p \in Nat
  BY DEF IsStream
<1>2. /\ IsStream(e) /\ IsEnded(e) /\ e.offset = p + len /\ Says(e, p, kind, val)
      /\ IsSameBefore(d, e, p)
  BY PutSays
<1>3. ASSUME NEW b \in Nat, NEW a, b <= p, IsSameBefore(a, d, b) PROVE IsSameBefore(a, e, b)
  BY <1>1, <1>2, <1>3, SameTwice
<1> QED BY <1>2, <1>3 DEF IsSameBefore

\* The widths of a length marker.
LEMMA Widths ==
  ASSUME NEW v
  PROVE  Width(v) \in Nat /\ Width(v) # 0 /\ (Width(v) = 4 \/ Width(v) = 8)
BY DEF Width

\* The front is there, and the first marker of the section behind it.
LEMMA FrontGoesOn ==
  ASSUME NEW d, NEW f, NEW v, NEW s, NEW e, NEW val, FrontIn(d, v, s, e), IsSameBefore(d, f, e),
         IsStream(f), Says(f, e, "length", val)
  PROVE  FrontIn(f, v, s, e)
<1>1. e <= f.offset
  BY DEF IsStream, Says
<1>2. NothingKept(f, e)
  BY SaidIsFound DEF NothingKept
<1> QED BY <1>1, <1>2, FrontStays

\* The section begins.
LEMMA SectionBegins ==
  ASSUME NEW d, NEW v, NEW s, NEW e, UpToFront(d, v, s, e), s.depth \in Nat,
         NEW f, f = UpToLayers(d, Width(v), s.depth)
  PROVE  UpToBody(f, v, s, e)
<1> DEFINE w  == Width(v)
           d1 == Put(d, "length", 0, w)
           s2 == Put(d1, "length", 0, w)
           t3 == Put(s2, "mask", 0, 4)
           t4 == Put(t3, "tagged", 0, 8)
           t5 == Put(t4, "length", 0, w)
<1>1. IsStream(d) /\ d.offset = e /\ FrontIn(d, v, s, e) /\ e \in Nat
  BY DEF UpToFront, IsStream
<1>2. w \in Nat /\ w # 0
  BY Widths
<1>3. f = IF s.depth < 16 THEN s2 ELSE t5
  BY DEF UpToLayers, MaskLength, SignatureAndKey
<1>4. IsDeep(s) <=> ~(s.depth < 16)
  BY DEF IsDeep
<1> HIDE DEF w
<1>5. IsSameBefore(d, d, e)
  BY DEF IsSameBefore, IsSame
<1>6. /\ IsStream(d1) /\ IsEnded(d1) /\ d1.offset = e + w /\ Says(d1, e, "length", 0)
      /\ IsSameBefore(d, d1, e)
  BY <1>1, <1>2, <1>5, PutGoesOn
<1> HIDE DEF d1
<1>7. e + w \in Nat /\ e < e + w /\ e <= e + w
  BY <1>1, <1>2
<1>8. /\ IsStream(s2) /\ IsEnded(s2) /\ s2.offset = (e + w) + w /\ Says(s2, e + w, "length", 0)
      /\ Says(s2, e, "length", 0) /\ IsSameBefore(d, s2, e)
  BY <1>1, <1>2, <1>6, <1>7, PutGoesOn, SameSays
<1>9. FrontIn(s2, v, s, e)
  BY <1>1, <1>8, FrontGoesOn
<1> HIDE DEF s2
<1>10. CASE s.depth < 16
  <2>1. f = s2 /\ ~IsDeep(s)
    BY <1>3, <1>4, <1>10
  <2>2. BodyPlace(v, s, e) = (e + w) + w
    BY <1>1, <1>2, <2>1 DEF BodyPlace, w
  <2>3. SectionIn(s2, v, s, e, 0, 0)
    BY <1>8, <2>1 DEF SectionIn, w
  <2> QED BY <1>8, <1>9, <2>1, <2>2, <2>3 DEF UpToBody
<1>11. CASE ~(s.depth < 16)
  <2>1. f = t5 /\ IsDeep(s)
    BY <1>3, <1>4, <1>11
  <2>2. PICK a, b, c : a = (e + w) + w /\ b = a + 4 /\ c = b + 8
    OBVIOUS
  <2>3. /\ a \in Nat /\ b \in Nat /\ c \in Nat /\ e < a /\ e + w < a /\ e <= a /\ a < b /\ b < c
        /\ a = e + 2 * w /\ b = e + 2 * w + 4 /\ c = e + 2 * w + 12 /\ c + w = e + 3 * w + 12
        /\ e < b /\ e + w < b /\ e <= b /\ e < c /\ e + w < c /\ e <= c /\ a < c
    BY <1>1, <1>2, <1>7, <2>2
  <2>4. /\ IsStream(t3) /\ IsEnded(t3) /\ t3.offset = b /\ Says(t3, a, "mask", 0)
        /\ Says(t3, e, "length", 0) /\ Says(t3, e + w, "length", 0) /\ IsSameBefore(d, t3, e)
    <3>1. s2.offset = a /\ 4 \in Nat /\ 4 # 0 /\ a + 4 = b
      BY <1>8, <2>2
    <3> HIDE DEF t3
    <3>2. t3 = Put(s2, "mask", 0, 4)
      BY DEF t3
    <3>3. /\ IsStream(t3) /\ IsEnded(t3) /\ t3.offset = a + 4 /\ Says(t3, a, "mask", 0)
          /\ \A o \in Nat : o < a => IsSame(s2, t3, o)
          /\ \A x \in Nat : \A y : x <= a /\ IsSameBefore(y, s2, x) => IsSameBefore(y, t3, x)
      BY <1>8, <3>1, <3>2, PutGoesOn
    <3> QED BY <1>1, <1>7, <1>8, <2>3, <3>1, <3>3, SameSays
  <2> HIDE DEF t3
  <2>5. /\ IsStream(t4) /\ IsEnded(t4) /\ t4.offset = c /\ Says(t4, b, "tagged", 0)
        /\ Says(t4, e, "length", 0) /\ Says(t4, e + w, "length", 0) /\ Says(t4, a, "mask", 0)
        /\ IsSameBefore(d, t4, e)
    <3>1. 8 \in Nat /\ 8 # 0 /\ b + 8 = c
      BY <2>2
    <3> HIDE DEF t4
    <3>2. t4 = Put(t3, "tagged", 0, 8)
      BY DEF t4
    <3>3. /\ IsStream(t4) /\ IsEnded(t4) /\ t4.offset = b + 8 /\ Says(t4, b, "tagged", 0)
          /\ \A o \in Nat : o < b => IsSame(t3, t4, o)
          /\ \A x \in Nat : \A y : x <= b /\ IsSameBefore(y, t3, x) => IsSameBefore(y, t4, x)
      BY <2>4, <3>1, <3>2, PutGoesOn
    <3> QED BY <1>1, <1>7, <2>3, <2>4, <3>1, <3>3, SameSays
  <2> HIDE DEF t4
  <2>6. /\ IsStream(t5) /\ IsEnded(t5) /\ t5.offset = c + w /\ Says(t5, c, "length", 0)
        /\ Says(t5, e, "length", 0) /\ Says(t5, e + w, "length", 0) /\ Says(t5, a, "mask", 0)
        /\ Says(t5, b, "tagged", 0) /\ IsSameBefore(d, t5, e)
    <3> HIDE DEF t5
    <3>2. t5 = Put(t4, "length", 0, w)
      BY DEF t5
    <3>3. /\ IsStream(t5) /\ IsEnded(t5) /\ t5.offset = c + w /\ Says(t5, c, "length", 0)
          /\ \A o \in Nat : o < c => IsSame(t4, t5, o)
          /\ \A x \in Nat : \A y : x <= c /\ IsSameBefore(y, t4, x) => IsSameBefore(y, t5, x)
      BY <1>2, <2>5, <3>2, PutGoesOn
    <3> QED BY <1>1, <1>7, <2>3, <2>5, <3>3, SameSays
  <2>7. FrontIn(t5, v, s, e)
    BY <1>1, <2>6, FrontGoesOn
  <2> HIDE DEF t5
  <2>8. SectionIn(t5, v, s, e, 0, 0)
    BY <2>1, <2>3, <2>6 DEF SectionIn, w
  <2>9. t5.offset = BodyPlace(v, s, e)
    <3>1. BodyPlace(v, s, e) = e + (3 * w + 12)
      BY <2>1 DEF BodyPlace, w
    <3>2. e + (3 * w + 12) = c + w
      BY <1>1, <1>2, <2>3
    <3> QED BY <2>6, <3>1, <3>2
  <2> QED BY <2>1, <2>6, <2>7, <2>8, <2>9 DEF UpToBody
<1> QED BY <1>10, <1>11

\* Where the markers of the section are, one behind the other.
LEMMA SectionPlaces ==
  ASSUME NEW v, NEW s, NEW e \in Nat
  PROVE  /\ BodyPlace(v, s, e) \in Nat /\ Width(v) \in Nat /\ Width(v) > 0
         /\ IsDeep(s) => BodyPlace(v, s, e) = e + 3 * Width(v) + 12
         /\ ~IsDeep(s) => BodyPlace(v, s, e) = e + 2 * Width(v)
         /\ SectionSize(v, s) \in Nat
         /\ IsDeep(s) => SectionSize(v, s) = 2 * Width(v) + 56
         /\ ~IsDeep(s) => SectionSize(v, s) = Width(v) + 48
         /\ ImageStart(v, s, e) = e + Width(v) + SectionSize(v, s)
         /\ RoundUpToMultiple(SectionSize(v, s), 4) = SectionSize(v, s)
<1> DEFINE w == Width(v)
<1>1. w \in Nat /\ w > 0 /\ (w = 4 \/ w = 8)
  BY Widths
<1>2. IsDeep(s) => BodyPlace(v, s, e) = e + (3 * w + 12) /\ SectionSize(v, s) = 2 * w + 56
  BY DEF BodyPlace, SectionSize
<1>3. ~IsDeep(s) => BodyPlace(v, s, e) = e + 2 * w /\ SectionSize(v, s) = w + 48
  BY DEF BodyPlace, SectionSize
<1>4. ImageStart(v, s, e) = e + w + SectionSize(v, s)
  BY DEF ImageStart
<1> HIDE DEF w
<1> DEFINE z == SectionSize(v, s)
<1>5. z \in {64, 72, 52, 56}
  BY <1>1, <1>2, <1>3
<1>6. RoundUpToMultiple(z, 4) = z
  <2> HIDE DEF z
  <2> QED BY <1>5 DEF RoundUpToMultiple
<1>7. e + (3 * w + 12) = e + 3 * w + 12 /\ e + (3 * w + 12) \in Nat /\ e + 2 * w \in Nat
      /\ 2 * w + 56 \in Nat /\ w + 48 \in Nat
  BY <1>1
<1>8. CASE IsDeep(s)
  BY <1>1, <1>2, <1>4, <1>6, <1>7, <1>8 DEF w
<1>9. CASE ~IsDeep(s)
  BY <1>1, <1>3, <1>4, <1>6, <1>7, <1>9 DEF w
<1> QED BY <1>8, <1>9

\* The marker with the layers is behind that of the section.
LEMMA MarkerPlace ==
  ASSUME NEW v, NEW s, NEW e \in Nat
  PROVE  /\ BodyPlace(v, s, e) - Width(v) \in Nat /\ e < BodyPlace(v, s, e) - Width(v)
         /\ BodyPlace(v, s, e) - Width(v) < BodyPlace(v, s, e)
<1> DEFINE w == Width(v)
<1>1. /\ w \in Nat /\ w > 0 /\ BodyPlace(v, s, e) \in Nat
      /\ IsDeep(s) => BodyPlace(v, s, e) = e + 3 * w + 12
      /\ ~IsDeep(s) => BodyPlace(v, s, e) = e + 2 * w
  BY SectionPlaces
<1> HIDE DEF w
<1>2. /\ BodyPlace(v, s, e) - w \in Nat /\ e < BodyPlace(v, s, e) - w
      /\ BodyPlace(v, s, e) - w < BodyPlace(v, s, e)
  BY <1>1
<1> QED BY <1>2 DEF w

\* What is between the marker of the section and that with the layers.
MarkersIn(d, v, s, e) ==
  IsDeep(s) => /\ Says(d, e + Width(v), "length", 0)
               /\ Says(d, e + 2 * Width(v), "mask", 0)
               /\ Says(d, e + 2 * Width(v) + 4, "tagged", 0)

\* The marker with the layers ends where they begin.
LEMMA MarkerBeforeTheLayers ==
  ASSUME NEW d, NEW v, NEW s, NEW e \in Nat, NEW size, NEW info
  PROVE  SectionIn(d, v, s, e, size, info)
           <=> /\ Says(d, e, "length", size)
               /\ Says(d, BodyPlace(v, s, e) - Width(v), "length", info)
               /\ MarkersIn(d, v, s, e)
<1> DEFINE w    == Width(v)
           mark == BodyPlace(v, s, e) - w
<1>1. /\ w \in Nat /\ w > 0 /\ BodyPlace(v, s, e) \in Nat
      /\ IsDeep(s) => BodyPlace(v, s, e) = e + 3 * w + 12
      /\ ~IsDeep(s) => BodyPlace(v, s, e) = e + 2 * w
  BY SectionPlaces
<1>2. mark = BodyPlace(v, s, e) - w
  OBVIOUS
<1> HIDE DEF mark
<1>3. SectionIn(d, v, s, e, size, info)
        <=> /\ Says(d, e, "length", size)
            /\ IF IsDeep(s) THEN /\ Says(d, e + w, "length", 0) /\ Says(d, e + 2 * w, "mask", 0)
                                 /\ Says(d, e + 2 * w + 4, "tagged", 0)
                                 /\ Says(d, e + 2 * w + 12, "length", info)
               ELSE Says(d, e + w, "length", info)
  BY DEF SectionIn
<1>6. MarkersIn(d, v, s, e)
        <=> (IsDeep(s) => /\ Says(d, e + w, "length", 0) /\ Says(d, e + 2 * w, "mask", 0)
                          /\ Says(d, e + 2 * w + 4, "tagged", 0))
  BY DEF MarkersIn
<1> HIDE DEF w
<1>4. CASE IsDeep(s)
  <2>1. mark = e + 2 * w + 12
    BY <1>1, <1>2, <1>4
  <2> QED BY <1>3, <1>4, <1>6, <2>1 DEF w, mark
<1>5. CASE ~IsDeep(s)
  <2>1. mark = e + w
    BY <1>1, <1>2, <1>5
  <2> QED BY <1>3, <1>5, <1>6, <2>1 DEF w, mark
<1> QED BY <1>4, <1>5

\* What is between the markers stays where nothing changes but one of them.
LEMMA MarkersStay ==
  ASSUME NEW d, NEW f, NEW v, NEW s, NEW e \in Nat, MarkersIn(d, v, s, e),
         \A o \in Nat : e < o /\ o < BodyPlace(v, s, e) - Width(v) => IsSame(d, f, o)
  PROVE  MarkersIn(f, v, s, e)
<1> DEFINE w    == Width(v)
           mark == BodyPlace(v, s, e) - w
<1>1. w \in Nat /\ w > 0 /\ (IsDeep(s) => mark = (e + 3 * w + 12) - w)
  BY SectionPlaces
<1>2. IsDeep(s) => /\ Says(d, e + w, "length", 0) /\ Says(d, e + 2 * w, "mask", 0)
                   /\ Says(d, e + 2 * w + 4, "tagged", 0)
  BY DEF MarkersIn
<1>3. \A o \in Nat : e < o /\ o < mark => IsSame(d, f, o)
  OBVIOUS
<1> HIDE DEF mark
<1>4. ASSUME IsDeep(s)
      PROVE  /\ Says(f, e + w, "length", 0) /\ Says(f, e + 2 * w, "mask", 0)
             /\ Says(f, e + 2 * w + 4, "tagged", 0)
  <2> HIDE DEF w
  <2>1. PICK a, b, c : a = e + w /\ b = e + 2 * w /\ c = e + 2 * w + 4
    OBVIOUS
  <2>2. /\ a \in Nat /\ e < a /\ a < mark /\ b \in Nat /\ e < b /\ b < mark
        /\ c \in Nat /\ e < c /\ c < mark
    BY <1>1, <1>4, <2>1
  <2>3. IsSame(d, f, a) /\ IsSame(d, f, b) /\ IsSame(d, f, c)
    BY <1>3, <2>2
  <2> QED BY <1>2, <1>4, <2>1, <2>3, SameSays
<1> QED BY <1>4 DEF MarkersIn

\* The markers of the section stay where nothing changes but the one with the layers.
LEMMA SectionStays ==
  ASSUME NEW d, NEW f, NEW v, NEW s, NEW e \in Nat, NEW size, NEW info,
         SectionIn(d, v, s, e, size, info), NEW other, NEW mark,
         mark = BodyPlace(v, s, e) - Width(v),
         \A o \in Nat : e <= o /\ o < BodyPlace(v, s, e) /\ o # mark => IsSame(d, f, o),
         Says(f, mark, "length", other)
  PROVE  SectionIn(f, v, s, e, size, other)
<1>1. mark \in Nat /\ e < mark /\ mark < BodyPlace(v, s, e) /\ e <= e /\ e < BodyPlace(v, s, e)
  BY MarkerPlace, SectionPlaces
<1>2. Says(d, e, "length", size) /\ MarkersIn(d, v, s, e)
  BY MarkerBeforeTheLayers
<1>3. Says(f, e, "length", size)
  <2>1. IsSame(d, f, e)
    BY <1>1
  <2> QED BY <1>2, <2>1, SameSays
<1>4. MarkersIn(f, v, s, e)
  <2>1. \A o \in Nat : e < o /\ o < mark => IsSame(d, f, o)
    BY <1>1, SectionPlaces
  <2> QED BY <1>2, <2>1, MarkersStay
<1> QED BY <1>3, <1>4, MarkerBeforeTheLayers

\* The layers.
LEMMA LayersAreWritten ==
  ASSUME NEW d, NEW v, NEW s, NEW e, UpToBody(d, v, s, e),
         NEW f, f = PutLayers(d, Width(v))
  PROVE  UpToLayersEnd(f, v, s, e)
<1> DEFINE w    == Width(v)
           b    == BodyPlace(v, s, e)
           mark == b - w
           x    == Put(d, "layers", 0, 41)
<1>1. /\ IsStream(d) /\ FrontIn(d, v, s, e) /\ SectionIn(d, v, s, e, 0, 0) /\ d.offset = b
  BY DEF UpToBody, IsEnded
<1>2. e \in Nat
  BY <1>1, FrontPlace
<1>3. /\ b \in Nat /\ w \in Nat /\ w > 0 /\ mark \in Nat /\ e < mark /\ mark < b
  BY <1>2, SectionPlaces, MarkerPlace
<1>4. /\ IsStream(x) /\ IsEnded(x) /\ x.offset = b + 41 /\ Says(x, b, "layers", 0)
      /\ \A o \in Nat : o < b => IsSame(d, x, o)
  <2> HIDE DEF x, b
  <2>1. x = Put(d, "layers", 0, 41)
    BY DEF x
  <2>2. 41 \in Nat /\ 41 # 0
    OBVIOUS
  <2> QED BY <1>1, <2>1, <2>2, PutGoesOn
<1>5. f = Patch(x, mark, w, 44, 3)
  <2>1. f = PatchLength(x, mark, w, 4)
    BY <1>1 DEF PutLayers, LayersLength
  <2> HIDE DEF x
  <2>2. x.offset - mark - w = 41
    <3> HIDE DEF w, b
    <3> QED BY <1>3, <1>4
  <2>3. RoundUpToMultiple(41, 4) = 44
    BY DEF RoundUpToMultiple
  <2> QED BY <2>1, <2>2, <2>3 DEF PatchLength
<1> HIDE DEF x, w, b, mark
<1>6. /\ IsEnded(f) /\ IsStream(f) /\ f.offset = b + 44 /\ Says(f, mark, "length", 44)
      /\ \A o \in Nat : o < x.offset /\ o # mark => IsSame(x, f, o)
  <2>1. mark < x.offset /\ 3 \in Nat
    BY <1>3, <1>4
  <2>2. /\ IsEnded(f) /\ IsStream(f) /\ f.offset = x.offset + 3 /\ Says(f, mark, "length", 44)
        /\ \A o \in Nat : o < x.offset /\ o # mark => IsSame(x, f, o)
    BY <1>3, <1>4, <1>5, <2>1, PatchSays
  <2> QED BY <1>3, <1>4, <2>2
<1>7. Says(f, b, "layers", 0)
  <2>1. b < x.offset /\ b # mark
    BY <1>3, <1>4
  <2> QED BY <1>3, <1>4, <1>6, <2>1, SameSays
<1>8. \A o \in Nat : o < b /\ o # mark => IsSame(d, f, o)
  <2> SUFFICES ASSUME NEW o \in Nat, o < b, o # mark PROVE IsSame(d, f, o)
    OBVIOUS
  <2>1. o < x.offset
    BY <1>3, <1>4
  <2>2. IsSame(d, x, o) /\ IsSame(x, f, o)
    BY <1>4, <1>6, <2>1
  <2> QED BY <2>2 DEF IsSame
<1>9. SectionIn(f, v, s, e, 0, 44)
  BY <1>1, <1>2, <1>6, <1>8, SectionStays DEF mark, b, w
<1>10. IsSameBefore(d, f, e)
  <2> SUFFICES ASSUME NEW o \in Nat, o < e PROVE IsSame(d, f, o)
    BY DEF IsSameBefore
  <2>1. o < b /\ o # mark
    BY <1>2, <1>3
  <2> QED BY <1>8, <2>1
<1>11. FrontIn(f, v, s, e)
  BY <1>1, <1>6, <1>9, <1>10, FrontGoesOn DEF SectionIn
<1> QED BY <1>6, <1>7, <1>9, <1>11 DEF UpToLayersEnd, LayersIn, b

\* What stands in the section stays where nothing is changed but put at the end.
LEMMA SectionIsKept ==
  ASSUME NEW d, NEW f, NEW v, NEW s, NEW e \in Nat, NEW size, NEW info,
         SectionIn(d, v, s, e, size, info), FrontIn(d, v, s, e), NEW b \in Nat,
         BodyPlace(v, s, e) <= b, IsSameBefore(d, f, b), IsStream(f)
  PROVE  SectionIn(f, v, s, e, size, info) /\ FrontIn(f, v, s, e)
<1> DEFINE body == BodyPlace(v, s, e)
           mark == body - Width(v)
<1>1. body \in Nat /\ mark \in Nat /\ e < mark /\ mark < body
  BY SectionPlaces, MarkerPlace
<1>2. Says(d, mark, "length", info) /\ Says(d, e, "length", size)
  BY MarkerBeforeTheLayers
<1> HIDE DEF mark, body
<1>3. mark < b /\ e < b /\ e <= b /\ body <= b
  BY <1>1 DEF body
<1>4. Says(f, mark, "length", info) /\ Says(f, e, "length", size)
  BY <1>1, <1>2, <1>3, KeepsSaying
<1>5. \A o \in Nat : e <= o /\ o < body /\ o # mark => IsSame(d, f, o)
  BY <1>1, <1>3 DEF IsSameBefore
<1>6. SectionIn(f, v, s, e, size, info)
  BY <1>4, <1>5, SectionStays DEF mark, body
<1>7. IsSameBefore(d, f, e)
  BY <1>1, <1>3 DEF IsSameBefore
<1>8. FrontIn(f, v, s, e)
  BY <1>4, <1>7, FrontGoesOn
<1> QED BY <1>6, <1>8

\* The mask info.
LEMMA MaskIsWritten ==
  ASSUME NEW d, NEW v, NEW s, NEW e, UpToLayersEnd(d, v, s, e), ~IsDeep(s),
         NEW f, f = Put(d, "mask", 0, MaskLength)
  PROVE  UpToMask(f, v, s, e)
<1> DEFINE b == BodyPlace(v, s, e)
           m == b + 44
<1>1. /\ IsStream(d) /\ FrontIn(d, v, s, e) /\ SectionIn(d, v, s, e, 0, 44) /\ d.offset = m
      /\ Says(d, b, "layers", 0)
  BY DEF UpToLayersEnd, IsEnded, LayersIn
<1>2. e \in Nat
  BY <1>1, FrontPlace
<1>3. b \in Nat /\ m \in Nat /\ b < m /\ b <= m
  BY <1>2, SectionPlaces
<1> HIDE DEF m, b
<1>4. 4 \in Nat /\ 4 # 0 /\ f = Put(d, "mask", 0, 4)
  BY DEF MaskLength
<1>5. /\ IsStream(f) /\ IsEnded(f) /\ f.offset = m + 4 /\ Says(f, m, "mask", 0)
      /\ \A o \in Nat : o < m => IsSame(d, f, o)
  BY <1>1, <1>4, PutGoesOn
<1>6. IsSameBefore(d, f, m)
  BY <1>5 DEF IsSameBefore
<1>7. Says(f, b, "layers", 0)
  BY <1>1, <1>3, <1>6, KeepsSaying
<1>8. SectionIn(f, v, s, e, 0, 44) /\ FrontIn(f, v, s, e)
  BY <1>1, <1>2, <1>3, <1>5, <1>6, SectionIsKept DEF b
<1>9. f.offset = b + 48
  BY <1>3, <1>5 DEF m
<1> QED BY <1>5, <1>7, <1>8, <1>9 DEF UpToMask, LayersIn, MaskIn, b, m

\* In a tagged block no mask info is behind the layers.
LEMMA DeepIsMasked ==
  ASSUME NEW d, NEW v, NEW s, NEW e, UpToLayersEnd(d, v, s, e), IsDeep(s)
  PROVE  UpToMask(d, v, s, e)
BY DEF UpToLayersEnd, UpToMask, MaskIn

\* The length of the section.
LEMMA SectionIsClosed ==
  ASSUME NEW d, NEW v, NEW s, NEW e, UpToMask(d, v, s, e),
         NEW f, f = PatchLength(d, e, Width(v), 4)
  PROVE  UpToImage(f, v, s, e)
<1> DEFINE w    == Width(v)
           b    == BodyPlace(v, s, e)
           z    == SectionSize(v, s)
           mark == b - w
<1>1. /\ IsEnded(d) /\ IsStream(d) /\ FrontIn(d, v, s, e) /\ SectionIn(d, v, s, e, 0, 44)
      /\ Says(d, b, "layers", 0) /\ MaskIn(d, v, s, e)
      /\ d.offset = b + (IF IsDeep(s) THEN 44 ELSE 48)
  BY DEF UpToMask, IsEnded, LayersIn
<1>2. e \in Nat
  BY <1>1, FrontPlace
<1>3. /\ b \in Nat /\ w \in Nat /\ w > 0 /\ z \in Nat /\ RoundUpToMultiple(z, 4) = z
      /\ IsDeep(s) => b = e + 3 * w + 12 /\ z = 2 * w + 56
      /\ ~IsDeep(s) => b = e + 2 * w /\ z = w + 48
      /\ ImageStart(v, s, e) = e + w + z
  BY <1>2, SectionPlaces
<1>4. mark \in Nat /\ e < mark /\ mark < b
  BY <1>2, MarkerPlace
<1> HIDE DEF w, b, z
<1>5. d.offset = e + w + z /\ e < d.offset /\ d.offset - e - w = z /\ z - z = 0
  BY <1>1, <1>2, <1>3
<1>6. f = Patch(d, e, w, z, 0)
  BY <1>3, <1>5 DEF PatchLength, w
<1>7. /\ IsEnded(f) /\ IsStream(f) /\ f.offset = d.offset + 0 /\ Says(f, e, "length", z)
      /\ \A o : o # e => IsSame(d, f, o)
  BY <1>1, <1>2, <1>3, <1>5, <1>6, PatchSays
<1>8. f.offset = ImageStart(v, s, e)
  BY <1>2, <1>3, <1>5, <1>7
<1>9. Says(f, b, "layers", 0)
  <2>1. b # e
    BY <1>2, <1>3, <1>4
  <2> QED BY <1>1, <1>7, <2>1, SameSays
<1>10. MaskIn(f, v, s, e)
  <2>1. b + 44 # e
    BY <1>2, <1>3, <1>4
  <2> QED BY <1>1, <1>7, <2>1, SameSays DEF MaskIn, b
<1>11. SectionIn(f, v, s, e, z, 44)
  <2>1. Says(d, mark, "length", 44) /\ MarkersIn(d, v, s, e)
    BY <1>1, <1>2, MarkerBeforeTheLayers DEF b, w
  <2>2. mark # e /\ \A o \in Nat : e < o => o # e
    BY <1>2, <1>4
  <2>3. Says(f, mark, "length", 44)
    BY <1>7, <2>1, <2>2, SameSays
  <2>4. MarkersIn(f, v, s, e)
    BY <1>2, <1>7, <2>1, <2>2, MarkersStay
  <2> QED BY <1>2, <1>7, <2>3, <2>4, MarkerBeforeTheLayers DEF b, w
<1>12. FrontIn(f, v, s, e)
  <2>1. IsSameBefore(d, f, e)
    BY <1>2, <1>7 DEF IsSameBefore
  <2> QED BY <1>1, <1>7, <2>1, FrontGoesOn
<1> QED BY <1>7, <1>8, <1>9, <1>10, <1>11, <1>12 DEF UpToImage, LayersIn, b, z

-----------------------------------------------------------------------------
(* What a file is at the stages of its story.                                *)

\* The section begins at e, but its length is not filled in; what a reader
\* takes for the end of the layer info is not followed by a mask info.
HalfIn(d, v, s, e) ==
  /\ IsStream(d) /\ FrontIn(d, v, s, e)
  /\ \E info \in {0, 44} :
       /\ SectionIn(d, v, s, e, 0, info)
       /\ ~IsDeep(s) => ~HasBlock(d.blocks, BodyPlace(v, s, e) + info, "mask")

\* What a save leaves that ends before the layers of the file can be found.
Unfinished(d, v, s) ==
  \/ ~HasBlock(d.blocks, 6, "header")
  \/ UpToHeader(d, v, s)
  \/ \E c \in Nat : UpToColor(d, v, s, c)
  \/ \E e : IsEnded(d) /\ UpToFront(d, v, s, e)
  \/ \E e : HalfIn(d, v, s, e)

\* The layers can be found, but the length of the section is not filled in.
MaskedIn(d, v, s, e) ==
  /\ ~IsDeep(s) /\ IsStream(d) /\ FrontIn(d, v, s, e) /\ SectionIn(d, v, s, e, 0, 44)
  /\ LayersIn(d, v, s, e) /\ MaskIn(d, v, s, e)

\* The section is whole.
WholeIn(d, v, s, e) ==
  /\ IsStream(d) /\ FrontIn(d, v, s, e) /\ SectionIn(d, v, s, e, SectionSize(v, s), 44)
  /\ LayersIn(d, v, s, e) /\ MaskIn(d, v, s, e)
  /\ ImageStart(v, s, e) <= d.offset

\* The merged image is behind it.
ImageIn(d, v, s, e) ==
  Says(d, ImageStart(v, s, e), "compression", 1) /\ Says(d, ImageStart(v, s, e) + 2, "image", 0)

\* It is not.
NoImageIn(d, v, s, e) == ~HasBlock(d.blocks, ImageStart(v, s, e) + 2, "image")

\* The settings of a document that reads back as it is.
IsKeptAsItIs(s) == s = SettingsOf(s) /\ IsSettings(s) /\ SaysItsSize(s.profile)

\* The file of a story.
HasStory(d, story1) ==
  LET v == story1.version
      s == story1.of
  IN  /\ story1.stage \in {"none", "begun", "mask", "layers", "complete"}
      /\ story1.stage = "none" => d = NoFile
      /\ story1.stage # "none" => IsKeptAsItIs(s)
      /\ story1.stage = "begun" => Unfinished(d, v, s)
      /\ story1.stage = "mask" => \E e : MaskedIn(d, v, s, e)
      /\ story1.stage = "layers" => \E e : WholeIn(d, v, s, e) /\ NoImageIn(d, v, s, e)
      /\ story1.stage = "complete" => \E e : WholeIn(d, v, s, e) /\ ImageIn(d, v, s, e)

-----------------------------------------------------------------------------

\* A section that stops before its layers, or behind them, is half one.
LEMMA BodyIsHalf ==
  ASSUME NEW d, NEW v, NEW s, NEW e, UpToBody(d, v, s, e)
  PROVE  HalfIn(d, v, s, e)
<1>1. e \in Nat
  BY FrontPlace DEF UpToBody
<1>2. BodyPlace(v, s, e) \in Nat
  BY <1>1, SectionPlaces
<1>3. BodyPlace(v, s, e) + 0 >= d.offset
  BY <1>2 DEF UpToBody
<1>4. ~HasBlock(d.blocks, BodyPlace(v, s, e) + 0, "mask")
  BY <1>3, NothingAtEnd DEF UpToBody
<1> QED BY <1>4 DEF UpToBody, HalfIn, IsEnded

\* The same where only the mask info is missing.
LEMMA LayersAreHalf ==
  ASSUME NEW d, NEW v, NEW s, NEW e, UpToLayersEnd(d, v, s, e)
  PROVE  HalfIn(d, v, s, e)
<1>1. e \in Nat
  BY FrontPlace DEF UpToLayersEnd
<1>2. BodyPlace(v, s, e) \in Nat
  BY <1>1, SectionPlaces
<1>3. BodyPlace(v, s, e) + 44 >= d.offset
  BY <1>2 DEF UpToLayersEnd
<1>4. ~HasBlock(d.blocks, BodyPlace(v, s, e) + 44, "mask")
  BY <1>3, NothingAtEnd DEF UpToLayersEnd
<1> QED BY <1>4 DEF UpToLayersEnd, HalfIn, IsEnded

\* So is one that stops within its layers.
LEMMA RecordsAreHalf ==
  ASSUME NEW d, NEW v, NEW s, NEW e, UpToBody(d, v, s, e),
         NEW f, f = Put(d, "records", 0, LayersLength - 1)
  PROVE  HalfIn(f, v, s, e)
<1> DEFINE b == BodyPlace(v, s, e)
<1>1. /\ IsStream(d) /\ FrontIn(d, v, s, e) /\ SectionIn(d, v, s, e, 0, 0) /\ d.offset = b
  BY DEF UpToBody, IsEnded
<1>2. e \in Nat
  BY <1>1, FrontPlace
<1>3. b \in Nat /\ b <= b /\ b + 0 = b
  BY <1>2, SectionPlaces
<1> HIDE DEF b
<1>4. f = Put(d, "records", 0, 40) /\ 40 \in Nat /\ 40 # 0
  BY DEF LayersLength
<1>5. /\ IsStream(f) /\ Says(f, b, "records", 0) /\ \A o \in Nat : o < b => IsSame(d, f, o)
  BY <1>1, <1>4, PutGoesOn
<1>6. IsSameBefore(d, f, b)
  BY <1>5 DEF IsSameBefore
<1>7. SectionIn(f, v, s, e, 0, 0) /\ FrontIn(f, v, s, e)
  BY <1>1, <1>2, <1>3, <1>5, <1>6, SectionIsKept DEF b
<1>8. ~HasBlock(f.blocks, b + 0, "mask")
  <2>1. ~HasBlock(f.blocks, b, "mask")
    <3>1. "mask" # "records"
      OBVIOUS
    <3> QED BY <1>5, <3>1, SaidIsFound
  <2> QED BY <1>3, <2>1
<1> QED BY <1>5, <1>7, <1>8 DEF HalfIn, b

\* Behind the mask info, 8 bits have layers that can be found.
LEMMA MaskIsEnough ==
  ASSUME NEW d, NEW v, NEW s, NEW e, UpToMask(d, v, s, e)
  PROVE  IF IsDeep(s) THEN HalfIn(d, v, s, e) ELSE MaskedIn(d, v, s, e)
<1>1. CASE ~IsDeep(s)
  BY <1>1 DEF UpToMask, MaskedIn, IsEnded
<1>2. CASE IsDeep(s)
  BY <1>2 DEF UpToMask, HalfIn, IsEnded
<1> QED BY <1>1, <1>2

\* The section is whole once its length is filled in.
LEMMA ImageStartIsWhole ==
  ASSUME NEW d, NEW v, NEW s, NEW e, UpToImage(d, v, s, e)
  PROVE  WholeIn(d, v, s, e) /\ NoImageIn(d, v, s, e)
<1>1. e \in Nat /\ d.offset = ImageStart(v, s, e) /\ IsEnded(d)
  BY FrontPlace DEF UpToImage
<1>2. d.offset \in Nat
  BY <1>1 DEF IsEnded, IsStream
<1>3. NoImageIn(d, v, s, e)
  BY <1>1, <1>2, NothingAtEnd DEF NoImageIn
<1> QED BY <1>1, <1>2, <1>3 DEF UpToImage, WholeIn, IsEnded

\* It stays whole when something is put behind it.
LEMMA WholeStays ==
  ASSUME NEW d, NEW v, NEW s, NEW e, UpToImage(d, v, s, e), NEW f, IsStream(f),
         IsSameBefore(d, f, d.offset), d.offset <= f.offset
  PROVE  WholeIn(f, v, s, e)
<1> DEFINE b == BodyPlace(v, s, e)
           i == ImageStart(v, s, e)
<1>1. /\ FrontIn(d, v, s, e) /\ SectionIn(d, v, s, e, SectionSize(v, s), 44)
      /\ Says(d, b, "layers", 0) /\ (IsDeep(s) \/ Says(d, b + 44, "mask", 0)) /\ d.offset = i
  BY DEF UpToImage, LayersIn, MaskIn
<1>2. e \in Nat
  BY <1>1, FrontPlace
<1>3. b \in Nat /\ i \in Nat /\ b < i /\ b <= i /\ (~IsDeep(s) => b + 44 < i)
  <2> DEFINE w == Width(v)
             z == SectionSize(v, s)
  <2>1. /\ b \in Nat /\ w \in Nat /\ w > 0 /\ z \in Nat
        /\ IsDeep(s) => b = e + 3 * w + 12 /\ z = 2 * w + 56
        /\ ~IsDeep(s) => b = e + 2 * w /\ z = w + 48
        /\ i = e + w + z
    BY <1>2, SectionPlaces
  <2> HIDE DEF w, z, b, i
  <2>2. CASE IsDeep(s)
    BY <1>2, <2>1, <2>2
  <2>3. CASE ~IsDeep(s)
    BY <1>2, <2>1, <2>3
  <2> QED BY <2>2, <2>3
<1> HIDE DEF b, i
<1>4. IsSameBefore(d, f, i)
  BY <1>1
<1>5. Says(f, b, "layers", 0) /\ (IsDeep(s) \/ Says(f, b + 44, "mask", 0))
  <2>1. Says(f, b, "layers", 0)
    BY <1>1, <1>3, <1>4, KeepsSaying
  <2>2. CASE ~IsDeep(s)
    <3>1. b + 44 \in Nat /\ b + 44 < i /\ Says(d, b + 44, "mask", 0)
      BY <1>1, <1>3, <2>2
    <3> QED BY <1>4, <2>1, <3>1, KeepsSaying
  <2> QED BY <2>1, <2>2
<1>6. SectionIn(f, v, s, e, SectionSize(v, s), 44) /\ FrontIn(f, v, s, e)
  BY <1>1, <1>2, <1>3, <1>4, SectionIsKept DEF b
<1> QED BY <1>1, <1>5, <1>6 DEF WholeIn, LayersIn, MaskIn, b, i

\* The compression of the merged image, and the image.
LEMMA ImageIsWritten ==
  ASSUME NEW d, NEW v, NEW s, NEW e, UpToImage(d, v, s, e),
         NEW f, f = Put(d, "compression", 1, 2), NEW g, g = Put(f, "image", 0, LayersLength)
  PROVE  /\ WholeIn(f, v, s, e) /\ NoImageIn(f, v, s, e)
         /\ WholeIn(g, v, s, e) /\ ImageIn(g, v, s, e)
<1> DEFINE i == ImageStart(v, s, e)
<1>1. IsStream(d) /\ d.offset = i
  BY DEF UpToImage, IsEnded
<1>2. i \in Nat /\ i + 2 \in Nat /\ i < i + 2 /\ i <= i + 2 /\ i <= i + 2 + 41
  <2>1. i \in Nat
    BY <1>1 DEF IsStream
  <2> QED BY <2>1
<1> HIDE DEF i
<1>3. /\ IsStream(f) /\ IsEnded(f) /\ f.offset = i + 2 /\ Says(f, i, "compression", 1)
      /\ \A o \in Nat : o < i => IsSame(d, f, o)
  <2>1. 2 \in Nat /\ 2 # 0
    OBVIOUS
  <2> QED BY <1>1, <2>1, PutGoesOn
<1>4. IsSameBefore(d, f, d.offset)
  BY <1>1, <1>3 DEF IsSameBefore
<1>5. WholeIn(f, v, s, e)
  BY <1>1, <1>2, <1>3, <1>4, WholeStays
<1>6. ~HasBlock(f.blocks, i + 2, "image")
  <2>1. i + 2 >= f.offset
    BY <1>2, <1>3
  <2> QED BY <1>3, <2>1, NothingAtEnd
<1>7. /\ IsStream(g) /\ g.offset = i + 2 + 41 /\ Says(g, i + 2, "image", 0)
      /\ \A o \in Nat : o < i + 2 => IsSame(f, g, o)
  <2>1. 41 \in Nat /\ 41 # 0 /\ g = Put(f, "image", 0, 41)
    BY DEF LayersLength
  <2> QED BY <1>3, <2>1, PutGoesOn
<1>8. Says(g, i, "compression", 1)
  BY <1>2, <1>3, <1>7, SameSays
<1>9. IsSameBefore(d, g, d.offset)
  <2> SUFFICES ASSUME NEW o \in Nat, o < i PROVE IsSame(d, g, o)
    BY <1>1 DEF IsSameBefore
  <2>1. o < i + 2
    BY <1>2
  <2>2. IsSame(d, f, o) /\ IsSame(f, g, o)
    BY <1>3, <1>7, <2>1
  <2> QED BY <2>2 DEF IsSame
<1>10. WholeIn(g, v, s, e)
  BY <1>1, <1>2, <1>7, <1>9, WholeStays
<1> QED BY <1>5, <1>6, <1>7, <1>8, <1>10 DEF NoImageIn, ImageIn, i

\* The names of resources fit their byte, and profiles say their size.
FitTheirFields(others) ==
  \A o \in others :
    /\ SaysItsSize(o.settings.profile)
    /\ \A k \in DOMAIN o.resources : o.resources[k].name <= 253

\* The file of another program.
LEMMA FileOfIsWhole ==
  ASSUME NEW o \in Others, FitTheirFields(Others)
  PROVE  /\ IsKeptAsItIs(o.settings)
         /\ \E e : /\ WholeIn(FileOf(o), o.version, o.settings, e)
                   /\ ImageIn(FileOf(o), o.version, o.settings, e)
<1> DEFINE v == o.version
           s == o.settings
           w == Width(v)
           header    == HeaderBlocks(EmptyDocument, v, s)
           colored   == Put(header, "length", o.color, 4)
           data      == IF o.color = 0 THEN colored ELSE Put(colored, "color", 0, o.color)
           started   == Put(data, "length", 0, 4)
           filled    == PutAll(started, o.resources)
           resources == PatchLength(filled, data.offset, 4, 2)
           up        == UpToLayers(resources, w, s.depth)
           layers    == PutLayers(up, w)
           masked    == IF s.depth < 16 THEN Put(layers, "mask", 0, MaskLength) ELSE layers
           whole     == PatchLength(masked, resources.offset, w, 4)
           compression == Put(whole, "compression", 1, 2)
           image     == Put(compression, "image", 0, LayersLength)
<1>1. /\ v \in {"psd", "psb"} /\ o.color \in Nat /\ IsSettings(s) /\ s = SettingsOf(s)
      /\ o.resources \in Seq({o.resources[k] : k \in DOMAIN o.resources})
      /\ \A k \in DOMAIN o.resources : IsResource(o.resources[k])
      /\ s.dpi = FirstOf(o.resources, Len(o.resources), "resolution", 72)
      /\ s.profile = FirstOf(o.resources, Len(o.resources), "profile", NoProfile)
  BY DocumentFileAssumption
<1>2. /\ SaysItsSize(s.profile) /\ \A k \in DOMAIN o.resources : o.resources[k].name <= 253
  BY DEF FitTheirFields
<1>3. FileOf(o) = image
  BY DEF FileOf
<1>4. s.depth \in Nat
  BY <1>1 DEF IsSettings
<1>5. /\ Len(o.resources) \in Nat /\ DOMAIN o.resources = 1..Len(o.resources)
  BY <1>1
<1>6. \A k \in 1..Len(o.resources) : IsResource(o.resources[k]) /\ o.resources[k].name <= 253
  BY <1>1, <1>2, <1>5
<1> DEFINE c == o.color
           n == Len(o.resources)
           none == NoneKept
           kept == KeptAfter(o.resources, n)
<1>7. KeptAfter(o.resources, 0) = none
  <2>1. {k \in 1..0 : o.resources[k].kind = "resolution"} = {}
        /\ {k \in 1..0 : o.resources[k].kind = "profile"} = {}
    OBVIOUS
  <2>2. /\ FirstOf(o.resources, 0, "resolution", 72) = 72
        /\ FirstOf(o.resources, 0, "profile", NoProfile) = NoProfile
    BY <2>1 DEF FirstOf
  <2>3. Normalized(NoProfile) = NoProfile
    BY DEF Normalized, NoProfile
  <2>4. FoundAmong(o.resources, 0) = {}
    BY DEF FoundAmong
  <2> QED BY <2>2, <2>3, <2>4 DEF KeptAfter, NoneKept
<1>8. IsKeptOf(kept, s)
  BY <1>1 DEF KeptAfter, IsKeptOf
<1> HIDE DEF v, s
<1>9. UpToHeader(header, v, s)
  BY <1>1, HeaderIsWritten
<1> HIDE DEF header
<1>10. UpToColor(data, v, s, c)
  <2>1. data = IF c = 0 THEN Put(header, "length", 0, 4)
               ELSE Put(Put(header, "length", c, 4), "color", 0, c)
    OBVIOUS
  <2>2. c \in Nat
    BY <1>1
  <2> HIDE DEF data, c
  <2> QED BY <1>9, <2>1, <2>2, ColorIsWritten
<1>11. c \in Nat
  BY <1>1
<1> HIDE DEF data, colored, c
<1>12. AmongResources(started, v, s, c, 34 + c, none)
  BY <1>10, <1>11, ResourcesBegin
<1> HIDE DEF started, none
<1>13. PICK q : AmongResources(filled, v, s, c, q, KeptAfter(o.resources, n))
  BY <1>5, <1>6, <1>7, <1>11, <1>12, ForeignAreWritten
<1> HIDE DEF filled
<1>14. UpToFront(resources, v, s, q)
  <2>1. data.offset = 30 + c
    BY <1>10 DEF UpToColor
  <2> QED BY <1>8, <1>11, <1>13, <2>1, ResourcesEnd
<1> HIDE DEF resources
<1>15. UpToBody(up, v, s, q)
  BY <1>4, <1>14, SectionBegins DEF s
<1> HIDE DEF up
<1>16. UpToLayersEnd(layers, v, s, q)
  BY <1>15, LayersAreWritten
<1> HIDE DEF layers
<1>17. UpToMask(masked, v, s, q)
  <2>0. s.depth \in Nat
    BY <1>4 DEF s
  <2>1. CASE s.depth < 16
    <3>1. ~IsDeep(s) /\ masked = Put(layers, "mask", 0, MaskLength)
      BY <2>0, <2>1 DEF IsDeep
    <3> QED BY <1>16, <3>1, MaskIsWritten
  <2>2. CASE ~(s.depth < 16)
    <3>1. IsDeep(s) /\ masked = layers
      BY <2>0, <2>2 DEF IsDeep
    <3> QED BY <1>16, <3>1, DeepIsMasked
  <2> QED BY <2>1, <2>2
<1> HIDE DEF masked
<1>18. UpToImage(whole, v, s, q)
  <2>1. resources.offset = q
    BY <1>14 DEF UpToFront
  <2> QED BY <1>17, <2>1, SectionIsClosed
<1> HIDE DEF whole
<1>19. WholeIn(image, v, s, q) /\ ImageIn(image, v, s, q)
  BY <1>18, ImageIsWritten
<1>20. IsKeptAsItIs(s)
  BY <1>1, <1>2 DEF IsKeptAsItIs, s
<1> QED BY <1>3, <1>19, <1>20 DEF v, s

-----------------------------------------------------------------------------
(* Saving, step by step.                                                     *)

\* The file while a save is to do this step next.
SaveIs(to, d, stage, v, s, mark) ==
  /\ to \in {"header", "color", "resources", "section", "layers", "mask", "finish", "image"}
  /\ to = "header" => stage = "begun" /\ d = EmptyDocument
  /\ to = "color" => stage = "begun" /\ UpToHeader(d, v, s)
  /\ to = "resources" => stage = "begun" /\ \E c \in Nat : UpToColor(d, v, s, c)
  /\ to = "section" => stage = "begun" /\ \E e : IsEnded(d) /\ UpToFront(d, v, s, e)
  /\ to = "layers" => stage = "begun" /\ UpToBody(d, v, s, mark)
  /\ to = "mask" => stage = "begun" /\ ~IsDeep(s) /\ UpToLayersEnd(d, v, s, mark)
  /\ to = "finish" => /\ stage = IF IsDeep(s) THEN "begun" ELSE "mask"
                      /\ UpToMask(d, v, s, mark)
  /\ to = "image" => stage = "layers" /\ UpToImage(d, v, s, mark)

\* A story whose file has got so far.
HasStage(d, stage, v, s) == HasStory(d, [stage |-> stage, of |-> s, version |-> v])

\* What a story with a stage says.
LEMMA StageMeans ==
  ASSUME NEW d, NEW stage, NEW v, NEW s
  PROVE  HasStage(d, stage, v, s)
           <=> /\ stage \in {"none", "begun", "mask", "layers", "complete"}
               /\ stage = "none" => d = NoFile
               /\ stage # "none" => IsKeptAsItIs(s)
               /\ stage = "begun" => Unfinished(d, v, s)
               /\ stage = "mask" => \E e : MaskedIn(d, v, s, e)
               /\ stage = "layers" => \E e : WholeIn(d, v, s, e) /\ NoImageIn(d, v, s, e)
               /\ stage = "complete" => \E e : WholeIn(d, v, s, e) /\ ImageIn(d, v, s, e)
<1> DEFINE st == [stage |-> stage, of |-> s, version |-> v]
<1>1. st.stage = stage /\ st.of = s /\ st.version = v
  OBVIOUS
<1> HIDE DEF st
<1>2. HasStage(d, stage, v, s) <=> HasStory(d, st)
  BY DEF HasStage, st
<1> QED BY <1>1, <1>2 DEF HasStory

\* A file without a block at 6 has no header.
LEMMA NoHeaderIsBegun ==
  ASSUME NEW d, NEW v, NEW s, IsKeptAsItIs(s), ~HasBlock(d.blocks, 6, "header")
  PROVE  HasStage(d, "begun", v, s)
BY StageMeans DEF Unfinished

\* An empty file has none, nor has one with nothing but the signature.
LEMMA EmptyHasNoHeader ==
  /\ IsEnded(EmptyDocument)
  /\ ~HasBlock(EmptyDocument.blocks, 6, "header")
  /\ ~HasBlock(Put(EmptyDocument, "signature", 0, 4).blocks, 6, "header")
<1> DEFINE f == Put(EmptyDocument, "signature", 0, 4)
<1>1. EmptyDocument.blocks = <<>> /\ EmptyDocument.offset = 0 /\ DOMAIN <<>> = {}
      /\ EmptyDocument = [blocks |-> EmptyDocument.blocks, offset |-> EmptyDocument.offset]
  BY DEF EmptyDocument
<1>2. IsEnded(EmptyDocument) /\ IsStream(EmptyDocument)
  BY <1>1 DEF IsEnded, IsStream
<1>3. IsEnded(f) /\ f.offset = 4
  <2>1. 4 \in Nat /\ 4 # 0 /\ EmptyDocument.offset + 4 = 4
    BY <1>1
  <2> QED BY <1>2, <2>1, PutSays
<1>4. ~HasBlock(f.blocks, 6, "header")
  BY <1>3, NothingAtEnd
<1> QED BY <1>1, <1>2, <1>4 DEF HasBlock

\* Whatever step is next, the file has its story: the save may end there.
LEMMA SaveHasItsStory ==
  ASSUME NEW to, NEW d, NEW stage, NEW v, NEW s, NEW mark, SaveIs(to, d, stage, v, s, mark),
         IsKeptAsItIs(s)
  PROVE  HasStage(d, stage, v, s)
<1>1. CASE to = "header"
  <2>1. stage = "begun" /\ d = EmptyDocument
    BY <1>1 DEF SaveIs
  <2> QED BY <2>1, EmptyHasNoHeader, NoHeaderIsBegun
<1>2. CASE to = "color"
  <2>1. stage = "begun" /\ UpToHeader(d, v, s)
    BY <1>2 DEF SaveIs
  <2> QED BY <2>1, StageMeans DEF Unfinished
<1>3. CASE to = "resources"
  <2>1. stage = "begun" /\ \E c \in Nat : UpToColor(d, v, s, c)
    BY <1>3 DEF SaveIs
  <2> QED BY <2>1, StageMeans DEF Unfinished
<1>4. CASE to = "section"
  <2>1. stage = "begun" /\ \E e : IsEnded(d) /\ UpToFront(d, v, s, e)
    BY <1>4 DEF SaveIs
  <2> QED BY <2>1, StageMeans DEF Unfinished
<1>5. CASE to = "layers"
  <2>1. stage = "begun" /\ UpToBody(d, v, s, mark)
    BY <1>5 DEF SaveIs
  <2> QED BY <2>1, BodyIsHalf, StageMeans DEF Unfinished
<1>6. CASE to = "mask"
  <2>1. stage = "begun" /\ UpToLayersEnd(d, v, s, mark)
    BY <1>6 DEF SaveIs
  <2> QED BY <2>1, LayersAreHalf, StageMeans DEF Unfinished
<1>7. CASE to = "finish"
  <2>1. (stage = IF IsDeep(s) THEN "begun" ELSE "mask") /\ UpToMask(d, v, s, mark)
    BY <1>7 DEF SaveIs
  <2>2. IF IsDeep(s) THEN HalfIn(d, v, s, mark) ELSE MaskedIn(d, v, s, mark)
    BY <2>1, MaskIsEnough
  <2>3. CASE IsDeep(s)
    <3>1. stage = "begun" /\ HalfIn(d, v, s, mark)
      BY <2>1, <2>2, <2>3
    <3> QED BY <3>1, StageMeans DEF Unfinished
  <2>4. CASE ~IsDeep(s)
    <3>1. stage = "mask" /\ MaskedIn(d, v, s, mark)
      BY <2>1, <2>2, <2>4
    <3> QED BY <3>1, StageMeans
  <2> QED BY <2>3, <2>4
<1>8. CASE to = "image"
  <2>1. stage = "layers" /\ UpToImage(d, v, s, mark)
    BY <1>8 DEF SaveIs
  <2> QED BY <2>1, ImageStartIsWhole, StageMeans
<1> QED BY <1>1, <1>2, <1>3, <1>4, <1>5, <1>6, <1>7, <1>8 DEF SaveIs

\* What a document is in the client's hands.
IsDocument(d) ==
  d = DocumentOf(d, d.layers, d.merged) /\ IsSettings(d) /\ SaysItsSize(d.profile)

\* The settings of a document are kept as they are.
LEMMA SettingsAreKept ==
  ASSUME NEW d, IsDocument(d), NEW s, s = SettingsOf(d)
  PROVE  /\ IsKeptAsItIs(s) /\ s = SettingsOf(s)
         /\ s.side = d.side /\ s.mode = d.mode /\ s.depth = d.depth /\ s.dpi = d.dpi
         /\ s.profile = d.profile /\ IsProfile(s.profile) /\ SaysItsSize(s.profile)
         /\ s.depth \in Nat
<1>1. /\ s.side = d.side /\ s.mode = d.mode /\ s.depth = d.depth /\ s.dpi = d.dpi
      /\ s.profile = d.profile
  BY DEF SettingsOf
<1>2. s = SettingsOf(s)
  BY <1>1 DEF SettingsOf
<1>3. /\ d.side \in Int /\ d.depth \in Nat /\ d.dpi \in Nat /\ IsProfile(d.profile)
      /\ SaysItsSize(d.profile)
  BY DEF IsDocument, IsSettings
<1>4. IsSettings(s)
  BY <1>1, <1>3 DEF IsSettings
<1> QED BY <1>1, <1>2, <1>3, <1>4 DEF IsKeptAsItIs

\* The header follows the truncated file.
LEMMA HeaderFollows ==
  ASSUME NEW d, NEW stage, NEW v \in {"psd", "psb"}, NEW s, NEW mark,
         SaveIs("header", d, stage, v, s, mark)
  PROVE  SaveIs("color", HeaderBlocks(d, v, s), stage, v, s, mark)
<1>1. stage = "begun" /\ d = EmptyDocument
  BY DEF SaveIs
<1> QED BY <1>1, HeaderIsWritten DEF SaveIs

\* The color data follow the header.
LEMMA ColorFollows ==
  ASSUME NEW d, NEW stage, NEW v, NEW s, NEW mark, SaveIs("color", d, stage, v, s, mark)
  PROVE  /\ SaveIs("resources", Put(d, "length", 0, 4), stage, v, s, mark)
         /\ SaveIs("resources",
                   Put(Put(d, "length", ColorDataLength, 4), "color", 0, ColorDataLength),
                   stage, v, s, mark)
<1>1. stage = "begun" /\ UpToHeader(d, v, s)
  BY DEF SaveIs
<1>2. UpToColor(Put(d, "length", 0, 4), v, s, 0)
  BY <1>1, ColorIsWritten
<1>3. UpToColor(Put(Put(d, "length", ColorDataLength, 4), "color", 0, ColorDataLength), v, s,
                ColorDataLength)
  <2>1. ColorDataLength \in Nat /\ ColorDataLength # 0
    BY DEF ColorDataLength
  <2> QED BY <1>1, <2>1, ColorIsWritten
<1>4. 0 \in Nat /\ ColorDataLength \in Nat
  BY DEF ColorDataLength
<1> QED BY <1>1, <1>2, <1>3, <1>4 DEF SaveIs

\* The resources follow the color data.
LEMMA ResourcesFollow ==
  ASSUME NEW d, NEW stage, NEW v, NEW s, NEW mark, SaveIs("resources", d, stage, v, s, mark),
         NEW t, IsDocument(t), s = SettingsOf(t)
  PROVE  SaveIs("section", PutResources(d, t), stage, v, s, mark)
<1>1. stage = "begun"
  BY DEF SaveIs
<1>2. PICK c \in Nat : UpToColor(d, v, s, c)
  BY DEF SaveIs
<1>3. /\ t.dpi = s.dpi /\ t.profile = s.profile /\ IsProfile(s.profile)
      /\ SaysItsSize(s.profile)
  BY SettingsAreKept
<1>4. \E p : UpToFront(PutResources(d, t), v, s, p) /\ IsEnded(PutResources(d, t))
  BY <1>2, <1>3, ResourcesAreWritten
<1> QED BY <1>1, <1>4 DEF SaveIs

\* The section begins behind them.
LEMMA SectionFollows ==
  ASSUME NEW d, NEW stage, NEW v, NEW s, NEW mark, SaveIs("section", d, stage, v, s, mark),
         s.depth \in Nat
  PROVE  SaveIs("layers", UpToLayers(d, Width(v), s.depth), stage, v, s, d.offset)
<1>1. stage = "begun"
  BY DEF SaveIs
<1>2. PICK e : UpToFront(d, v, s, e)
  BY DEF SaveIs
<1>3. d.offset = e
  BY <1>2 DEF UpToFront
<1>4. UpToBody(UpToLayers(d, Width(v), s.depth), v, s, d.offset)
  BY <1>2, <1>3, SectionBegins
<1> QED BY <1>1, <1>4 DEF SaveIs

\* The layers follow, and with 8 bits the mask info.
LEMMA LayersFollow ==
  ASSUME NEW d, NEW stage, NEW v, NEW s, NEW mark, SaveIs("layers", d, stage, v, s, mark),
         s.depth \in Nat
  PROVE  SaveIs(IF s.depth < 16 THEN "mask" ELSE "finish", PutLayers(d, Width(v)), stage, v, s,
                mark)
<1>1. stage = "begun" /\ UpToBody(d, v, s, mark)
  BY DEF SaveIs
<1>2. UpToLayersEnd(PutLayers(d, Width(v)), v, s, mark)
  BY <1>1, LayersAreWritten
<1>3. CASE s.depth < 16
  <2>1. ~IsDeep(s)
    BY <1>3 DEF IsDeep
  <2>2. SaveIs("mask", PutLayers(d, Width(v)), stage, v, s, mark)
    BY <1>1, <1>2, <2>1 DEF SaveIs
  <2> QED BY <1>3, <2>2
<1>4. CASE ~(s.depth < 16)
  <2>1. IsDeep(s)
    BY <1>4 DEF IsDeep
  <2>2. UpToMask(PutLayers(d, Width(v)), v, s, mark)
    BY <1>2, <2>1, DeepIsMasked
  <2>3. SaveIs("finish", PutLayers(d, Width(v)), stage, v, s, mark)
    BY <1>1, <2>1, <2>2 DEF SaveIs
  <2> QED BY <1>4, <2>3
<1> QED BY <1>3, <1>4

\* Layers that cannot be written leave half a section.
LEMMA RecordsFollow ==
  ASSUME NEW d, NEW stage, NEW v, NEW s, NEW mark, SaveIs("layers", d, stage, v, s, mark),
         IsKeptAsItIs(s)
  PROVE  HasStage(Put(d, "records", 0, LayersLength - 1), stage, v, s)
<1>1. stage = "begun" /\ UpToBody(d, v, s, mark)
  BY DEF SaveIs
<1>2. HalfIn(Put(d, "records", 0, LayersLength - 1), v, s, mark)
  BY <1>1, RecordsAreHalf
<1> QED BY <1>1, <1>2, StageMeans DEF Unfinished

\* The mask info follows the layers.
LEMMA MaskFollows ==
  ASSUME NEW d, NEW stage, NEW v, NEW s, NEW mark, SaveIs("mask", d, stage, v, s, mark)
  PROVE  SaveIs("finish", Put(d, "mask", 0, MaskLength), "mask", v, s, mark)
<1>1. ~IsDeep(s) /\ UpToLayersEnd(d, v, s, mark)
  BY DEF SaveIs
<1>2. UpToMask(Put(d, "mask", 0, MaskLength), v, s, mark)
  BY <1>1, MaskIsWritten
<1> QED BY <1>1, <1>2 DEF SaveIs

\* The length of the section is filled in.
LEMMA LengthFollows ==
  ASSUME NEW d, NEW stage, NEW v, NEW s, NEW mark, SaveIs("finish", d, stage, v, s, mark)
  PROVE  SaveIs("image", PatchLength(d, mark, Width(v), 4), "layers", v, s, mark)
<1>1. UpToMask(d, v, s, mark)
  BY DEF SaveIs
<1>2. UpToImage(PatchLength(d, mark, Width(v), 4), v, s, mark)
  BY <1>1, SectionIsClosed
<1> QED BY <1>2 DEF SaveIs

\* The merged image follows, or only its compression.
LEMMA ImageFollows ==
  ASSUME NEW d, NEW stage, NEW v, NEW s, NEW mark, SaveIs("image", d, stage, v, s, mark),
         IsKeptAsItIs(s), NEW f, f = Put(d, "compression", 1, 2)
  PROVE  /\ HasStage(f, stage, v, s)
         /\ HasStage(Put(f, "image", 0, LayersLength), "complete", v, s)
<1>1. stage = "layers" /\ UpToImage(d, v, s, mark)
  BY DEF SaveIs
<1> DEFINE g == Put(f, "image", 0, LayersLength)
<1>2. /\ WholeIn(f, v, s, mark) /\ NoImageIn(f, v, s, mark)
      /\ WholeIn(g, v, s, mark) /\ ImageIn(g, v, s, mark)
  BY <1>1, ImageIsWritten
<1> HIDE DEF g
<1>3. HasStage(f, stage, v, s)
  BY <1>1, <1>2, StageMeans
<1>4. HasStage(g, "complete", v, s)
  BY <1>2, StageMeans
<1> QED BY <1>3, <1>4 DEF g

-----------------------------------------------------------------------------
(* What a reader finds in a file with a story.                               *)

\* How far the section got of a file whose section was begun.
AfterSection(d, stage, v, s, e) ==
  /\ stage \in {"begun", "mask", "layers", "complete"}
  /\ stage = "begun" => HalfIn(d, v, s, e)
  /\ stage = "mask" => MaskedIn(d, v, s, e)
  /\ stage \in {"layers", "complete"} => WholeIn(d, v, s, e)

\* The marker of that section.
MarkedSize(stage, v, s) == IF stage \in {"layers", "complete"} THEN SectionSize(v, s) ELSE 0

\* A section that is found is at one place.
LEMMA OneFront ==
  ASSUME NEW d, NEW v, NEW s, NEW e, FrontIn(d, v, s, e), NEW f, FrontIn(d, v, s, f)
  PROVE  e = f
BY FrontPlace

\* Where there is a section, the front is there.
LEMMA HalfHasFront ==
  ASSUME NEW d, NEW v, NEW s, NEW e,
         HalfIn(d, v, s, e) \/ MaskedIn(d, v, s, e) \/ WholeIn(d, v, s, e)
  PROVE  FrontIn(d, v, s, e)
BY DEF HalfIn, MaskedIn, WholeIn

\* Where there is a front, there is a header.
LEMMA FrontHasHeader ==
  ASSUME NEW d, NEW v, NEW s, NEW e, FrontIn(d, v, s, e)
  PROVE  HeaderIn(d, v, s)
BY DEF FrontIn, FrontOf

\* The header of a file is that of its story.
LEMMA HeaderOfStory ==
  ASSUME NEW d, NEW stage, NEW v, NEW s, HasStage(d, stage, v, s), HasBlock(d.blocks, 6, "header")
  PROVE  HeaderIn(d, v, s) /\ stage # "none" /\ IsKeptAsItIs(s) /\ IsStream(d)
<1>1. /\ stage \in {"none", "begun", "mask", "layers", "complete"}
      /\ stage = "none" => d = NoFile
      /\ stage # "none" => IsKeptAsItIs(s)
      /\ stage = "begun" => Unfinished(d, v, s)
      /\ stage = "mask" => \E e : MaskedIn(d, v, s, e)
      /\ stage = "layers" => \E e : WholeIn(d, v, s, e)
      /\ stage = "complete" => \E e : WholeIn(d, v, s, e)
  BY StageMeans
<1>2. stage # "none"
  <2>1. ASSUME stage = "none" PROVE FALSE
    <3>1. d.blocks = <<>>
      BY <1>1, <2>1 DEF NoFile
    <3> QED BY <3>1 DEF HasBlock
  <2> QED BY <2>1
<1>3. HeaderIn(d, v, s) /\ IsStream(d)
  <2>1. CASE stage = "begun"
    <3>1. Unfinished(d, v, s)
      BY <1>1, <2>1
    <3>2. \/ UpToHeader(d, v, s)
          \/ \E c \in Nat : UpToColor(d, v, s, c)
          \/ \E e : UpToFront(d, v, s, e)
          \/ \E e : HalfIn(d, v, s, e)
      BY <3>1 DEF Unfinished
    <3>3. ASSUME NEW e, FrontIn(d, v, s, e) PROVE HeaderIn(d, v, s)
      BY <3>3, FrontHasHeader
    <3>4. HeaderIn(d, v, s)
      BY <3>2, <3>3, HalfHasFront DEF UpToHeader, UpToColor, UpToFront
    <3>5. IsStream(d)
      BY <3>2 DEF UpToHeader, UpToColor, UpToFront, HalfIn, IsEnded
    <3> QED BY <3>4, <3>5
  <2>2. CASE stage # "begun"
    <3>1. PICK e : MaskedIn(d, v, s, e) \/ WholeIn(d, v, s, e)
      BY <1>1, <1>2, <2>2
    <3>2. IsStream(d)
      BY <3>1 DEF MaskedIn, WholeIn
    <3> QED BY <3>1, <3>2, HalfHasFront, FrontHasHeader
  <2> QED BY <2>1, <2>2
<1> QED BY <1>1, <1>2, <1>3

\* The color data can be read, with the four bytes behind it, exactly where the
\* resources were written.
LEMMA ColorOfStory ==
  ASSUME NEW d, NEW stage, NEW v, NEW s, HasStage(d, stage, v, s), HeaderIn(d, v, s)
  PROVE  /\ (HasBlock(d.blocks, 26, "length") /\ 26 + 4 + d.blocks[26].val + 4 <= d.offset)
              <=> \E e : FrontIn(d, v, s, e)
         /\ ~(\E e : FrontIn(d, v, s, e)) => stage = "begun"
<1>1. HasBlock(d.blocks, 6, "header")
  BY SaidIsFound DEF HeaderIn
<1>2. /\ stage \in {"begun", "mask", "layers", "complete"}
      /\ stage = "begun" => Unfinished(d, v, s)
      /\ stage = "mask" => \E e : MaskedIn(d, v, s, e)
      /\ stage = "layers" => \E e : WholeIn(d, v, s, e)
      /\ stage = "complete" => \E e : WholeIn(d, v, s, e)
  BY <1>1, HeaderOfStory, StageMeans
<1>3. ASSUME NEW e, FrontIn(d, v, s, e)
      PROVE  HasBlock(d.blocks, 26, "length") /\ 26 + 4 + d.blocks[26].val + 4 <= d.offset
  <2>1. PICK c \in Nat, n \in Nat : \E ends, keeps : FrontOf(d, v, s, e, c, n, ends, keeps)
    BY <1>3 DEF FrontIn
  <2>2. PICK ends, keeps : FrontOf(d, v, s, e, c, n, ends, keeps)
    BY <2>1
  <2>3. /\ Says(d, 26, "length", c) /\ ResourcesIn(d, 34 + c, n, ends, keeps)
        /\ e = ends[n] /\ e <= d.offset
    BY <2>2 DEF FrontOf
  <2>4. HasBlock(d.blocks, 26, "length") /\ d.blocks[26].val = c
    BY <2>3, SaidIsFound
  <2>5. 34 + c <= e /\ e \in Nat
    <3>1. /\ ends \in [0..n -> Nat]
          /\ \A k \in 0..n : 34 + c <= ends[k] /\ (k # n => ends[k] < ends[n])
      BY <2>3 DEF ResourcesIn
    <3>2. n \in 0..n
      OBVIOUS
    <3> QED BY <2>3, <3>1, <3>2
  <2>6. d.offset \in Nat
    BY <1>1, HeaderOfStory DEF IsStream
  <2>7. 26 + 4 + c + 4 <= d.offset
    BY <2>3, <2>5, <2>6
  <2> QED BY <2>4, <2>7
<1>4. ASSUME ~(\E e : FrontIn(d, v, s, e))
      PROVE  /\ stage = "begun"
             /\ ~(HasBlock(d.blocks, 26, "length") /\ 26 + 4 + d.blocks[26].val + 4 <= d.offset)
  <2>1. stage = "begun" /\ Unfinished(d, v, s)
    BY <1>2, <1>4, HalfHasFront
  <2>2. UpToHeader(d, v, s) \/ \E c \in Nat : UpToColor(d, v, s, c)
    BY <1>1, <1>4, <2>1, HalfHasFront DEF Unfinished, UpToFront
  <2>3. CASE UpToHeader(d, v, s)
    <3>1. IsEnded(d) /\ 26 >= d.offset
      BY <2>3 DEF UpToHeader
    <3> QED BY <2>1, <3>1, NothingAtEnd
  <2>4. CASE \E c \in Nat : UpToColor(d, v, s, c)
    <3>1. PICK c \in Nat : UpToColor(d, v, s, c)
      BY <2>4
    <3>2. Says(d, 26, "length", c) /\ d.offset = 30 + c
      BY <3>1 DEF UpToColor
    <3>3. d.blocks[26].val = c
      BY <3>2, SaidIsFound
    <3>4. ~(26 + 4 + c + 4 <= 30 + c)
      OBVIOUS
    <3> QED BY <2>1, <3>2, <3>3, <3>4
  <2> QED BY <2>2, <2>3, <2>4
<1> QED BY <1>3, <1>4

\* The marker of the section is found exactly where the section was begun.
LEMMA SectionOfStory ==
  ASSUME NEW d, NEW stage, NEW v, NEW s, HasStage(d, stage, v, s), NEW e, FrontIn(d, v, s, e)
  PROVE  /\ HasBlock(d.blocks, e, "length")
              => AfterSection(d, stage, v, s, e) /\ d.blocks[e].val = MarkedSize(stage, v, s)
         /\ ~HasBlock(d.blocks, e, "length") => stage = "begun"
<1>1. HasBlock(d.blocks, 6, "header")
  BY FrontHasHeader, SaidIsFound DEF HeaderIn
<1>2. /\ stage \in {"begun", "mask", "layers", "complete"}
      /\ stage = "begun" => Unfinished(d, v, s)
      /\ stage = "mask" => \E f : MaskedIn(d, v, s, f)
      /\ stage = "layers" => \E f : WholeIn(d, v, s, f)
      /\ stage = "complete" => \E f : WholeIn(d, v, s, f)
  BY <1>1, HeaderOfStory, StageMeans
<1>3. CASE stage = "begun"
  <2>1. CASE HasBlock(d.blocks, e, "length")
    <3>1. PICK c \in Nat, n \in Nat : \E ends, keeps : FrontOf(d, v, s, e, c, n, ends, keeps)
      BY DEF FrontIn
    <3>2. ~UpToHeader(d, v, s) /\ ~(\E x \in Nat : UpToColor(d, v, s, x))
      <4>1. HeaderIn(d, v, s)
        BY FrontHasHeader
      <4>2. HasBlock(d.blocks, 26, "length") /\ 26 + 4 + d.blocks[26].val + 4 <= d.offset
        BY <4>1, ColorOfStory
      <4>3. ASSUME UpToHeader(d, v, s) PROVE FALSE
        <5>1. IsEnded(d) /\ 26 >= d.offset
          BY <4>3 DEF UpToHeader
        <5> QED BY <4>2, <5>1, NothingAtEnd
      <4>4. ASSUME NEW x \in Nat, UpToColor(d, v, s, x) PROVE FALSE
        <5>1. Says(d, 26, "length", x) /\ d.offset = 30 + x
          BY <4>4 DEF UpToColor
        <5>2. d.blocks[26].val = x
          BY <5>1, SaidIsFound
        <5>3. ~(26 + 4 + x + 4 <= 30 + x)
          OBVIOUS
        <5> QED BY <4>2, <5>1, <5>2, <5>3
      <4> QED BY <4>3, <4>4
    <3>3. ~(\E f : IsEnded(d) /\ UpToFront(d, v, s, f))
      <4>1. ASSUME NEW f, IsEnded(d), UpToFront(d, v, s, f) PROVE FALSE
        <5>1. FrontIn(d, v, s, f) /\ d.offset = f
          BY <4>1 DEF UpToFront
        <5>2. e = d.offset /\ e \in Nat
          BY <5>1, OneFront, FrontPlace
        <5>3. e >= d.offset
          BY <5>2
        <5> QED BY <2>1, <4>1, <5>3, NothingAtEnd
      <4> QED BY <4>1
    <3>4. PICK f : HalfIn(d, v, s, f)
      BY <1>1, <1>2, <1>3, <3>2, <3>3 DEF Unfinished
    <3>5. HalfIn(d, v, s, e)
      BY <3>4, HalfHasFront, OneFront
    <3>6. \E info \in {0, 44} : SectionIn(d, v, s, e, 0, info)
      BY <3>5 DEF HalfIn
    <3>7. d.blocks[e].val = 0
      BY <3>6, SaidIsFound DEF SectionIn
    <3> QED BY <1>3, <3>5, <3>7 DEF AfterSection, MarkedSize
  <2> QED BY <1>3, <2>1
<1>4. CASE stage = "mask"
  <2>1. PICK f : MaskedIn(d, v, s, f)
    BY <1>2, <1>4
  <2>2. MaskedIn(d, v, s, e)
    BY <2>1, HalfHasFront, OneFront
  <2>3. SectionIn(d, v, s, e, 0, 44)
    BY <2>2 DEF MaskedIn
  <2>4. HasBlock(d.blocks, e, "length") /\ d.blocks[e].val = 0
    BY <2>3, SaidIsFound DEF SectionIn
  <2> QED BY <1>4, <2>2, <2>4 DEF AfterSection, MarkedSize
<1>5. CASE stage \in {"layers", "complete"}
  <2>1. PICK f : WholeIn(d, v, s, f)
    BY <1>2, <1>5
  <2>2. WholeIn(d, v, s, e)
    BY <2>1, HalfHasFront, OneFront
  <2>3. SectionIn(d, v, s, e, SectionSize(v, s), 44)
    BY <2>2 DEF WholeIn
  <2>4. HasBlock(d.blocks, e, "length") /\ d.blocks[e].val = SectionSize(v, s)
    BY <2>3, SaidIsFound DEF SectionIn
  <2> QED BY <1>5, <2>2, <2>4 DEF AfterSection, MarkedSize
<1> QED BY <1>2, <1>3, <1>4, <1>5

-----------------------------------------------------------------------------
(* Reading, step by step.                                                    *)

\* What was read of a file: its header, so much of what its resources keep, and
\* whether there are layers.
GotOf(v, s, kept, layers) ==
  [side |-> s.side, mode |-> s.mode, depth |-> s.depth, dpi |-> kept.dpi,
   profile |-> kept.profile, found |-> kept.found, version |-> v, layers |-> layers]

\* What is kept behind the last resource.
AllKept(s) == [dpi |-> s.dpi, profile |-> Normalized(s.profile), found |-> {}]

\* The span of the section as the reader has it.
SpanOf(stage, v, s, e) == [start |-> e, size |-> MarkedSize(stage, v, s) + Width(v)]

\* The reader is among the resources: it has read k of the n.
IsAmong(d, v, s, e, c, n, ends, keeps, k, a, l, x, g) ==
  /\ FrontOf(d, v, s, e, c, n, ends, keeps) /\ k \in 0..n
  /\ a = ends[k] /\ l = e - ends[k]
  /\ x = [start |-> 30 + c, size |-> e - (30 + c)]
  /\ g = GotOf(v, s, keeps[k], "none")

\* The reader is behind the marker of the section.
AtInfo(stage, v, s, e, a, g) == a = e + Width(v) /\ g = GotOf(v, s, AllKept(s), "none")

\* It is behind the layer info, where no mask info is next if the layers of a
\* document of 8 bits were cut short.
AtMask(d, stage, v, s, e, a, g) ==
  IF IsDeep(s) THEN a = e + 2 * Width(v) /\ g = GotOf(v, s, AllKept(s), "none")
  ELSE IF stage = "begun" THEN ~HasBlock(d.blocks, a, "mask")
  ELSE a = BodyPlace(v, s, e) + 44 /\ g = GotOf(v, s, AllKept(s), "sound")

\* It is behind the mask info.
AtBlocks(stage, v, s, e, a, g) ==
  IF IsDeep(s) THEN a = e + 2 * Width(v) + 4 /\ g = GotOf(v, s, AllKept(s), "none")
  ELSE stage # "begun" /\ a = BodyPlace(v, s, e) + 48 /\ g = GotOf(v, s, AllKept(s), "sound")

\* It is behind all of the section, where the merged image is if that is whole.
AtImage(stage, v, s, e, a, g) ==
  /\ g = GotOf(v, s, AllKept(s), IF stage = "begun" THEN "none" ELSE "sound")
  /\ stage \in {"layers", "complete"} => a = ImageStart(v, s, e)

\* What the reader has read of a file while it is to do this step next.
ReadIs(to, d, stage, v, s, a, l, x, g) ==
  /\ to \in {"header", "color", "resources", "resource", "section", "info", "mask", "blocks",
             "build"}
  /\ to # "header" => HeaderIn(d, v, s) /\ InRange(s.side, v)
  /\ to = "color" => a = 26 /\ g = GotOf(v, s, NoneKept, "none")
  /\ to = "resources" => \E c, n \in Nat : \E e, ends, keeps :
                           /\ FrontOf(d, v, s, e, c, n, ends, keeps) /\ a = 30 + c
                           /\ g = GotOf(v, s, NoneKept, "none")
  /\ to = "resource" => \E c, n \in Nat : \E e, ends, keeps, k :
                          IsAmong(d, v, s, e, c, n, ends, keeps, k, a, l, x, g)
  /\ to = "section" => \E e : /\ FrontIn(d, v, s, e) /\ x.start + x.size = e /\ a = e
                              /\ g = GotOf(v, s, AllKept(s), "none")
  /\ to \in {"info", "mask", "blocks"} =>
       \E e : /\ AfterSection(d, stage, v, s, e) /\ x = SpanOf(stage, v, s, e)
              /\ to = "info" => AtInfo(stage, v, s, e, a, g)
              /\ to = "mask" => AtMask(d, stage, v, s, e, a, g)
              /\ to = "blocks" => AtBlocks(stage, v, s, e, a, g)
  /\ to = "build" => \E e : AfterSection(d, stage, v, s, e) /\ AtImage(stage, v, s, e, a, g)

\* A front has a length of its resources.
LEMMA FrontSays ==
  ASSUME NEW d, NEW v, NEW s, NEW e, NEW c, NEW n, c \in Nat, n \in Nat, NEW ends, NEW keeps,
         FrontOf(d, v, s, e, c, n, ends, keeps)
  PROVE  /\ HasBlock(d.blocks, 30 + c, "length") /\ d.blocks[30 + c].val = e - (34 + c)
         /\ RoundUpToMultiple(e - (34 + c), 2) = e - (34 + c)
         /\ ends[0] = 34 + c /\ ends[n] = e /\ e \in Nat /\ e >= 34 + c
         /\ keeps[0] = NoneKept /\ IsKeptOf(keeps[n], s)
         /\ e <= d.offset /\ NothingKept(d, e)
<1>1. /\ HeaderIn(d, v, s) /\ Says(d, 26, "length", c)
      /\ Says(d, 30 + c, "length", e - (34 + c)) /\ (e - (34 + c)) % 2 = 0
      /\ ends[n] = e /\ e <= d.offset /\ NothingKept(d, e)
      /\ IsKeptOf(keeps[n], s)
  BY DEF FrontOf
<1>2. /\ ends \in [0..n -> Nat] /\ ends[0] = 34 + c /\ keeps[0] = NoneKept
      /\ \A k \in 0..n : 34 + c <= ends[k] /\ (k # n => ends[k] < ends[n])
  BY DEF FrontOf, ResourcesIn
<1>3. n \in 0..n
  OBVIOUS
<1>4. e \in Nat /\ e >= 34 + c
  BY <1>1, <1>2, <1>3
<1>5. RoundUpToMultiple(e - (34 + c), 2) = e - (34 + c)
  <2>1. e - (34 + c) \in Nat
    BY <1>4
  <2> QED BY <1>1, <2>1, RoundedUp
<1>6. HasBlock(d.blocks, 30 + c, "length") /\ d.blocks[30 + c].val = e - (34 + c)
  BY <1>1, SaidIsFound
<1> QED BY <1>1, <1>2, <1>4, <1>5, <1>6

\* And one of its color data.
LEMMA FrontColor ==
  ASSUME NEW d, NEW v, NEW s, NEW e, NEW c, NEW n, c \in Nat, n \in Nat, NEW ends, NEW keeps,
         FrontOf(d, v, s, e, c, n, ends, keeps)
  PROVE  FrontIn(d, v, s, e) /\ HeaderIn(d, v, s) /\ d.blocks[26].val = c
<1>1. FrontIn(d, v, s, e)
  BY DEF FrontIn
<1>2. d.blocks[26].val = c
  BY SaidIsFound DEF FrontOf
<1> QED BY <1>1, <1>2 DEF FrontOf

\* The resources of a front end one behind the other.
LEMMA FrontEnds ==
  ASSUME NEW d, NEW v, NEW s, NEW e, NEW c, NEW n, c \in Nat, n \in Nat, NEW ends, NEW keeps,
         FrontOf(d, v, s, e, c, n, ends, keeps)
  PROVE  /\ \A k \in 0..n : ends[k] \in Nat /\ (k # n => ends[k] < e)
         /\ \A k \in 1..n : ResourceIn(d, ends[k - 1], ends[k], keeps[k - 1], keeps[k])
<1>1. /\ ends \in [0..n -> Nat] /\ ends[n] = e
      /\ \A k \in 1..n : ResourceIn(d, ends[k - 1], ends[k], keeps[k - 1], keeps[k])
      /\ \A k \in 0..n : 34 + c <= ends[k] /\ (k # n => ends[k] < ends[n])
  BY DEF FrontOf, ResourcesIn
<1> QED BY <1>1

\* The header.
LEMMA HeaderIsTold ==
  ASSUME NEW d, NEW stage, NEW v, NEW s, NEW a, NEW l, NEW x, NEW g,
         HasStage(d, stage, v, s)
  PROVE  /\ HeaderIsRead(d) =>
              /\ d.blocks[4].val = v /\ d.blocks[6].val = s
              /\ stage # "none" /\ IsKeptAsItIs(s) /\ InRange(s.side, v)
              /\ ReadIs("color", d, stage, v, s, 26, l, x, GotOf(v, s, NoneKept, "none"))
         /\ ~HeaderIsRead(d) => stage \in {"none", "begun"} \/ ~InRange(s.side, v)
<1>1. ASSUME HasBlock(d.blocks, 6, "header")
      PROVE  /\ HeaderIn(d, v, s) /\ stage # "none" /\ IsKeptAsItIs(s)
             /\ d.blocks[4].val = v /\ d.blocks[6].val = s
  <2>1. HeaderIn(d, v, s) /\ stage # "none" /\ IsKeptAsItIs(s)
    BY <1>1, HeaderOfStory
  <2>2. Says(d, 4, "version", v) /\ Says(d, 6, "header", s)
    BY <2>1 DEF HeaderIn
  <2> QED BY <2>1, <2>2, SaidIsFound
<1>2. HeaderIsRead(d) => /\ HasBlock(d.blocks, 6, "header")
                         /\ InRange(d.blocks[6].val.side, d.blocks[4].val)
  BY DEF HeaderIsRead
<1>3. HeaderIsRead(d) =>
              /\ d.blocks[4].val = v /\ d.blocks[6].val = s
              /\ stage # "none" /\ IsKeptAsItIs(s) /\ InRange(s.side, v)
              /\ ReadIs("color", d, stage, v, s, 26, l, x, GotOf(v, s, NoneKept, "none"))
  BY <1>1, <1>2 DEF ReadIs
<1>4. ASSUME ~HeaderIsRead(d), InRange(s.side, v) PROVE stage \in {"none", "begun"}
  <2>1. ~HasBlock(d.blocks, 6, "header")
    BY <1>1, <1>4 DEF HeaderIsRead
  <2>2. ~HeaderIn(d, v, s)
    BY <2>1, SaidIsFound DEF HeaderIn
  <2>3. ~(\E e : FrontIn(d, v, s, e))
    BY <2>2, FrontHasHeader
  <2> QED BY <2>3, HalfHasFront, StageMeans
<1> QED BY <1>3, <1>4

\* The color data.
LEMMA ColorIsTold ==
  ASSUME NEW d, NEW stage, NEW v, NEW s, NEW a, NEW l, NEW x, NEW g,
         HasStage(d, stage, v, s), ReadIs("color", d, stage, v, s, a, l, x, g)
  PROVE  IF HasBlock(d.blocks, a, "length") /\ a + 4 + d.blocks[a].val + 4 <= d.offset
         THEN ReadIs("resources", d, stage, v, s, a + d.blocks[a].val + 4, l, x, g)
         ELSE stage = "begun"
<1>1. a = 26 /\ g = GotOf(v, s, NoneKept, "none") /\ HeaderIn(d, v, s) /\ InRange(s.side, v)
  BY DEF ReadIs
<1>2. CASE \E e : FrontIn(d, v, s, e)
  <2>1. HasBlock(d.blocks, a, "length") /\ a + 4 + d.blocks[a].val + 4 <= d.offset
    BY <1>1, <1>2, ColorOfStory
  <2>2. PICK e : FrontIn(d, v, s, e)
    BY <1>2
  <2>3. PICK c \in Nat, n \in Nat : \E ends, keeps : FrontOf(d, v, s, e, c, n, ends, keeps)
    BY <2>2 DEF FrontIn
  <2>4. PICK ends, keeps : FrontOf(d, v, s, e, c, n, ends, keeps)
    BY <2>3
  <2>5. d.blocks[26].val = c
    BY <2>4, FrontColor
  <2>6. 26 + d.blocks[26].val + 4 = 30 + c
    BY <2>5
  <2> DEFINE a2 == 26 + d.blocks[26].val + 4
  <2>7. ReadIs("resources", d, stage, v, s, a2, l, x, g)
    <3>1. a2 = 30 + c
      BY <2>6
    <3> HIDE DEF a2
    <3>2. \E c1, n1 \in Nat : \E e1, ends1, keeps1 :
             /\ FrontOf(d, v, s, e1, c1, n1, ends1, keeps1) /\ a2 = 30 + c1
             /\ g = GotOf(v, s, NoneKept, "none")
      BY <1>1, <2>4, <3>1
    <3> QED BY <1>1, <3>2 DEF ReadIs
  <2> QED BY <1>1, <2>1, <2>7
<1>3. CASE ~(\E e : FrontIn(d, v, s, e))
  BY <1>1, <1>3, ColorOfStory
<1> QED BY <1>2, <1>3

\* The length of the resources.
LEMMA ResourcesAreTold ==
  ASSUME NEW d, NEW stage, NEW v, NEW s, NEW a, NEW l, NEW x, NEW g,
         ReadIs("resources", d, stage, v, s, a, l, x, g)
  PROVE  /\ HasBlock(d.blocks, a, "length")
         /\ ReadIs("resource", d, stage, v, s, a + 4, RoundUpToMultiple(d.blocks[a].val, 2),
                   [start |-> a, size |-> RoundUpToMultiple(d.blocks[a].val, 2) + 4], g)
<1>1. PICK c \in Nat, n \in Nat : \E e, ends, keeps :
        /\ FrontOf(d, v, s, e, c, n, ends, keeps) /\ a = 30 + c
        /\ g = GotOf(v, s, NoneKept, "none")
  BY DEF ReadIs
<1>2. PICK e, ends, keeps :
        /\ FrontOf(d, v, s, e, c, n, ends, keeps) /\ a = 30 + c
        /\ g = GotOf(v, s, NoneKept, "none")
  BY <1>1
<1>3. /\ HasBlock(d.blocks, 30 + c, "length") /\ d.blocks[30 + c].val = e - (34 + c)
      /\ RoundUpToMultiple(e - (34 + c), 2) = e - (34 + c)
      /\ ends[0] = 34 + c /\ keeps[0] = NoneKept /\ e \in Nat
  BY <1>2, FrontSays
<1>4. RoundUpToMultiple(d.blocks[a].val, 2) = e - (34 + c)
  BY <1>2, <1>3
<1>5. /\ a + 4 = ends[0] /\ e - (34 + c) = e - ends[0] /\ (e - (34 + c)) + 4 = e - (30 + c)
  BY <1>2, <1>3
<1>6. 0 \in 0..n
  OBVIOUS
<1>7. IsAmong(d, v, s, e, c, n, ends, keeps, 0, a + 4, RoundUpToMultiple(d.blocks[a].val, 2),
              [start |-> a, size |-> RoundUpToMultiple(d.blocks[a].val, 2) + 4], g)
  BY <1>2, <1>3, <1>4, <1>5, <1>6 DEF IsAmong
<1>8. HeaderIn(d, v, s) /\ InRange(s.side, v)
  BY DEF ReadIs
<1> DEFINE a2 == a + 4
           l2 == RoundUpToMultiple(d.blocks[a].val, 2)
           x2 == [start |-> a, size |-> RoundUpToMultiple(d.blocks[a].val, 2) + 4]
<1>9. IsAmong(d, v, s, e, c, n, ends, keeps, 0, a2, l2, x2, g)
  BY <1>7
<1> HIDE DEF a2, l2, x2
<1>10. ReadIs("resource", d, stage, v, s, a2, l2, x2, g)
  BY <1>8, <1>9 DEF ReadIs
<1>11. HasBlock(d.blocks, a, "length")
  BY <1>2, <1>3
<1> QED BY <1>10, <1>11 DEF a2, l2, x2

\* The profile whose data is at o.
ProfileHere(d, o, raw) == Normalized([d.blocks[o].val EXCEPT !.size = raw])

\* What a reader that has g keeps of the data at o.
KeptHere(d, o, raw, g) ==
  CASE HasBlock(d.blocks, o, "profile") /\ "profile" \notin g.found ->
         [Finding(g, "profile") EXCEPT !.profile = ProfileHere(d, o, raw)]
    [] HasBlock(d.blocks, o, "resolution") /\ "resolution" \notin g.found ->
         [Finding(g, "resolution") EXCEPT !.dpi = d.blocks[o].val]
    [] OTHER -> g

\* Where the length of the resource at a is.
MarkHere(d, a) ==
  a + 6 + (IF NameSize(d.blocks[a + 6].val) > d.blocks[a + 6].val + 1
           THEN NameSize(d.blocks[a + 6].val) ELSE d.blocks[a + 6].val + 1)

\* What is kept is part of what was read: to find a kind, to keep a profile and
\* to keep a resolution are the same in both.
LEMMA GotOfFinding ==
  ASSUME NEW v, NEW s, NEW kept, NEW kind, HasKept(kept)
  PROVE  /\ HasKept(Finding(kept, kind))
         /\ Finding(GotOf(v, s, kept, "none"), kind) = GotOf(v, s, Finding(kept, kind), "none")
<1> DEFINE more == kept.found \cup {kind}
           g == GotOf(v, s, kept, "none")
<1>1. g.found \cup {kind} = more
  BY DEF GotOf
<1>2. Finding(kept, kind) = [kept EXCEPT !.found = more]
  BY DEF Finding
<1>3. Finding(g, kind) = [g EXCEPT !.found = more]
  BY <1>1 DEF Finding
<1> HIDE DEF more
<1>4. [kept EXCEPT !.found = more] = [dpi |-> kept.dpi, profile |-> kept.profile, found |-> more]
  BY DEF HasKept
<1>5. HasKept(Finding(kept, kind))
  BY <1>2, <1>4 DEF HasKept
<1>6. [g EXCEPT !.found = more]
      = GotOf(v, s, [dpi |-> kept.dpi, profile |-> kept.profile, found |-> more], "none")
  BY DEF GotOf
<1>7. Finding(g, kind) = GotOf(v, s, Finding(kept, kind), "none")
  BY <1>2, <1>3, <1>4, <1>6
<1> QED BY <1>5, <1>7 DEF g

\* The profile of what is kept is that of what was read.
LEMMA GotOfProfile ==
  ASSUME NEW v, NEW s, NEW kept, NEW x, HasKept(kept)
  PROVE  [GotOf(v, s, kept, "none") EXCEPT !.profile = x]
         = GotOf(v, s, [kept EXCEPT !.profile = x], "none")
<1>1. [kept EXCEPT !.profile = x] = [dpi |-> kept.dpi, profile |-> x, found |-> kept.found]
  BY DEF HasKept
<1>2. [GotOf(v, s, kept, "none") EXCEPT !.profile = x]
      = GotOf(v, s, [dpi |-> kept.dpi, profile |-> x, found |-> kept.found], "none")
  BY DEF GotOf
<1> QED BY <1>1, <1>2

\* The resolution of what is kept is that of what was read.
LEMMA GotOfResolution ==
  ASSUME NEW v, NEW s, NEW kept, NEW x, HasKept(kept)
  PROVE  [GotOf(v, s, kept, "none") EXCEPT !.dpi = x]
         = GotOf(v, s, [kept EXCEPT !.dpi = x], "none")
<1>1. [kept EXCEPT !.dpi = x] = [dpi |-> x, profile |-> kept.profile, found |-> kept.found]
  BY DEF HasKept
<1>2. [GotOf(v, s, kept, "none") EXCEPT !.dpi = x]
      = GotOf(v, s, [dpi |-> x, profile |-> kept.profile, found |-> kept.found], "none")
  BY DEF GotOf
<1> QED BY <1>1, <1>2

\* A resource between two places is read as it is.
LEMMA ResourceIsRead ==
  ASSUME NEW d, NEW p \in Nat, NEW q, NEW before, NEW after, ResourceIn(d, p, q, before, after),
         NothingKept(d, q), NEW mark, mark = MarkHere(d, p),
         NEW raw, raw = d.blocks[mark].val, NEW v, NEW s
  PROVE  /\ HasBlock(d.blocks, p, "resource") /\ HasBlock(d.blocks, mark, "length")
         /\ d.blocks[p].val = "resolution" => RoundUpToMultiple(raw, 2) = 16
         /\ q = mark + 4 + RoundUpToMultiple(raw, 2) /\ q \in Nat
         /\ q = p + (6 + NameSize(d.blocks[p + 6].val) + 4 + RoundUpToMultiple(raw, 2))
         /\ (6 + NameSize(d.blocks[p + 6].val) + 4 + RoundUpToMultiple(raw, 2)) \in Nat
         /\ KeptHere(d, mark + 4, raw, GotOf(v, s, before, "none")) = GotOf(v, s, after, "none")
<1>1. PICK kind, val : \E name \in 0..253, r \in Nat :
        ResourceSays(d, p, p + 6 + RoundUpToMultiple(name + 1, 2), q, kind, name, r, val,
                     before, after)
  BY DEF ResourceIn
<1>2. PICK name \in 0..253, r \in Nat :
        ResourceSays(d, p, p + 6 + RoundUpToMultiple(name + 1, 2), q, kind, name, r, val,
                     before, after)
  BY <1>1
<1> DEFINE z == RoundUpToMultiple(name + 1, 2)
           m == p + 6 + z
<1>3. ResourceSays(d, p, m, q, kind, name, r, val, before, after)
  BY <1>2
<1>4. NameSize(name) = z /\ name + 1 <= z /\ z \in Nat
  <2>1. NameSize(name) = z /\ name + 1 <= z
    BY SizeOfName
  <2>2. name + 1 \in Nat
    OBVIOUS
  <2> QED BY <2>1, <2>2, RoundedUp
<1> HIDE DEF z
<1>5. /\ Says(d, p, "resource", kind) /\ Says(d, p + 6, "name", name) /\ Says(d, m, "length", r)
      /\ q = m + 4 + RoundUpToMultiple(r, 2)
      /\ \/ kind = "profile" /\ r # 0 /\ Says(d, m + 4, "profile", val)
         \/ kind = "resolution" /\ r = 16 /\ Says(d, m + 4, "resolution", val)
         \/ kind = "other" /\ (r # 0 => NothingKept(d, m + 4))
      /\ HasKept(before) /\ after = KeptOf(before, kind, r, val)
  BY <1>3 DEF ResourceSays
<1>6. d.blocks[p + 6].val = name
  BY <1>5, SaidIsFound
<1>7. m \in Nat /\ name \in Nat
  BY <1>4
<1>8. mark = m
  <2>1. (IF z > name + 1 THEN z ELSE name + 1) = z
    BY <1>4
  <2>2. MarkHere(d, p) = p + 6 + (IF NameSize(name) > name + 1 THEN NameSize(name) ELSE name + 1)
    BY <1>6 DEF MarkHere
  <2> QED BY <1>4, <2>1, <2>2
<1>9. raw = r
  BY <1>5, <1>8, SaidIsFound
<1>10. RoundUpToMultiple(r, 2) \in Nat /\ (r = 0 => RoundUpToMultiple(r, 2) = 0)
  BY RoundedUp
<1>11. /\ HasBlock(d.blocks, p, "resource") /\ HasBlock(d.blocks, m, "length")
       /\ d.blocks[p].val = kind
  BY <1>5, SaidIsFound
<1>12. kind = "resolution" => RoundUpToMultiple(r, 2) = 16
  <2>1. 16 \in Nat /\ 16 % 2 = 0
    OBVIOUS
  <2>2. RoundUpToMultiple(16, 2) = 16
    BY <2>1, RoundedUp
  <2> QED BY <1>5, <2>2
<1> DEFINE b == GotOf(v, s, before, "none")
           g == GotOf(v, s, after, "none")
           o == m + 4
<1>13. KeptHere(d, o, r, b) = g
  <2>1. CASE kind = "profile" /\ Says(d, o, "profile", val)
    <3>1. HasBlock(d.blocks, o, "profile") /\ d.blocks[o].val = val
      BY <2>1, SaidIsFound
    <3>2. ~HasBlock(d.blocks, o, "resolution")
      <4>1. "resolution" # "profile" /\ Says(d, o, "profile", val)
        BY <2>1
      <4> QED BY <4>1, SaidIsFound
    <3> HIDE DEF o
    <3>3. CASE "profile" \notin before.found
      <4>1. after = [Finding(before, "profile") EXCEPT
                       !.profile = Normalized([val EXCEPT !.size = r])]
        BY <1>5, <2>1, <3>3 DEF KeptOf
      <4>2. KeptHere(d, o, r, b) = [Finding(b, "profile") EXCEPT
                                      !.profile = Normalized([val EXCEPT !.size = r])]
        <5>1. ProfileHere(d, o, r) = Normalized([val EXCEPT !.size = r])
          BY <3>1 DEF ProfileHere
        <5>2. KeptHere(d, o, r, b) = [Finding(b, "profile") EXCEPT !.profile = ProfileHere(d, o, r)]
          BY <3>1, <3>2, <3>3 DEF KeptHere, GotOf
        <5> QED BY <5>1, <5>2
      <4>3. HasKept(Finding(before, "profile"))
            /\ Finding(b, "profile") = GotOf(v, s, Finding(before, "profile"), "none")
        BY <1>5, GotOfFinding DEF b
      <4> DEFINE w == Normalized([val EXCEPT !.size = r])
                 f == Finding(before, "profile")
      <4> HIDE DEF w, f
      <4>4. [GotOf(v, s, f, "none") EXCEPT !.profile = w] = GotOf(v, s, [f EXCEPT !.profile = w], "none")
        BY <4>3, GotOfProfile DEF f
      <4>5. after = [f EXCEPT !.profile = w]
        BY <4>1 DEF f, w
      <4>6. KeptHere(d, o, r, b) = [GotOf(v, s, f, "none") EXCEPT !.profile = w]
        BY <4>2, <4>3 DEF f, w
      <4> QED BY <4>4, <4>5, <4>6 DEF g
    <3>4. CASE "profile" \in before.found
      <4>1. after = before
        BY <1>5, <2>1, <3>4 DEF KeptOf
      <4>2. KeptHere(d, o, r, b) = b
        BY <3>2, <3>4 DEF KeptHere, GotOf
      <4> QED BY <4>1, <4>2 DEF b, g
    <3> QED BY <3>3, <3>4
  <2>2. CASE kind = "resolution" /\ Says(d, o, "resolution", val)
    <3>1. HasBlock(d.blocks, o, "resolution") /\ d.blocks[o].val = val
      BY <2>2, SaidIsFound
    <3>2. ~HasBlock(d.blocks, o, "profile")
      <4>1. "resolution" # "profile" /\ Says(d, o, "resolution", val)
        BY <2>2
      <4> QED BY <4>1, SaidIsFound
    <3> HIDE DEF o
    <3>3. CASE "resolution" \notin before.found
      <4>1. after = [Finding(before, "resolution") EXCEPT !.dpi = val]
        BY <1>5, <2>2, <3>3 DEF KeptOf
      <4>2. KeptHere(d, o, r, b) = [Finding(b, "resolution") EXCEPT !.dpi = val]
        BY <3>1, <3>2, <3>3 DEF KeptHere, GotOf
      <4>3. HasKept(Finding(before, "resolution"))
            /\ Finding(b, "resolution") = GotOf(v, s, Finding(before, "resolution"), "none")
        BY <1>5, GotOfFinding DEF b
      <4> DEFINE w == val
                 f == Finding(before, "resolution")
      <4> HIDE DEF w, f
      <4>4. [GotOf(v, s, f, "none") EXCEPT !.dpi = w] = GotOf(v, s, [f EXCEPT !.dpi = w], "none")
        BY <4>3, GotOfResolution DEF f
      <4>5. after = [f EXCEPT !.dpi = w]
        BY <4>1 DEF f, w
      <4>6. KeptHere(d, o, r, b) = [GotOf(v, s, f, "none") EXCEPT !.dpi = w]
        BY <4>2, <4>3 DEF f, w
      <4> QED BY <4>4, <4>5, <4>6 DEF g
    <3>4. CASE "resolution" \in before.found
      <4>1. after = before
        BY <1>5, <2>2, <3>4 DEF KeptOf
      <4>2. KeptHere(d, o, r, b) = b
        BY <3>2, <3>4 DEF KeptHere, GotOf
      <4> QED BY <4>1, <4>2 DEF b, g
    <3> QED BY <3>3, <3>4
  <2>3. CASE kind = "other" /\ (r # 0 => NothingKept(d, o))
    <3>1. NothingKept(d, o)
      <4>1. CASE r # 0
        BY <2>3, <4>1
      <4>2. CASE r = 0
        <5>1. q = o
          BY <1>5, <1>7, <1>10, <4>2
        <5> QED BY <5>1
      <4> QED BY <4>1, <4>2
    <3> HIDE DEF o
    <3>2. after = before
      BY <1>5, <2>3 DEF KeptOf
    <3>3. KeptHere(d, o, r, b) = b
      BY <3>1 DEF KeptHere, NothingKept
    <3> QED BY <3>2, <3>3 DEF b, g
  <2> QED BY <1>5, <2>1, <2>2, <2>3
<1> HIDE DEF b, g
<1>14. q \in Nat /\ q = p + (6 + z + 4 + RoundUpToMultiple(r, 2))
       /\ (6 + z + 4 + RoundUpToMultiple(r, 2)) \in Nat
  BY <1>4, <1>5, <1>10
<1>15. q = p + (6 + NameSize(d.blocks[p + 6].val) + 4 + RoundUpToMultiple(raw, 2))
       /\ (6 + NameSize(d.blocks[p + 6].val) + 4 + RoundUpToMultiple(raw, 2)) \in Nat
  <2>1. NameSize(d.blocks[p + 6].val) = z
    BY <1>4, <1>6
  <2> QED BY <1>9, <1>14, <2>1
<1>16. /\ d.blocks[p].val = "resolution" => RoundUpToMultiple(raw, 2) = 16
       /\ q = mark + 4 + RoundUpToMultiple(raw, 2) /\ q \in Nat
  BY <1>5, <1>8, <1>9, <1>11, <1>12, <1>14
<1>17. KeptHere(d, mark + 4, raw, b) = g
  BY <1>8, <1>9, <1>13
<1> QED BY <1>8, <1>11, <1>15, <1>16, <1>17 DEF b, g

\* Some resource is read, and the reader is at the next.
LEMMA ResourceIsTold ==
  ASSUME NEW d, NEW stage, NEW v, NEW s, NEW a, NEW l, NEW x, NEW g,
         ReadIs("resource", d, stage, v, s, a, l, x, g), IsStream(d), l # 0,
         NEW mark, mark = MarkHere(d, a), NEW raw, raw = d.blocks[mark].val
  PROVE  /\ HasBlock(d.blocks, a, "resource") /\ HasBlock(d.blocks, mark, "length")
         /\ d.blocks[a].val = "resolution" => RoundUpToMultiple(raw, 2) = 16
         /\ mark + 4 + RoundUpToMultiple(raw, 2) <= d.offset
         /\ ReadIs("resource", d, stage, v, s, mark + 4 + RoundUpToMultiple(raw, 2),
                   l - (6 + NameSize(d.blocks[a + 6].val) + 4 + RoundUpToMultiple(raw, 2)), x,
                   KeptHere(d, mark + 4, raw, g))
<1>1. PICK c \in Nat, n \in Nat : \E e, ends, keeps, k :
        IsAmong(d, v, s, e, c, n, ends, keeps, k, a, l, x, g)
  BY DEF ReadIs
<1>2. PICK e, ends, keeps, k : IsAmong(d, v, s, e, c, n, ends, keeps, k, a, l, x, g)
  BY <1>1
<1>3. /\ FrontOf(d, v, s, e, c, n, ends, keeps) /\ k \in 0..n
      /\ a = ends[k] /\ l = e - ends[k] /\ x = [start |-> 30 + c, size |-> e - (30 + c)]
      /\ g = GotOf(v, s, keeps[k], "none")
  BY <1>2 DEF IsAmong
<1>4. e \in Nat /\ ends[n] = e /\ e <= d.offset /\ NothingKept(d, e)
  BY <1>3, FrontSays
<1>5. /\ \A j \in 0..n : ends[j] \in Nat /\ (j # n => ends[j] < e)
      /\ \A j \in 1..n : ResourceIn(d, ends[j - 1], ends[j], keeps[j - 1], keeps[j])
  BY <1>3, FrontEnds
<1>6. k # n
  <2>1. ASSUME k = n PROVE FALSE
    <3>1. l = 0
      BY <1>3, <1>4, <2>1
    <3> QED BY <3>1
  <2> QED BY <2>1
<1> DEFINE k2     == k + 1
           p      == ends[k]
           q      == ends[k2]
           before == keeps[k]
           after  == keeps[k2]
           size   == 6 + NameSize(d.blocks[a + 6].val) + 4 + RoundUpToMultiple(raw, 2)
           g2     == KeptHere(d, mark + 4, raw, g)
           a2     == mark + 4 + RoundUpToMultiple(raw, 2)
           l2     == l - size
<1>7. k2 \in 0..n /\ k2 \in 1..n /\ k2 - 1 = k
  BY <1>3, <1>6
<1>8. ResourceIn(d, p, q, before, after) /\ p \in Nat /\ q \in Nat
  BY <1>3, <1>5, <1>7
<1>9. NothingKept(d, q)
  <2>1. CASE k2 = n
    BY <1>4, <2>1
  <2>2. CASE k2 # n
    <3> DEFINE k3 == k2 + 1
               r  == ends[k3]
    <3>1. k3 \in 1..n /\ k3 - 1 = k2
      BY <1>7, <2>2
    <3>2. ResourceIn(d, q, r, keeps[k2], keeps[k3])
      BY <1>5, <3>1
    <3> HIDE DEF q, r, k3, k2
    <3>3. \E kind : Says(d, q, "resource", kind)
      BY <3>2 DEF ResourceIn, ResourceSays
    <3> QED BY <3>3, SaidIsFound DEF NothingKept
  <2> QED BY <2>1, <2>2
<1> HIDE DEF q, before, after, p
<1>10. a = p /\ g = GotOf(v, s, before, "none")
  BY <1>3 DEF p, before
<1>11. /\ HasBlock(d.blocks, a, "resource") /\ HasBlock(d.blocks, mark, "length")
       /\ d.blocks[a].val = "resolution" => RoundUpToMultiple(raw, 2) = 16
       /\ q = mark + 4 + RoundUpToMultiple(raw, 2) /\ q \in Nat
       /\ q = a + (6 + NameSize(d.blocks[a + 6].val) + 4 + RoundUpToMultiple(raw, 2))
       /\ (6 + NameSize(d.blocks[a + 6].val) + 4 + RoundUpToMultiple(raw, 2)) \in Nat
       /\ KeptHere(d, mark + 4, raw, g) = GotOf(v, s, after, "none")
  BY <1>8, <1>9, <1>10, ResourceIsRead
<1>12. a2 = q /\ size \in Nat /\ q = a + size /\ g2 = GotOf(v, s, after, "none")
  BY <1>11
<1> HIDE DEF size, g2, a2
<1>13. q <= e
  <2>1. k2 = n \/ ends[k2] < e
    BY <1>5, <1>7
  <2> QED BY <1>4, <1>8, <2>1 DEF q
<1>14. l2 = e - q
  BY <1>3, <1>4, <1>8, <1>12 DEF p
<1> HIDE DEF l2, k2
<1>15. IsAmong(d, v, s, e, c, n, ends, keeps, k2, a2, l2, x, g2)
  BY <1>3, <1>7, <1>12, <1>14 DEF IsAmong, q, after
<1>16. ReadIs("resource", d, stage, v, s, a2, l2, x, g2)
  BY <1>15 DEF ReadIs
<1>17. a2 <= d.offset
  BY <1>4, <1>8, <1>12, <1>13 DEF IsStream
<1> QED BY <1>11, <1>16, <1>17 DEF a2, l2, size, g2

\* Where nothing is left, all resources were read.
LEMMA ResourcesAreOver ==
  ASSUME NEW d, NEW stage, NEW v, NEW s, NEW a, NEW l, NEW x, NEW g,
         ReadIs("resource", d, stage, v, s, a, l, x, g), l = 0
  PROVE  ReadIs("section", d, stage, v, s, a, l, x, [g EXCEPT !.found = {}])
<1>1. PICK c \in Nat, n \in Nat : \E e, ends, keeps, k :
        IsAmong(d, v, s, e, c, n, ends, keeps, k, a, l, x, g)
  BY DEF ReadIs
<1>2. PICK e, ends, keeps, k : IsAmong(d, v, s, e, c, n, ends, keeps, k, a, l, x, g)
  BY <1>1
<1>3. /\ FrontOf(d, v, s, e, c, n, ends, keeps) /\ k \in 0..n
      /\ a = ends[k] /\ l = e - ends[k] /\ x = [start |-> 30 + c, size |-> e - (30 + c)]
      /\ g = GotOf(v, s, keeps[k], "none")
  BY <1>2 DEF IsAmong
<1>4. e \in Nat /\ IsKeptOf(keeps[n], s)
  BY <1>3, FrontSays
<1>5. /\ \A j \in 0..n : ends[j] \in Nat /\ (j # n => ends[j] < e)
      /\ \A j \in 1..n : ResourceIn(d, ends[j - 1], ends[j], keeps[j - 1], keeps[j])
  <2>1. FrontOf(d, v, s, e, c, n, ends, keeps)
    BY <1>3
  <2> QED BY <2>1, FrontEnds
<1>6. FrontIn(d, v, s, e)
  <2>1. FrontOf(d, v, s, e, c, n, ends, keeps)
    BY <1>3
  <2> QED BY <2>1 DEF FrontIn
<1>7. k = n /\ a = e
  BY <1>3, <1>4, <1>5
<1>8. x.start + x.size = e
  <2>1. x.start = 30 + c /\ x.size = e - (30 + c)
    BY <1>3
  <2> QED BY <1>4, <2>1
<1>9. [g EXCEPT !.found = {}] = GotOf(v, s, AllKept(s), "none")
  <2>1. g = GotOf(v, s, keeps[n], "none")
    BY <1>3, <1>7
  <2> QED BY <1>4, <2>1 DEF IsKeptOf, AllKept, GotOf
<1>10. HeaderIn(d, v, s) /\ InRange(s.side, v)
  BY DEF ReadIs
<1> QED BY <1>6, <1>7, <1>8, <1>9, <1>10 DEF ReadIs

\* The section is where the resources end, and where the markers add up to.
LEMMA SectionIsThere ==
  ASSUME NEW d, NEW stage, NEW v, NEW s, NEW a, NEW l, NEW x, NEW g,
         ReadIs("section", d, stage, v, s, a, l, x, g)
  PROVE  a = x.start + x.size /\ a = SectionPlace(d.blocks)
<1>1. PICK e : FrontIn(d, v, s, e) /\ x.start + x.size = e /\ a = e
  BY DEF ReadIs
<1> QED BY <1>1, FrontPlace

\* The section is found there, if it was begun.
LEMMA SectionIsTold ==
  ASSUME NEW d, NEW stage, NEW v, NEW s, NEW a, NEW l, NEW x, NEW g,
         ReadIs("section", d, stage, v, s, a, l, x, g), HasStage(d, stage, v, s),
         NEW start, start = x.start + x.size, NEW w, w = Width(g.version)
  PROVE  /\ a = start /\ start = SectionPlace(d.blocks)
         /\ IF HasBlock(d.blocks, start, "length")
            THEN ReadIs("info", d, stage, v, s, start + w, l,
                        [start |-> start, size |-> d.blocks[start].val + w], g)
            ELSE stage = "begun"
<1>1. PICK e : /\ FrontIn(d, v, s, e) /\ x.start + x.size = e /\ a = e
               /\ g = GotOf(v, s, AllKept(s), "none")
  BY DEF ReadIs
<1>2. SectionPlace(d.blocks) = e
  BY <1>1, FrontPlace
<1>3. w = Width(v) /\ start = e
  BY <1>1 DEF GotOf
<1>4. HeaderIn(d, v, s) /\ InRange(s.side, v)
  BY DEF ReadIs
<1>5. CASE HasBlock(d.blocks, e, "length")
  <2>1. AfterSection(d, stage, v, s, e) /\ d.blocks[e].val = MarkedSize(stage, v, s)
    BY <1>1, <1>5, SectionOfStory
  <2> DEFINE a2 == e + w
             x2 == [start |-> e, size |-> d.blocks[e].val + w]
  <2>2. x2 = SpanOf(stage, v, s, e)
    BY <1>3, <2>1 DEF SpanOf
  <2>3. AtInfo(stage, v, s, e, a2, g)
    BY <1>1, <1>3 DEF AtInfo
  <2> HIDE DEF a2, x2
  <2>4. ReadIs("info", d, stage, v, s, a2, l, x2, g)
    BY <1>4, <2>1, <2>2, <2>3 DEF ReadIs
  <2> QED BY <1>1, <1>2, <1>3, <1>5, <2>4 DEF a2, x2
<1>6. CASE ~HasBlock(d.blocks, e, "length")
  <2>1. stage = "begun"
    BY <1>1, <1>6, SectionOfStory
  <2> QED BY <1>1, <1>2, <1>3, <1>6, <2>1
<1> QED BY <1>5, <1>6

\* What the section of a file has, whatever the save came to.
LEMMA SectionHas ==
  ASSUME NEW d, NEW stage, NEW v, NEW s, NEW e, AfterSection(d, stage, v, s, e)
  PROVE  /\ e \in Nat /\ FrontIn(d, v, s, e)
         /\ \E info \in {0, 44} :
              /\ SectionIn(d, v, s, e, MarkedSize(stage, v, s), info)
              /\ stage # "begun" => info = 44
              /\ stage = "begun" /\ ~IsDeep(s)
                   => ~HasBlock(d.blocks, BodyPlace(v, s, e) + info, "mask")
         /\ stage # "begun" => LayersIn(d, v, s, e) /\ MaskIn(d, v, s, e)
         /\ stage = "mask" => ~IsDeep(s)
         /\ stage \in {"begun", "mask", "layers", "complete"}
<1>0. stage \in {"begun", "mask", "layers", "complete"}
  BY DEF AfterSection
<1>1. HalfIn(d, v, s, e) \/ MaskedIn(d, v, s, e) \/ WholeIn(d, v, s, e)
  BY DEF AfterSection
<1>2. FrontIn(d, v, s, e)
  BY <1>1, HalfHasFront
<1>3. e \in Nat
  BY <1>2, FrontPlace
<1>4. CASE stage = "begun"
  <2>1. HalfIn(d, v, s, e) /\ MarkedSize(stage, v, s) = 0
    BY <1>4 DEF AfterSection, MarkedSize
  <2> QED BY <1>2, <1>3, <1>4, <2>1 DEF HalfIn
<1>5. CASE stage = "mask"
  <2>1. MaskedIn(d, v, s, e) /\ MarkedSize(stage, v, s) = 0
    BY <1>5 DEF AfterSection, MarkedSize
  <2> QED BY <1>2, <1>3, <1>5, <2>1 DEF MaskedIn
<1>6. CASE stage \in {"layers", "complete"}
  <2>1. WholeIn(d, v, s, e) /\ MarkedSize(stage, v, s) = SectionSize(v, s)
    BY <1>6 DEF AfterSection, MarkedSize
  <2> QED BY <1>2, <1>3, <1>6, <2>1 DEF WholeIn
<1> QED BY <1>0, <1>4, <1>5, <1>6

\* The layer info is behind the marker of the section.
LEMMA InfoIsTold ==
  ASSUME NEW d, NEW stage, NEW v, NEW s, NEW a, NEW l, NEW x, NEW g,
         ReadIs("info", d, stage, v, s, a, l, x, g), NEW w, w = Width(g.version)
  PROVE  /\ HasBlock(d.blocks, a, "length")
         /\ ReadIs("mask", d, stage, v, s, a + w + d.blocks[a].val, l, x,
                   IF d.blocks[a].val = 0 THEN g
                   ELSE [g EXCEPT !.layers = IF HasBlock(d.blocks, a + w, "layers")
                                             THEN "sound" ELSE "none"])
<1>1. PICK e : /\ AfterSection(d, stage, v, s, e) /\ x = SpanOf(stage, v, s, e)
               /\ AtInfo(stage, v, s, e, a, g)
  BY DEF ReadIs
<1>2. HeaderIn(d, v, s) /\ InRange(s.side, v)
  BY DEF ReadIs
<1>3. a = e + Width(v) /\ g = GotOf(v, s, AllKept(s), "none")
  BY <1>1 DEF AtInfo
<1>4. w = Width(v)
  BY <1>3 DEF GotOf
<1>5. e \in Nat /\ (stage # "begun" => LayersIn(d, v, s, e))
  BY <1>1, SectionHas
<1>6. PICK info \in {0, 44} :
        /\ SectionIn(d, v, s, e, MarkedSize(stage, v, s), info)
        /\ stage # "begun" => info = 44
        /\ stage = "begun" /\ ~IsDeep(s)
             => ~HasBlock(d.blocks, BodyPlace(v, s, e) + info, "mask")
  BY <1>1, SectionHas
<1>7. /\ BodyPlace(v, s, e) \in Nat /\ Width(v) \in Nat
      /\ ~IsDeep(s) => BodyPlace(v, s, e) = e + 2 * Width(v)
  BY <1>5, SectionPlaces
<1> DEFINE a2 == a + w + d.blocks[a].val
           g2 == IF d.blocks[a].val = 0 THEN g
                 ELSE [g EXCEPT !.layers = IF HasBlock(d.blocks, a + w, "layers")
                                           THEN "sound" ELSE "none"]
<1>8. HasBlock(d.blocks, a, "length") /\ AtMask(d, stage, v, s, e, a2, g2)
  <2>1. CASE IsDeep(s)
    <3>1. Says(d, e + Width(v), "length", 0)
      BY <1>6, <2>1 DEF SectionIn
    <3>2. HasBlock(d.blocks, a, "length") /\ d.blocks[a].val = 0
      BY <1>3, <3>1, SaidIsFound
    <3>3. a2 = e + 2 * Width(v)
      BY <1>3, <1>4, <1>5, <1>7, <3>2
    <3>4. g2 = g
      BY <3>2
    <3> QED BY <1>3, <2>1, <3>2, <3>3, <3>4 DEF AtMask
  <2>2. CASE ~IsDeep(s)
    <3>1. Says(d, e + Width(v), "length", info)
      BY <1>6, <2>2 DEF SectionIn
    <3>2. HasBlock(d.blocks, a, "length") /\ d.blocks[a].val = info
      BY <1>3, <3>1, SaidIsFound
    <3>3. a + w = BodyPlace(v, s, e)
      BY <1>3, <1>4, <1>5, <1>7, <2>2
    <3>4. a2 = BodyPlace(v, s, e) + info
      BY <1>3, <1>4, <1>5, <1>7, <2>2, <3>2
    <3>5. CASE stage = "begun"
      <4>1. ~HasBlock(d.blocks, BodyPlace(v, s, e) + info, "mask")
        BY <1>6, <2>2, <3>5
      <4>2. ~HasBlock(d.blocks, a2, "mask")
        BY <3>4, <4>1
      <4> HIDE DEF a2, g2
      <4> QED BY <2>2, <3>2, <3>5, <4>2 DEF AtMask
    <3>6. CASE stage # "begun"
      <4>1. info = 44 /\ Says(d, BodyPlace(v, s, e), "layers", 0)
        BY <1>5, <1>6, <3>6 DEF LayersIn
      <4>2. HasBlock(d.blocks, a + w, "layers")
        BY <3>3, <4>1, SaidIsFound
      <4>3. g2 = [g EXCEPT !.layers = "sound"]
        BY <3>2, <4>1, <4>2
      <4>4. g2 = GotOf(v, s, AllKept(s), "sound")
        BY <1>3, <4>3 DEF GotOf
      <4>5. a2 = BodyPlace(v, s, e) + 44
        BY <3>4, <4>1
      <4> HIDE DEF a2, g2
      <4> QED BY <2>2, <3>2, <3>6, <4>4, <4>5 DEF AtMask
    <3> QED BY <3>5, <3>6
  <2> QED BY <2>1, <2>2
<1> HIDE DEF a2, g2
<1>9. ReadIs("mask", d, stage, v, s, a2, l, x, g2)
  BY <1>1, <1>2, <1>8 DEF ReadIs
<1> QED BY <1>8, <1>9 DEF a2, g2

\* The mask info is behind the layer info, if the layers were written.
LEMMA MaskIsTold ==
  ASSUME NEW d, NEW stage, NEW v, NEW s, NEW a, NEW l, NEW x, NEW g,
         ReadIs("mask", d, stage, v, s, a, l, x, g)
  PROVE  IF HasBlock(d.blocks, a, "mask")
         THEN ReadIs("blocks", d, stage, v, s, a + MaskLength, l, x, g)
         ELSE stage = "begun"
<1>1. PICK e : /\ AfterSection(d, stage, v, s, e) /\ x = SpanOf(stage, v, s, e)
               /\ AtMask(d, stage, v, s, e, a, g)
  BY DEF ReadIs
<1>2. HeaderIn(d, v, s) /\ InRange(s.side, v)
  BY DEF ReadIs
<1>3. e \in Nat /\ (stage # "begun" => MaskIn(d, v, s, e))
  BY <1>1, SectionHas
<1>4. PICK info \in {0, 44} : SectionIn(d, v, s, e, MarkedSize(stage, v, s), info)
  BY <1>1, SectionHas
<1>5. BodyPlace(v, s, e) \in Nat /\ Width(v) \in Nat
  BY <1>3, SectionPlaces
<1> DEFINE a2 == a + MaskLength
<1>6. CASE HasBlock(d.blocks, a, "mask")
  <2>1. AtBlocks(stage, v, s, e, a2, g)
    <3>1. CASE IsDeep(s)
      <4>1. a = e + 2 * Width(v) /\ g = GotOf(v, s, AllKept(s), "none")
        BY <1>1, <3>1 DEF AtMask
      <4>2. a2 = e + 2 * Width(v) + 4
        BY <4>1 DEF MaskLength
      <4> QED BY <3>1, <4>1, <4>2 DEF AtBlocks
    <3>2. CASE ~IsDeep(s)
      <4>1. /\ stage # "begun" /\ a = BodyPlace(v, s, e) + 44
            /\ g = GotOf(v, s, AllKept(s), "sound")
        BY <1>1, <1>6, <3>2 DEF AtMask
      <4>2. a2 = BodyPlace(v, s, e) + 48
        BY <1>5, <4>1 DEF MaskLength
      <4> QED BY <3>2, <4>1, <4>2 DEF AtBlocks
    <3> QED BY <3>1, <3>2
  <2> HIDE DEF a2
  <2>2. ReadIs("blocks", d, stage, v, s, a2, l, x, g)
    BY <1>1, <1>2, <2>1 DEF ReadIs
  <2> QED BY <1>6, <2>2 DEF a2
<1>7. CASE ~HasBlock(d.blocks, a, "mask")
  <2>1. CASE IsDeep(s)
    <3>1. a = e + 2 * Width(v)
      BY <1>1, <2>1 DEF AtMask
    <3>2. Says(d, e + 2 * Width(v), "mask", 0)
      BY <1>4, <2>1 DEF SectionIn
    <3> QED BY <1>7, <3>1, <3>2, SaidIsFound
  <2>2. CASE ~IsDeep(s) /\ stage # "begun"
    <3>1. a = BodyPlace(v, s, e) + 44
      BY <1>1, <2>2 DEF AtMask
    <3>2. Says(d, BodyPlace(v, s, e) + 44, "mask", 0)
      BY <1>3, <2>2 DEF MaskIn
    <3> QED BY <1>7, <3>1, <3>2, SaidIsFound
  <2> QED BY <1>7, <2>1, <2>2
<1> QED BY <1>6, <1>7

\* The tagged block with the layers is found where the section is whole, and
\* the reader comes to the merged image.
LEMMA BlocksAreTold ==
  ASSUME NEW d, NEW stage, NEW v, NEW s, NEW a, NEW l, NEW x, NEW g,
         ReadIs("blocks", d, stage, v, s, a, l, x, g), NEW w, w = Width(g.version),
         NEW mark, mark = a + SignatureAndKey,
         NEW found, found <=> /\ x.start + x.size - a >= 12
                              /\ HasBlock(d.blocks, a, "tagged")
  PROVE  /\ found => ReadIs("build", d, stage, v, s, mark + w + d.blocks[mark].val, l, x,
                            [g EXCEPT !.layers = IF HasBlock(d.blocks, mark + w, "layers")
                                                 THEN "sound" ELSE "none"])
         /\ ~found => ReadIs("build", d, stage, v, s, a, l, x, g)
<1>1. PICK e : /\ AfterSection(d, stage, v, s, e) /\ x = SpanOf(stage, v, s, e)
               /\ AtBlocks(stage, v, s, e, a, g)
  BY DEF ReadIs
<1>2. HeaderIn(d, v, s) /\ InRange(s.side, v)
  BY DEF ReadIs
<1>3. /\ e \in Nat /\ (stage # "begun" => LayersIn(d, v, s, e)) /\ (stage = "mask" => ~IsDeep(s))
      /\ stage \in {"begun", "mask", "layers", "complete"}
  BY <1>1, SectionHas
<1>4. PICK info \in {0, 44} : /\ SectionIn(d, v, s, e, MarkedSize(stage, v, s), info)
                              /\ stage # "begun" => info = 44
  BY <1>1, SectionHas
<1> DEFINE t == Width(v)
           b == BodyPlace(v, s, e)
           i == ImageStart(v, s, e)
           m == MarkedSize(stage, v, s)
<1>5. /\ b \in Nat /\ t \in Nat
      /\ IsDeep(s) => b = e + 3 * t + 12 /\ i = e + t + (2 * t + 56)
      /\ ~IsDeep(s) => b = e + 2 * t /\ i = e + t + (t + 48)
  BY <1>3, SectionPlaces
<1>6. /\ stage \in {"begun", "mask"} => m = 0
      /\ stage \in {"layers", "complete"} /\ IsDeep(s) => m = 2 * t + 56
      /\ stage \in {"layers", "complete"} /\ ~IsDeep(s) => m = t + 48
      /\ x.start = e /\ x.size = m + t
  BY <1>1, <1>3, SectionPlaces DEF MarkedSize, SpanOf
<1>7. w = t
  <2>1. g.version = v
    BY <1>1 DEF AtBlocks, GotOf
  <2> QED BY <2>1
<1> HIDE DEF m
<1>8. CASE IsDeep(s)
  <2>1. a = e + 2 * t + 4 /\ g = GotOf(v, s, AllKept(s), "none")
    BY <1>1, <1>8 DEF AtBlocks
  <2>2. /\ Says(d, e + 2 * t + 4, "tagged", 0)
        /\ Says(d, e + 2 * t + 12, "length", info)
    BY <1>4, <1>8 DEF SectionIn
  <2>3. CASE stage = "begun"
    <3>1. ~(x.start + x.size - a >= 12)
      <4> HIDE DEF t
      <4>1. x.start = e /\ x.size = 0 + t /\ t \in Nat /\ a = e + 2 * t + 4
        BY <1>5, <1>6, <2>1, <2>3 DEF t
      <4> QED BY <1>3, <4>1
    <3>3. ~found
      BY <3>1
    <3>4. AtImage(stage, v, s, e, a, g)
      BY <2>1, <2>3 DEF AtImage
    <3>5. ReadIs("build", d, stage, v, s, a, l, x, g)
      BY <1>1, <1>2, <3>4 DEF ReadIs
    <3> QED BY <3>3, <3>5
  <2>4. CASE stage \in {"layers", "complete"}
    <3>1. found
      <4>1. HasBlock(d.blocks, a, "tagged")
        BY <2>1, <2>2, SaidIsFound
      <4>2. x.start + x.size - a >= 12
        <5> HIDE DEF t
        <5>1. a = e + 2 * t + 4 /\ t \in Nat /\ x.start = e /\ x.size = (2 * t + 56) + t
          BY <1>5, <1>6, <1>8, <2>1, <2>4 DEF t
        <5>2. x.start + x.size - a = t + 52
          BY <1>3, <5>1
        <5> QED BY <5>1, <5>2
      <4> QED BY <4>1, <4>2
    <3>2. mark = e + 2 * t + 12 /\ mark + w = b
      <4> HIDE DEF t
      <4>1. a = e + 2 * t + 4 /\ t \in Nat /\ b = e + 3 * t + 12 /\ w = t
        BY <1>5, <1>7, <1>8, <2>1 DEF t
      <4>2. mark = e + 2 * t + 12
        BY <1>3, <4>1 DEF SignatureAndKey
      <4> QED BY <1>3, <4>1, <4>2
    <3>3. d.blocks[mark].val = 44
      <4>1. info = 44
        BY <1>4, <2>4
      <4> QED BY <2>2, <3>2, <4>1, SaidIsFound
    <3>4. HasBlock(d.blocks, mark + w, "layers")
      <4>1. Says(d, b, "layers", 0)
        BY <1>3, <2>4 DEF LayersIn
      <4> QED BY <3>2, <4>1, SaidIsFound
    <3> DEFINE a2 == mark + w + d.blocks[mark].val
               g2 == [g EXCEPT !.layers = IF HasBlock(d.blocks, mark + w, "layers")
                                          THEN "sound" ELSE "none"]
    <3>5. a2 = i
      <4>1. a2 = b + 44
        BY <3>2, <3>3
      <4> HIDE DEF t, a2
      <4>2. b = e + 3 * t + 12 /\ i = e + t + (2 * t + 56) /\ t \in Nat
        BY <1>5, <1>8 DEF t
      <4> QED BY <1>3, <4>1, <4>2
    <3>6. g2 = GotOf(v, s, AllKept(s), "sound")
      BY <2>1, <3>4 DEF GotOf
    <3> HIDE DEF a2, g2
    <3>7. AtImage(stage, v, s, e, a2, g2)
      BY <2>4, <3>5, <3>6 DEF AtImage
    <3>8. ReadIs("build", d, stage, v, s, a2, l, x, g2)
      BY <1>1, <1>2, <3>7 DEF ReadIs
    <3> QED BY <3>1, <3>8 DEF a2, g2
  <2> QED BY <1>3, <1>8, <2>3, <2>4
<1>9. CASE ~IsDeep(s)
  <2>1. /\ stage # "begun" /\ a = b + 48 /\ g = GotOf(v, s, AllKept(s), "sound")
    BY <1>1, <1>9 DEF AtBlocks
  <2>2. a = e + 2 * t + 48 /\ (a = i) /\ t \in Nat
    <3> HIDE DEF t
    <3>1. b = e + 2 * t /\ i = e + t + (t + 48) /\ t \in Nat
      BY <1>5, <1>9 DEF t
    <3> QED BY <1>3, <2>1, <3>1
  <2>3. ~found
    <3> HIDE DEF t
    <3>1. CASE stage = "mask"
      <4>1. x.start = e /\ x.size = 0 + t
        BY <1>6, <3>1 DEF t
      <4>2. ~(x.start + x.size - a >= 12)
        BY <1>3, <2>2, <4>1
      <4> QED BY <4>2
    <3>2. CASE stage \in {"layers", "complete"}
      <4>1. x.start = e /\ x.size = (t + 48) + t
        BY <1>6, <1>9, <3>2 DEF t
      <4>2. ~(x.start + x.size - a >= 12)
        BY <1>3, <2>2, <4>1
      <4> QED BY <4>2
    <3> QED BY <1>3, <2>1, <3>1, <3>2
  <2>4. AtImage(stage, v, s, e, a, g)
    BY <2>1, <2>2 DEF AtImage
  <2>5. ReadIs("build", d, stage, v, s, a, l, x, g)
    BY <1>1, <1>2, <2>4 DEF ReadIs
  <2> QED BY <2>3, <2>5
<1> QED BY <1>8, <1>9

\* The small reader looks for the merged image where it is.
LEMMA ImageIsAtItsPlace ==
  ASSUME NEW d, NEW v, NEW s, NEW e, WholeIn(d, v, s, e)
  PROVE  /\ ImagePlace(d.blocks) = ImageStart(v, s, e) /\ ImageStart(v, s, e) \in Nat
         /\ HasBlock(d.blocks, SectionPlace(d.blocks), "length")
<1>1. FrontIn(d, v, s, e) /\ Says(d, e, "length", SectionSize(v, s))
  BY DEF WholeIn, SectionIn
<1>2. SectionPlace(d.blocks) = e /\ e \in Nat /\ d.blocks[4].val = v
  BY <1>1, FrontPlace
<1>3. HasBlock(d.blocks, e, "length") /\ d.blocks[e].val = SectionSize(v, s)
  BY <1>1, SaidIsFound
<1>4. /\ SectionSize(v, s) \in Nat /\ Width(v) \in Nat
      /\ ImageStart(v, s, e) = e + Width(v) + SectionSize(v, s)
  BY <1>2, SectionPlaces
<1>5. ImagePlace(d.blocks) = e + SectionSize(v, s) + Width(v)
  BY <1>2, <1>3 DEF ImagePlace
<1> QED BY <1>2, <1>3, <1>4, <1>5

\* What was read is a document with the settings that were saved.
LEMMA DocumentIsTold ==
  ASSUME NEW d, NEW stage, NEW v, NEW s, NEW a, NEW l, NEW x, NEW g,
         ReadIs("build", d, stage, v, s, a, l, x, g), IsKeptAsItIs(s)
  PROVE  /\ g.depth = s.depth /\ (g.layers = "sound" <=> stage \in {"mask", "layers", "complete"})
         /\ stage \in {"layers", "complete"} => a = ImagePlace(d.blocks)
         /\ InRange(s.side, v)
         /\ IsDocument(DocumentOf(g, "sound", 0))
         /\ SettingsOf(DocumentOf(g, "sound", 0)) = [s EXCEPT !.profile = Normalized(@)]
<1>1. PICK e : AfterSection(d, stage, v, s, e) /\ AtImage(stage, v, s, e, a, g)
  BY DEF ReadIs
<1>2. /\ g = GotOf(v, s, AllKept(s), IF stage = "begun" THEN "none" ELSE "sound")
      /\ stage \in {"layers", "complete"} => a = ImageStart(v, s, e)
  BY <1>1 DEF AtImage
<1>3. /\ g.side = s.side /\ g.mode = s.mode /\ g.depth = s.depth /\ g.dpi = s.dpi
      /\ g.profile = Normalized(s.profile)
      /\ g.layers = IF stage = "begun" THEN "none" ELSE "sound"
  BY <1>2 DEF GotOf, AllKept
<1>4. stage \in {"begun", "mask", "layers", "complete"}
  BY <1>1 DEF AfterSection
<1>5. stage \in {"layers", "complete"} => a = ImagePlace(d.blocks)
  BY <1>1, <1>2, ImageIsAtItsPlace DEF AfterSection
<1>6. InRange(s.side, v)
  BY DEF ReadIs
<1>7. s = SettingsOf(s) /\ IsSettings(s) /\ SaysItsSize(s.profile)
  BY DEF IsKeptAsItIs
<1> DEFINE f == DocumentOf(g, "sound", 0)
<1>8. f = [side |-> s.side, mode |-> s.mode, depth |-> s.depth, dpi |-> s.dpi,
           profile |-> Normalized(s.profile), layers |-> "sound", merged |-> 0]
  BY <1>3 DEF DocumentOf
<1>9. IsProfile(Normalized(s.profile)) /\ SaysItsSize(Normalized(s.profile))
  BY <1>7, NormalizedIsProfile DEF IsSettings
<1>10. IsDocument(f)
  <2>1. f = DocumentOf(f, f.layers, f.merged)
    BY <1>8 DEF DocumentOf
  <2>2. IsSettings(f) /\ SaysItsSize(f.profile)
    BY <1>7, <1>8, <1>9 DEF IsSettings
  <2> QED BY <2>1, <2>2 DEF IsDocument
<1>11. SettingsOf(f) = [s EXCEPT !.profile = Normalized(@)]
  <2>1. SettingsOf(f) = [side |-> s.side, mode |-> s.mode, depth |-> s.depth, dpi |-> s.dpi,
                         profile |-> Normalized(s.profile)]
    BY <1>8 DEF SettingsOf
  <2>2. s = [side |-> s.side, mode |-> s.mode, depth |-> s.depth, dpi |-> s.dpi,
             profile |-> s.profile]
    BY <1>7 DEF SettingsOf
  <2> QED BY <2>1, <2>2
<1> QED BY <1>3, <1>4, <1>5, <1>6, <1>10, <1>11

\* The small reader comes to the merged image exactly where all was written.
LEMMA PreviewIsTold ==
  ASSUME NEW d, NEW stage, NEW v, NEW s, HasStage(d, stage, v, s), HasBlock(d.blocks, 6, "header")
  PROVE  FindsImage(d) <=> stage = "complete"
<1>1. /\ stage \in {"begun", "mask", "layers", "complete"}
      /\ stage = "begun" => Unfinished(d, v, s)
      /\ stage = "mask" => \E e : MaskedIn(d, v, s, e)
      /\ stage = "layers" => \E e : WholeIn(d, v, s, e) /\ NoImageIn(d, v, s, e)
      /\ stage = "complete" => \E e : WholeIn(d, v, s, e) /\ ImageIn(d, v, s, e)
  BY HeaderOfStory, StageMeans
<1>2. ASSUME stage = "complete" PROVE FindsImage(d)
  <2>1. PICK e : WholeIn(d, v, s, e) /\ ImageIn(d, v, s, e)
    BY <1>1, <1>2
  <2>2. /\ ImagePlace(d.blocks) = ImageStart(v, s, e) /\ ImageStart(v, s, e) \in Nat
        /\ HasBlock(d.blocks, SectionPlace(d.blocks), "length")
    BY <2>1, ImageIsAtItsPlace
  <2>3. /\ HasBlock(d.blocks, 26, "length")
        /\ HasBlock(d.blocks, 26 + ColorDataSize(d.blocks), "length")
    BY <2>1, HalfHasFront, FrontPlace
  <2>4. /\ HasBlock(d.blocks, ImageStart(v, s, e), "compression")
        /\ HasBlock(d.blocks, ImageStart(v, s, e) + 2, "image")
    BY <2>1, SaidIsFound DEF ImageIn
  <2> QED BY <2>2, <2>3, <2>4 DEF FindsImage, HeaderLength
<1>3. ASSUME FindsImage(d), stage # "complete" PROVE FALSE
  <2>1. /\ HasBlock(d.blocks, 26, "length")
        /\ HasBlock(d.blocks, 26 + ColorDataSize(d.blocks), "length")
        /\ HasBlock(d.blocks, SectionPlace(d.blocks), "length")
        /\ HasBlock(d.blocks, ImagePlace(d.blocks), "compression")
        /\ HasBlock(d.blocks, ImagePlace(d.blocks) + 2, "image")
    BY <1>3 DEF FindsImage, HeaderLength
  <2>2. CASE ~(\E e : FrontIn(d, v, s, e))
    <3>1. stage = "begun" /\ Unfinished(d, v, s)
      BY <1>1, <1>3, <2>2, HalfHasFront
    <3>2. UpToHeader(d, v, s) \/ \E c \in Nat : UpToColor(d, v, s, c)
      BY <2>2, <3>1, HalfHasFront DEF Unfinished, UpToFront
    <3>3. CASE UpToHeader(d, v, s)
      <4>1. IsEnded(d) /\ 26 >= d.offset
        BY <3>3 DEF UpToHeader
      <4> QED BY <2>1, <4>1, NothingAtEnd
    <3>4. CASE \E c \in Nat : UpToColor(d, v, s, c)
      <4>1. PICK c \in Nat : UpToColor(d, v, s, c)
        BY <3>4
      <4>2. IsEnded(d) /\ Says(d, 26, "length", c) /\ d.offset = 30 + c
        BY <4>1 DEF UpToColor
      <4>3. ColorDataSize(d.blocks) = c + 4
        BY <4>2, SaidIsFound DEF ColorDataSize, HeaderLength
      <4> DEFINE o == 26 + ColorDataSize(d.blocks)
      <4>4. o >= d.offset
        BY <4>2, <4>3
      <4>5. HasBlock(d.blocks, o, "length")
        BY <2>1
      <4> HIDE DEF o
      <4> QED BY <4>2, <4>4, <4>5, NothingAtEnd
    <3> QED BY <3>2, <3>3, <3>4
  <2>3. CASE stage \in {"begun", "mask"} /\ \E e : FrontIn(d, v, s, e)
    <3>1. PICK e : FrontIn(d, v, s, e)
      BY <2>3
    <3>2. SectionPlace(d.blocks) = e /\ e \in Nat /\ d.blocks[4].val = v
      BY <3>1, FrontPlace
    <3>3. AfterSection(d, stage, v, s, e) /\ d.blocks[e].val = 0
      <4>1. HasBlock(d.blocks, e, "length")
        BY <2>1, <3>2
      <4>2. MarkedSize(stage, v, s) = 0
        BY <2>3 DEF MarkedSize
      <4> QED BY <3>1, <4>1, <4>2, SectionOfStory
    <3>4. PICK info : SectionIn(d, v, s, e, MarkedSize(stage, v, s), info)
      BY <3>3, SectionHas
    <3>5. \E val : Says(d, e + Width(v), "length", val)
      BY <3>4 DEF SectionIn
    <3>6. ~HasBlock(d.blocks, e + Width(v), "compression")
      <4>1. "compression" # "length"
        OBVIOUS
      <4> QED BY <3>5, <4>1, SaidIsFound
    <3>7. ImagePlace(d.blocks) = e + Width(v)
      <4>1. ImagePlace(d.blocks) = e + 0 + Width(v) /\ Width(v) \in Nat
        BY <3>2, <3>3, Widths DEF ImagePlace
      <4> QED BY <3>2, <4>1
    <3> QED BY <2>1, <3>6, <3>7
  <2>4. CASE stage = "layers"
    <3>1. PICK e : WholeIn(d, v, s, e) /\ NoImageIn(d, v, s, e)
      BY <1>1, <2>4
    <3>2. ImagePlace(d.blocks) = ImageStart(v, s, e)
      BY <3>1, ImageIsAtItsPlace
    <3> QED BY <2>1, <3>1, <3>2 DEF NoImageIn
  <2> QED BY <1>1, <1>3, <2>2, <2>3, <2>4
<1> QED BY <1>2, <1>3

-----------------------------------------------------------------------------
(* The invariant.                                                            *)

\* Every file is what its story says.
FilesHaveStories ==
  /\ disk = [p \in Paths |-> disk[p]]
  /\ story = [p \in Paths |-> story[p]]
  /\ \A p \in Paths :
       /\ story[p] = [stage |-> story[p].stage, of |-> story[p].of,
                      version |-> story[p].version]
       /\ HasStage(disk[p], story[p].stage, story[p].version, story[p].of)

\* A save has written what comes before its next step, of the document it has.
SaveIsUnderWay ==
  spc # "idle" =>
    /\ rpc = "idle" /\ outcome = NoOutcome
    /\ output = [path |-> output.path, mark |-> output.mark] /\ output.path \in Paths
    /\ IsDocument(content)
    /\ story[output.path].of = SettingsOf(content) /\ story[output.path].version = Version
    /\ SaveIs(spc, Out, story[output.path].stage, Version, SettingsOf(content), output.mark)

\* A reader has what comes before its next step in the file.
ReadIsUnderWay ==
  rpc # "idle" =>
    /\ spc = "idle" /\ outcome = NoOutcome
    /\ input.path \in Paths
    /\ rpc # "header" => story[input.path].stage # "none" /\ IsKeptAsItIs(story[input.path].of)
                         /\ IsStream(In)
    /\ ReadIs(rpc, In, story[input.path].stage, story[input.path].version, story[input.path].of,
              at, left, section, got)

\* The client has a document, or none.
ClientHasADocument == layered = NoDocument \/ IsDocument(layered)

\* What the previews answer.
PreviewsAnswer ==
  outcome.call = "preview" =>
    (outcome.ok <=> /\ story[outcome.path].stage = "complete"
                    /\ Fits(outcome.path)
                    /\ story[outcome.path].of.depth = outcome.type)

\* The inductive invariant of the file of a document.
FileInv ==
  /\ FilesHaveStories /\ SaveIsUnderWay /\ ReadIsUnderWay /\ ClientHasADocument
  /\ OpensWhatWasSaved /\ PreviewsAnswer

\* The reader finds what the small one does where the invariant holds.
LEMMA InvariantAgrees ==
  ASSUME FileInv
  PROVE  ReadersAgree
<1>1. /\ FilesHaveStories /\ ReadIsUnderWay /\ PreviewsAnswer
  BY DEF FileInv
<1> DEFINE v == story[input.path].version
           s == story[input.path].of
           stage == story[input.path].stage
           d == In
<1>2. ASSUME rpc # "idle"
      PROVE  /\ HasStage(d, stage, v, s)
             /\ ReadIs(rpc, d, stage, v, s, at, left, section, got)
             /\ rpc # "header" => IsKeptAsItIs(s)
  BY <1>1, <1>2 DEF FilesHaveStories, ReadIsUnderWay, In
<1> HIDE DEF v, s, stage, d
<1>3. rpc = "section" => at = section.start + section.size /\ at = SectionPlace(d.blocks)
  <2> SUFFICES ASSUME rpc = "section"
               PROVE  at = section.start + section.size /\ at = SectionPlace(d.blocks)
    OBVIOUS
  <2>1. HasStage(d, stage, v, s) /\ ReadIs("section", d, stage, v, s, at, left, section, got)
    BY <1>2
  <2> QED BY <2>1, SectionIsThere
<1>4. rpc = "build" /\ stage \in {"layers", "complete"} => at = ImagePlace(d.blocks)
  <2> SUFFICES ASSUME rpc = "build", stage \in {"layers", "complete"}
               PROVE  at = ImagePlace(d.blocks)
    OBVIOUS
  <2>1. IsKeptAsItIs(s) /\ ReadIs("build", d, stage, v, s, at, left, section, got)
    BY <1>2
  <2> QED BY <2>1, DocumentIsTold
<1> QED BY <1>1, <1>3, <1>4 DEF ReadersAgree, PreviewsAnswer, SectionIsWhole, stage, d

\* A call that asks nothing gets no answer that could be wrong.
LEMMA NothingIsAsked ==
  ASSUME outcome' = NoOutcome
  PROVE  OpensWhatWasSaved' /\ PreviewsAnswer'
<1>1. outcome'.call = "none"
  BY DEF NoOutcome
<1> QED BY <1>1 DEF OpensWhatWasSaved, PreviewsAnswer

\* One file changes, and so does its story.
LEMMA FileChanges ==
  ASSUME FilesHaveStories, NEW p \in Paths, NEW f, NEW stage, NEW v, NEW s,
         HasStage(f, stage, v, s), disk' = [disk EXCEPT ![p] = f],
         story' = [story EXCEPT ![p] = [stage |-> stage, of |-> s, version |-> v]]
  PROVE  /\ FilesHaveStories' /\ disk'[p] = f
         /\ story'[p].stage = stage /\ story'[p].of = s /\ story'[p].version = v
<1> DEFINE st == [stage |-> stage, of |-> s, version |-> v]
<1>1. st.stage = stage /\ st.of = s /\ st.version = v
  OBVIOUS
<1>2. /\ disk = [q \in Paths |-> disk[q]] /\ story = [q \in Paths |-> story[q]]
      /\ \A q \in Paths :
           /\ story[q] = [stage |-> story[q].stage, of |-> story[q].of,
                          version |-> story[q].version]
           /\ HasStage(disk[q], story[q].stage, story[q].version, story[q].of)
  BY DEF FilesHaveStories
<1>3. /\ disk'[p] = f /\ story'[p] = st
      /\ \A q \in Paths : q # p => disk'[q] = disk[q] /\ story'[q] = story[q]
  BY <1>2
<1>4. /\ disk' = [q \in Paths |-> disk'[q]] /\ story' = [q \in Paths |-> story'[q]]
  BY <1>2
<1>5. ASSUME NEW q \in Paths
      PROVE  /\ story'[q] = [stage |-> story'[q].stage, of |-> story'[q].of,
                             version |-> story'[q].version]
             /\ HasStage(disk'[q], story'[q].stage, story'[q].version, story'[q].of)
  <2>1. CASE q = p
    <3>1. story'[q] = st /\ disk'[q] = f
      BY <1>3, <2>1
    <3>2. story'[q].stage = stage /\ story'[q].of = s /\ story'[q].version = v
      BY <1>1, <3>1
    <3> QED BY <3>1, <3>2
  <2>2. CASE q # p
    BY <1>2, <1>3, <2>2
  <2> QED BY <2>1, <2>2
<1> QED BY <1>1, <1>3, <1>4, <1>5 DEF FilesHaveStories

\* At the start there are no files.
LEMMA FileInitHolds ==
  ASSUME Init
  PROVE  FileInv
<1>1. outcome = NoOutcome /\ NoOutcome.call = "none" /\ spc = "idle" /\ rpc = "idle"
  BY DEF Init, NoOutcome
<1>2. ASSUME NEW p \in Paths
      PROVE  /\ story[p] = [stage |-> story[p].stage, of |-> story[p].of,
                            version |-> story[p].version]
             /\ HasStage(disk[p], story[p].stage, story[p].version, story[p].of)
  <2>1. disk[p] = NoFile /\ story[p] = NoStory
    BY <1>2 DEF Init
  <2>2. NoStory.stage = "none" /\ NoStory = [stage |-> NoStory.stage, of |-> NoStory.of,
                                             version |-> NoStory.version]
    BY DEF NoStory
  <2>3. HasStage(NoFile, "none", NoStory.version, NoStory.of)
    BY StageMeans
  <2> QED BY <2>1, <2>2, <2>3
<1>3. FilesHaveStories
  <2>1. disk = [p \in Paths |-> disk[p]] /\ story = [p \in Paths |-> story[p]]
    BY DEF Init
  <2> QED BY <1>2, <2>1 DEF FilesHaveStories
<1>4. ClientHasADocument
  BY DEF Init, ClientHasADocument
<1>5. OpensWhatWasSaved /\ PreviewsAnswer
  BY <1>1 DEF OpensWhatWasSaved, PreviewsAnswer
<1> QED BY <1>1, <1>3, <1>4, <1>5 DEF FileInv, SaveIsUnderWay, ReadIsUnderWay

\* A client that only changes what it has.
LEMMA ClientChanges ==
  ASSUME FileInv, Idle, layered' = NoDocument \/ IsDocument(layered)', outcome' = NoOutcome,
         UNCHANGED <<disk, saving, story, reading>>
  PROVE  FileInv'
<1>1. spc' = "idle" /\ rpc' = "idle" /\ disk' = disk /\ story' = story
  BY DEF Idle, saving, reading
<1>2. FilesHaveStories'
  BY <1>1 DEF FileInv, FilesHaveStories
<1> QED BY <1>1, <1>2, NothingIsAsked
        DEF FileInv, SaveIsUnderWay, ReadIsUnderWay, ClientHasADocument

\* A document stays one with another side, resolution or profile.
LEMMA SetIsDocument ==
  ASSUME NEW d, IsDocument(d)
  PROVE  /\ \A side \in Int : IsDocument([d EXCEPT !.side = side])
         /\ \A dpi \in Nat : IsDocument([d EXCEPT !.dpi = dpi])
         /\ \A profile : IsProfile(profile) /\ SaysItsSize(profile)
                           => IsDocument([d EXCEPT !.profile = profile])
<1>1. /\ d = [side |-> d.side, mode |-> d.mode, depth |-> d.depth, dpi |-> d.dpi,
              profile |-> d.profile, layers |-> d.layers, merged |-> d.merged]
      /\ d.side \in Int /\ d.depth \in Nat /\ d.dpi \in Nat /\ IsProfile(d.profile)
      /\ SaysItsSize(d.profile)
  BY DEF IsDocument, DocumentOf, IsSettings
<1>2. ASSUME NEW side \in Int PROVE IsDocument([d EXCEPT !.side = side])
  <2> DEFINE f == [d EXCEPT !.side = side]
  <2>1. /\ f = [side |-> f.side, mode |-> f.mode, depth |-> f.depth, dpi |-> f.dpi,
                profile |-> f.profile, layers |-> f.layers, merged |-> f.merged]
        /\ f.side = side /\ f.depth = d.depth /\ f.dpi = d.dpi /\ f.profile = d.profile
    BY <1>1
  <2> HIDE DEF f
  <2>2. IsDocument(f)
    BY <1>1, <2>1 DEF IsDocument, DocumentOf, IsSettings
  <2> QED BY <2>2 DEF f
<1>3. ASSUME NEW dpi \in Nat PROVE IsDocument([d EXCEPT !.dpi = dpi])
  <2> DEFINE f == [d EXCEPT !.dpi = dpi]
  <2>1. /\ f = [side |-> f.side, mode |-> f.mode, depth |-> f.depth, dpi |-> f.dpi,
                profile |-> f.profile, layers |-> f.layers, merged |-> f.merged]
        /\ f.side = d.side /\ f.depth = d.depth /\ f.dpi = dpi /\ f.profile = d.profile
    BY <1>1
  <2> HIDE DEF f
  <2>2. IsDocument(f)
    BY <1>1, <2>1 DEF IsDocument, DocumentOf, IsSettings
  <2> QED BY <2>2 DEF f
<1>4. ASSUME NEW profile, IsProfile(profile), SaysItsSize(profile)
      PROVE  IsDocument([d EXCEPT !.profile = profile])
  <2> DEFINE f == [d EXCEPT !.profile = profile]
  <2>1. /\ f = [side |-> f.side, mode |-> f.mode, depth |-> f.depth, dpi |-> f.dpi,
                profile |-> f.profile, layers |-> f.layers, merged |-> f.merged]
        /\ f.side = d.side /\ f.depth = d.depth /\ f.dpi = d.dpi /\ f.profile = profile
    BY <1>1
  <2> HIDE DEF f
  <2>2. IsDocument(f)
    BY <1>1, <1>4, <2>1 DEF IsDocument, DocumentOf, IsSettings
  <2> QED BY <2>2 DEF f
<1> QED BY <1>2, <1>3, <1>4

\* What the client does with what it has.
LEMMA ClientPreserves ==
  ASSUME FileInv, \A d \in Created : SaysItsSize(d.profile),
         \A p \in Profiles : SaysItsSize(p),
         \/ \E d \in Created : Create(d)
         \/ Close
         \/ \E side \in Sides : SetSide(side)
         \/ \E dpi \in Resolutions : SetDpi(dpi)
         \/ \E profile \in Profiles : SetProfile(profile)
  PROVE  FileInv'
<1>0. layered # NoDocument => IsDocument(layered)
  BY DEF FileInv, ClientHasADocument
<1>1. CASE \E d \in Created : Create(d)
  <2>1. PICK d \in Created : Create(d)
    BY <1>1
  <2>2. IsDocument(d)
    BY DocumentFileAssumption DEF IsDocument
  <2>3. IsDocument(layered')
    BY <2>1, <2>2 DEF Create
  <2> QED BY <2>1, <2>3, ClientChanges DEF Create
<1>2. CASE Close
  BY <1>2, ClientChanges DEF Close
<1>3. ASSUME NEW changed, Set(changed), IsDocument(changed) PROVE FileInv'
  <2>1. IsDocument(layered')
    BY <1>3 DEF Set
  <2> QED BY <1>3, <2>1, ClientChanges DEF Set
<1>4. CASE \E side \in Sides : SetSide(side)
  <2>1. PICK side \in Sides : SetSide(side)
    BY <1>4
  <2>2. side \in Int
    BY DocumentFileAssumption
  <2>3. Set([layered EXCEPT !.side = side]) /\ layered # NoDocument
    BY <2>1 DEF SetSide, Set
  <2>4. IsDocument([layered EXCEPT !.side = side])
    BY <1>0, <2>2, <2>3, SetIsDocument
  <2> QED BY <1>3, <2>3, <2>4
<1>5. CASE \E dpi \in Resolutions : SetDpi(dpi)
  <2>1. PICK dpi \in Resolutions : SetDpi(dpi)
    BY <1>5
  <2>2. dpi \in Nat
    BY DocumentFileAssumption
  <2>3. Set([layered EXCEPT !.dpi = dpi]) /\ layered # NoDocument
    BY <2>1 DEF SetDpi, Set
  <2>4. IsDocument([layered EXCEPT !.dpi = dpi])
    BY <1>0, <2>2, <2>3, SetIsDocument
  <2> QED BY <1>3, <2>3, <2>4
<1>6. CASE \E profile \in Profiles : SetProfile(profile)
  <2>1. PICK profile \in Profiles : SetProfile(profile)
    BY <1>6
  <2>2. IsProfile(profile) /\ SaysItsSize(profile)
    BY DocumentFileAssumption
  <2>3. Set([layered EXCEPT !.profile = profile]) /\ layered # NoDocument
    BY <2>1 DEF SetProfile, Set
  <2>4. IsDocument([layered EXCEPT !.profile = profile])
    BY <1>0, <2>2, <2>3, SetIsDocument
  <2> QED BY <1>3, <2>3, <2>4
<1> QED BY <1>1, <1>2, <1>4, <1>5, <1>6

\* What a save begins with.
LEMMA BeginSavePreserves ==
  ASSUME FileInv, NEW p \in Paths, BeginSave(p)
  PROVE  FileInv'
<1> DEFINE s == SettingsOf(layered)
           v == Extension[p]
<1>1. /\ spc = "idle" /\ rpc = "idle" /\ rpc' = "idle" /\ layered # NoDocument
      /\ layered' = NoDocument /\ outcome' = NoOutcome
      /\ disk' = [disk EXCEPT ![p] = EmptyDocument]
      /\ story' = [story EXCEPT ![p] = [stage |-> "begun", of |-> s, version |-> v]]
  BY DEF BeginSave, Idle, reading
<1>2. IsDocument(layered) /\ FilesHaveStories
  BY <1>1 DEF FileInv, ClientHasADocument
<1>3. IsKeptAsItIs(s)
  BY <1>2, SettingsAreKept
<1>4. HasStage(EmptyDocument, "begun", v, s)
  BY <1>3, EmptyHasNoHeader, NoHeaderIsBegun
<1> HIDE DEF s, v
<1>5. /\ FilesHaveStories' /\ disk'[p] = EmptyDocument
      /\ story'[p].stage = "begun" /\ story'[p].of = s /\ story'[p].version = v
  BY <1>1, <1>2, <1>4, FileChanges
<1>6. SaveIsUnderWay'
  <2>1. CASE layered.dpi > ResolutionLimit
    <3>1. spc' = "idle"
      BY <1>1, <2>1 DEF BeginSave, saving
    <3> QED BY <3>1 DEF SaveIsUnderWay
  <2>2. CASE ~(layered.dpi > ResolutionLimit)
    <3>1. /\ spc' = "header" /\ content' = layered /\ output' = [path |-> p, mark |-> 0]
      BY <2>2 DEF BeginSave
    <3>2. /\ output'.path = p /\ output'.mark = 0
          /\ output' = [path |-> output'.path, mark |-> output'.mark]
      BY <3>1
    <3>3. Version' = v /\ Out' = EmptyDocument /\ SettingsOf(content') = s
      BY <1>5, <3>1, <3>2 DEF Version, Out, v, s
    <3>4. SaveIs("header", EmptyDocument, "begun", v, s, 0)
      BY DEF SaveIs
    <3> QED BY <1>1, <1>2, <1>5, <3>1, <3>2, <3>3, <3>4 DEF SaveIsUnderWay
  <2> QED BY <2>1, <2>2
<1> QED BY <1>1, <1>5, <1>6, NothingIsAsked DEF FileInv, ReadIsUnderWay, ClientHasADocument

\* What holds while a save is under way.
LEMMA SaveMeans ==
  ASSUME FileInv, spc # "idle"
  PROVE  /\ rpc = "idle" /\ outcome = NoOutcome /\ output.path \in Paths
         /\ output = [path |-> output.path, mark |-> output.mark]
         /\ IsDocument(content) /\ IsKeptAsItIs(SettingsOf(content))
         /\ SettingsOf(content).depth = content.depth /\ content.depth \in Nat
         /\ story[output.path] = [stage |-> story[output.path].stage,
                                  of |-> SettingsOf(content), version |-> Version]
         /\ SaveIs(spc, Out, story[output.path].stage, Version, SettingsOf(content), output.mark)
         /\ HasStage(Out, story[output.path].stage, Version, SettingsOf(content))
         /\ FilesHaveStories /\ ClientHasADocument
         /\ story = [story EXCEPT ![output.path] = story[output.path]]
<1>1. /\ rpc = "idle" /\ outcome = NoOutcome
      /\ output = [path |-> output.path, mark |-> output.mark] /\ output.path \in Paths
      /\ IsDocument(content)
      /\ story[output.path].of = SettingsOf(content) /\ story[output.path].version = Version
      /\ SaveIs(spc, Out, story[output.path].stage, Version, SettingsOf(content), output.mark)
      /\ FilesHaveStories /\ ClientHasADocument
  BY DEF FileInv, SaveIsUnderWay
<1>2. /\ IsKeptAsItIs(SettingsOf(content)) /\ SettingsOf(content).depth = content.depth
      /\ content.depth \in Nat
  <2>1. SettingsOf(content).depth = content.depth /\ SettingsOf(content).depth \in Nat
    BY <1>1, SettingsAreKept
  <2> QED BY <1>1, <2>1, SettingsAreKept
<1>3. HasStage(Out, story[output.path].stage, Version, SettingsOf(content))
  BY <1>1, <1>2, SaveHasItsStory
<1>4. story[output.path] = [stage |-> story[output.path].stage,
                            of |-> SettingsOf(content), version |-> Version]
  BY <1>1 DEF FilesHaveStories
<1>5. story = [story EXCEPT ![output.path] = story[output.path]]
  BY <1>1 DEF FilesHaveStories
<1> QED BY <1>1, <1>2, <1>3, <1>4, <1>5

\* A save that goes on to its next step.
LEMMA SaveGoesOn ==
  ASSUME FileInv, spc # "idle", NEW f, NEW stage, NEW to, Written(f), spc' = to,
         UNCHANGED <<layered, content, reading, outcome>>,
         output' = [path |-> output.path, mark |-> output'.mark],
         story' = [story EXCEPT ![output.path] =
                     [stage |-> stage, of |-> SettingsOf(content), version |-> Version]],
         SaveIs(to, f, stage, Version, SettingsOf(content), output'.mark)
  PROVE  FileInv'
<1> DEFINE s == SettingsOf(content)
           v == Version
           p == output.path
<1>1. /\ p \in Paths /\ FilesHaveStories /\ IsKeptAsItIs(s) /\ rpc = "idle"
      /\ outcome = NoOutcome /\ IsDocument(content) /\ ClientHasADocument
  BY SaveMeans
<1>2. HasStage(f, stage, v, s)
  BY <1>1, SaveHasItsStory
<1>3. /\ disk' = [disk EXCEPT ![p] = f]
      /\ story' = [story EXCEPT ![p] = [stage |-> stage, of |-> s, version |-> v]]
  BY DEF Written
<1>4. output'.path = p /\ rpc' = "idle" /\ outcome' = NoOutcome /\ content' = content
      /\ layered' = layered
  BY <1>1 DEF reading
<1>5. Version' = v /\ SettingsOf(content') = s
  BY <1>4 DEF Version
<1> HIDE DEF s, v, p
<1>6. /\ FilesHaveStories' /\ disk'[p] = f
      /\ story'[p].stage = stage /\ story'[p].of = s /\ story'[p].version = v
  BY <1>1, <1>2, <1>3, FileChanges
<1>7. SaveIs(to, f, stage, v, s, output'.mark)
  BY DEF s, v
<1>8. Out' = f
  BY <1>4, <1>6 DEF Out
<1>9. SaveIsUnderWay'
  BY <1>1, <1>4, <1>5, <1>6, <1>7, <1>8 DEF SaveIsUnderWay
<1> QED BY <1>1, <1>4, <1>6, <1>9, NothingIsAsked DEF FileInv, ReadIsUnderWay, ClientHasADocument

\* A save that ends.
LEMMA SaveEnds ==
  ASSUME FileInv, spc # "idle", NEW f, NEW stage, Written(f), Leave,
         UNCHANGED <<layered, reading, outcome>>,
         story' = [story EXCEPT ![output.path] =
                     [stage |-> stage, of |-> SettingsOf(content), version |-> Version]],
         HasStage(f, stage, Version, SettingsOf(content))
  PROVE  FileInv'
<1>1. /\ output.path \in Paths /\ FilesHaveStories /\ rpc = "idle"
      /\ outcome = NoOutcome /\ ClientHasADocument
  BY SaveMeans
<1>2. disk' = [disk EXCEPT ![output.path] = f]
  BY DEF Written
<1>3. FilesHaveStories'
  BY <1>1, <1>2, FileChanges
<1>4. spc' = "idle" /\ rpc' = "idle" /\ outcome' = NoOutcome /\ layered' = layered
  BY <1>1 DEF Leave, reading
<1> QED BY <1>1, <1>3, <1>4, NothingIsAsked
        DEF FileInv, SaveIsUnderWay, ReadIsUnderWay, ClientHasADocument

\* A save that ends with an error, or with the process.
LEMMA GiveUpPreserves ==
  ASSUME FileInv, spc # "idle", NEW f, GiveUp(f),
         HasStage(f, story[output.path].stage, Version, SettingsOf(content))
  PROVE  FileInv'
<1>1. story' = [story EXCEPT ![output.path] =
                  [stage |-> story[output.path].stage, of |-> SettingsOf(content),
                   version |-> Version]]
  <2>1. story' = story
    BY DEF GiveUp
  <2> QED BY <2>1, SaveMeans
<1> DEFINE stage == story[output.path].stage
<1>2. HasStage(f, stage, Version, SettingsOf(content))
  OBVIOUS
<1>3. story' = [story EXCEPT ![output.path] =
                  [stage |-> stage, of |-> SettingsOf(content), version |-> Version]]
  BY <1>1
<1> HIDE DEF stage
<1> QED BY <1>2, <1>3, SaveEnds DEF GiveUp

\* A step that puts more into the file.
LEMMA SaveStepPreserves ==
  ASSUME FileInv, spc # "idle", NEW f, NEW to, SaveStep(to, f),
         SaveIs(to, f, story[output.path].stage, Version, SettingsOf(content), output.mark)
  PROVE  FileInv'
<1> DEFINE stage == story[output.path].stage
<1>1. story' = [story EXCEPT ![output.path] =
                  [stage |-> stage, of |-> SettingsOf(content), version |-> Version]]
  <2>1. story' = story
    BY DEF SaveStep
  <2> QED BY <2>1, SaveMeans
<1>2. output' = output /\ output' = [path |-> output.path, mark |-> output'.mark]
  BY SaveMeans DEF SaveStep
<1>3. SaveIs(to, f, stage, Version, SettingsOf(content), output'.mark)
  BY <1>2
<1> HIDE DEF stage
<1> QED BY <1>1, <1>2, <1>3, SaveGoesOn DEF SaveStep

\* Each step of a save.
LEMMA SavePreserves ==
  ASSUME FileInv,
         \/ WriteHeader \/ WriteColorModeData \/ WriteResources
         \/ BeginSection \/ WriteLayers \/ WriteMask \/ FinishSection \/ WriteImage
         \/ StopSave
  PROVE  FileInv'
<1> DEFINE s == SettingsOf(content)
           v == Version
           m == output.mark
           stage == story[output.path].stage
<1>1. ASSUME spc # "idle"
      PROVE  /\ IsDocument(content) /\ IsKeptAsItIs(s) /\ s.depth = content.depth
             /\ s.depth \in Nat /\ SaveIs(spc, Out, stage, v, s, m) /\ HasStage(Out, stage, v, s)
             /\ output = [path |-> output.path, mark |-> m]
             /\ output.path \in Paths
             /\ story[output.path] = [stage |-> stage, of |-> s, version |-> v]
             /\ story = [p \in Paths |-> story[p]]
  BY <1>1, SaveMeans DEF FilesHaveStories
<1>2. CASE WriteHeader
  <2>1. spc = "header" /\ spc # "idle"
    BY <1>2 DEF WriteHeader
  <2>2. SaveIs("header", Out, stage, v, s, m) /\ IsKeptAsItIs(s)
    BY <1>1, <2>1
  <2>3. CASE v \in {"psd", "psb"}
    <3>1. SaveStep("color", HeaderBlocks(Out, v, s))
      BY <1>2, <2>3 DEF WriteHeader
    <3> HIDE DEF v, s, m, stage
    <3>2. SaveIs("color", HeaderBlocks(Out, v, s), stage, v, s, m)
      BY <2>2, <2>3, HeaderFollows
    <3> QED BY <2>1, <3>1, <3>2, SaveStepPreserves DEF v, s, m, stage
  <2>4. CASE v \notin {"psd", "psb"}
    <3>1. GiveUp(Put(Out, "signature", 0, 4))
      BY <1>2, <2>4 DEF WriteHeader
    <3> HIDE DEF v, s, m, stage
    <3>2. stage = "begun" /\ Out = EmptyDocument
      BY <2>2 DEF SaveIs
    <3>3. ~HasBlock(Put(Out, "signature", 0, 4).blocks, 6, "header")
      BY <3>2, EmptyHasNoHeader
    <3>4. HasStage(Put(Out, "signature", 0, 4), stage, v, s)
      BY <2>2, <3>2, <3>3, NoHeaderIsBegun
    <3> QED BY <2>1, <3>1, <3>4, GiveUpPreserves DEF v, s, m, stage
  <2> QED BY <2>3, <2>4
<1>3. CASE WriteColorModeData
  <2>1. spc = "color" /\ spc # "idle"
    BY <1>3 DEF WriteColorModeData
  <2> DEFINE f == IF content.depth = 32 /\ content.mode # "indexed"
                  THEN Put(Put(Out, "length", ColorDataLength, 4), "color", 0, ColorDataLength)
                  ELSE Put(Out, "length", 0, 4)
  <2>2. SaveStep("resources", f)
    BY <1>3 DEF WriteColorModeData
  <2>3. SaveIs("color", Out, stage, v, s, m)
    BY <1>1, <2>1
  <2> HIDE DEF v, s, m, stage
  <2>4. SaveIs("resources", f, stage, v, s, m)
    BY <2>3, ColorFollows
  <2> HIDE DEF f
  <2> QED BY <2>1, <2>2, <2>4, SaveStepPreserves DEF v, s, m, stage
<1>4. CASE WriteResources
  <2>1. spc = "resources" /\ spc # "idle"
    BY <1>4 DEF WriteResources
  <2>2. SaveStep("section", PutResources(Out, content))
    BY <1>4 DEF WriteResources
  <2>3. SaveIs("resources", Out, stage, v, s, m) /\ IsDocument(content) /\ s = SettingsOf(content)
    BY <1>1, <2>1
  <2> HIDE DEF v, s, m, stage
  <2>4. SaveIs("section", PutResources(Out, content), stage, v, s, m)
    BY <2>3, ResourcesFollow
  <2> QED BY <2>1, <2>2, <2>4, SaveStepPreserves DEF v, s, m, stage
<1>5. CASE BeginSection
  <2>1. spc = "section" /\ spc # "idle"
    BY <1>5 DEF BeginSection
  <2>2. /\ SaveIs("section", Out, stage, v, s, m) /\ s.depth \in Nat /\ s.depth = content.depth
        /\ output = [path |-> output.path, mark |-> m]
        /\ story[output.path] = [stage |-> stage, of |-> s, version |-> v]
        /\ story = [p \in Paths |-> story[p]]
    BY <1>1, <2>1
  <2> DEFINE f == UpToLayers(Out, Width(v), s.depth)
             o == Out.offset
  <2>3. /\ spc' = "layers" /\ Written(f) /\ output' = [output EXCEPT !.mark = o]
        /\ UNCHANGED <<layered, content, story, reading, outcome>>
    BY <1>5, <2>2 DEF BeginSection
  <2>4. output' = [path |-> output.path, mark |-> o]
    BY <2>2, <2>3
  <2>5. output'.mark = o /\ output' = [path |-> output.path, mark |-> output'.mark]
    BY <2>4
  <2>6. story' = [story EXCEPT ![output.path] = [stage |-> stage, of |-> s, version |-> v]]
    BY <2>2, <2>3
  <2> HIDE DEF v, s, m, stage
  <2>7. SaveIs("layers", f, stage, v, s, o)
    BY <2>2, SectionFollows
  <2>8. SaveIs("layers", f, stage, v, s, output'.mark)
    BY <2>5, <2>7
  <2> HIDE DEF f, o
  <2> QED BY <2>1, <2>3, <2>5, <2>6, <2>8, SaveGoesOn DEF v, s
<1>6. CASE WriteLayers
  <2>1. spc = "layers" /\ spc # "idle"
    BY <1>6 DEF WriteLayers
  <2>2. /\ SaveIs("layers", Out, stage, v, s, m) /\ s.depth \in Nat /\ s.depth = content.depth
        /\ IsKeptAsItIs(s)
    BY <1>1, <2>1
  <2>3. CASE content.layers = "sound"
    <3> DEFINE to == IF s.depth < 16 THEN "mask" ELSE "finish"
               f  == PutLayers(Out, Width(v))
    <3>1. SaveStep(to, f)
      BY <1>6, <2>2, <2>3 DEF WriteLayers
    <3> HIDE DEF v, s, m, stage
    <3>2. SaveIs(to, f, stage, v, s, m)
      BY <2>2, LayersFollow
    <3> HIDE DEF to, f
    <3> QED BY <2>1, <3>1, <3>2, SaveStepPreserves DEF v, s, m, stage
  <2>4. CASE content.layers # "sound"
    <3>1. GiveUp(Put(Out, "records", 0, LayersLength - 1))
      BY <1>6, <2>4 DEF WriteLayers
    <3> HIDE DEF v, s, m, stage
    <3>2. HasStage(Put(Out, "records", 0, LayersLength - 1), stage, v, s)
      BY <2>2, RecordsFollow
    <3> DEFINE f == Put(Out, "records", 0, LayersLength - 1)
    <3>3. GiveUp(f) /\ HasStage(f, stage, v, s)
      BY <3>1, <3>2
    <3> HIDE DEF f
    <3> QED BY <2>1, <3>3, GiveUpPreserves DEF v, s, m, stage
  <2> QED BY <2>3, <2>4
<1>7. CASE WriteMask
  <2>1. spc = "mask" /\ spc # "idle"
    BY <1>7 DEF WriteMask
  <2>2. /\ SaveIs("mask", Out, stage, v, s, m) /\ output = [path |-> output.path, mark |-> m]
        /\ story[output.path] = [stage |-> stage, of |-> s, version |-> v]
        /\ story = [p \in Paths |-> story[p]] /\ output.path \in Paths
    BY <1>1, <2>1
  <2> DEFINE f == Put(Out, "mask", 0, MaskLength)
  <2>3. /\ spc' = "finish" /\ Written(f) /\ story' = [story EXCEPT ![output.path].stage = "mask"]
        /\ UNCHANGED <<layered, content, output, reading, outcome>>
    BY <1>7 DEF WriteMask
  <2>4. output' = [path |-> output.path, mark |-> output'.mark] /\ output'.mark = m
    BY <2>2, <2>3
  <2>5. story' = [story EXCEPT ![output.path] = [stage |-> "mask", of |-> s, version |-> v]]
    <3>1. [story[output.path] EXCEPT !.stage = "mask"]
            = [stage |-> "mask", of |-> s, version |-> v]
      BY <2>2
    <3>2. story' = [story EXCEPT ![output.path] = [story[output.path] EXCEPT !.stage = "mask"]]
      BY <2>3
    <3> QED BY <3>1, <3>2
  <2> HIDE DEF v, s, m, stage
  <2>6. SaveIs("finish", f, "mask", v, s, m)
    BY <2>2, MaskFollows
  <2>7. SaveIs("finish", f, "mask", v, s, output'.mark)
    BY <2>4, <2>6
  <2> HIDE DEF f
  <2> QED BY <2>1, <2>3, <2>4, <2>5, <2>7, SaveGoesOn DEF v, s
<1>8. CASE FinishSection
  <2>1. spc = "finish" /\ spc # "idle"
    BY <1>8 DEF FinishSection
  <2>2. /\ SaveIs("finish", Out, stage, v, s, m) /\ output = [path |-> output.path, mark |-> m]
        /\ story[output.path] = [stage |-> stage, of |-> s, version |-> v]
        /\ story = [p \in Paths |-> story[p]] /\ output.path \in Paths
    BY <1>1, <2>1
  <2> DEFINE f == PatchLength(Out, m, Width(v), 4)
  <2>3. /\ spc' = "image" /\ Written(f) /\ story' = [story EXCEPT ![output.path].stage = "layers"]
        /\ UNCHANGED <<layered, content, output, reading, outcome>>
    BY <1>8 DEF FinishSection
  <2>4. output' = [path |-> output.path, mark |-> output'.mark] /\ output'.mark = m
    BY <2>2, <2>3
  <2>5. story' = [story EXCEPT ![output.path] = [stage |-> "layers", of |-> s, version |-> v]]
    <3>1. [story[output.path] EXCEPT !.stage = "layers"]
            = [stage |-> "layers", of |-> s, version |-> v]
      BY <2>2
    <3>2. story' = [story EXCEPT ![output.path] = [story[output.path] EXCEPT !.stage = "layers"]]
      BY <2>3
    <3> QED BY <3>1, <3>2
  <2> HIDE DEF v, s, m, stage
  <2>6. SaveIs("image", f, "layers", v, s, m)
    BY <2>2, LengthFollows
  <2>7. SaveIs("image", f, "layers", v, s, output'.mark)
    BY <2>4, <2>6
  <2> HIDE DEF f
  <2> QED BY <2>1, <2>3, <2>4, <2>5, <2>7, SaveGoesOn DEF v, s
<1>9. CASE WriteImage
  <2>1. spc = "image" /\ spc # "idle"
    BY <1>9 DEF WriteImage
  <2>2. /\ SaveIs("image", Out, stage, v, s, m) /\ IsKeptAsItIs(s)
        /\ story[output.path] = [stage |-> stage, of |-> s, version |-> v]
        /\ story = [p \in Paths |-> story[p]] /\ output.path \in Paths
    BY <1>1, <2>1
  <2> DEFINE f == Put(Out, "compression", 1, 2)
             g == Put(f, "image", 0, LayersLength)
  <2>3. CASE content.merged \in {0, content.side}
    <3>1. /\ Leave /\ Written(g) /\ story' = [story EXCEPT ![output.path].stage = "complete"]
          /\ UNCHANGED <<layered, reading, outcome>>
      BY <1>9, <2>3 DEF WriteImage
    <3>2. story' = [story EXCEPT ![output.path] = [stage |-> "complete", of |-> s, version |-> v]]
      <4>1. [story[output.path] EXCEPT !.stage = "complete"]
              = [stage |-> "complete", of |-> s, version |-> v]
        BY <2>2
      <4>2. story' = [story EXCEPT ![output.path] =
                        [story[output.path] EXCEPT !.stage = "complete"]]
        BY <3>1
      <4> QED BY <4>1, <4>2
    <3> HIDE DEF v, s, m, stage
    <3>3. HasStage(g, "complete", v, s)
      BY <2>2, ImageFollows
    <3> HIDE DEF f, g
    <3> QED BY <2>1, <3>1, <3>2, <3>3, SaveEnds DEF v, s
  <2>4. CASE content.merged \notin {0, content.side}
    <3>1. GiveUp(f)
      BY <1>9, <2>4 DEF WriteImage
    <3> HIDE DEF v, s, m, stage
    <3>2. HasStage(f, stage, v, s)
      BY <2>2, ImageFollows
    <3> HIDE DEF f
    <3> QED BY <2>1, <3>1, <3>2, GiveUpPreserves DEF v, s, stage
  <2> QED BY <2>3, <2>4
<1>10. CASE StopSave
  <2>1. spc # "idle" /\ GiveUp(Out)
    BY <1>10 DEF StopSave
  <2>2. HasStage(Out, stage, v, s)
    BY <1>1, <2>1
  <2> QED BY <2>1, <2>2, GiveUpPreserves
<1> QED BY <1>2, <1>3, <1>4, <1>5, <1>6, <1>7, <1>8, <1>9, <1>10

\* What holds while a file is read.
LEMMA ReadMeans ==
  ASSUME FileInv, rpc # "idle",
         NEW stage, stage = story[input.path].stage, NEW v, v = story[input.path].version,
         NEW s, s = story[input.path].of
  PROVE  /\ spc = "idle" /\ outcome = NoOutcome /\ input.path \in Paths
         /\ HasStage(In, stage, v, s) /\ ReadIs(rpc, In, stage, v, s, at, left, section, got)
         /\ rpc # "header" => stage # "none" /\ IsKeptAsItIs(s) /\ IsStream(In)
         /\ FilesHaveStories /\ ClientHasADocument
BY DEF FileInv, ReadIsUnderWay, FilesHaveStories, In

\* A read that goes on to its next step.
LEMMA ReadGoesOn ==
  ASSUME FileInv, rpc # "idle", NEW to, to # "header", to # "idle", Goto(to),
         NEW stage, stage = story[input.path].stage, NEW v, v = story[input.path].version,
         NEW s, s = story[input.path].of,
         stage # "none", IsKeptAsItIs(s), IsStream(In),
         ReadIs(to, In, stage, v, s, at', left', section', got')
  PROVE  FileInv'
<1>1. /\ spc = "idle" /\ outcome = NoOutcome /\ input.path \in Paths
      /\ FilesHaveStories /\ ClientHasADocument
  BY ReadMeans
<1>2. /\ rpc' = to /\ layered' = layered /\ disk' = disk /\ story' = story /\ input' = input
      /\ outcome' = NoOutcome /\ spc' = "idle"
  BY <1>1 DEF Goto, saving
<1>3. In' = In
  BY <1>2 DEF In
<1>4. FilesHaveStories' /\ ClientHasADocument'
  BY <1>1, <1>2 DEF FilesHaveStories, ClientHasADocument
<1>5. ReadIsUnderWay'
  BY <1>1, <1>2, <1>3 DEF ReadIsUnderWay
<1> QED BY <1>2, <1>4, <1>5, NothingIsAsked DEF FileInv, SaveIsUnderWay

\* A read that ends with the answer the story asks for.
LEMMA ReadEnds ==
  ASSUME FileInv, rpc # "idle", NEW ok, Finish(ok),
         NEW stage, stage = story[input.path].stage, NEW v, v = story[input.path].version,
         NEW s, s = story[input.path].of,
         ok <=> stage \in {"mask", "layers", "complete"} /\ InRange(s.side, v)
                /\ s.depth = input.type,
         ok => SettingsOf(layered') = [s EXCEPT !.profile = Normalized(@)],
         layered' = layered \/ IsDocument(layered')
  PROVE  FileInv'
<1>1. spc = "idle" /\ FilesHaveStories /\ ClientHasADocument
  BY ReadMeans
<1>2. /\ rpc' = "idle" /\ disk' = disk /\ story' = story /\ spc' = "idle"
      /\ outcome' = Answer("open", input, ok)
  BY <1>1 DEF Finish, saving
<1>3. /\ outcome'.call = "open" /\ outcome'.ok = ok /\ outcome'.path = input.path
      /\ outcome'.type = input.type
  BY <1>2 DEF Answer
<1>4. FilesHaveStories' /\ ClientHasADocument'
  BY <1>1, <1>2 DEF FilesHaveStories, ClientHasADocument
<1>5. OpensWhatWasSaved'
  BY <1>2, <1>3 DEF OpensWhatWasSaved, HasLayers, SectionIsWhole, Fits
<1>6. PreviewsAnswer'
  BY <1>3 DEF PreviewsAnswer
<1> QED BY <1>2, <1>4, <1>5, <1>6 DEF FileInv, SaveIsUnderWay, ReadIsUnderWay

\* A read that ends without a document.
LEMMA RefusePreserves ==
  ASSUME FileInv, rpc # "idle", Refuse,
         NEW stage, stage = story[input.path].stage, NEW v, v = story[input.path].version,
         NEW s, s = story[input.path].of,
         ~(stage \in {"mask", "layers", "complete"} /\ InRange(s.side, v)
           /\ s.depth = input.type)
  PROVE  FileInv'
<1>1. Finish(FALSE) /\ layered' = layered
  BY DEF Refuse
<1> QED BY <1>1, ReadEnds

\* Each step of a read.
LEMMA ReadPreserves ==
  ASSUME FileInv, Read
  PROVE  FileInv'
<1> DEFINE s     == story[input.path].of
           v     == story[input.path].version
           stage == story[input.path].stage
           d     == In
<1>0. s = story[input.path].of /\ v = story[input.path].version /\ stage = story[input.path].stage
      /\ d = In
  OBVIOUS
<1> HIDE DEF s, v, stage, d
<1>1. ASSUME rpc # "idle"
      PROVE  /\ HasStage(d, stage, v, s) /\ ReadIs(rpc, d, stage, v, s, at, left, section, got)
             /\ rpc # "header" => stage # "none" /\ IsKeptAsItIs(s) /\ IsStream(d)
  BY <1>0, <1>1, ReadMeans
<1>2. ASSUME NEW to, to # "header", to # "idle", rpc # "idle", Goto(to),
             stage # "none", IsKeptAsItIs(s), IsStream(d),
             ReadIs(to, d, stage, v, s, at', left', section', got')
      PROVE  FileInv'
  BY <1>0, <1>2, ReadGoesOn
<1>3. ASSUME rpc # "idle", Refuse,
             ~(stage \in {"mask", "layers", "complete"} /\ InRange(s.side, v)
               /\ s.depth = input.type)
      PROVE  FileInv'
  BY <1>0, <1>3, RefusePreserves
<1>4. CASE ReadHeader
  <2>1. rpc = "header" /\ rpc # "idle" /\ HasStage(d, stage, v, s)
    BY <1>1, <1>4 DEF ReadHeader
  <2>2. CASE HeaderIsRead(d)
    <3>1. /\ d.blocks[4].val = v /\ d.blocks[6].val = s
          /\ stage # "none" /\ IsKeptAsItIs(s) /\ InRange(s.side, v)
          /\ ReadIs("color", d, stage, v, s, 26, left, section, GotOf(v, s, NoneKept, "none"))
      BY <2>1, <2>2, HeaderIsTold
    <3>2. HasBlock(d.blocks, 6, "header")
      BY <2>2 DEF HeaderIsRead
    <3>3. IsStream(d)
      BY <2>1, <3>2, HeaderOfStory
    <3>4. /\ Goto("color") /\ at' = 26 /\ left' = left /\ section' = section
          /\ got' = [side |-> d.blocks[6].val.side, mode |-> d.blocks[6].val.mode,
                     depth |-> d.blocks[6].val.depth, dpi |-> 72, profile |-> NoProfile,
                     found |-> {}, version |-> d.blocks[4].val, layers |-> "none"]
      BY <1>0, <1>4, <2>2 DEF ReadHeader, ValueAt, HeaderLength
    <3>5. got' = GotOf(v, s, NoneKept, "none")
      BY <3>1, <3>4 DEF GotOf, NoneKept
    <3>6. ReadIs("color", d, stage, v, s, at', left', section', got')
      BY <3>1, <3>4, <3>5
    <3> QED BY <1>2, <2>1, <3>1, <3>3, <3>4, <3>6
  <2>3. CASE ~HeaderIsRead(d)
    <3>1. stage \in {"none", "begun"} \/ ~InRange(s.side, v)
      BY <2>1, <2>3, HeaderIsTold
    <3>2. Refuse
      BY <1>0, <1>4, <2>3 DEF ReadHeader
    <3> QED BY <1>3, <2>1, <3>1, <3>2
  <2> QED BY <2>2, <2>3
<1>5. CASE ReadColorModeData
  <2>1. rpc = "color" /\ rpc # "idle" /\ rpc # "header"
    BY <1>5 DEF ReadColorModeData
  <2>2. /\ HasStage(d, stage, v, s) /\ ReadIs("color", d, stage, v, s, at, left, section, got)
        /\ stage # "none" /\ IsKeptAsItIs(s) /\ IsStream(d)
    BY <1>1, <2>1
  <2> DEFINE readable == HasBlock(d.blocks, at, "length")
                         /\ at + 4 + d.blocks[at].val + 4 <= d.offset
             a2       == at + d.blocks[at].val + 4
  <2>3. IF readable THEN ReadIs("resources", d, stage, v, s, a2, left, section, got)
        ELSE stage = "begun"
    BY <2>2, ColorIsTold
  <2>4. IF readable
        THEN Goto("resources") /\ at' = a2 /\ left' = left /\ section' = section /\ got' = got
        ELSE Refuse
    BY <1>0, <1>5 DEF ReadColorModeData, ValueAt, IsNext
  <2> HIDE DEF readable, a2
  <2>5. CASE readable
    <3>1. ReadIs("resources", d, stage, v, s, at', left', section', got') /\ Goto("resources")
      BY <2>3, <2>4, <2>5
    <3> QED BY <1>2, <2>1, <2>2, <3>1
  <2>6. CASE ~readable
    BY <1>3, <2>1, <2>3, <2>4, <2>6
  <2> QED BY <2>5, <2>6
<1>6. CASE BeginResources
  <2>1. rpc = "resources" /\ rpc # "idle" /\ rpc # "header"
    BY <1>6 DEF BeginResources
  <2>2. /\ ReadIs("resources", d, stage, v, s, at, left, section, got)
        /\ stage # "none" /\ IsKeptAsItIs(s) /\ IsStream(d)
    BY <1>1, <2>1
  <2> DEFINE a2 == at + 4
             l2 == RoundUpToMultiple(d.blocks[at].val, 2)
             x2 == [start |-> at, size |-> RoundUpToMultiple(d.blocks[at].val, 2) + 4]
  <2>3. /\ HasBlock(d.blocks, at, "length")
        /\ ReadIs("resource", d, stage, v, s, a2, l2, x2, got)
    BY <2>2, ResourcesAreTold
  <2>4. Goto("resource") /\ at' = a2 /\ left' = l2 /\ section' = x2 /\ got' = got
    BY <1>0, <1>6, <2>3 DEF BeginResources, ValueAt, IsNext
  <2> HIDE DEF a2, l2, x2
  <2>5. ReadIs("resource", d, stage, v, s, at', left', section', got')
    BY <2>3, <2>4
  <2> QED BY <1>2, <2>1, <2>2, <2>4, <2>5
<1>7. CASE EndResources
  <2>1. rpc = "resource" /\ rpc # "idle" /\ rpc # "header" /\ left = 0 /\ Goto("section")
        /\ at' = at /\ left' = left /\ section' = section /\ got' = [got EXCEPT !.found = {}]
    BY <1>7 DEF EndResources
  <2>2. /\ ReadIs("resource", d, stage, v, s, at, left, section, got)
        /\ stage # "none" /\ IsKeptAsItIs(s) /\ IsStream(d)
    BY <1>1, <2>1
  <2>3. ReadIs("section", d, stage, v, s, at, left, section, [got EXCEPT !.found = {}])
    BY <2>1, <2>2, ResourcesAreOver
  <2>4. ReadIs("section", d, stage, v, s, at', left', section', got')
    BY <2>1, <2>3
  <2> QED BY <1>2, <2>1, <2>2, <2>4
<1>8. CASE ReadMaskInfo
  <2>1. rpc = "mask" /\ rpc # "idle" /\ rpc # "header"
    BY <1>8 DEF ReadMaskInfo
  <2>2. /\ ReadIs("mask", d, stage, v, s, at, left, section, got)
        /\ stage # "none" /\ IsKeptAsItIs(s) /\ IsStream(d)
    BY <1>1, <2>1
  <2> DEFINE a2 == at + MaskLength
  <2>3. IF HasBlock(d.blocks, at, "mask") THEN ReadIs("blocks", d, stage, v, s, a2, left, section, got)
        ELSE stage = "begun"
    BY <2>2, MaskIsTold
  <2>4. IF HasBlock(d.blocks, at, "mask")
        THEN Goto("blocks") /\ at' = a2 /\ left' = left /\ section' = section /\ got' = got
        ELSE Refuse
    BY <1>0, <1>8 DEF ReadMaskInfo, IsNext
  <2> HIDE DEF a2
  <2>5. CASE HasBlock(d.blocks, at, "mask")
    <3>1. ReadIs("blocks", d, stage, v, s, at', left', section', got') /\ Goto("blocks")
      BY <2>3, <2>4, <2>5
    <3> QED BY <1>2, <2>1, <2>2, <3>1
  <2>6. CASE ~HasBlock(d.blocks, at, "mask")
    BY <1>3, <2>1, <2>3, <2>4, <2>6
  <2> QED BY <2>5, <2>6
<1>9. CASE Build
  <2>1. rpc = "build" /\ rpc # "idle" /\ rpc # "header"
    BY <1>9 DEF Build
  <2>2. ReadIs("build", d, stage, v, s, at, left, section, got) /\ IsKeptAsItIs(s)
    BY <1>1, <2>1
  <2>3. /\ got.depth = s.depth
        /\ (got.layers = "sound" <=> stage \in {"mask", "layers", "complete"})
        /\ InRange(s.side, v) /\ IsDocument(DocumentOf(got, "sound", 0))
        /\ SettingsOf(DocumentOf(got, "sound", 0)) = [s EXCEPT !.profile = Normalized(@)]
    BY <2>2, DocumentIsTold
  <2>4. CASE got.depth = input.type /\ got.layers = "sound"
    <3>1. layered' = DocumentOf(got, "sound", 0) /\ Finish(TRUE)
      BY <1>9, <2>4 DEF Build
    <3>2. /\ IsDocument(layered') /\ SettingsOf(layered') = [s EXCEPT !.profile = Normalized(@)]
          /\ stage \in {"mask", "layers", "complete"} /\ s.depth = input.type
      BY <2>3, <2>4, <3>1
    <3> DEFINE ok == TRUE
    <3>3. /\ ok <=> stage \in {"mask", "layers", "complete"} /\ InRange(s.side, v)
                    /\ s.depth = input.type
          /\ ok => SettingsOf(layered') = [s EXCEPT !.profile = Normalized(@)]
          /\ layered' = layered \/ IsDocument(layered')
          /\ Finish(ok)
      BY <2>3, <3>1, <3>2
    <3> HIDE DEF ok
    <3> QED BY <1>0, <2>1, <3>3, ReadEnds
  <2>5. CASE ~(got.depth = input.type /\ got.layers = "sound")
    <3>1. Refuse
      BY <1>9, <2>5 DEF Build
    <3> QED BY <1>3, <2>1, <2>3, <2>5, <3>1
  <2> QED BY <2>4, <2>5
<1>10. CASE ReadResource
  <2>1. rpc = "resource" /\ rpc # "idle" /\ rpc # "header" /\ left # 0
    BY <1>10 DEF ReadResource
  <2>2. /\ ReadIs("resource", d, stage, v, s, at, left, section, got)
        /\ stage # "none" /\ IsKeptAsItIs(s) /\ IsStream(d)
    BY <1>1, <2>1
  <2> DEFINE mark == MarkHere(d, at)
             raw  == d.blocks[mark].val
             a2   == mark + 4 + RoundUpToMultiple(raw, 2)
             l2   == left - (6 + NameSize(d.blocks[at + 6].val) + 4 + RoundUpToMultiple(raw, 2))
             g2   == KeptHere(d, mark + 4, raw, got)
  <2>3. /\ HasBlock(d.blocks, at, "resource") /\ HasBlock(d.blocks, mark, "length")
        /\ d.blocks[at].val = "resolution" => RoundUpToMultiple(raw, 2) = 16
        /\ mark + 4 + RoundUpToMultiple(raw, 2) <= d.offset
        /\ ReadIs("resource", d, stage, v, s, a2, l2, section, g2)
    BY <2>1, <2>2, ResourceIsTold
  <2>4. Goto("resource") /\ at' = a2 /\ left' = l2 /\ section' = section /\ got' = g2
    <3>1. EndOfName(at + 6) = mark
      BY <1>0 DEF EndOfName, MarkHere, ValueAt
    <3>2. Kept(mark + 4, raw) = g2
      BY <1>0 DEF Kept, KeptHere, ProfileHere, IsFirst, IsNext, ValueAt
    <3> HIDE DEF mark, g2
    <3>3. IF /\ HasBlock(d.blocks, at, "resource") /\ HasBlock(d.blocks, mark, "length")
             /\ d.blocks[at].val = "resolution" => RoundUpToMultiple(raw, 2) = 16
             /\ mark + 4 + RoundUpToMultiple(raw, 2) <= d.offset
          THEN Goto("resource") /\ at' = a2 /\ left' = l2 /\ section' = section
               /\ got' = Kept(mark + 4, raw)
          ELSE Refuse
      BY <1>0, <1>10, <3>1 DEF ReadResource, IsNext, ValueAt
    <3> QED BY <2>3, <3>2, <3>3
  <2> HIDE DEF a2, l2, g2
  <2>5. ReadIs("resource", d, stage, v, s, at', left', section', got')
    BY <2>3, <2>4
  <2> QED BY <1>2, <2>1, <2>2, <2>4, <2>5
<1>11. CASE ReadSection
  <2>1. rpc = "section" /\ rpc # "idle" /\ rpc # "header"
    BY <1>11 DEF ReadSection
  <2>2. /\ ReadIs("section", d, stage, v, s, at, left, section, got) /\ HasStage(d, stage, v, s)
        /\ stage # "none" /\ IsKeptAsItIs(s) /\ IsStream(d)
    BY <1>1, <2>1
  <2> DEFINE start == section.start + section.size
             w     == Width(got.version)
             a2    == start + w
             x2    == [start |-> start, size |-> d.blocks[start].val + w]
  <2>3. IF HasBlock(d.blocks, start, "length")
        THEN ReadIs("info", d, stage, v, s, a2, left, x2, got)
        ELSE stage = "begun"
    BY <2>2, SectionIsTold
  <2>4. IF HasBlock(d.blocks, start, "length")
        THEN Goto("info") /\ at' = a2 /\ left' = left /\ section' = x2 /\ got' = got
        ELSE Refuse
    BY <1>0, <1>11 DEF ReadSection, IsNext, ValueAt
  <2> HIDE DEF a2, x2, start, w
  <2>5. CASE HasBlock(d.blocks, start, "length")
    <3>1. ReadIs("info", d, stage, v, s, at', left', section', got') /\ Goto("info")
      BY <2>3, <2>4, <2>5
    <3> QED BY <1>2, <2>1, <2>2, <3>1
  <2>6. CASE ~HasBlock(d.blocks, start, "length")
    BY <1>3, <2>1, <2>3, <2>4, <2>6
  <2> QED BY <2>5, <2>6
<1>12. CASE ReadLayerInfo
  <2>1. rpc = "info" /\ rpc # "idle" /\ rpc # "header"
    BY <1>12 DEF ReadLayerInfo
  <2>2. /\ ReadIs("info", d, stage, v, s, at, left, section, got)
        /\ stage # "none" /\ IsKeptAsItIs(s) /\ IsStream(d)
    BY <1>1, <2>1
  <2> DEFINE w  == Width(got.version)
             a2 == at + w + d.blocks[at].val
             g2 == IF d.blocks[at].val = 0 THEN got
                   ELSE [got EXCEPT !.layers = IF HasBlock(d.blocks, at + w, "layers")
                                               THEN "sound" ELSE "none"]
  <2>3. HasBlock(d.blocks, at, "length") /\ ReadIs("mask", d, stage, v, s, a2, left, section, g2)
    BY <2>2, InfoIsTold
  <2>4. Goto("mask") /\ at' = a2 /\ left' = left /\ section' = section /\ got' = g2
    BY <1>0, <1>12, <2>3 DEF ReadLayerInfo, IsNext, ValueAt
  <2> HIDE DEF a2, g2, w
  <2>5. ReadIs("mask", d, stage, v, s, at', left', section', got')
    BY <2>3, <2>4
  <2> QED BY <1>2, <2>1, <2>2, <2>4, <2>5
<1>13. CASE ReadBlocks
  <2>1. rpc = "blocks" /\ rpc # "idle" /\ rpc # "header"
    BY <1>13 DEF ReadBlocks
  <2>2. /\ ReadIs("blocks", d, stage, v, s, at, left, section, got)
        /\ stage # "none" /\ IsKeptAsItIs(s) /\ IsStream(d)
    BY <1>1, <2>1
  <2> DEFINE w     == Width(got.version)
             mark  == at + SignatureAndKey
             found == section.start + section.size - at >= 12 /\ HasBlock(d.blocks, at, "tagged")
             a2    == mark + w + d.blocks[mark].val
             g2    == [got EXCEPT !.layers = IF HasBlock(d.blocks, mark + w, "layers")
                                             THEN "sound" ELSE "none"]
  <2>3. IF found THEN ReadIs("build", d, stage, v, s, a2, left, section, g2)
        ELSE ReadIs("build", d, stage, v, s, at, left, section, got)
    BY <2>2, BlocksAreTold
  <2>4. /\ Goto("build") /\ left' = left /\ section' = section
        /\ IF found THEN at' = a2 /\ got' = g2 ELSE at' = at /\ got' = got
    BY <1>0, <1>13 DEF ReadBlocks, IsNext, ValueAt
  <2> HIDE DEF a2, g2, w, mark, found
  <2>5. ReadIs("build", d, stage, v, s, at', left', section', got')
    BY <2>3, <2>4
  <2> QED BY <1>2, <2>1, <2>2, <2>4, <2>5
<1> QED BY <1>4, <1>5, <1>6, <1>7, <1>8, <1>9, <1>10, <1>11, <1>12, <1>13 DEF Read

\* What holds of a file while nothing is under way.
LEMMA FileMeans ==
  ASSUME FileInv, NEW p \in Paths, NEW stage, stage = story[p].stage,
         NEW v, v = story[p].version, NEW s, s = story[p].of
  PROVE  HasStage(disk[p], stage, v, s)
BY DEF FileInv, FilesHaveStories

\* A read begins with the header, or finds no file.
LEMMA BeginOpenPreserves ==
  ASSUME FileInv, NEW p \in Paths, NEW type, BeginOpen(p, type)
  PROVE  FileInv'
<1> DEFINE asked == [path |-> p, type |-> type]
<1>0. asked.path = p /\ asked.type = type
  OBVIOUS
<1> HIDE DEF asked
<1>1. /\ spc = "idle" /\ rpc = "idle" /\ spc' = "idle"
      /\ layered' = layered /\ disk' = disk /\ story' = story
      /\ at' = at /\ left' = left /\ section' = section /\ got' = got
      /\ IF disk[p] = NoFile
         THEN outcome' = Answer("open", asked, FALSE) /\ rpc' = rpc
         ELSE outcome' = NoOutcome /\ rpc' = "header" /\ input' = asked
  BY DEF BeginOpen, Idle, saving, asked
<1>2. FilesHaveStories' /\ ClientHasADocument'
  BY <1>1 DEF FileInv, FilesHaveStories, ClientHasADocument
<1>3. CASE disk[p] = NoFile
  <2>1. rpc' = "idle" /\ outcome' = Answer("open", asked, FALSE)
    BY <1>1, <1>3
  <2>2. /\ outcome'.call = "open" /\ outcome'.ok = FALSE /\ outcome'.path = p
        /\ outcome'.type = type
    BY <1>0, <2>1 DEF Answer
  <2>3. story[p].stage \notin {"mask", "layers", "complete"}
    <3> DEFINE stage == story[p].stage
               v == story[p].version
               s == story[p].of
               d == disk[p]
    <3>1. HasStage(d, stage, v, s)
      BY FileMeans
    <3>2. d.blocks = <<>>
      BY <1>3 DEF NoFile
    <3> HIDE DEF stage, v, s, d
    <3>3. ~HasBlock(d.blocks, 6, "header")
      BY <3>2 DEF HasBlock
    <3>4. ~HeaderIn(d, v, s)
      BY <3>3, SaidIsFound DEF HeaderIn
    <3>5. stage \notin {"mask", "layers", "complete"}
      BY <3>1, <3>4, StageMeans, HalfHasFront, FrontHasHeader
    <3> QED BY <3>5 DEF stage
  <2>4. OpensWhatWasSaved'
    BY <1>1, <2>2, <2>3 DEF OpensWhatWasSaved, HasLayers, SectionIsWhole
  <2>5. PreviewsAnswer'
    BY <2>2 DEF PreviewsAnswer
  <2> QED BY <1>1, <1>2, <2>1, <2>4, <2>5 DEF FileInv, SaveIsUnderWay, ReadIsUnderWay
<1>4. CASE disk[p] # NoFile
  <2>1. rpc' = "header" /\ input' = asked /\ outcome' = NoOutcome
    BY <1>1, <1>4
  <2>2. ReadIsUnderWay'
    <3>1. ASSUME NEW f, NEW stage, NEW v, NEW s, NEW a, NEW l, NEW x, NEW g
          PROVE  ReadIs("header", f, stage, v, s, a, l, x, g)
      BY DEF ReadIs
    <3> QED BY <1>0, <1>1, <2>1, <3>1 DEF ReadIsUnderWay
  <2> QED BY <1>1, <1>2, <2>1, <2>2, NothingIsAsked DEF FileInv, SaveIsUnderWay
<1> QED BY <1>3, <1>4

\* A call that reads a file in one go changes nothing but its answer.
LEMMA AskedPreserves ==
  ASSUME FileInv, NEW answer, Asked(answer), OpensWhatWasSaved', PreviewsAnswer'
  PROVE  FileInv'
<1>1. /\ spc' = "idle" /\ rpc' = "idle" /\ layered' = layered /\ disk' = disk /\ story' = story
  BY DEF Asked, Idle, saving, reading
<1>2. FilesHaveStories' /\ ClientHasADocument'
  BY <1>1 DEF FileInv, FilesHaveStories, ClientHasADocument
<1> QED BY <1>1, <1>2 DEF FileInv, SaveIsUnderWay, ReadIsUnderWay

\* The bit depth that is found is that of the story.
LEMMA FindBitDepthPreserves ==
  ASSUME FileInv, NEW p \in Paths, FindBitDepth(p)
  PROVE  FileInv'
<1> DEFINE stage == story[p].stage
           v == story[p].version
           s == story[p].of
           d == disk[p]
           ok == Extension[p] \in {"psd", "psb"} /\ HeaderIsRead(d)
           type == IF ok THEN d.blocks[6].val.depth ELSE 0
           answer == Answer("depth", [path |-> p, type |-> type], ok)
<1>1. Asked(answer)
  BY DEF FindBitDepth
<1>2. /\ answer.call = "depth" /\ answer.ok = ok /\ answer.path = p /\ answer.type = type
  BY DEF Answer
<1>3. HasStage(d, stage, v, s)
  BY FileMeans
<1> HIDE DEF stage, v, s, d, answer
<1>4. ok => type = s.depth
  <2>1. HeaderIsRead(d) => d.blocks[6].val = s
    BY <1>3, HeaderIsTold
  <2> QED BY <2>1
<1> HIDE DEF ok, type
<1>5. outcome' = answer /\ story' = story
  BY <1>1 DEF Asked
<1>6. OpensWhatWasSaved' /\ PreviewsAnswer'
  BY <1>2, <1>4, <1>5 DEF OpensWhatWasSaved, PreviewsAnswer, s
<1> QED BY <1>1, <1>6, AskedPreserves

\* The small reader shows an image exactly if it was written.
LEMMA PreviewPreserves ==
  ASSUME FileInv, NEW p \in Paths, NEW type, Preview(p, type)
  PROVE  FileInv'
<1> DEFINE stage == story[p].stage
           v == story[p].version
           s == story[p].of
           d == disk[p]
           ok == /\ HeaderIsRead(d)
                 /\ d.blocks[6].val.depth = type
                 /\ FindsImage(d)
           answer == Answer("preview", [path |-> p, type |-> type], ok)
<1>1. Asked(answer)
  BY DEF Preview
<1>2. /\ answer.call = "preview" /\ answer.ok = ok /\ answer.path = p /\ answer.type = type
  BY DEF Answer
<1>3. HasStage(d, stage, v, s)
  BY FileMeans
<1> HIDE DEF stage, v, s, d, answer
<1>4. ok <=> stage = "complete" /\ InRange(s.side, v) /\ s.depth = type
  <2>1. /\ HeaderIsRead(d) => /\ d.blocks[6].val = s /\ InRange(s.side, v)
        /\ ~HeaderIsRead(d) => stage \in {"none", "begun"} \/ ~InRange(s.side, v)
    BY <1>3, HeaderIsTold
  <2>2. HeaderIsRead(d) => (FindsImage(d) <=> stage = "complete")
    BY <1>3, PreviewIsTold DEF HeaderIsRead
  <2> QED BY <2>1, <2>2
<1> HIDE DEF ok
<1>5. outcome' = answer /\ story' = story
  BY <1>1 DEF Asked
<1>6. OpensWhatWasSaved' /\ PreviewsAnswer'
  BY <1>2, <1>4, <1>5 DEF OpensWhatWasSaved, PreviewsAnswer, Fits, s, v, stage
<1> QED BY <1>1, <1>6, AskedPreserves

\* Files that others put there or take away.
LEMMA OthersPreserve ==
  ASSUME FileInv, FitTheirFields(Others), NEW p \in Paths,
         (\E o \in Others : OtherProgram(p, o)) \/ Delete(p)
  PROVE  FileInv'
<1>1. ASSUME NEW f, NEW stage, NEW v, NEW s, HasStage(f, stage, v, s), Idle,
             disk' = [disk EXCEPT ![p] = f], outcome' = NoOutcome,
             story' = [story EXCEPT ![p] = [stage |-> stage, of |-> s, version |-> v]],
             UNCHANGED <<layered, saving, reading>>
      PROVE  FileInv'
  <2>1. FilesHaveStories'
    <3>1. FilesHaveStories
      BY DEF FileInv
    <3> QED BY <1>1, <3>1, FileChanges
  <2>2. spc' = "idle" /\ rpc' = "idle" /\ layered' = layered
    BY <1>1 DEF Idle, saving, reading
  <2> QED BY <1>1, <2>1, <2>2, NothingIsAsked
          DEF FileInv, SaveIsUnderWay, ReadIsUnderWay, ClientHasADocument
<1>2. CASE \E o \in Others : OtherProgram(p, o)
  <2>1. PICK o \in Others : OtherProgram(p, o)
    BY <1>2
  <2> DEFINE f == FileOf(o)
             v == o.version
             s == o.settings
  <2>2. IsKeptAsItIs(s) /\ \E e : WholeIn(f, v, s, e) /\ ImageIn(f, v, s, e)
    BY FileOfIsWhole
  <2>3. /\ Idle /\ disk' = [disk EXCEPT ![p] = f] /\ outcome' = NoOutcome
        /\ story' = [story EXCEPT ![p] = [stage |-> "complete", of |-> s, version |-> v]]
        /\ UNCHANGED <<layered, saving, reading>>
    BY <2>1 DEF OtherProgram
  <2> HIDE DEF f, v, s
  <2>4. HasStage(f, "complete", v, s)
    BY <2>2, StageMeans
  <2> QED BY <1>1, <2>3, <2>4
<1>3. CASE Delete(p)
  <2>1. HasStage(NoFile, "none", "none", NoDocument)
    BY StageMeans
  <2>2. /\ Idle /\ disk' = [disk EXCEPT ![p] = NoFile] /\ outcome' = NoOutcome
        /\ story' = [story EXCEPT ![p] = [stage |-> "none", of |-> NoDocument,
                                          version |-> "none"]]
        /\ UNCHANGED <<layered, saving, reading>>
    BY <1>3 DEF Delete, NoStory
  <2> QED BY <1>1, <2>1, <2>2
<1> QED BY <1>2, <1>3

\* Nothing changes.
LEMMA FileStays ==
  ASSUME FileInv, UNCHANGED vars
  PROVE  FileInv'
<1>1. /\ layered' = layered /\ disk' = disk /\ story' = story /\ outcome' = outcome
      /\ spc' = spc /\ content' = content /\ output' = output
      /\ rpc' = rpc /\ input' = input /\ at' = at /\ left' = left /\ section' = section
      /\ got' = got
  BY DEF vars, saving, reading
<1>2. Out' = Out /\ In' = In /\ Version' = Version
  BY <1>1 DEF Out, In, Version
<1>3. FilesHaveStories' /\ ClientHasADocument'
  BY <1>1 DEF FileInv, FilesHaveStories, ClientHasADocument
<1>4. SaveIsUnderWay'
  BY <1>1, <1>2 DEF FileInv, SaveIsUnderWay
<1>5. ReadIsUnderWay'
  BY <1>1, <1>2 DEF FileInv, ReadIsUnderWay
<1>6. OpensWhatWasSaved' /\ PreviewsAnswer'
  BY <1>1 DEF FileInv, OpensWhatWasSaved, PreviewsAnswer, HasLayers, SectionIsWhole, Fits
<1> QED BY <1>3, <1>4, <1>5, <1>6 DEF FileInv

\* The names and profiles of everything that comes into the system.
InputsFit ==
  /\ FitTheirFields(Others)
  /\ \A d \in Created : SaysItsSize(d.profile)
  /\ \A p \in Profiles : SaysItsSize(p)

\* The invariant is preserved by every step.
LEMMA FileInvPreserved ==
  ASSUME FileInv, InputsFit, [Next]_vars
  PROVE  FileInv'
<1>1. /\ FitTheirFields(Others)
      /\ \A d \in Created : SaysItsSize(d.profile)
      /\ \A p \in Profiles : SaysItsSize(p)
  BY DEF InputsFit
<1>2. CASE \/ \E d \in Created : Create(d)
           \/ Close
           \/ \E side \in Sides : SetSide(side)
           \/ \E dpi \in Resolutions : SetDpi(dpi)
           \/ \E profile \in Profiles : SetProfile(profile)
  BY <1>1, <1>2, ClientPreserves
<1>3. CASE \E p \in Paths : BeginSave(p)
  BY <1>3, BeginSavePreserves
<1>4. CASE \/ WriteHeader \/ WriteColorModeData \/ WriteResources
           \/ BeginSection \/ WriteLayers \/ WriteMask \/ FinishSection \/ WriteImage
           \/ StopSave
  BY <1>4, SavePreserves
<1>5. CASE \E p \in Paths, type \in BitDepths : BeginOpen(p, type)
  BY <1>5, BeginOpenPreserves
<1>6. CASE Read
  BY <1>6, ReadPreserves
<1>7. CASE \E p \in Paths : FindBitDepth(p)
  BY <1>7, FindBitDepthPreserves
<1>8. CASE \E p \in Paths, type \in BitDepths : Preview(p, type)
  BY <1>8, PreviewPreserves
<1>9. CASE \E p \in Paths, other \in Others : OtherProgram(p, other)
  BY <1>1, <1>9, OthersPreserve
<1>10. CASE \E p \in Paths : Delete(p)
  BY <1>1, <1>10, OthersPreserve
<1>11. CASE UNCHANGED vars
  BY <1>11, FileStays
<1> QED BY <1>2, <1>3, <1>4, <1>5, <1>6, <1>7, <1>8, <1>9, <1>10, <1>11 DEF Next

\* A file opens exactly if its layers were written to the end, its sides fit and
\* it has the bit depth asked for, and what opens is what was saved.
THEOREM SavedFilesOpen ==
  ASSUME InputsFit
  PROVE  Spec => []OpensWhatWasSaved
<1>1. Init => FileInv
  BY FileInitHolds
<1>2. FileInv /\ [Next]_vars => FileInv'
  BY FileInvPreserved
<1>3. FileInv => OpensWhatWasSaved
  BY DEF FileInv
<1> QED BY <1>1, <1>2, <1>3, PTL DEF Spec

\* The ways to find where a section of a file ends lead to one place, and the
\* small reader finds the merged image exactly in files that are complete.
THEOREM ReadersFindTheSamePlaces ==
  ASSUME InputsFit
  PROVE  Spec => []ReadersAgree
<1>1. Init => FileInv
  BY FileInitHolds
<1>2. FileInv /\ [Next]_vars => FileInv'
  BY FileInvPreserved
<1>3. FileInv => ReadersAgree
  BY InvariantAgrees
<1> QED BY <1>1, <1>2, <1>3, PTL DEF Spec
=============================================================================
