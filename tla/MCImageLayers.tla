---------------------------- MODULE MCImageLayers ----------------------------
(* Layers without pixels, of two and of six; centers on   and between pixels, *)
(* on both sides of zero; image data that fits some of the sizes, that has a  *)
(* mask of another size, a channel too many or one too few.                   *)
EXTENDS ImageLayers

MCSize(w, h)   == [w |-> w, h |-> h]
MCCenter(x, y) == [x |-> x, y |-> y]
MCBuffer(n, of) == [n |-> n, of |-> of]

MCSizes   == {MCSize(0, 0), MCSize(1, 2), MCSize(3, 2)}
MCCenters == {MCCenter(0, 0), MCCenter(-2, 7)}
MCBuffers == {MCBuffer(0, "p"), MCBuffer(2, "p"), MCBuffer(2, "q"), MCBuffer(6, "q")}

MCOne(i, a)       == [k \in {i} |-> a]
MCTwo(i, a, j, b) == [k \in {i, j} |-> IF k = i THEN a ELSE b]

MCPassed ==
  {MCOne(0, MCBuffer(0, "p")),
   MCOne(0, MCBuffer(2, "p")),
   MCTwo(0, MCBuffer(6, "q"), -1, MCBuffer(6, "q")),
   MCTwo(0, MCBuffer(2, "q"), MaskIndex, MCBuffer(2, "p")),
   MCTwo(0, MCBuffer(2, "p"), MaskIndex, MCBuffer(6, "q")),
   MCTwo(0, MCBuffer(6, "q"), RealMaskIndex, MCBuffer(6, "q")),
   MCTwo(0, MCBuffer(2, "p"), 1, MCBuffer(2, "q")),
   MCOne(-1, MCBuffer(2, "q"))}

MCValues ==
  [color |-> {0, 128}, disabled |-> {TRUE}, relative |-> {TRUE},
   density |-> {<<100>>}, feather |-> {<<5>>}]

\* All channels of a CMYK layer.
MCInk == {[i \in 0..3 |-> MCBuffer(2, IF i = 3 THEN "q" ELSE "p")]}
=============================================================================
