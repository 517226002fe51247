----------------------------- MODULE MCTextLayer -----------------------------
(* Small instances of a text layer.  A needle overlaps itself in one text;   *)
(* the other replacement makes a text longer or shorter.                     *)
EXTENDS TextLayer

CONSTANTS A, B, F, G, Left, Right

MCTexts   == {<<A, A, A>>, <<B, A, B>>}
MCNeedles == {<<A, A>>, <<B>>}
MCNews    == {<<>>, <<A, A>>}
MCSpans   == {<<1, 2>>, <<1, 5>>}

Interchangeable == Permutations({F, G}) \cup Permutations({Left, Right})

\* The last call is only there for the steps that make it.
Layer == <<plain, literal, style, para, fontSet, legacy>>

MCDocumentedTexts  == {<<A>>, <<A, OpenParen>>, <<>>}
=============================================================================
