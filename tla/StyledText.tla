----------------------------- MODULE StyledText -----------------------------
(***************************************************************************)
(* What a text layer promises: a text in which every unit has a font and a *)
(* paragraph property of its own.  cells holds the units of the text and,  *)
(* last, the closing return that the engine keeps after it.                *)
(*                                                                         *)
(* There are no runs here.  New units take the style of the unit in whose  *)
(* place they stand, or of the last unit replaced when there are more of   *)
(* them; setting a style over ranges changes those ranges only.            *)
(***************************************************************************)
EXTENDS Naturals, Sequences, FiniteSets, SequencesExt

CONSTANTS
  Texts, Needles, News,  \* texts a client sets, searches for, and puts in
  Spans,                 \* ranges <<start, end>> it styles
  Fonts, Paras,          \* fonts and paragraph properties it asks for
  MaxText                \* the longest text

VARIABLES
  cells,
  call     \* the last call: its name and arguments

vars == <<cells, call>>

Body    == Front(cells)
Closing == <<Last(cells)>>

Units(s) == [k \in 1..Len(s) |-> s[k].unit]

Occurrences(text, needle) ==
  {p \in 0..Len(text) - Len(needle) : SubSeq(text, p + 1, p + Len(needle)) = needle}

\* The matches of a needle: no two overlap, and every occurrence overlaps a
\* match that starts no later than it does.
Matches(text, needle) ==
  LET O == Occurrences(text, needle)
  IN  CHOOSE M \in SUBSET O :
        /\ \A p, q \in M : p < q => p + Len(needle) <= q
        /\ \A o \in O : \E p \in M : p <= o /\ o < p + Len(needle)

\* The units new, in place of the cells old, of which there is at least one.
Restyled(old, new) ==
  [k \in 1..Len(new) |-> [old[Min({k, Len(old)})] EXCEPT !.unit = new[k]]]

\* new in place of the n cells at every position of P.
Spliced(P, n, new) ==
  FlattenSeq([k \in 1..Len(Body) |->
    IF k - 1 \in P THEN Restyled(SubSeq(Body, k, k + n - 1), new)
    ELSE IF \E p \in P : p < k - 1 /\ k - 1 < p + n THEN <<>>
    ELSE <<Body[k]>>])

SetText(t) ==
  /\ call' = <<"set_text", t>>
  /\ cells' = Restyled(Body, t) \o Closing

ReplaceText(old, new, replaceAll) ==
  LET M == Matches(Units(Body), old)
      P == IF replaceAll \/ M = {} THEN M ELSE {Min(M)}
  IN  /\ call' = <<"replace_text", old, new, replaceAll>>
      /\ cells' = Spliced(P, Len(old), new) \o Closing

-----------------------------------------------------------------------------
\* What a client may style: a range [start, end), a whole text with its return,
\* or the occurrences of a text, all of them or the one counted.
Ranges(starts, n) ==
  [i \in 1..Cardinality(starts) |->
     LET p == CHOOSE q \in starts : Cardinality({x \in starts : x <= q}) = i
     IN  <<p, p + n>>]

Proxies ==
  {<<span>> : span \in Spans} \cup {<<<<0, Len(seen) + 1>>>> : seen \in Texts} \cup
  UNION {LET all == Ranges(Matches(seen, needle), Len(needle))
         IN  {<<>>, all} \cup {<<all[i]>> : i \in DOMAIN all}
         : seen \in Texts, needle \in Needles}

Positions == {k - 1 : k \in DOMAIN cells}

Covered(proxy) ==
  {p \in Positions : \E i \in DOMAIN proxy : proxy[i][1] <= p /\ p < proxy[i][2]}

SetOver(P, field, value) ==
  LET old == cells
  IN  cells' = [k \in DOMAIN old |->
                  IF k - 1 \in P THEN [old[k] EXCEPT ![field] = value] ELSE old[k]]

Style(proxy, f) ==
  /\ call' = <<"style", proxy, f>>
  /\ SetOver(Covered(proxy), "font", f)

Paragraph(proxy, v) ==
  /\ call' = <<"paragraph", proxy, v>>
  /\ SetOver(Covered(proxy), "para", v)

\* A call that throws half-way has changed the front part of its ranges.
ParagraphThrew(proxy, v) ==
  /\ call' = <<"paragraph_threw", proxy, v>>
  /\ \E reached \in 0..Len(cells) : SetOver(Covered(proxy) \cap 0..reached - 1, "para", v)

\* A call for one run changes one stretch of the text.
SetRun(start, end, field, value) ==
  /\ call' = <<"set_run", start, end>>
  /\ SetOver(Positions \cap start..end - 1, field, value)

SetFont(f) ==
  /\ call' = <<"set_font", f>>
  /\ SetOver(Positions, "font", f)

\* Renaming an entry of the font set changes cells that had its name.
Rename(old, new) ==
  /\ call' = <<"rename", old, new>>
  /\ \E P \in SUBSET {p \in Positions : cells[p + 1].font = old} : SetOver(P, "font", new)

\* Splitting a run or adding a font shows nowhere.
Invisible == call' = <<"invisible">> /\ UNCHANGED cells

Next ==
  \/ \E t \in Texts : SetText(t)
  \/ \E old \in Needles, new \in News, all \in BOOLEAN : ReplaceText(old, new, all)
  \/ call'[1] \in {"style", "paragraph", "paragraph_threw"} /\ \E proxy \in Proxies :
       \/ \E f \in Fonts : Style(proxy, f)
       \/ \E v \in Paras : Paragraph(proxy, v) \/ ParagraphThrew(proxy, v)
  \/ call'[1] = "set_run" /\ \E start, end \in 0..MaxText + 1 :
       \/ \E f \in Fonts : SetRun(start, end, "font", f)
       \/ \E v \in Paras : SetRun(start, end, "para", v)
  \/ \E f \in Fonts : SetFont(f) \/ \E old \in Fonts : Rename(old, f)
  \/ Invisible

Init == call = <<"none">> /\ \A k \in DOMAIN cells : DOMAIN cells[k] = {"unit", "font", "para"}

Spec == Init /\ [][Next]_vars
=============================================================================
