----------------------------- MODULE TextLayer -----------------------------
(***************************************************************************)
(* A text layer: one TySh block and the calls that edit it.                *)
(*                                                                         *)
(* The block holds the text twice.  The text descriptor has it as it is    *)
(* (plain); the engine data has it as a string literal between parentheses *)
(* followed by a return, in which a backslash stands before every byte     *)
(* that is a parenthesis.  Runs of the engine data give a style to every   *)
(* unit of the engine's text, and old files have From/To indexes into it   *)
(* as well.  A change of the text has to bring all of them along.          *)
(*                                                                         *)
(* The engine data is parsed anew by every call; a call that finds it not  *)
(* to parse fails and changes nothing, except that the text calls go on    *)
(* without it.                                                             *)
(***************************************************************************)
EXTENDS TextRuns

CONSTANTS
  OpenParen, CloseParen, \* the two parentheses
  Escape,                \* the backslash before an escaped byte
  Return,                \* closes the engine's text
  Garbled,               \* a unit put together from halves of two others
  Texts, Needles, News,  \* texts a client sets, searches for, and puts in
  Spans,                 \* ranges <<start, end>> it styles
  Fonts,                 \* names of fonts
  Paras, Absent,         \* values of a paragraph property, or none in the run
  MaxText, MaxRuns, MaxFonts  \* bounds on the text, on all runs, on fonts

ASSUME TextLayerAssumption ==
  /\ {Escape, Return} \cap {OpenParen, CloseParen, Garbled} = {} /\ Escape # Return
  /\ OpenParen # CloseParen /\ Garbled \notin {OpenParen, CloseParen}
  /\ Absent \notin Paras
  /\ <<>> \notin Needles
  /\ \A t \in Texts \cup Needles \cup News :
       t \in Seq(Range(t)) /\ Range(t) \cap {Escape, Garbled} = {}
  /\ Spans \subseteq Nat \X Nat
  /\ {MaxText, MaxRuns, MaxFonts} \subseteq Nat

VARIABLES
  plain,       \* the text of the descriptor
  literal,     \* what stands between the parentheses of /Text
  style, para, \* StyleRun and ParagraphRun: values are font indexes, properties
  fontSet,     \* the names of the fonts
  legacy,      \* the From and To indexes of the descriptor
  lastCall     \* the last call that returned or threw half-way: name, arguments

textVars == <<plain, literal, style, para, fontSet, legacy, lastCall>>
text  == <<plain, literal, legacy>>

Special == {OpenParen, CloseParen}

\* The literal the constructor and Photoshop write for a text.
Escaped(t) ==
  LET upto[k \in 0..Len(t)] ==
        IF k = 0 THEN <<>>
        ELSE upto[k - 1] \o (IF t[k] \in Special THEN <<Escape, t[k]>> ELSE <<t[k]>>)
  IN  upto[Len(t)]

\* What a reader of engine data sees in the literal.
EngineText ==
  LET upto[k \in 0..Len(literal)] ==
        IF k = 0 THEN <<>>
        ELSE IF literal[k] = Escape THEN upto[k - 1] ELSE Append(upto[k - 1], literal[k])
  IN  upto[Len(literal)]

\* parse_literal_string: skips the byte after a backslash and counts the other
\* parentheses; the payload parses if the literal ends where it was meant to.
Parses(lit) ==
  LET bare(u, k) == Cardinality({j \in 1..k : lit[j] = u /\ ~(j > 1 /\ lit[j - 1] = Escape)})
  IN  /\ \A k \in 1..Len(lit) : bare(OpenParen, k) >= bare(CloseParen, k)
      /\ bare(OpenParen, Len(lit)) = bare(CloseParen, Len(lit))

\* decode_utf16be_bytes of the literal, whose backslashes are still there: a
\* unit is two bytes and a backslash is one, so units after it are garbled.
Decoded(lit) ==
  LET escapes == Cardinality({k \in 1..Len(lit) : lit[k] = Escape})
      size    == (2 * (Len(lit) - escapes) + escapes) \div 2
  IN  [k \in 1..size |->
         IF Escape \in {lit[j] : j \in 1..Min({k, Len(lit)})} THEN Garbled ELSE lit[k]]

-----------------------------------------------------------------------------
(* Text calls.                                                             *)

\* Slip: the lengths are compared with the text without its closing return.
RemapRunsOfPlain(runs, replacements) ==
  IF Total(runs.lengths) = Len(plain)
  THEN [runs EXCEPT !.lengths = RemapRunLengths(@, Len(plain), replacements)]
  ELSE runs

\* A RunLengthArray is remapped if it covers the engine's text.
RemapRuns(runs, replacements) ==
  IF Total(runs.lengths) = Len(Decoded(literal))
  THEN [runs EXCEPT !.lengths = RemapRunLengths(@, Len(plain), replacements)]
  ELSE runs

\* Slip: what follows the plain text is lost.
LiteralWithoutTail(new) == new

\* The text that replaces the plain text in the literal is not escaped.
LiteralOf(new) == new \o SubSeq(Decoded(literal), Len(plain) + 1, Len(Decoded(literal)))

\* remap_engine_data
RemapEngineData(new, replacements) ==
  IF Parses(literal) /\ IsPrefix(plain, Decoded(literal))
  THEN /\ literal' = LiteralOf(new)
       /\ style' = RemapRuns(style, replacements)
       /\ para' = RemapRuns(para, replacements)
  ELSE UNCHANGED <<literal, style, para>>

\* Slip: every index before the end of the first replacement stays.
LegacyRangesAfter(replacements) ==
  {IF i < End(Head(replacements)) THEN i
   ELSE RemapEngineIndex(i, Len(plain), replacements) : i \in legacy}

\* remap_legacy_from_to_ranges
LegacyRanges(replacements) ==
  {RemapEngineIndex(i, Len(plain), replacements) : i \in legacy}

\* apply_text_mutation
ApplyTextMutation(new, replacements) ==
  /\ plain' = new
  /\ RemapEngineData(new, replacements)
  /\ legacy' = LegacyRanges(replacements)
  /\ UNCHANGED fontSet

SetText(t) ==
  /\ lastCall' = <<"set_text", t>>
  /\ IF t = plain THEN UNCHANGED <<text, style, para, fontSet>>
     ELSE ApplyTextMutation(t, <<[start |-> 0, old |-> Len(plain), new |-> Len(t)]>>)

ReplaceText(old, new, replaceAll) ==
  LET replacements == Replacements(plain, old, new, replaceAll)
  IN  /\ lastCall' = <<"replace_text", old, new, replaceAll>>
      /\ IF replacements = <<>> THEN UNCHANGED <<text, style, para, fontSet>>
         ELSE ApplyTextMutation(ReplacedText(plain, replacements, new), replacements)

SetTextEqualLength(t) == Len(t) = Len(plain) /\ SetText(t)

ReplaceTextEqualLength(old, new, replaceAll) ==
  Len(old) = Len(new) /\ ReplaceText(old, new, replaceAll)

-----------------------------------------------------------------------------
(* Fonts and runs.                                                         *)

FontIndex(f) ==
  LET places == {i \in DOMAIN fontSet : fontSet[i] = f}
  IN  IF places = {} THEN 0 ELSE Min(places)

\* find_font_index, then add_font if there is none.
FontSetWith(f) == IF FontIndex(f) = 0 THEN Append(fontSet, f) ELSE fontSet

IndexIn(f) == IF FontIndex(f) = 0 THEN Len(fontSet) + 1 ELSE FontIndex(f)

AddFont(f) ==
  /\ Parses(literal)
  /\ lastCall' = <<"invisible">>
  /\ fontSet' = Append(fontSet, f)
  /\ UNCHANGED <<text, style, para>>

SetFontPostscriptName(i, f) ==
  /\ Parses(literal)
  /\ i \in DOMAIN fontSet
  /\ lastCall' = <<"rename", fontSet[i], f>>
  /\ fontSet' = [fontSet EXCEPT ![i] = f]
  /\ UNCHANGED <<text, style, para>>

SetFont(f) ==
  /\ Parses(literal)
  /\ lastCall' = <<"set_font", f>>
  /\ fontSet' = FontSetWith(f)
  /\ style' = [style EXCEPT !.values = [r \in DOMAIN @ |-> IndexIn(f)]]
  /\ UNCHANGED <<text, para>>

SplitStyleRun(r, offset) ==
  /\ Parses(literal)
  /\ MaySplit(style, r, offset)
  /\ lastCall' = <<"invisible">>
  /\ style' = SplitRun(style, r, offset)
  /\ UNCHANGED <<text, para, fontSet>>

SplitParagraphRun(r, offset) ==
  /\ Parses(literal)
  /\ MaySplit(para, r, offset)
  /\ lastCall' = <<"invisible">>
  /\ para' = SplitRun(para, r, offset)
  /\ UNCHANGED <<text, style, fontSet>>

SetStyleRunFont(r, i) ==
  /\ Parses(literal)
  /\ r \in DOMAIN style.values
  /\ lastCall' = <<"set_run", Start(style.lengths, r), Start(style.lengths, r + 1)>>
  /\ style' = [style EXCEPT !.values[r] = i]
  /\ UNCHANGED <<text, para, fontSet>>

SetStyleRunFontByName(r, f) ==
  /\ Parses(literal)
  /\ r \in DOMAIN style.values
  /\ lastCall' = <<"set_run", Start(style.lengths, r), Start(style.lengths, r + 1)>>
  /\ fontSet' = FontSetWith(f)
  /\ style' = [style EXCEPT !.values[r] = IndexIn(f)]
  /\ UNCHANGED <<text, para>>

SetParagraphRunJustification(r, v) ==
  /\ Parses(literal)
  /\ r \in DOMAIN para.values
  /\ para.values[r] # Absent
  /\ lastCall' = <<"set_run", Start(para.lengths, r), Start(para.lengths, r + 1)>>
  /\ para' = [para EXCEPT !.values[r] = v]
  /\ UNCHANGED <<text, style, fontSet>>

\* The proxies a client may hold: of one range, of the whole text, of all
\* occurrences of a text, or of one occurrence.  They keep the ranges of the text they were made for,
\* which may have changed since.
Proxies ==
  {<<span>> : span \in Spans} \cup {<<<<0, Len(seen) + 1>>>> : seen \in Texts} \cup
  {FindTextRanges(seen, needle, occurrence) :
     seen \in Texts, needle \in Needles, occurrence \in 0..2}

\* set_font of a CharacterStyleRange: the font is added by the first call of
\* the setter.
StyleRangeSetFont(proxy, f) ==
  LET done == ApplyStyle(style, proxy, IndexIn(f), {})
  IN  /\ Parses(literal)
      /\ lastCall' = <<"style", proxy, f>>
      /\ style' = done.runs
      /\ fontSet' = IF done.called THEN FontSetWith(f) ELSE fontSet
      /\ UNCHANGED <<text, para>>

\* set_justification of a ParagraphStyleRange: throws at the first run that has
\* no such property.
ParagraphRangeSetJustification(proxy, v) ==
  LET done == ApplyStyle(para, proxy, v, {Absent})
  IN  /\ Parses(literal)
      /\ lastCall' = <<IF done.threw THEN "paragraph_threw" ELSE "paragraph", proxy, v>>
      /\ para' = done.runs
      /\ UNCHANGED <<text, style, fontSet>>

-----------------------------------------------------------------------------
\* A layer that was created, or read from a document: its runs cover the
\* engine's text and none is empty.
InitialRuns(n, V) ==
  {[lengths |-> <<n>>, values |-> <<v>>] : v \in V} \cup
  {[lengths |-> <<k, n - k>>, values |-> <<v, w>>] : k \in 1..n - 1, v, w \in V}

TextInit ==
  /\ plain \in Texts
  /\ literal = Escaped(plain) \o <<Return>>
  /\ \E f \in Fonts : fontSet = <<f>>
  /\ style \in InitialRuns(Len(plain) + 1, {1})
  /\ para \in InitialRuns(Len(plain) + 1, Paras \cup {Absent})
  /\ legacy = Boundaries(style.lengths)
  /\ lastCall = <<"none">>

Within ==
  /\ Len(plain) <= MaxText
  /\ Len(style.lengths) + Len(para.lengths) <= MaxRuns
  /\ Len(fontSet) <= MaxFonts

TextCall ==
  \/ \E t \in Texts : SetText(t) \/ SetTextEqualLength(t)
  \/ \E old \in Needles, new \in News, all \in BOOLEAN :
       ReplaceText(old, new, all) \/ ReplaceTextEqualLength(old, new, all)

StyleCall ==
  \/ \E f \in Fonts : AddFont(f) \/ SetFont(f)
  \/ \E f \in Fonts, i \in DOMAIN fontSet : SetFontPostscriptName(i, f)
  \/ \E r \in DOMAIN style.lengths :
       \/ \E offset \in 1..style.lengths[r] : SplitStyleRun(r, offset)
       \/ \E i \in DOMAIN fontSet : SetStyleRunFont(r, i)
       \/ \E f \in Fonts : SetStyleRunFontByName(r, f)
  \/ \E r \in DOMAIN para.lengths :
       \/ \E offset \in 1..para.lengths[r] : SplitParagraphRun(r, offset)
       \/ \E v \in Paras : SetParagraphRunJustification(r, v)
  \/ \E proxy \in Proxies : \/ \E f \in Fonts : StyleRangeSetFont(proxy, f)
                            \/ \E v \in Paras : ParagraphRangeSetJustification(proxy, v)

TextNext == (TextCall \/ StyleCall) /\ Within'

TextSpec == TextInit /\ [][TextNext]_textVars

\* A client that leaves no text empty and uses no text with a parenthesis.
Ordinary(t) == t # <<>> /\ Range(t) \cap Special = {}

CarefulTextInit == TextInit /\ Ordinary(plain)
CarefulTextNext == TextNext /\ Ordinary(plain')
CarefulTextSpec == CarefulTextInit /\ [][CarefulTextNext]_textVars

-----------------------------------------------------------------------------
\* The two texts of the block agree after every call: what Photoshop reads in
\* the engine data is the text that text() returns, and the literal ends where
\* the text does (set_text, replace_text, remap_engine_data).
EngineShowsTheText ==
  /\ Parses(literal)
  /\ EngineText = plain \o <<Return>>

\* Style and paragraph runs cover the engine's text exactly, after any
\* sequence of edits, splits and style calls: every unit has one style of a
\* font of the list and one paragraph, and the next edit will remap the runs again.
RunsCoverTheText ==
  /\ Total(style.lengths) = Len(EngineText) /\ Len(style.lengths) = Len(style.values)
  /\ Total(para.lengths) = Len(EngineText) /\ Len(para.lengths) = Len(para.values)
  /\ Range(style.values) \subseteq DOMAIN fontSet

\* The From and To indexes of an old file begin and end where its style runs
\* did: both are moved by every edit, in two places of the code, and neither
\* falls behind the other.
LegacyRangesFollow == legacy \subseteq Boundaries(style.lengths)

Cells ==
  LET seen   == EngineText
      styles == Spread(style)
      paras  == Spread(para)
  IN  [k \in DOMAIN seen |->
         [unit |-> seen[k], font |-> fontSet[styles[k]], para |-> paras[k]]]

Styled == INSTANCE StyledText WITH cells <- Cells, call <- lastCall

\* The runs implement a text whose units carry their own styles: an edit gives
\* new units the style of those they replace and no other unit changes, a style
\* call changes its ranges and nothing else, splitting shows nowhere.
ImplementsStyledText == Styled!Spec
=============================================================================
