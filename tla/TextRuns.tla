------------------------------ MODULE TextRuns ------------------------------
(***************************************************************************)
(* The run arithmetic of text layers.                                      *)
(*                                                                         *)
(* A text is a sequence of UTF-16 code units.  Positions in it count from  *)
(* 0, as in the code; runs are numbered from 1.  A RunLengthArray is a     *)
(* sequence of lengths, and runs is a RunArray with its lengths:           *)
(* [lengths, values], the value standing for the style of the run.         *)
(***************************************************************************)
EXTENDS Integers, Sequences, FiniteSets, SequencesExt

Total(lengths) ==
  LET sum[r \in 0..Len(lengths)] == IF r = 0 THEN 0 ELSE sum[r - 1] + lengths[r]
  IN  sum[Len(lengths)]

\* compute_cumulative: where run r starts, also for r one past the last run.
Start(lengths, r) == Total(SubSeq(lengths, 1, r - 1))

Boundaries(lengths) == {Start(lengths, r) : r \in 1..Len(lengths) + 1}

\* find_run_for_offset: runs of length 0 are passed over.
FindRunForOffset(lengths, offset) ==
  LET I == {r \in 1..Len(lengths) : offset < Start(lengths, r + 1)}
  IN  IF I = {} THEN Len(lengths) ELSE Min(I)

\* The value of the run at every offset.
Spread(runs) ==
  LET upto[r \in 0..Len(runs.lengths)] ==
        IF r = 0 THEN <<>>
        ELSE upto[r - 1] \o [k \in 1..runs.lengths[r] |-> runs.values[r]]
  IN  upto[Len(runs.lengths)]

-----------------------------------------------------------------------------
(* Finding and replacing.                                                  *)

SpellsAt(text, needle, p) == SubSeq(text, p + 1, p + Len(needle)) = needle

\* find_substring_u16, repeated from the end of each match: the matches of a
\* needle that is not empty.
FindAll(text, needle) ==
  LET found[n \in 0..Len(text)] ==
        IF n = 0 THEN <<>>
        ELSE LET known == found[n - 1]
                 from   == IF known = <<>> THEN 0 ELSE known[Len(known)] + Len(needle)
                 later  == {p \in from..Len(text) - Len(needle) : SpellsAt(text, needle, p)}
             IN  IF later = {} THEN known ELSE Append(known, Min(later))
  IN  found[Len(text)]

\* A TextReplacement: old units from start on became new units.
End(r) == r.start + r.old

\* replace_utf16
Replacements(text, old, new, replaceAll) ==
  LET matches == FindAll(text, old)
      all == [i \in DOMAIN matches |->
                [start |-> matches[i], old |-> Len(old), new |-> Len(new)]]
  IN  SubSeq(all, 1, IF replaceAll THEN Len(all) ELSE Min({1, Len(all)}))

\* copy_pos behind the first n replacements.
CopyPos(replacements, n) == IF n = 0 THEN 0 ELSE End(replacements[n])

ReplacedText(text, replacements, new) ==
  LET upto[n \in 0..Len(replacements)] ==
        IF n = 0 THEN <<>>
        ELSE upto[n - 1]
               \o SubSeq(text, CopyPos(replacements, n - 1) + 1, replacements[n].start) \o new
  IN  upto[Len(replacements)]
        \o SubSeq(text, CopyPos(replacements, Len(replacements)) + 1, Len(text))

\* How much longer the text became by the first n replacements.
Delta(replacements, n) ==
  LET sum[i \in 0..Len(replacements)] ==
        IF i = 0 THEN 0 ELSE sum[i - 1] + replacements[i].new - replacements[i].old
  IN  sum[n]

\* remap_plain_index: where a boundary goes.  The first replacement that ends
\* no earlier decides; the start of a replacement stays before its new units,
\* its end stays behind them.
RemapPlainIndex(index, replacements) ==
  LET next  == Min({i \in 1..Len(replacements) + 1 :
                      i \in DOMAIN replacements => index <= End(replacements[i])})
      delta == Delta(replacements, next - 1)
      r     == replacements[next]
  IN  IF next \notin DOMAIN replacements \/ index < r.start THEN index + delta
      ELSE IF index = End(r) /\ index # r.start THEN r.start + delta + r.new
      ELSE r.start + delta + Min({index - r.start, r.new})

\* remap_engine_index: the engine's text is the plain text and a tail.
RemapEngineIndex(index, units, replacements) ==
  IF index <= units THEN RemapPlainIndex(index, replacements)
  ELSE RemapPlainIndex(units, replacements) + index - units

\* remap_run_lengths: no boundary falls behind the one before it.
RemapRunLengths(lengths, units, replacements) ==
  LET moved    == [r \in 1..Len(lengths) + 1 |->
                     RemapEngineIndex(Start(lengths, r), units, replacements)]
      bound(r) == Max({moved[q] : q \in 1..r})
  IN  [r \in 1..Len(lengths) |-> bound(r + 1) - bound(r)]

-----------------------------------------------------------------------------
(* Splitting runs and setting a value over ranges.                         *)

MaySplit(runs, r, offset) ==
  /\ r \in DOMAIN runs.values \cap DOMAIN runs.lengths
  /\ 0 < offset /\ offset < runs.lengths[r]

\* split_style_run and split_paragraph_run: the right half is a copy.
SplitRun(runs, r, offset) ==
  [lengths |-> InsertAt(ReplaceAt(runs.lengths, r, offset), r + 1, runs.lengths[r] - offset),
   values  |-> InsertAt(runs.values, r, runs.values[r])]

\* Slip: the last run is the one that holds the end, and is not split.
IsolateUnsplit(runs, start, end) ==
  LET first == FindRunForOffset(runs.lengths, start)
      inner == start - Start(runs.lengths, first)
      left  == IF inner > 0 THEN SplitRun(runs, first, inner) ELSE runs
  IN  [runs |-> left,
       covers |-> (IF inner > 0 THEN first + 1 ELSE first)
                    ..FindRunForOffset(left.lengths, end - 1)]

\* apply_to_style_runs up to its loop: the runs that cover [start, end), split
\* where the range begins and ends within a run.
Isolate(runs, start, end) ==
  LET first == FindRunForOffset(runs.lengths, start)
      inner == start - Start(runs.lengths, first)
      left  == IF inner > 0 THEN SplitRun(runs, first, inner) ELSE runs
      last  == FindRunForOffset(left.lengths, end - 1)
  IN  [runs   |-> IF Start(left.lengths, last + 1) > end
                  THEN SplitRun(left, last, end - Start(left.lengths, last))
                  ELSE left,
       covers |-> (IF inner > 0 THEN first + 1 ELSE first)..last]

\* The setter of a run throws when the run lacks the property and the setter
\* does not insert it: the run holds a value of refused.  The calls before it
\* stand, no later one is made.
SetRuns(runs, covers, value, refused) ==
  LET failing == {r \in covers : runs.values[r] \in refused}
      done    == IF failing = {} THEN covers ELSE {r \in covers : r < Min(failing)}
  IN  [runs   |-> [runs EXCEPT !.values = [r \in DOMAIN @ |-> IF r \in done THEN value ELSE @[r]]],
       called |-> covers # {},
       threw  |-> failing # {}]

\* One range [start, end), cut to the text, unless a call threw before.
StyleRange(done, start, end, value, refused) ==
  LET stop == Min({end, Total(done.runs.lengths)})
      cut  == Isolate(done.runs, start, stop)
      set  == SetRuns(cut.runs, cut.covers, value, refused)
  IN  IF done.threw \/ start >= stop THEN done ELSE [set EXCEPT !.called = done.called \/ @]

\* apply_style of a proxy: one range after the other.
ApplyStyle(runs, ranges, value, refused) ==
  LET done[n \in 0..Len(ranges)] ==
        IF n = 0 THEN [runs |-> runs, called |-> FALSE, threw |-> FALSE]
        ELSE StyleRange(done[n - 1], ranges[n][1], ranges[n][2], value, refused)
  IN  done[Len(ranges)]

\* find_text_ranges
FindTextRanges(text, needle, occurrence) ==
  LET matches == FindAll(text, needle)
      ranges  == [i \in 1..Len(matches) |-> <<matches[i], matches[i] + Len(needle)>>]
  IN  IF occurrence = 0 THEN ranges
      ELSE IF occurrence \in DOMAIN ranges THEN <<ranges[occurrence]>>
      ELSE <<>>
=============================================================================
