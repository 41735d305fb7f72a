------------------------------- MODULE Spans -------------------------------
(***************************************************************************)
(* Byte spans, patches over them, and the three pure algorithms the edit   *)
(* engine runs on patches: conflict resolution, application and rebasing   *)
(* (friction-core/src/span.rs, friction-core/src/patch.rs,                 *)
(* friction-edit/src/document.rs).                                         *)
(*                                                                         *)
(* A text is a sequence of symbols and a symbol stands for one byte, so an *)
(* offset is a byte offset: 0-based, and a span is half open.  Symbol      *)
(* number k of a text occupies the span [k-1, k).  UTF-8 boundaries are    *)
(* abstracted: every offset is one.                                        *)
(***************************************************************************)
EXTENDS Integers, Sequences, SequencesExt

IsEmptySpan(r) == r.start >= r.end

\* friction_core::span::contains_range
ContainsRange(outer, inner) ==
  outer.start <= inner.start /\ inner.end <= outer.end

\* friction_core::span::ranges_overlap, its four arms
RangesOverlap(a, b) ==
  CASE IsEmptySpan(a) /\ IsEmptySpan(b)   -> a.start = b.start
    [] IsEmptySpan(a) /\ ~IsEmptySpan(b)  -> a.start >= b.start /\ a.start < b.end
    [] ~IsEmptySpan(a) /\ IsEmptySpan(b)  -> b.start >= a.start /\ b.start < a.end
    [] OTHER                              -> a.start < b.end /\ b.start < a.end

Span(s, e) == [start |-> s, end |-> e]

\* The text a span addresses.
Slice(text, r) == SubSeq(text, r.start + 1, r.end)

(***************************************************************************)
(* A patch replaces the span [start, end) by text; rule is the rank of its *)
(* rule id in the string order of rule ids.                                *)
(***************************************************************************)
Patch(s, e, text, rule) == [start |-> s, end |-> e, text |-> text, rule |-> rule]

\* Patch::validate: the span lies inside the source.
ValidPatch(source, p) == p.start <= p.end /\ p.end <= Len(source)

\* One step of a stable sort: x goes after the last element it is not before.
SortInto(sorted, x, before(_, _)) ==
  InsertAt(sorted, Max({0} \cup {i \in DOMAIN sorted : ~before(x, sorted[i])}) + 1, x)

-----------------------------------------------------------------------------
(***************************************************************************)
(* document::resolve.                                                      *)
(***************************************************************************)
\* The sort key: start ascending, end descending, rule id ascending.
ResolveBefore(a, b) ==
  \/ a.start < b.start
  \/ a.start = b.start /\ a.end > b.end
  \/ a.start = b.start /\ a.end = b.end /\ a.rule < b.rule

\* Mutant: patches that only touch thought to overlap.
KeepApartFrom(kept, p) ==
  IF \E i \in DOMAIN kept : kept[i].start <= p.end /\ p.start <= kept[i].end
  THEN kept ELSE Append(kept, p)

\* One step of the leftmost-first scan: a patch that overlaps a kept one is
\* dropped.
KeepDisjoint(kept, p) ==
  IF \E i \in DOMAIN kept : RangesOverlap(kept[i], p) THEN kept ELSE Append(kept, p)

\* The candidates that validate, in the order resolve looks at them.
SortValid(source, sorted, p) ==
  IF ValidPatch(source, p) THEN SortInto(sorted, p, ResolveBefore) ELSE sorted
Ordered(source, candidates) ==
  FoldLeft(LAMBDA sorted, p : SortValid(source, sorted, p), <<>>, candidates)

\* What resolve accepts out of the sequence of candidates, in byte order ...
Resolve(source, candidates) == FoldLeft(KeepDisjoint, <<>>, Ordered(source, candidates))

\* ... and how many it drops.
Dropped(source, candidates) == Len(candidates) - Len(Resolve(source, candidates))

-----------------------------------------------------------------------------
(***************************************************************************)
(* document::apply: patches spliced into the text from the right.          *)
(***************************************************************************)
ReplaceRange(text, p) ==
  SubSeq(text, 1, p.start) \o p.text \o SubSeq(text, p.end + 1, Len(text))

\* The order the patches are spliced in.
LaterStart(a, b) == a.start > b.start

SpliceOrder(patches) ==
  FoldLeft(LAMBDA sorted, p : SortInto(sorted, p, LaterStart), <<>>, patches)

ApplyPatches(source, patches) == FoldLeft(ReplaceRange, source, SpliceOrder(patches))

-----------------------------------------------------------------------------
(***************************************************************************)
(* document::rebase_range: a span of the text a pass received, mapped into *)
(* the text the pass produced.  `patches' are disjoint and in byte order.  *)
(* The walk carries [at, done]: the shifted offset, and whether an offset  *)
(* strictly inside a patch has already snapped to its replacement's edge.  *)
(***************************************************************************)
\* Mutant: an offset inside a patch moved as if the patch were after it.
ShiftOnly(pos, isEnd, patches) ==
  FoldLeft(LAMBDA at, p : IF p.end <= pos THEN at + Len(p.text) - (p.end - p.start) ELSE at,
           pos, patches)

\* One patch of the walk of an edge: an offset, and whether it ends a span.
RebaseStep(edge, walk, p) ==
  LET inserted == Len(p.text)
      pureInsertionAtEnd == edge.isEnd /\ p.start = edge.pos /\ p.start = p.end
  IN  IF walk.done THEN walk
      ELSE IF p.end <= edge.pos /\ ~pureInsertionAtEnd
        THEN [walk EXCEPT !.at = @ + inserted - (p.end - p.start)]
      ELSE IF p.start < edge.pos /\ edge.pos < p.end
        THEN [at   |-> walk.at - (edge.pos - p.start) + IF edge.isEnd THEN inserted ELSE 0,
              done |-> TRUE]
      ELSE walk

RebaseOffset(pos, isEnd, patches) ==
  FoldLeft(LAMBDA walk, p : RebaseStep([pos |-> pos, isEnd |-> isEnd], walk, p),
           [at |-> pos, done |-> FALSE], patches).at

RebaseRange(r, patches) ==
  LET s == RebaseOffset(r.start, FALSE, patches)
      e == RebaseOffset(r.end, TRUE, patches)
  IN  Span(s, IF e < s THEN s ELSE e)

-----------------------------------------------------------------------------
(* The working text of one sentence as a sequence of cells.  A cell is one   *)
(* symbol and the offset in the original sentence it still sits at, or       *)
(* NoOffset for a symbol an edit put there.  A stretch of neighbouring       *)
(* offsets is one untouched piece of the original, so cells say of a text    *)
(* what the chunk chain of friction-edit/src/splice.rs says (module Splicer  *)
(* shows that).                                                              *)
NoOffset == -1

Cell(sym, at) == [sym |-> sym, at |-> at]

OriginalCells(text) == [i \in 1..Len(text) |-> Cell(text[i], i - 1)]
ReplacementCells(text) == [i \in 1..Len(text) |-> Cell(text[i], NoOffset)]

\* The text the next stage matches against.
Symbols(w) == [i \in 1..Len(w) |-> w[i].sym]

\* SentenceSplicer::can_apply for a non-empty span of the text: it lies in one
\* untouched piece.
CanEdit(w, r) ==
  /\ r.start \in 0 .. Len(w) - 1 /\ r.end \in r.start + 1 .. Len(w)
  /\ w[r.start + 1].at # NoOffset
  /\ \A i \in r.start + 1 .. r.end : w[i].at = w[r.start + 1].at + (i - r.start - 1)

Edited(w, r, text) ==
  SubSeq(w, 1, r.start) \o ReplacementCells(text) \o SubSeq(w, r.end + 1, Len(w))

\* The original bytes an accepted edit removes.
RemovedSpan(w, r) == Span(w[r.start + 1].at, w[r.end].at + 1)
=============================================================================
