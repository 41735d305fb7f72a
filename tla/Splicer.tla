------------------------------ MODULE Splicer ------------------------------
(***************************************************************************)
(* SentenceSplicer (friction-edit/src/splice.rs): the working text of one  *)
(* sentence as a chain of chunks, each an untouched slice of the source or *)
(* the replacement text of an earlier edit.  An edit names a span of the   *)
(* working text.  It is accepted when the first chunk that holds the whole *)
(* span is original, and is then recorded as a patch on the source.        *)
(*                                                                         *)
(* The callers in sentence.rs name only non-empty spans (a pattern match,  *)
(* a construction, a first letter), so Edit does too.                      *)
(***************************************************************************)
EXTENDS Spans

CONSTANTS Source,         \* the sentence: a sequence of symbols
          Opening,        \* the document offset its first symbol sits at
          Replacements,   \* the texts an edit may put in
          MaxEdits        \* bound: accepted edits on one sentence

ASSUME SourceAssumption == Source \in Seq(Range(Source)) /\ Source # <<>>
ASSUME OpeningAssumption == Opening \in Nat
ASSUME ReplacementsAssumption == \A text \in Replacements : text \in Seq(Range(text))

VARIABLES chunks,    \* the chain
          patches    \* what has been recorded, in the order applied

vars == <<chunks, patches>>

Closing == Opening + Len(Source)

Original(s, e) == [kind |-> "original", start |-> s, end |-> e, text |-> <<>>]
Replaced(text) == [kind |-> "replaced", start |-> 0, end |-> 0, text |-> text]

IsOriginal(c) == c.kind = "original"

ChunkLen(c) == IF IsOriginal(c) THEN c.end - c.start ELSE Len(c.text)

ChunkText(c) ==
  IF IsOriginal(c) THEN Slice(Source, Span(c.start - Opening, c.end - Opening))
  ELSE c.text

\* The working-text offset chunk i begins at.
Cursor(chain, i) == FoldLeft(LAMBDA sum, c : sum + ChunkLen(c), 0, SubSeq(chain, 1, i - 1))

WorkingText(chain) == FoldLeft(LAMBDA text, c : text \o ChunkText(c), <<>>, chain)

\* Mutant: the end of the span is not compared with the end of the chunk.
HoldsStart(chain, i, r) ==
  LET cursor == Cursor(chain, i)
  IN  cursor <= r.start /\ r.start < cursor + ChunkLen(chain[i])

\* Chunk i holds the working span r: both ends lie in its closed interval.
\* The cursor is a usize.
Holds(chain, i, r) ==
  LET cursor == Cursor(chain, i)
  IN  /\ cursor \in Nat
      /\ cursor <= r.start
      /\ r.end <= cursor + ChunkLen(chain[i])

\* Chunk i is the one apply() and can_apply() stop at.
StopsAt(chain, i, r) == Holds(chain, i, r) /\ \A j \in 1..i - 1 : ~Holds(chain, j, r)

CanApplyAt(chain, i, r) == StopsAt(chain, i, r) /\ IsOriginal(chain[i])

CanApply(chain, r) == \E i \in DOMAIN chain : CanApplyAt(chain, i, r)

\* The source span that the working span r addresses in chunk i.
Target(chain, i, r) ==
  LET cursor == Cursor(chain, i)
  IN  Span(chain[i].start + (r.start - cursor), chain[i].start + (r.end - cursor))

\* The chain holding c alone, or nothing if c is empty.
Piece(c) == IF ChunkLen(c) > 0 THEN <<c>> ELSE <<>>

\* Mutants of Pieces: the text after the edit lost; the piece before the edit
\* still reaching to its end.
TailLost(c, target, text) ==
  Piece(Original(c.start, target.start)) \o Piece(Replaced(text))
HeadTooLong(c, target, text) ==
  Piece(Original(c.start, target.end)) \o Piece(Replaced(text))
    \o Piece(Original(target.end, c.end))

\* What an accepted edit leaves of the original chunk c: before, replacement
\* and after, the empty ones dropped.
Pieces(c, target, text) ==
  Piece(Original(c.start, target.start)) \o Piece(Replaced(text))
    \o Piece(Original(target.end, c.end))

\* Chunk i of the chain gives way to the pieces.
Reshaped(chain, i, pieces) == SubSeq(chain, 1, i - 1) \o pieces \o SubSeq(chain, i + 1, Len(chain))

\* SentenceSplicer::apply on [chunks, patches], the edit stopping at chunk i.
ApplyAt(splicer, i, r, text) ==
  LET target == Target(splicer.chunks, i, r)
  IN  [chunks  |-> Reshaped(splicer.chunks, i, Pieces(splicer.chunks[i], target, text)),
       patches |-> Append(splicer.patches, Patch(target.start, target.end, text, 0))]

\* The whole of apply: an edit it declines changes nothing.
Apply(splicer, r, text) ==
  IF CanApply(splicer.chunks, r)
  THEN ApplyAt(splicer, CHOOSE i \in DOMAIN splicer.chunks : CanApplyAt(splicer.chunks, i, r),
               r, text)
  ELSE splicer

\* SentenceSplicer::new
Seeded == [chunks |-> <<Original(Opening, Closing)>>, patches |-> <<>>]

\* starts_with_original
StartsWithOriginal(chain) == chain # <<>> /\ IsOriginal(chain[1])

\* opening_intact
OpeningIntact(chain) == StartsWithOriginal(chain) /\ chain[1].start = Opening

\* The order apply_recapitalize replays recorded patches in.
ReplayOrder(recorded) == SpliceOrder(recorded)

\* apply_recapitalize: a fresh splicer rebuilt from recorded patches.
Replayed(recorded) ==
  LET Again(splicer, p) == Apply(splicer, Span(p.start - Opening, p.end - Opening), p.text)
  IN  FoldLeft(Again, Seeded, ReplayOrder(recorded))

-----------------------------------------------------------------------------
Init == chunks = Seeded.chunks /\ patches = Seeded.patches

Edit(r, text) ==
  /\ Len(patches) < MaxEdits
  /\ \E i \in DOMAIN chunks :
       /\ CanApplyAt(chunks, i, r)
       /\ LET after == ApplyAt([chunks |-> chunks, patches |-> patches], i, r, text)
          IN  chunks' = after.chunks /\ patches' = after.patches

Next ==
  \E text \in Replacements, s \in 0..Len(WorkingText(chunks)) :
    \E e \in s + 1 .. Len(WorkingText(chunks)) : Edit(Span(s, e), text)

Spec == Init /\ [][Next]_vars

-----------------------------------------------------------------------------
Chunk == [kind : {"original", "replaced"}, start : Int, end : Int,
          text : Replacements \cup {<<>>}]

PatchRecord == [start : Int, end : Int, text : Replacements, rule : {0}]

\* No chunk is empty, and the spans of original chunks and of patches lie in
\* the sentence.
TypeOK ==
  /\ chunks \in Seq(Chunk)
  /\ patches \in Seq(PatchRecord)
  /\ \A i \in DOMAIN chunks :
       /\ ChunkLen(chunks[i]) > 0
       /\ IsOriginal(chunks[i]) => Opening <= chunks[i].start /\ chunks[i].end <= Closing
  /\ \A i \in DOMAIN patches :
       Opening <= patches[i].start /\ patches[i].start < patches[i].end
         /\ patches[i].end <= Closing

\* The patches of one sentence never overlap: apply_recapitalize's doc calls
\* them "DISJOINT by construction", and resolve would drop one otherwise.
DisjointPatches ==
  \A i, j \in DOMAIN patches : i # j => ~RangesOverlap(patches[i], patches[j])

\* The patches are honest: resolve keeps every one of them, applying them to
\* the source yields exactly the working text the stages matched against, and
\* opening_intact tells whether one of them took the sentence's first byte,
\* also when several edits have reshaped the front of the chain.  Replaying
\* them from the right rebuilds the very same chain, in whatever order the
\* stages recorded them (apply_recapitalize relies on it on a cache hit as on
\* a miss).
HonestPatches ==
  LET local == [i \in DOMAIN patches |->
                  [patches[i] EXCEPT !.start = @ - Opening, !.end = @ - Opening]]
      accepted == Resolve(Source, local)
  IN  /\ Len(accepted) = Len(patches) /\ ApplyPatches(Source, accepted) = WorkingText(chunks)
      /\ OpeningIntact(chunks) <=> \A i \in DOMAIN patches : patches[i].start > Opening
      /\ Replayed(patches).chunks = chunks

\* The splicer implements the working text of module WorkingText: a chunk is
\* the cells of its text, and a patch removes bytes of the sentence.
CellsOf(c) ==
  LET text == ChunkText(c)
  IN  [k \in 1..Len(text) |->
         [sym |-> text[k], at |-> IF IsOriginal(c) THEN c.start - Opening + k - 1 ELSE -1]]

Cells(chain) == FoldLeft(LAMBDA w, c : w \o CellsOf(c), <<>>, chain)

Removal(p) == [start |-> p.start - Opening, end |-> p.end - Opening, text |-> p.text]

Abstract == INSTANCE WorkingText WITH
  cells    <- Cells(chunks),
  recorded <- {Removal(patches[i]) : i \in DOMAIN patches}

ImplementsWorkingText == Abstract!Spec
=============================================================================
