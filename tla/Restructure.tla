---------------------------- MODULE Restructure ----------------------------
(***************************************************************************)
(* edit_sentence and its generation cache (friction-edit/src/sentence.rs): *)
(* what the pipeline decides for one sentence of the document, what of it  *)
(* is kept for a later sentence or pass, and how a kept outcome is put     *)
(* back into use.                                                          *)
(*                                                                         *)
(* A position is a sentence of the text: its range, the end of the         *)
(* sentence before it and the start of the one after it in the same prose  *)
(* unit (NoSentence at an end of the unit), and two flags.                       *)
(***************************************************************************)
EXTENDS Sentence

-----------------------------------------------------------------------------
(***************************************************************************)
(* Operation 1, ritual deletion (try_ritual_deletion).                     *)
(***************************************************************************)
FrameHits(text, k) == Matches(text, <<Rituals[k].frame>>)
ActsAt(text, at) == ~InQuotedSpan(text, Span(at, at + 1))

Acting(text) == {k \in DOMAIN Rituals : \E at \in FrameHits(text, k) : ActsAt(text, at)}
Mentioned(text) == {k \in DOMAIN Rituals : FrameHits(text, k) # {}}

\* Why a matched ritual is only noted, as a set of at most one reason.
RitualHold(text, position) ==
  IF Acting(text) = {} THEN (IF Mentioned(text) = {} THEN {} ELSE {"quoted"})
  ELSE IF Rituals[Min(Acting(text))].diagnostic THEN {"diagnostic"}
  ELSE IF position.sole THEN {"list item"}
  ELSE {}

RitualActs(text, position) == Acting(text) # {} /\ RitualHold(text, position) = {}

\* What goes: the sentence with the separator before it, or, if it opens its
\* unit, with the one after it.
RitualRange(position) ==
  IF position.prevEnd # NoSentence THEN Span(position.prevEnd, position.end)
  ELSE IF position.nextStart # NoSentence THEN Span(position.start, position.nextStart)
  ELSE Span(position.start, position.end)

-----------------------------------------------------------------------------
(***************************************************************************)
(* An outcome: the patches and holds of one sentence in document           *)
(* coordinates, whether the sentence was deleted whole, and how much of    *)
(* the pivot budget it took.                                               *)
(***************************************************************************)
Shift(r, by) == [r EXCEPT !.start = @ + by, !.end = @ + by]
ShiftAll(patches, by) == [i \in DOMAIN patches |-> Shift(patches[i], by)]

\* A run of the stages, at a document offset, as an outcome.
Finished(s, at, budget) ==
  [deleted |-> FALSE, patches |-> ShiftAll(s.patches, at), declined |-> s.declined,
   held |-> {Shift(h, at) : h \in s.held}, takes |-> budget - s.budget]

\* Mutant: a guarded word does not keep a ritual sentence.
Unguarded(guards) == {}

\* The guards that keep a ritual sentence from being deleted whole.
RitualGuards(guards) == guards

\* generate_sentence.  The report rules speak of the untouched text, and a
\* ritual deletion carries their findings with it (mem::take): when a guard
\* then overrules the deletion they are gone.
GenerateSentence(source, position, budget) ==
  LET text    == Slice(source, position)
      matches == FrameMatches(text)
      guarded == RitualGuards(OfKind(matches, {"guard"})) # {}
      ReportHeld == {[rule |-> FRAME, why |-> "report", start |-> m.start, end |-> m.end] :
                       m \in OfKind(matches, {"report"})}
      ritual  == RitualActs(text, position)
      start   == [Work(text, budget) EXCEPT !.held = IF ritual THEN {} ELSE ReportHeld]
      noted   == IF ritual THEN Hold(start, RITUAL, "guarded")
                 ELSE HoldAll(start, RITUAL, RitualHold(text, position))
      edited  == FrameStage(DejustStage(DeletionStage(PivotStage(SubstitutionStage(noted)))))
  IN  IF ritual /\ ~guarded
      THEN LET r == RitualRange(position)
           IN  [deleted |-> TRUE, patches |-> <<Patch(r.start, r.end, <<>>, RITUAL)>>,
                declined |-> 0, takes |-> 0,
                held |-> {Shift(h, position.start) : h \in ReportHeld}]
      ELSE Finished(edited, position.start, budget)

-----------------------------------------------------------------------------
(***************************************************************************)
(* The generation cache.                                                   *)
(***************************************************************************)
\* Mutant: room for two takes thought to be as good as room for any number.
RegimeOfTwo(budget) == Min({budget, 2})

\* A sentence makes at most three takes: more room than that is not seen.
Regime(budget) == Min({budget, 3})

\* The distance to a neighbour, as a set of at most one.
Gap(neighbour, from, to) == IF neighbour = NoSentence THEN {} ELSE {to - from}

\* GenerationKey::for_position
Key(source, position, budget) ==
  [text    |-> Slice(source, position),
   starts  |-> position.starts,
   sole    |-> position.sole,
   prevGap |-> Gap(position.prevEnd, position.prevEnd, position.start),
   nextGap |-> Gap(position.nextStart, position.end, position.nextStart),
   regime  |-> Regime(budget)]

\* Mutant: the takes not recorded.
NoTakes(outcome, position) ==
  [deleted |-> outcome.deleted, patches |-> ShiftAll(outcome.patches, -position.start),
   notes   |-> IF outcome.deleted THEN {} ELSE {[rule |-> h.rule, why |-> h.why] : h \in outcome.held},
   takes   |-> 0]

\* GeneratedOutcome::from_outcome: patches relative to the sentence, holds
\* without their span, none of them for a deleted sentence.
FromOutcome(outcome, position) ==
  [deleted |-> outcome.deleted, patches |-> ShiftAll(outcome.patches, -position.start),
   notes   |-> IF outcome.deleted THEN {} ELSE {[rule |-> h.rule, why |-> h.why] : h \in outcome.held},
   takes   |-> Min({outcome.takes, 3})]

\* GeneratedOutcome::rebase at a position, given the live budget: the takes
\* are made again, every hold is put on the whole sentence.
Rebase(kept, position, budget) ==
  [deleted |-> kept.deleted, patches |-> ShiftAll(kept.patches, position.start),
   declined |-> 0,
   held  |-> {[rule |-> n.rule, why |-> n.why, start |-> position.start, end |-> position.end] :
                n \in kept.notes},
   takes |-> Min({kept.takes, budget})]

-----------------------------------------------------------------------------
(***************************************************************************)
(* Recapitalization, never cached: it reads the casing of the document.    *)
(***************************************************************************)
\* DocumentCasing::record_sentence over the sentences of a pass: the words
\* inside a sentence, and how many sentences each word opens.  tokenize_str has
\* folded them, so a capitalized word counts as its lowercase form does.
Casing(source, positions) ==
  LET Word(i, k) == Lower(Slice(source, positions[i])[k])
      Opens(i, k) ==
        /\ positions[i].starts
        /\ \A j \in 1..k - 1 : ~IsWord(Word(i, j))
      Seen == {p \in (DOMAIN positions) \X (1..Len(source)) :
                 /\ p[2] <= positions[p[1]].end - positions[p[1]].start
                 /\ Word(p[1], p[2]) \in DOMAIN Capital}
  IN  [inside |-> {Word(p[1], p[2]) : p \in {q \in Seen : ~Opens(q[1], q[2])}},
       opening |-> [w \in DOMAIN Capital |->
                      Cardinality({p \in Seen : Opens(p[1], p[2]) /\ Word(p[1], p[2]) = w})]]

\* DocumentCasing::deliberately_lowercase
DeliberatelyLowercase(casing, word) == word \in casing.inside \/ casing.opening[word] >= 2

\* recapitalize
Recapitalized(s, casing) ==
  LET first == s.cells[1]
  IN  IF /\ s.patches # <<>> /\ s.cells # <<>>
         /\ first.sym \in DOMAIN Capital /\ first.at # NoOffset
         /\ ~(first.at = 0 /\ DeliberatelyLowercase(casing, first.sym))
      THEN Spliced(s, Span(0, 1), <<Capital[first.sym]>>, RECAPITALIZE)
      ELSE s

\* apply_recapitalize: the patches replayed from the right into a fresh
\* splicer, then recapitalize.
WithCapital(source, position, outcome, casing) ==
  LET replayed == SplicedAll(Work(Slice(source, position), 0),
                             ShiftAll(SpliceOrder(outcome.patches), -position.start))
  IN  [outcome EXCEPT !.patches =
         ShiftAll(Recapitalized(replayed, casing).patches, position.start)]

\* The tail of edit_sentence, on a hit and on a miss.
Settled(source, position, outcome, casing) ==
  IF outcome.deleted \/ ~position.starts THEN outcome
  ELSE WithCapital(source, position, outcome, casing)

-----------------------------------------------------------------------------
(***************************************************************************)
(* run_restructure (friction-edit/src/restructure.rs): the clause-level    *)
(* rewrites T10 to T13, once, on the text the bounded passes leave.        *)
(***************************************************************************)

\* Sequence of [pattern, text, splits, declined]: the constructions the
\* transducers of friction-register find, what each becomes, whether that
\* starts a new sentence (T12, T13), and whether a structural guard of the
\* transducer declines it (T10).
CONSTANT Transducers

ASSUME TransducersAssumption ==
  /\ IsSequence(Transducers)
  /\ \A k \in DOMAIN Transducers :
       /\ IsSequence(Transducers[k].pattern) /\ Transducers[k].pattern # <<>>
       /\ IsSequence(Transducers[k].text)

\* clause_ok and whole_sentence_skeleton_attested of a resulting sentence, whose
\* skeleton is known by its first two tokens.
StandsAlone(sentence) ==
  /\ sentence # <<>> /\ ClauseOk(sentence)
  /\ SkeletonAttested(sentence[1], FirstOr(Tail(sentence), "."))

\* check_split_rewrite_gates: only the right seam is new, and both sentences,
\* the first with the mark the replacement opens with, must stand on their own.
SplitAllowed(text, r, replacement) ==
  LET new   == Tokens(replacement)
      after == After(text, r.end)
  IN  /\ after # <<>> => Attested(new[Len(new)], after[1])
      /\ StandsAlone(Before(text, r.start) \o <<new[1]>>)
      /\ StandsAlone(Tail(new) \o after)

TransducerHits(text) ==
  UNION {{[rule |-> k, start |-> at, end |-> at + Len(Transducers[k].pattern)] :
            at \in Matches(text, Transducers[k].pattern)} : k \in DOMAIN Transducers}

Passes(text, hit) ==
  LET t == Transducers[hit.rule]
  IN  /\ ~t.declined
      /\ ~InQuotedSpan(text, hit)
      /\ IF t.splits THEN SplitAllowed(text, hit, t.text)
         ELSE RewriteAllowed(text, hit, t.text, ClauseOk(text))

\* A fragment cut off by an excluded construct is no clause.
IsClause(text, position) ==
  position.starts /\ LastBefore(text, Len(text), {Quote, Space}) \in Terminal

\* The candidates of one sentence, those that pass or those held.
HitsIn(sentence, position, passing) ==
  {Shift(hit, position.start) : hit \in
     {h \in TransducerHits(sentence) : IsClause(sentence, position) /\ Passes(sentence, h) = passing}}

\* Those of the whole text.
RestructureHits(text, passing) ==
  UNION {HitsIn(Slice(text, position), position, passing) : position \in Range(Positions(text))}

RestructureCandidates(text) ==
  SetToSeq({Patch(h.start, h.end, Transducers[h.rule].text, RESTRUCTURE) :
              h \in RestructureHits(text, TRUE)})

RestructureHeld(text) ==
  {[rule |-> RESTRUCTURE, why |-> "gate", start |-> h.start, end |-> h.end] :
     h \in RestructureHits(text, FALSE)}

\* What one pass leaves in the report.
PassReport(text, candidates, held) ==
  [patches |-> Resolve(text, candidates), dropped |-> Dropped(text, candidates), held |-> held]

RestructureReport(text) == PassReport(text, RestructureCandidates(text), RestructureHeld(text))

\* The holds of the bounded passes that this pass does not overwrite.
Retained(held, accepted) ==
  {h \in held : \A i \in DOMAIN accepted : ~RangesOverlap(accepted[i], h)}
=============================================================================
