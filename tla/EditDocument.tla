---------------------------- MODULE EditDocument ----------------------------
(***************************************************************************)
(* edit_document (friction-edit/src/document.rs): the bounded passes over  *)
(* the sentences of a document, one edit_sentence call at a time, with the *)
(* generation cache and the pivot budget they share, then the restructure  *)
(* pass.  A caller may hand the result in again (friction fix on its own   *)
(* output): a call starts with a fresh budget and empty caches.            *)
(***************************************************************************)
EXTENDS Restructure

CONSTANTS Documents,  \* the texts handed in
          Rates,      \* calibrated edits per thousand words, or Uncalibrated
          MaxRuns     \* bound: calls told apart

ASSUME DocumentsAssumption ==
  (\A d \in Documents : IsSequence(d)) /\ Rates \subseteq Nat \cup {Uncalibrated}

VARIABLES
  rate,         \* the calibration in the attestation pack
  run,          \* number of this call, at most MaxRuns
  given,        \* its source
  text,         \* `current'
  phase,        \* "segment", "edit", "restructure" or "done"
  positions,    \* the sentences of this pass
  casing,       \* the document's casing evidence in this pass
  next,         \* the sentence edit_sentence is called for next
  candidates,   \* the patches of this pass so far
  held,         \* its holds
  declined,     \* edits the splicer refused in this pass
  budget,       \* PivotBudget::remaining
  entry,        \* the budget this pass began with
  cache,        \* generation_cache
  passes,       \* EditReport::passes
  finalBounded  \* EditReport::final_bounded_pass_index, from 1

walk == <<positions, casing, next, candidates, held, declined>>
report == <<passes, finalBounded>>
vars == <<rate, run, given, text, phase, walk, budget, entry, cache, report>>

MAX_PASSES == 2

Idle ==
  /\ positions = <<>> /\ casing = <<>> /\ next = 1
  /\ candidates = <<>> /\ held = {} /\ declined = 0

Init ==
  /\ given \in Documents /\ rate \in Rates /\ run = 1
  /\ text = given /\ phase = "segment"
  /\ Idle
  /\ budget = ForDocument(WordCount(given), rate) /\ entry = budget
  /\ cache = <<>> /\ passes = <<>> /\ finalBounded = 0

-----------------------------------------------------------------------------
\* The head of a pass: parse, segment, collect_positions_and_casing.
Segment ==
  /\ phase = "segment"
  /\ positions' = Positions(text)
  /\ casing' = Casing(text, positions')
  /\ next' = 1 /\ candidates' = <<>> /\ held' = {} /\ declined' = 0
  /\ phase' = "edit"
  /\ UNCHANGED <<rate, run, given, text, budget, entry, cache, report>>

Editing == phase = "edit" /\ next <= Len(positions)
Here == positions[next]

\* What edit_sentence does with an outcome, cached or new.
Collect(outcome) ==
  LET settled == Settled(text, Here, outcome, casing)
  IN  /\ candidates' = candidates \o settled.patches
      /\ held' = held \cup settled.held
      /\ declined' = declined + settled.declined
      /\ budget' = budget - settled.takes
      /\ next' = next + 1
      /\ UNCHANGED <<rate, run, given, text, phase, positions, casing, entry, report>>

EditHit ==
  /\ Editing
  /\ LET key == Key(text, Here, budget)
     IN  key \in DOMAIN cache /\ Collect(Rebase(cache[key], Here, budget))
  /\ UNCHANGED cache

\* HashMap::insert
WithEntry(map, key, value) == [k \in DOMAIN map \cup {key} |-> IF k = key THEN value ELSE map[k]]

Record(key, outcome) ==
  /\ cache' = WithEntry(cache, key, FromOutcome(outcome, Here))
  /\ Collect(outcome)

EditMiss ==
  /\ Editing
  /\ LET key == Key(text, Here, budget)
     IN  key \notin DOMAIN cache /\ Record(key, GenerateSentence(text, Here, budget))

\* Where a pass leads: out of the loop once it converged or was the last.
AfterPass(accepted, made) ==
  IF accepted = <<>> \/ made = MAX_PASSES THEN "restructure" ELSE "segment"

EndPass ==
  LET pass == PassReport(text, candidates, held)
  IN  /\ phase = "edit" /\ next > Len(positions)
      /\ passes' = Append(passes, pass)
      /\ text' = ApplyPatches(text, pass.patches)
      /\ phase' = AfterPass(pass.patches, Len(passes'))
      /\ finalBounded' = Len(passes')
      /\ entry' = budget
      /\ UNCHANGED <<rate, run, given, walk, budget, cache>>

EndRestructure(pass) ==
  /\ passes' = Append([passes EXCEPT ![Len(passes)].held = Retained(@, pass.patches)], pass)
  /\ text' = ApplyPatches(text, pass.patches)
  /\ phase' = "done"

RestructurePass ==
  /\ phase = "restructure"
  /\ EndRestructure(RestructureReport(text))
  /\ UNCHANGED <<rate, run, given, walk, budget, entry, cache, finalBounded>>

\* The next call, on what this one returned.
FixAgain ==
  /\ phase = "done"
  /\ run' = IF run < MaxRuns THEN run + 1 ELSE run
  /\ given' = text /\ phase' = "segment"
  /\ positions' = <<>> /\ casing' = <<>> /\ next' = 1
  /\ candidates' = <<>> /\ held' = {} /\ declined' = 0
  /\ budget' = ForDocument(WordCount(text), rate) /\ entry' = budget'
  /\ cache' = <<>> /\ passes' = <<>> /\ finalBounded' = 0
  /\ UNCHANGED <<rate, text>>

Next == Segment \/ EditHit \/ EditMiss \/ EndPass \/ RestructurePass \/ FixAgain

\* A call runs to its end, and there is always a next one: nothing here waits.
\* One of the actions is always enabled, so this is weak fairness of Next, said
\* without ENABLED.
Spec == Init /\ [][Next]_vars /\ []<><<Next>>_vars

-----------------------------------------------------------------------------
\* The detailed walk implements whole passes without a cache: a hit gives the
\* edits and takes the budget that generating the sentence anew would have,
\* wherever the sentence stands and however much budget is left
\* (GenerationKey's doc).  Holds are left out: a hit does not keep them.
FreshEdits(source, evidence, position, room) ==
  Settled(source, position, GenerateSentence(source, position, room), evidence)
AfterRestructure(source) == ApplyPatches(source, RestructureReport(source).patches)
Allowance(source, calibration) == ForDocument(WordCount(source), calibration)
PassesMade ==
  IF phase = "done" THEN MAX_PASSES + 1 ELSE IF phase = "restructure" THEN MAX_PASSES ELSE Len(passes)

Promised == INSTANCE BoundedPasses WITH
  Sentences <- Positions,
  CasingOf <- Casing,
  Accepted <- Resolve,
  Applied  <- ApplyPatches,
  budget <- entry,
  made   <- PassesMade

ImplementsBoundedPasses == Promised!Spec

\* The edits this pass has decided on and not yet made.
Pending ==
  CASE phase = "edit"        -> candidates
    [] phase = "restructure" -> RestructureReport(text).patches
    [] OTHER                 -> <<>>

Counting(rules, patches) == Len(SelectSeq(patches, LAMBDA p : p.rule \in rules))

\* The budget is charged for exactly the pivots and dejusts that are made, over
\* both passes and through the cache, and resolve drops none that was charged.
BudgetSpentIsApplied ==
  LET made == FoldLeft(LAMBDA sum, pass : sum + Counting({PIVOT, DEJUST}, pass.patches), 0, passes)
      now  == IF phase = "edit" THEN Counting({PIVOT, DEJUST}, candidates) ELSE 0
  IN  budget + made + now = ForDocument(WordCount(given), rate)

\* The guards of the sentences visited, at their place in the text.
GuardsSeen ==
  UNION {{Shift(g, positions[i].start) : g \in OfKind(FrameMatches(Slice(text, positions[i])), {"guard"})} :
           i \in 1..next - 1}

\* A construction of a frame rule that names the guarded word.
NamedBy(p, g) ==
  \E k \in DOMAIN FrameRules : \E at \in Matches(Slice(text, p), FrameRules[k].pattern) :
    /\ at = 0 /\ FrameRules[k].kind = "rewrite"
    /\ Lower(text[g.start + 1]) \in {FrameRules[k].pattern[j] : j \in DOMAIN FrameRules[k].pattern}

\* No ritual deletion and no frame rule takes a guarded word, unless the rule
\* names that word: whatever earlier stages have made of the sentence around
\* it, and whichever neighbour's separator a deletion takes along.
GuardedWordsSurvive ==
  phase = "edit" =>
    \A g \in GuardsSeen, i \in DOMAIN candidates :
      candidates[i].rule \in {RITUAL, FRAME} /\ RangesOverlap(candidates[i], g)
        => NamedBy(candidates[i], g)

\* The quotation marks of one sentence, paired from the left.
Quotations(position) ==
  LET marks == {k \in position.start + 1 .. position.end : text[k] = Quote}
      odd   == {k \in marks : Cardinality({j \in marks : j < k}) % 2 = 0}
  IN  {Span(k - 1, Min({j \in marks : j > k})) : k \in {o \in odd : \E j \in marks : j > o}}

\* Text quoted inside one sentence is left alone by every operation but the
\* deletion of the whole sentence: no widening, recapitalization or split
\* reaches into it either.
QuotedTextIsKept ==
  \A p \in Range(Pending) : p.rule # RITUAL =>
    \A position \in Range(Positions(text)) :
      \A quotation \in Quotations(position) : ~RangesOverlap(p, quotation)

\* No call leaves a bare item marker, though each sentence of an item is judged
\* alone: two ritual sentences of an item are never both deleted.
ItemsKeepContent ==
  \A i \in DOMAIN text : text[i] = Item =>
    \E j \in i + 1 .. Len(text) :
      text[j] # Space /\ \A k \in i + 1 .. j : text[k] \notin BlockStarts

\* The accepted patches leave nothing that stands before the word in its sentence.
OpensWhatIsLeft(accepted, p, position) ==
  \A k \in position.start .. p.start - 1 : \E i \in DOMAIN accepted :
    accepted[i].text = <<>> /\ accepted[i].start <= k /\ k < accepted[i].end

\* A word the pass gives a capital opens what the pass leaves of its sentence,
\* whichever candidates of the sentence or of its neighbours were rejected for
\* overlapping; the sentence is not the end of one that a code span has cut, as
\* the text the pass was given goes; and if the word opened it there too, the
\* text has it in lower case nowhere else (doc of DocumentCasing).  More is
\* held than that doc says: capitalized words count as lowercase evidence.  And
\* "only a genuine sentence start gets its leading letter capitalized"
\* (sentence.rs:549-550) is not true of the text the pass produces: when it
\* also deletes the sentences between the code span and this one, the capital
\* stands in the middle of the sentence the span has cut.
RecapitalizedOpensSentence ==
  phase = "edit" /\ next > Len(positions) =>
    LET accepted == Resolve(text, candidates)
    IN  \A i \in DOMAIN accepted : accepted[i].rule = RECAPITALIZE =>
          LET p == accepted[i]
              position == CHOOSE q \in Range(positions) : q.start <= p.start /\ p.end <= q.end
          IN  /\ OpensWhatIsLeft(accepted, p, position)
              /\ LastBefore(text, position.start, {Space, Code, Quote}) \in BlockStarts \cup Terminal
              /\ p.start = position.start =>
                   \A k \in DOMAIN text : text[k] = text[p.start + 1] => k = p.start + 1

\* No pass leaves more sentences without a finite verb than it found, though
\* several edits of a sentence are gated one by one.
Clauseless(source) ==
  Len(SelectSeq(Positions(source), LAMBDA position : ~ClauseOk(Slice(source, position))))
NoClauseLost == [][Clauseless(text') <= Clauseless(text)]_text

\* Called again and again on its own output, edit_document comes to make every
\* rewrite it ever held for want of budget: a positive calibration always
\* leaves room for one.
BudgetHoldsEnd ==
  <>[](rate > 0 \/ rate = Uncalibrated => \A h \in held : h.why # "budget")

RebaseOver(r, pass) == RebaseRange(r, pass.patches)

\* EditReport::remaining_held: the holds of the last bounded pass and of the
\* passes after it, carried into the text the call returns.
RemainingHeld ==
  UNION {{LET r == FoldLeft(RebaseOver, Span(h.start, h.end), SubSeq(passes, k, Len(passes)))
          IN  [rule |-> h.rule, why |-> h.why, start |-> r.start, end |-> r.end] : h \in passes[k].held} :
           k \in finalBounded..Len(passes)}
=============================================================================
