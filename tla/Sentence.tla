------------------------------ MODULE Sentence ------------------------------
(***************************************************************************)
(* The six operations of the sentence pipeline (friction-edit/src/         *)
(* sentence.rs, gates.rs, nearnoop.rs) as operators on one sentence:       *)
(* ritual deletion, paired substitution, derivational pivot, gated span    *)
(* deletion, frame dejust, frame rewrite, and recapitalization.            *)
(*                                                                         *)
(* The packs are parameters.  A word, or a phrase a pattern always takes   *)
(* whole, is one symbol; so is a space and a punctuation mark.  A pattern  *)
(* is a sequence of symbols.  What the tagger and the attestation tables   *)
(* answer is given by sets of symbols and of pairs of symbols.  Texts hold *)
(* no indefinite article and no curly quotation mark (repair_article is    *)
(* the identity on them).                                                  *)
(***************************************************************************)
EXTENDS Spans, Prose

CONSTANTS
  Capital,        \* [lowercase word -> its capitalized form]
  Verbs,          \* words the tagger gives a finite-verb tag
  Unattested,     \* pairs <<left, right>> the bigram table does not attest
  OddSkeletons,   \* pairs whose skeleton window is not attested
  Rituals,        \* sequence of [frame, diagnostic]
  Substitutions,  \* sequence of [pattern, text]
  Constructions,  \* [light-verb construction -> derived verb, or Rejected]
  Prepositions,   \* words whose complement the derived verb was not tried with
  DeletionSpans,  \* sequence of [pattern, diagnostic, vetoes]
  FrameRules,     \* sequence of [kind, pattern, targets], by support descending, then id
  Unlimited       \* bound: stands for u32::MAX, more takes than any text has

ASSUME PackAssumption ==
  /\ Unlimited \in Nat
  /\ IsSequence(Substitutions) /\ IsSequence(DeletionSpans) /\ IsSequence(FrameRules)
  /\ \A k \in DOMAIN Substitutions : IsSequence(Substitutions[k].pattern) /\ IsSequence(Substitutions[k].text)
  /\ \A k \in DOMAIN DeletionSpans : IsSequence(DeletionSpans[k].pattern)
  /\ \A k \in DOMAIN FrameRules :
       /\ IsSequence(FrameRules[k].pattern) /\ IsSequence(FrameRules[k].targets)
       /\ \A j \in DOMAIN FrameRules[k].targets : IsSequence(FrameRules[k].targets[j])

Slot == "*"              \* in a frame pattern: any one word
Rejected == "rejected"   \* a light verb in a shape the pivot must not touch

IsWord(sym) == sym # Space /\ sym \notin Punctuation

\* The packs put in no quotation mark.  A frame pattern is never empty and opens
\* on a word or a mark, and the word a target copies is one its pattern has.
HasQuote(text) == \E i \in DOMAIN text : text[i] = Quote
HasSlot(text) == \E i \in DOMAIN text : text[i] = Slot

ASSUME QuoteAssumption ==
  /\ \A w \in DOMAIN Capital : IsWord(w) /\ IsWord(Capital[w])
  /\ \A k \in DOMAIN Substitutions : ~HasQuote(Substitutions[k].text)
  /\ \A w \in DOMAIN Constructions : Constructions[w] # Quote
  /\ \A k \in DOMAIN FrameRules :
       /\ FrameRules[k].pattern # <<>> /\ FrameRules[k].pattern[1] # Space
       /\ \A j \in DOMAIN FrameRules[k].targets :
            /\ ~HasQuote(FrameRules[k].targets[j])
            /\ HasSlot(FrameRules[k].targets[j]) => HasSlot(FrameRules[k].pattern)

CapitalForms == {Capital[w] : w \in DOMAIN Capital}
Lower(sym) == IF sym \in CapitalForms THEN CHOOSE w \in DOMAIN Capital : Capital[w] = sym ELSE sym

\* gates::capitalize
Capitalized(text) ==
  IF text # <<>> /\ text[1] \in DOMAIN Capital THEN <<Capital[text[1]]>> \o Tail(text) ELSE text

\* tokenize_str: words and marks, no quotation marks.
Tokens(text) == SelectSeq(text, LAMBDA sym : sym \notin {Space, Quote})

\* The offsets where a pattern matches, case-insensitively.
Fits(cell, sym) == IF cell = Slot THEN IsWord(sym) ELSE cell = Lower(sym)
Matches(text, pattern) ==
  {at \in 0..Len(text) - Len(pattern) : \A k \in 1..Len(pattern) : Fits(pattern[k], text[at + k])}

\* The least number, as a set of at most one.
FirstOf(numbers) == IF numbers = {} THEN {} ELSE {Min(numbers)}

-----------------------------------------------------------------------------
(***************************************************************************)
(* Gates (gates.rs).                                                       *)
(***************************************************************************)
QuotesBefore(text, offset) == Cardinality({i \in 1..offset : text[i] = Quote})

\* Mutant: only a span that holds a mark itself is thought quoted.
MarkInside(text, r) == \E i \in r.start + 1 .. r.end : text[i] = Quote

\* in_quoted_span: the span holds a quotation mark, or an odd number of them
\* precedes it in the text of this sentence.
InQuotedSpan(text, r) ==
  \/ \E i \in r.start + 1 .. r.end : text[i] = Quote
  \/ QuotesBefore(text, r.start) % 2 = 1

ClauseOk(text) == \E i \in DOMAIN text : Lower(text[i]) \in Verbs

\* Mutant: what an edit leaves is not looked at.
NoClauseGate(text, hadClause) == TRUE
ClauseGate(text, hadClause) == ClauseOk(text) \/ ~hadClause

Attested(left, right) == <<Lower(left), Lower(right)>> \notin Unattested
\* The window of coarse tags at a place, known by the two tokens around it; the
\* quotation marks, which the tagger does see, are left out of it.
SkeletonAttested(left, right) == <<Lower(left), Lower(right)>> \notin OddSkeletons

Before(text, offset) == Tokens(SubSeq(text, 1, offset))
After(text, offset) == Tokens(SubSeq(text, offset + 1, Len(text)))
LastOr(tokens, none) == IF tokens = <<>> THEN none ELSE tokens[Len(tokens)]
FirstOr(tokens, none) == IF tokens = <<>> THEN none ELSE tokens[1]

\* check_deletion_gates: a sentence-initial span and one before a full stop
\* need no attested seam.
DeletionAllowed(text, r, hadClause) ==
  LET pre   == Before(text, r.start)
      post  == After(text, r.end)
      left  == LastOr(pre, "<s>")
      right == FirstOr(post, ".")
  IN  /\ pre = <<>> \/ right = "." \/ Attested(left, right)
      /\ ClauseGate(pre \o post, hadClause)
      /\ SkeletonAttested(left, right)

\* How many leading symbols two token sequences share.
CommonPrefix(a, b) ==
  Max({n \in 0..Min({Len(a), Len(b)}) : \A i \in 1..n : Lower(a[i]) = Lower(b[i])})

\* The seams on both sides of a changed core, the clause, and the skeleton
\* around the core.
CoreAllowed(before, core, after, hadClause) ==
  /\ before # <<>> /\ core # <<>> => Attested(LastOr(before, "<s>"), core[1])
  /\ core # <<>> /\ FirstOr(after, ".") # "." => Attested(core[Len(core)], after[1])
  /\ ClauseGate(before \o core \o after, hadClause)
  /\ SkeletonAttested(LastOr(before, "<s>"), FirstOr(core \o after, "."))

\* check_rewrite_gates: the core is what the two texts do not share.
RewriteAllowed(text, r, replacement, hadClause) ==
  LET old    == Tokens(Slice(text, r))
      new    == Tokens(replacement)
      prefix == CommonPrefix(old, new)
      oldEnd == SubSeq(old, prefix + 1, Len(old))
      newEnd == SubSeq(new, prefix + 1, Len(new))
      suffix == CommonPrefix(Reverse(oldEnd), Reverse(newEnd))
  IN  CoreAllowed(Before(text, r.start) \o SubSeq(old, 1, prefix),
                  SubSeq(new, prefix + 1, Len(new) - suffix),
                  SubSeq(old, Len(old) - suffix + 1, Len(old)) \o After(text, r.end),
                  hadClause)

\* substitution_clause_gate: the rewritten text keeps a clause, or the match
\* itself took one of the original sentence's finite verbs.
SubstitutionAllowed(original, matched, candidate) ==
  \/ ~ClauseOk(original)
  \/ ClauseOk(candidate)
  \/ \E i \in DOMAIN matched, j \in DOMAIN original :
       Lower(original[j]) \in Verbs /\ Lower(matched[i]) = Lower(original[j])

\* opens_sentence
OpensSentence(text, offset) == LastBefore(text, offset, {Space}) \in Terminal \cup {Break}

-----------------------------------------------------------------------------
(***************************************************************************)
(* The state one run of the stages carries: the splicer (cells, patches),  *)
(* what was held, the pivot budget, and whether the pivot loop has broken. *)
(* A hold names its rule, its reason and its span in the sentence.         *)
(* `declined' counts the edits the splicer refused; a debug build panics   *)
(* there.                                                                  *)
(***************************************************************************)
Work(text, budget) ==
  [text |-> text, cells |-> OriginalCells(text), patches |-> <<>>, held |-> {},
   budget |-> budget, pivoted |-> FALSE, declined |-> 0]

\* Holds on the whole sentence.
HoldAll(s, rule, whys) ==
  [s EXCEPT !.held = @ \cup {[rule |-> rule, why |-> why, start |-> 0, end |-> Len(s.text)] : why \in whys}]
Hold(s, rule, why) == HoldAll(s, rule, {why})

\* SentenceSplicer::apply
Spliced(s, r, text, rule) ==
  IF CanEdit(s.cells, r)
  THEN LET removed == RemovedSpan(s.cells, r)
       IN  [s EXCEPT !.cells = Edited(@, r, text),
                     !.patches = Append(@, Patch(removed.start, removed.end, text, rule))]
  ELSE [s EXCEPT !.declined = @ + 1]

SplicedPatch(s, p) == Spliced(s, p, p.text, p.rule)
SplicedAll(s, edits) == FoldLeft(SplicedPatch, s, edits)

\* Rule ids as their ranks in string order, the order resolve breaks ties by.
\* One rank stands for the ids of all frame rules.
RECAPITALIZE == 1
DEJUST == 2
FRAME == 3
PIVOT == 4
RESTRUCTURE == 5
RITUAL == 6
SPAN == 7
SUB == 8

\* PivotBudget::for_document, for a calibrated number of edits per thousand
\* words, rounded up, or without a calibration.
Uncalibrated == -1

\* Mutant: rounded down.
RoundedDown(words, rate) ==
  IF rate = Uncalibrated THEN Unlimited ELSE (rate * words) \div 1000

ForDocument(words, rate) ==
  IF rate = Uncalibrated THEN Unlimited ELSE (rate * words + 999) \div 1000

\* PivotBudget::try_take
CanTake(budget) == budget > 0
Taken(budget) == IF CanTake(budget) THEN budget - 1 ELSE budget

-----------------------------------------------------------------------------
\* Operation 3, paired substitution (run_substitution).
SubstitutionRange(pair, at) == Span(at, at + Len(pair.pattern))

QuotedMatches(working, pair) ==
  {at \in Matches(working, pair.pattern) : InQuotedSpan(working, SubstitutionRange(pair, at))}

\* The gate on all the matches of a pair: what becomes of the text, and what
\* the first match holds.
SubstitutionPasses(original, working, pair) ==
  LET found == Matches(working, pair.pattern)
      RewrittenAt(text, at) ==
        ReplaceRange(text, Patch(at, at + Len(pair.pattern), pair.text, SUB))
      candidate == FoldLeft(RewrittenAt, working, Reverse(InOrder(found, Len(working))))
  IN  SubstitutionAllowed(original, Slice(working, SubstitutionRange(pair, Min(found))), candidate)

SubstitutionText(working, pair, at) ==
  IF OpensSentence(working, at) /\ working[at + 1] \in CapitalForms
  THEN Capitalized(pair.text) ELSE pair.text

\* The edits of a pair, from the right; quoted matches are left alone.
SubstitutionEdits(working, pair) ==
  LET order == Reverse(InOrder(Matches(working, pair.pattern) \ QuotedMatches(working, pair), Len(working)))
  IN  [k \in DOMAIN order |-> Patch(order[k], order[k] + Len(pair.pattern),
                                    SubstitutionText(working, pair, order[k]), SUB)]

Substituted(s, pair) ==
  LET working == Symbols(s.cells)
      noted   == IF QuotedMatches(working, pair) = {} THEN s ELSE Hold(s, SUB, "quoted")
  IN  IF Matches(working, pair.pattern) = {} THEN s
      ELSE IF ~SubstitutionPasses(s.text, working, pair) THEN Hold(s, SUB, "clause")
      ELSE SplicedAll(noted, SubstitutionEdits(working, pair))

SubstitutionStage(s) == FoldLeft(Substituted, s, Substitutions)

-----------------------------------------------------------------------------
\* Operation 4, derivational pivot (run_pivot): one turn of its loop.
DerivedVerb(text, at) == Constructions[Lower(text[at + 1])]

\* What the turn does at the construction its scan stops at.
PivotAt(s, working, at) ==
  LET derived == <<DerivedVerb(working, at)>>
      verb == IF at = 0 /\ working[1] \in CapitalForms THEN Capitalized(derived) ELSE derived
      broken == [s EXCEPT !.pivoted = TRUE]
  IN  IF derived = <<Rejected>> THEN broken
      ELSE IF ~CanTake(s.budget) THEN Hold(broken, PIVOT, "budget")
      ELSE Spliced([s EXCEPT !.budget = Taken(@)], Span(at, at + 1), verb, PIVOT)

\* The constructions the scan stops at, and why it passes over those before.
PivotScan(working) ==
  LET heads   == {at \in 0..Len(working) - 1 : Lower(working[at + 1]) \in DOMAIN Constructions}
      Quoted(at) == InQuotedSpan(working, Span(at, at + 1))
      OverPreposition(at) == Lower(FirstOr(After(working, at + 1), ".")) \in Prepositions
      passed  == {at \in heads : DerivedVerb(working, at) # Rejected /\ (Quoted(at) \/ OverPreposition(at))}
      stops   == heads \ passed
      seen    == {at \in passed : \A stop \in stops : at < stop}
  IN  [stops |-> stops, whys |-> {IF Quoted(at) THEN "quoted" ELSE "preposition" : at \in seen}]

PivotOnce(s) ==
  LET working == Symbols(s.cells)
      scan    == PivotScan(working)
      noted   == HoldAll(s, PIVOT, scan.whys)
  IN  IF s.pivoted THEN s
      ELSE IF scan.stops = {} THEN [noted EXCEPT !.pivoted = TRUE]
      ELSE PivotAt(noted, working, Min(scan.stops))

\* At most two pivots in one sentence.
PivotStage(s) == PivotOnce(PivotOnce(s))

-----------------------------------------------------------------------------
\* Operation 2, gated span deletion (run_deletion).
SpanDeleted(s, span) ==
  LET working == Symbols(s.cells)
      found   == Matches(working, span.pattern)
      r       == Span(Min(found), Min(found) + Len(span.pattern))
      follower == FirstOr(After(working, r.end), ".")
  IN  IF found = {} THEN s
      ELSE IF span.diagnostic THEN Hold(s, SPAN, "diagnostic")
      ELSE IF Lower(follower) \in span.vetoes THEN Hold(s, SPAN, "idiom")
      ELSE IF InQuotedSpan(working, r) THEN Hold(s, SPAN, "quoted")
      ELSE IF DeletionAllowed(working, r, ClauseOk(s.text)) THEN Spliced(s, r, <<>>, SPAN)
      ELSE Hold(s, SPAN, "gate")

DeletionStage(s) == FoldLeft(SpanDeleted, s, DeletionSpans)

-----------------------------------------------------------------------------
(***************************************************************************)
(* Operation 5, frame dejust (run_frame_dejust, friction-match/src/        *)
(* frame.rs): in "is X just Y or Z?" the marker goes.                      *)
(***************************************************************************)
\* marker_is_guarded: "not just", "just as", "just now" dismiss nothing.
MarkerGuarded(text, at) ==
  \/ Lower(LastOr(Before(text, at), ".")) = "not"
  \/ Lower(FirstOr(After(text, at + 1), ".")) \in MarkerFollowerGuard

\* find_contrast_question: the offset of the licensing marker, as a set.
ContrastMarker(text) ==
  LET Offsets(words) == {at \in 0..Len(text) - 1 : Lower(text[at + 1]) \in words}
      aux  == Offsets(QuestionAuxiliaries)
      ors  == {at \in Offsets({"or"}) : aux # {} /\ at > Min(aux)}
      Between(first, or) ==
        {at \in Offsets(DismissiveMarkers) : first < at /\ at < or /\ ~MarkerGuarded(text, at)}
  IN  IF LastOr(Tokens(text), ".") = "?" /\ ors # {} /\ Len(After(text, Min(ors) + 1)) >= 2
      THEN FirstOf(Between(Min(aux), Min(ors))) ELSE {}

\* extend_over_one_adjacent_space
WithOneSpace(text, r) ==
  IF r.end < Len(text) /\ text[r.end + 1] = Space THEN Span(r.start, r.end + 1)
  ELSE IF r.start > 0 /\ text[r.start] = Space THEN Span(r.start - 1, r.end)
  ELSE r

DejustAt(s, working, r) ==
  IF InQuotedSpan(working, r) THEN Hold(s, DEJUST, "quoted")
  ELSE IF ~CanTake(s.budget) THEN Hold(s, DEJUST, "budget")
  ELSE Spliced([s EXCEPT !.budget = Taken(@)], WithOneSpace(working, r), <<>>, DEJUST)

DejustMarker(working) == {at \in ContrastMarker(working) : Lower(working[at + 1]) \in DejustMarkers}

DejustStage(s) ==
  LET working == Symbols(s.cells)
      found   == DejustMarker(working)
  IN  IF found = {} THEN s ELSE DejustAt(s, working, Span(Min(found), Min(found) + 1))

-----------------------------------------------------------------------------
(***************************************************************************)
(* Operation 6, frame rewriting (run_frame_rewrite).                       *)
(***************************************************************************)
Meets(a, b) == a.start < b.end /\ b.start < a.end

\* frame_rewrite::scan_sentence
FrameMatches(text) ==
  UNION {{[rule |-> k, start |-> at, end |-> at + Len(FrameRules[k].pattern)] :
            at \in Matches(text, FrameRules[k].pattern)} : k \in DOMAIN FrameRules}

OfKind(matches, kinds) == {m \in matches : FrameRules[m.rule].kind \in kinds}

\* construction_names_guarded_word: a one-word guard gives way to an edit
\* whose pattern names that very word.
NamesGuardedWord(m, g) ==
  g.end = g.start + 1 /\ FrameRules[m.rule].pattern[g.start - m.start + 1] # Slot

Vetoed(m, guards) == \E g \in guards : Meets(m, g) /\ ~NamesGuardedWord(m, g)

\* frame_rewrite::resolve: leftmost, then longest, then the support and the id
\* of the rule, which the order of FrameRules stands for.
FrameBefore(a, b) ==
  \/ a.start < b.start
  \/ a.start = b.start /\ a.end > b.end
  \/ a.start = b.start /\ a.end = b.end /\ a.rule < b.rule
KeepApart(kept, m) == IF \E i \in DOMAIN kept : Meets(kept[i], m) THEN kept ELSE Append(kept, m)
SortFrame(sorted, m) == SortInto(sorted, m, FrameBefore)
FrameOrder(matches) == FoldLeft(SortFrame, <<>>, SetToSeq(matches))
FrameResolve(matches) == FoldLeft(KeepApart, <<>>, FrameOrder(matches))

\* widen_deletion: one adjacent space goes with a deleted word.
WidenDeletion(text, r) ==
  LET joins == r.end = Len(text) \/ text[r.end + 1] \in {Space, ".", ",", "?"}
  IN  IF r.start > 0 /\ text[r.start] = Space /\ joins THEN Span(r.start - 1, r.end)
      ELSE IF r.end < Len(text) /\ text[r.end + 1] = Space THEN Span(r.start, r.end + 1)
      ELSE r

\* realize_template: a slot of the template takes the word the pattern's slot
\* matched.
Realized(text, m, template) ==
  LET slot == CHOOSE k \in DOMAIN FrameRules[m.rule].pattern : FrameRules[m.rule].pattern[k] = Slot
  IN  [k \in DOMAIN template |-> IF template[k] = Slot THEN text[m.start + slot] ELSE template[k]]

Cased(text, at, replacement) ==
  IF OpensSentence(text, at) THEN Capitalized(replacement) ELSE replacement

\* plan_frame_candidate: the edit of a candidate every gate lets through, as a
\* set of at most one plan.  The first target of the ladder to pass is taken.
Plans(text, hadClause, m) ==
  LET rule == FrameRules[m.rule]
      base == Span(m.start, m.end)
      Target(k) == Realized(text, m, rule.targets[k])
  IN  IF InQuotedSpan(text, base) THEN {}
      ELSE IF rule.kind = "delete"
        THEN IF DeletionAllowed(text, base, hadClause)
             THEN {[range |-> WidenDeletion(text, base), base |-> base, text |-> <<>>]} ELSE {}
      ELSE {[range |-> base, base |-> base, text |-> Cased(text, m.start, Target(k))] :
              k \in FirstOf({k \in DOMAIN rule.targets : RewriteAllowed(text, base, Target(k), hadClause)})}

\* apply_frame_plan: a widening that crosses an earlier edit is given up.
FramePlanApplied(s, plan) ==
  IF CanEdit(s.cells, plan.range) THEN Spliced(s, plan.range, plan.text, FRAME)
  ELSE IF CanEdit(s.cells, plan.base) THEN Spliced(s, plan.base, plan.text, FRAME)
  ELSE s
FramePlansApplied(s, plans) == FoldLeft(FramePlanApplied, s, plans)

\* The edits among a text's frame matches that no guard vetoes.
FrameEdits(matches) ==
  {m \in OfKind(matches, {"rewrite", "delete"}) : ~Vetoed(m, OfKind(matches, {"guard"}))}

\* The plans of the edits every gate lets through, from the right, and the
\* edits the gates refuse.
FrameScan(working, hadClause) ==
  LET edits  == FrameEdits(FrameMatches(working))
      plans  == [m \in edits |-> Plans(working, hadClause, m)]
      viable == {m \in edits : plans[m] # {}}
      order  == Reverse(FrameResolve(viable))
  IN  [plans   |-> [k \in DOMAIN order |-> CHOOSE p \in plans[order[k]] : TRUE],
       refused |-> {[rule |-> FRAME, why |-> "gate", start |-> m.start, end |-> m.end] :
                      m \in Range(FrameResolve(edits)) \ viable}]

FrameStage(s) ==
  LET scan == FrameScan(Symbols(s.cells), ClauseOk(s.text))
  IN  FramePlansApplied([s EXCEPT !.held = @ \cup scan.refused], scan.plans)
=============================================================================
