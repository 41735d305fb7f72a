------------------------------- MODULE Findings -------------------------------
(* friction-match's channels over one document, and the two reports made of  *)
(* them: every span for friction check (MatchEngine::scan), regions for      *)
(* friction fix (scan_paraphrase_spans), which may reuse the tags the        *)
(* register pass computed.  A document is a sequence of prose units          *)
(* [scoped, label, sentences], a sentence one of words and punctuation.  The *)
(* differential-matching channel is module Dms: here any runs of tokens.     *)
EXTENDS Integers, Sequences, SequencesExt, FiniteSets, FiniteSetsExt, Prose

CONSTANTS
  Documents,
  Runs,         \* sets of [first, last, score] the Dms channel may report
  Folded,       \* capitalized word |-> word in lower case
  Tags,         \* word |-> part-of-speech tag
  HeadWords, Exceptions,              \* jargon pack: words, compounds
  LightVerbs, Lexicon, PluralNouns,   \* word |-> form; nouns; plural |-> noun
  LetterWords,  \* the words of three ASCII letters or more
  Envelope,     \* word |-> occurrences in Scale words that are still human
  Scale, MinDocTokens, MinOccurrences,
  Inventory     \* sequence of [id, phrase, plain, initial, unless]: deletions, substitutions

VARIABLES
  step,         \* what runs next: "read", "check", "fix", "done"
  units,        \* the prose units in scope
  stream,       \* their tokens, each with its place
  runs, tagged, checked, fixed

vars == <<step, units, stream, runs, tagged, checked, fixed>>

Init ==
  /\ step = "read" /\ units = << >> /\ stream = << >> /\ runs = {}
  /\ tagged = << >> /\ checked = {} /\ fixed = << >>

-----------------------------------------------------------------------------
Marks == {".", ",", ";", "?", "--"}
Lower(w) == IF w \in DOMAIN Folded THEN Folded[w] ELSE w

(* prose_scope: the units in scope, each token with its place in the text; *)
(* a mark follows a word without a space.                                  *)
Laid(scope) ==
  LET Place(laid, t) ==
        LET start == IF laid = << >> THEN 0
                     ELSE laid[Len(laid)].end + (IF t.word \in Marks THEN 0 ELSE 1)
        IN Append(laid, [word |-> t.word, unit |-> t.unit, sentence |-> t.sentence,
                         start |-> start, end |-> start + 1])
      Spread(u) == FlattenSeq([s \in DOMAIN scope[u].sentences |->
                     [i \in DOMAIN scope[u].sentences[s] |->
                       [word |-> scope[u].sentences[s][i], unit |-> u, sentence |-> s]]])
  IN FoldLeft(Place, << >>, FlattenSeq([u \in DOMAIN scope |-> Spread(u)]))

InUnit(u) == SelectSeq(stream, LAMBDA t : t.unit = u)
Of(u, s) == SelectSeq(stream, LAMBDA t : t.unit = u /\ t.sentence = s)

Span(from, to, channel, frame, score) ==
  [start |-> from.start, end |-> to.end, channel |-> channel, frame |-> frame, score |-> score]

DmsSpans == {Span(stream[r.first], stream[r.last], 1, "dms.machine", r.score) : r \in runs}

-----------------------------------------------------------------------------
(* The literal channel: plain phrases are found by one automaton, leftmost  *)
(* longest and never twice in the same words, over a whole unit; the others *)
(* one by one in every sentence.                                            *)
Covered == {e \in DOMAIN Inventory : Inventory[e].plain /\ ~Inventory[e].initial}
At(words, i, phrase) ==
  i + Len(phrase) - 1 <= Len(words) /\ \A k \in DOMAIN phrase : Lower(words[i + k - 1]) = phrase[k]
FollowerVetoes(e, words, end) ==
  end < Len(words) /\ Lower(words[end + 1]) \in Inventory[e].unless

Automaton(words) ==
  LET find[i \in 1 .. Len(words) + 1] ==
        LET here == {e \in Covered : i <= Len(words) /\ At(words, i, Inventory[e].phrase)}
            best == CHOOSE e \in here : \A f \in here \ {e} :
                      \/ Len(Inventory[e].phrase) > Len(Inventory[f].phrase)
                      \/ Len(Inventory[e].phrase) = Len(Inventory[f].phrase) /\ e < f
            end == i + Len(Inventory[best].phrase) - 1
        IN IF i > Len(words) THEN {}
           ELSE IF here = {} THEN find[i + 1]
           ELSE find[end + 1] \cup
                  (IF FollowerVetoes(best, words, end) THEN {} ELSE {<<i, end, best>>})
  IN find[1]

FindIter(words, e) ==
  LET find[i \in 1 .. Len(words) + 1] ==
        IF i > Len(words) \/ (Inventory[e].initial /\ i > 1) THEN {}
        ELSE IF ~At(words, i, Inventory[e].phrase) THEN find[i + 1]
        ELSE LET end == i + Len(Inventory[e].phrase) - 1 IN {<<i, end, e>>} \cup find[end + 1]
  IN find[1]

WordsOf(tokens) == [i \in DOMAIN tokens |-> tokens[i].word]
Literal(tokens, found) ==
  {Span(tokens[m[1]], tokens[m[2]], 2, Inventory[m[3]].id, 0) : m \in found}
LiteralSpans ==
  UNION {LET tokens == InUnit(u)
         IN Literal(tokens, Automaton(WordsOf(tokens)))
           \cup UNION {LET own == Of(u, s) IN
                  UNION {Literal(own, FindIter(WordsOf(own), e)) : e \in DOMAIN Inventory \ Covered} :
                    s \in DOMAIN units[u].sentences} : u \in DOMAIN units}

-----------------------------------------------------------------------------
(* The frame channel.  The tokens of a sentence are found with a cursor that *)
(* only walks forward over the tokens of the unit.                           *)
Windows(u) ==
  LET all == InUnit(u)
      Skip(i, from) == Min({k \in i .. Len(all) + 1 : k > Len(all) \/ all[k].end >= from})
      Window(walk, s) ==
        LET from == Of(u, s)[1].start
            to == Of(u, s)[Len(Of(u, s))].end
            i == Skip(walk.at, from)
        IN [at |-> i, found |-> Append(walk.found,
              SelectSeq(SubSeq(all, i, Len(all)), LAMBDA t : t.start >= from /\ t.end <= to))]
  IN FoldLeft(Window, [at |-> 1, found |-> << >>],
              [s \in DOMAIN units[u].sentences |-> s]).found

Has(words, i, set) == i \in DOMAIN words /\ Lower(words[i]) \in set
Guarded(words, i) == Has(words, i - 1, {"not"}) \/ Has(words, i + 1, MarkerFollowerGuard)
FindContrastQuestion(tokens) ==
  LET words == WordsOf(tokens)
      Where(set) == {i \in DOMAIN words : Has(words, i, set)}
      aux == Where(QuestionAuxiliaries)
      ors == {i \in Where({"or"}) : aux # {} /\ i > Min(aux)}
      n == Len(words)
      marked == {i \in Where(DismissiveMarkers) :
                   ors # {} /\ Min(aux) < i /\ i < Min(ors) /\ ~Guarded(words, i)}
  IN IF n > 0 /\ words[n] = "?" /\ marked # {} /\ Min(ors) + 1 < n
     THEN {Span(tokens[Min(aux)], tokens[n], 4, "frame.contrast.question", 0)} ELSE {}

ItIs == {"it's"}
Restates == {"it's", "they're"}
NegatedCopula == {"isn't", "aren't"}
MaxSetupWords == 10
(* The correction templates within one sentence: where the span begins. *)
Marked(words) ==
  {i \in DOMAIN words : /\ Has(words, i, {"not"}) /\ Has(words, i + 1, {"just", "only", "merely"})
                        /\ \E j \in i + 2 .. Len(words) : Has(words, j, {"--", ","}) /\ Has(words, j + 1, ItIs)}
Bare(words) == Has(words, 1, ItIs) /\ Has(words, 2, {"not"})
Negated(words) ==
  {i \in DOMAIN words : /\ Has(words, i, NegatedCopula)
                        /\ \E j \in i + 2 .. Len(words) :
                             /\ Has(words, j, {"--", ";"}) /\ Has(words, j + 1, Restates)
                             /\ \A k \in i + 1 .. j - 1 : words[k] \notin Marks \ {","}}
Setup(words) ==
  /\ words[Len(words)] = "." /\ \A i \in DOMAIN words : words[i] \notin {"--", ";"}
  /\ Cardinality({i \in DOMAIN words : words[i] \notin Marks}) <= MaxSetupWords
  /\ \E i \in DOMAIN words : Has(words, i, NegatedCopula) /\ i + 1 \in DOMAIN words /\ words[i + 1] \notin Marks

ScanCorrectionSpans(u) ==
  LET n == Len(units[u].sentences)
      Correction(s, i, t) == {Span(Of(u, s)[i], Of(u, t)[Len(Of(u, t))], 4, "frame.contrast.correction", 0)}
      scan[s \in 1 .. n + 2] ==
        IF s > n THEN {}
        ELSE LET words == WordsOf(Of(u, s))
                 next == IF s < n THEN WordsOf(Of(u, s + 1)) ELSE << >>
                 bare == Bare(words) /\ \E j \in 3 .. Len(words) : Has(words, j, {"--"}) /\ Has(words, j + 1, ItIs)
             IN IF Marked(words) # {} THEN Correction(s, Min(Marked(words)), s) \cup scan[s + 1]
                ELSE IF bare THEN Correction(s, 1, s) \cup scan[s + 1]
                ELSE IF Negated(words) # {} THEN Correction(s, Min(Negated(words)), s) \cup scan[s + 1]
                ELSE IF \/ Bare(words) /\ words[Len(words)] = "." /\ Has(next, 1, ItIs)
                        \/ Setup(words) /\ Has(next, 1, Restates)
                     THEN Correction(s, 1, s + 1) \cup scan[s + 2]
                ELSE scan[s + 1]
  IN scan[1]

FrameSpans ==
  UNION {UNION {FindContrastQuestion(w) : w \in ToSet(Windows(u))} \cup ScanCorrectionSpans(u) :
           u \in DOMAIN units}

-----------------------------------------------------------------------------
(* tag_units: the tags of every sentence, each token at its place. *)
TagOf(w) == IF Lower(w) \in DOMAIN Tags THEN Tags[Lower(w)] ELSE "NN"
Tag(tokens, offset) ==
  [i \in DOMAIN tokens |->
     [word |-> tokens[i].word, pos |-> TagOf(tokens[i].word),
      start |-> tokens[i].start - offset, end |-> tokens[i].end - offset]]

SentenceScopes ==
  FlattenSeq([u \in DOMAIN units |-> [s \in DOMAIN units[u].sentences |->
    [tokens |-> Of(u, s), start |-> Of(u, s)[1].start, label |-> units[u].label]]])
TagUnits ==
  [k \in DOMAIN SentenceScopes |->
     [start |-> SentenceScopes[k].start, label |-> SentenceScopes[k].label,
      tokens |-> Tag(SentenceScopes[k].tokens, 0)]]

(* What the register pass hands on: tags within each sentence, without the *)
(* sentences that failed to parse.                                         *)
Reusable(failed) ==
  LET numbered == [k \in DOMAIN SentenceScopes |-> k]
      kept == SelectSeq(numbered, LAMBDA k : k \notin failed)
  IN [k \in DOMAIN kept |->
       LET scope == SentenceScopes[kept[k]]
       IN [start |-> scope.start, tokens |-> Tag(scope.tokens, scope.start)]]

FromLocalTags(sentence, label) ==
  [start |-> sentence.start, label |-> label,
   tokens |-> [i \in DOMAIN sentence.tokens |->
                 [sentence.tokens[i] EXCEPT !.start = @ + sentence.start, !.end = @ + sentence.start]]]

\* Mutant of Complete: what was kept is enough.
AnyScan(scan) == TRUE

Complete(scan) == Len(scan) = Len(SentenceScopes)

(* reused_tags, or tag_units where it has nothing. *)
SharedTags(scan) ==
  LET scopes == ToSet(SentenceScopes)
      Label(start) == \E s \in scopes : s.start = start /\ s.label
  IN IF ~Complete(scan) THEN TagUnits
     ELSE [k \in DOMAIN scan |-> FromLocalTags(scan[k], Label(scan[k].start))]

-----------------------------------------------------------------------------
(* Jargon: a head word after a run of modifiers, all in lower case. *)
Modifiers == {"NN", "NNS", "JJ"}
RunStart(tokens, head) ==
  Min({i \in 1 .. head : \A k \in i .. head - 1 : tokens[k].pos \in Modifiers})
JargonSpansOf(tokens) ==
  {Span(tokens[RunStart(tokens, h)], tokens[h], 5, "jargon.metaphor", 0) :
     h \in {h \in DOMAIN tokens :
       LET from == RunStart(tokens, h) IN
         /\ tokens[h].pos \in {"NN", "NNS"} /\ Lower(tokens[h].word) \in HeadWords
         /\ from < h
         /\ \A i \in from .. h : i = 1 \/ tokens[i].word \notin DOMAIN Folded
         /\ [i \in 1 .. h - from + 1 |-> Lower(tokens[from + i - 1].word)] \notin Exceptions}}
JargonSpans(all) ==
  UNION {IF s.label THEN {} ELSE JargonSpansOf(s.tokens) : s \in ToSet(all)}

(* Overuse: a word of letters that is a verb or an adverb wherever it occurs, *)
(* more often than six fifths of what the densest human document has: the     *)
(* lower Wilson bound of k in n against h in scale.                           *)
LexicalChoice == {"VB", "VBD", "VBN", "VBZ", "RB"}
Confident(k, n, h, scale) ==
  /\ k * scale > n * h
  /\ 625 * (k * scale - n * h) * (k * scale - n * h) > 2401 * n * h * (scale - h)
OveruseSpans(all) ==
  LET tokens == FlattenSeq([k \in DOMAIN all |-> all[k].tokens])
      Occurrences(w) == {i \in DOMAIN tokens : tokens[i].word \in LetterWords /\ Lower(tokens[i].word) = w}
      Overused(w) ==
        /\ \A i \in Occurrences(w) : tokens[i].pos \in LexicalChoice
        /\ Cardinality(Occurrences(w)) >= MinOccurrences
        /\ w \in DOMAIN Envelope
        /\ Confident(Cardinality(Occurrences(w)), Len(tokens), 6 * Envelope[w], 5 * Scale)
  IN IF Len(tokens) < MinDocTokens THEN {}
     ELSE {Span(tokens[i], tokens[i], 6, "overuse.word", 0) :
             i \in UNION {Occurrences(w) : w \in {w \in DOMAIN Envelope : Overused(w)}}}

(* classify_candidate and the light-verb channel: every licensed match. *)
BeForms == {"is", "are", "was", "were", "been", "being", "be"}
LvcEnd(tokens, i) ==
  LET Is(k, set) == k \in DOMAIN tokens /\ Lower(tokens[k].word) \in set
      j == IF Is(i + 1, {"a", "an", "the"}) THEN i + 2 ELSE i + 1
      passive == LightVerbs[Lower(tokens[i].word)] = "past" /\ Is(i - 1, BeForms)
  IN IF /\ ~passive /\ j \in DOMAIN tokens /\ tokens[j].pos # "JJ"
        /\ Lower(tokens[j].word) \notin DOMAIN PluralNouns /\ Lower(tokens[j].word) \in Lexicon
     THEN {IF Is(j + 1, {"of"}) THEN j + 1 ELSE j} ELSE {}
LvcSpansOf(tokens) ==
  LET scan[i \in 1 .. Len(tokens) + 1] ==
        IF i > Len(tokens) THEN {}
        ELSE IF Lower(tokens[i].word) \notin DOMAIN LightVerbs \/ LvcEnd(tokens, i) = {} THEN scan[i + 1]
        ELSE LET end == Max(LvcEnd(tokens, i))
             IN {Span(tokens[i], tokens[end], 3, "lvc", 0)} \cup scan[end + 1]
  IN scan[1]
LvcSpans(all) == UNION {LvcSpansOf(s.tokens) : s \in ToSet(all)}

-----------------------------------------------------------------------------
FrameOrder == <<"dms.machine", "frame.contrast.correction", "frame.contrast.question",
                "jargon.metaphor", "overuse.word">>
Rank(s) == SelectInSeq(FrameOrder, LAMBDA f : f = s.frame)

(* union_paraphrase_spans: one region for spans that overlap or touch, with *)
(* the frame and the evidence of the span that scored highest.              *)
Sorted(spans) ==
  LET Before(a, b) ==
        \/ a.start < b.start
        \/ a.start = b.start /\ a.end < b.end
        \/ a.start = b.start /\ a.end = b.end /\ Rank(a) < Rank(b)
  IN [i \in 1 .. Cardinality(spans) |->
        CHOOSE s \in spans : Cardinality({a \in spans : Before(a, s)}) = i - 1]
Region(s) == [start |-> s.start, end |-> s.end, frame |-> s.frame, score |-> s.score, by |-> s]

Extended(region, s) ==
  [start |-> region.start, end |-> Max({region.end, s.end}),
   frame |-> IF s.score > region.score THEN s.frame ELSE region.frame,
   score |-> Max({s.score, region.score}), by |-> IF s.score > region.score THEN s ELSE region.by]

UnionParaphraseSpans(spans) ==
  FoldLeft(LAMBDA merged, s :
             IF merged # << >> /\ s.start <= merged[Len(merged)].end
             THEN [merged EXCEPT ![Len(merged)] = Extended(@, s)]
             ELSE Append(merged, Region(s)),
           << >>, Sorted(spans))

(* friction check, and friction fix on the same text. *)
FixSpans(all) == DmsSpans \cup FrameSpans \cup JargonSpans(all) \cup OveruseSpans(all)

Read ==
  /\ step = "read" /\ step' = "check"
  /\ \E d \in Documents : units' = SelectSeq(d, LAMBDA u : u.scoped)
  /\ stream' = Laid(units')
  /\ runs' \in Runs
  /\ \A r \in runs' : r.last \in DOMAIN stream'
  /\ UNCHANGED <<tagged, checked, fixed>>

Check ==
  /\ step = "check" /\ step' = "fix"
  /\ checked' = LET all == TagUnits IN FixSpans(all) \cup LiteralSpans \cup LvcSpans(all)
  /\ UNCHANGED <<units, stream, runs, tagged, fixed>>

Fix ==
  /\ step = "fix" /\ step' = "done"
  /\ \E failed \in SUBSET DOMAIN SentenceScopes : tagged' = SharedTags(Reusable(failed))
  /\ fixed' = UnionParaphraseSpans(FixSpans(tagged'))
  /\ UNCHANGED <<units, stream, runs, checked>>

Next == Read \/ Check \/ Fix
Spec == Init /\ [][Next]_vars

-----------------------------------------------------------------------------
(* fix reuses the tags of the register pass instead of parsing, segmenting   *)
(* and tagging the same text again: the report must be the one a fresh scan  *)
(* gives, also when the pass dropped a sentence, and in link labels.         *)
ReusedTagsAreFresh == step = "done" => tagged = TagUnits

(* The two reports tell the same: fix's regions are what check's spans of    *)
(* these channels cover, in order, apart from each other, and each is        *)
(* labelled by one of its spans, which no other of them outscores.           *)
ParaphraseSpans == {s \in checked : s.channel \in {1, 4, 5, 6}}
RegionsAreComponents ==
  step = "done" =>
    LET Within(s, r) == r.start <= s.start /\ s.end <= r.end
        Points(spans) == UNION {s.start .. s.end : s \in spans}
    IN /\ \A i \in DOMAIN fixed : i > 1 => fixed[i - 1].end < fixed[i].start
       /\ Points(ToSet(fixed)) = Points(ParaphraseSpans)
       /\ \A r \in ToSet(fixed) :
            LET of == {s \in ParaphraseSpans : Within(s, r)}
            IN /\ r.by \in of /\ r.frame = r.by.frame /\ r.score = r.by.score
               /\ \A s \in of : s.score <= r.score
=============================================================================
