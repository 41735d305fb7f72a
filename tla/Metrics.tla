------------------------------- MODULE Metrics -------------------------------
(* friction-metrics: the vector of metrics that the envelope, the harness and *)
(* friction check measure a document by, once as a whole and once for every   *)
(* paragraph.  A sentence is a sequence of lexemes: words, marks and spaces.  *)
(* A rate is a fraction: [num, den], with den = 0 where the code answers 0.   *)
EXTENDS Integers, SequencesExt, FiniteSetsExt

CONSTANTS
  Documents,    \* [blocks |-> Seq([kind, first, last]), units |-> Seq([block, sentences])]
  Tag,          \* the tagger: word |-> Penn tag
  Markers,      \* the discourse markers, sequences of lexemes
  Rituals,      \* the ritual markers
  Contractions, \* [expanded |-> sequence of words, contracted |-> word]
  LlmPhrases, HumanPhrases

VARIABLES
  document,
  whole,      \* what compute answered, once it has
  paragraphs  \* what compute_by_paragraph answered, a vector for each paragraph

vars == <<document, whole, paragraphs>>

Space == " "
Strong == {".", "!", "?", ";", ":"}
Markup == {"**", "__", "*", "_"}

Rate(num, den) == [num |-> IF den = 0 THEN 0 ELSE num, den |-> den]

SumOver(seq, f(_)) == FoldLeft(LAMBDA total, x : total + f(x), 0, seq)

SentencesOf(units) == FlattenSeq([u \in DOMAIN units |-> units[u].sentences])

Paragraphs(units) == SelectSeq(units, LAMBDA u : u.sentences # << >>)

-----------------------------------------------------------------------------
(* symmetry.rs *)
Tokens(sentence) == SelectSeq(sentence, LAMBDA x : x # Space)

Classes == [NN |-> "noun", NNS |-> "noun", VB |-> "verb", VBG |-> "verb", MD |-> "verb",
            JJ |-> "adjective", RB |-> "adverb"]

BroadClass(token) ==
  IF token \in DOMAIN Tag /\ Tag[token] \in DOMAIN Classes THEN Classes[Tag[token]] ELSE "other"

IsStop(token) == token = "," \/ token \in Strong

IsListCoordinator(token) == token \in {"and", "or"}

LastStop(tokens, end) == Max({0} \cup {i \in 1 .. end - 1 : IsStop(tokens[i])})

SegmentLeftBound(tokens, end) == LastStop(tokens, end) + 1

SegmentRightBound(tokens, start) ==
  Min({Len(tokens) + 1} \cup {i \in start .. Len(tokens) : IsStop(tokens[i])})

NearestCommaBefore(tokens, end) ==
  LET i == LastStop(tokens, end) IN IF i > 0 /\ tokens[i] = "," THEN i ELSE 0

SegmentHeadClass(tokens, from, to) ==
  LET content == {i \in from .. to - 1 : BroadClass(tokens[i]) # "other"}
  IN IF content = {} THEN "none" ELSE BroadClass(tokens[Max(content)])

IsTriad(tokens, c) ==
  /\ IsListCoordinator(tokens[c]) /\ c > 1 /\ tokens[c - 1] = ","
  /\ LET a == NearestCommaBefore(tokens, c - 1)
         from == SegmentLeftBound(tokens, a)
         to == SegmentRightBound(tokens, c + 1)
         class == SegmentHeadClass(tokens, c + 1, to)
     IN /\ a # 0 /\ c - 1 - a >= 2
        /\ from < a /\ to > c + 1
        /\ class # "none"
        /\ class = SegmentHeadClass(tokens, a + 1, c - 1)
        /\ class = SegmentHeadClass(tokens, from, a)

CountTriads(tokens) == Cardinality({c \in DOMAIN tokens : IsTriad(tokens, c)})

IsParticipialCloser(tokens) ==
  LET end == Max({0} \cup {i \in DOMAIN tokens : tokens[i] \notin Strong})
      comma == Max({0} \cup {i \in 1 .. end : tokens[i] = ","})
  IN /\ comma > 1 /\ comma < end
     /\ tokens[comma + 1] \in DOMAIN Tag /\ Tag[tokens[comma + 1]] = "VBG"

TriadRate(sentences) == Rate(SumOver(sentences, LAMBDA s : CountTriads(Tokens(s))), Len(sentences))

ParticipialCloserRate(sentences) ==
  Rate(Len(SelectSeq(sentences, LAMBDA s : IsParticipialCloser(Tokens(s)))), Len(sentences))

\* The stack of blocks that are open: one is closed by the first block outside of it.
ContainsRange(outer, inner) == outer.first <= inner.first /\ inner.last <= outer.last

BlockParents(blocks) ==
  LET visit(state, i) ==
        LET open == {k \in DOMAIN state.stack :
                       ContainsRange(blocks[state.stack[k]], blocks[i])}
            kept == SubSeq(state.stack, 1, Max({0} \cup open))
        IN [stack |-> Append(kept, i),
            parents |-> Append(state.parents, IF kept = << >> THEN 0 ELSE Last(kept))]
  IN FoldLeft(visit, [stack |-> << >>, parents |-> << >>], [i \in DOMAIN blocks |-> i]).parents

InnermostListItem(block, blocks, parents) ==
  LET up[i \in 0 .. Len(blocks)] ==
        IF i = 0 \/ blocks[i].kind = "item" THEN i ELSE up[parents[i]]
  IN up[block]

ListChildren(blocks, parents, list) ==
  {i \in DOMAIN blocks : blocks[i].kind = "item" /\ parents[i] = list}

LeadingProseByItem(units, blocks, parents) ==
  LET owned(i) == {u \in DOMAIN units : InnermostListItem(units[u].block, blocks, parents) = i}
  IN [i \in DOMAIN blocks |-> IF blocks[i].kind # "item" THEN 0 ELSE Min(owned(i) \cup {Len(units) + 1})]

ItemStemClass(units, leading) ==
  IF leading > Len(units) THEN "none"
  ELSE LET words == SelectSeq(FlattenSeq(units[leading].sentences), LAMBDA x : x \in DOMAIN Tag)
       IN IF words = << >> THEN "none" ELSE BroadClass(words[1])

ListParallelismScore(units, items, leading) ==
  LET sizes == {Cardinality({i \in items : ItemStemClass(units, leading[i]) = class})
                  : class \in {"noun", "verb", "adjective", "adverb", "other", "none"}}
  IN Rate(Max(sizes), Cardinality(items))

\* The score of every list that has an item; their mean is the metric.
BulletParallelism(d) ==
  LET parents == BlockParents(d.blocks)
      leading == LeadingProseByItem(d.units, d.blocks, parents)
      lists == {i \in DOMAIN d.blocks :
                  d.blocks[i].kind = "list" /\ ListChildren(d.blocks, parents, i) # {}}
  IN [i \in lists |-> ListParallelismScore(d.units, ListChildren(d.blocks, parents, i), leading)]

-----------------------------------------------------------------------------
(* lexical.rs and signals.rs *)
WordTokens(sentence) == SelectSeq(sentence, LAMBDA x : x \in DOMAIN Tag)

TotalWordTokens(sentences) == SumOver(sentences, LAMBDA s : Len(WordTokens(s)))

CountPhraseOccurrences(tokens, phrase) ==
  Cardinality({i \in 1 .. Len(tokens) - Len(phrase) + 1 :
                 phrase # << >> /\ SubSeq(tokens, i, i + Len(phrase) - 1) = phrase})

PhraseRate(sentences, phrases) ==
  Rate(SumOver(sentences, LAMBDA s :
         MapThenSumSet(LAMBDA p : CountPhraseOccurrences(WordTokens(s), p), phrases)),
       TotalWordTokens(sentences))

BlockKindDensity(d, kind) ==
  Rate(Cardinality({i \in DOMAIN d.blocks : d.blocks[i].kind = kind}),
       TotalWordTokens(SentencesOf(d.units)))

CountStrongDelimiterSpans(sentence) ==
  Cardinality({i \in DOMAIN sentence : sentence[i] \in {"**", "__"}}) \div 2

BoldSpanDensity(sentences) ==
  Rate(SumOver(sentences, CountStrongDelimiterSpans), TotalWordTokens(sentences))

\* The first word of every sentence, << >> of one without words.
SentenceLeadingUnigrams(sentences) ==
  [i \in DOMAIN sentences |->
     LET words == WordTokens(sentences[i]) IN SubSeq(words, 1, Min({1, Len(words)}))]

SentenceOpenerRepeatRate(sentences) ==
  LET openers == SentenceLeadingUnigrams(sentences)
      repeats == {i \in 1 .. Len(openers) - 1 : openers[i] # << >> /\ openers[i] = openers[i + 1]}
  IN Rate(Cardinality(repeats), IF Len(openers) < 2 THEN 0 ELSE Len(openers) - 1)

TopOpenerConcentration(sentences) ==
  LET openers == SelectSeq(SentenceLeadingUnigrams(sentences), LAMBDA o : o # << >>)
      counts == {Cardinality({i \in DOMAIN openers : openers[i] = openers[k]}) : k \in DOMAIN openers}
  IN Rate(Max(counts \cup {0}), Len(openers))

StripLeadingMarkup(sentence) ==
  LET kept == {i \in DOMAIN sentence : sentence[i] \notin Markup \cup {Space}}
  IN IF kept = {} THEN << >> ELSE SubSeq(sentence, Min(kept), Len(sentence))

StartsWithAny(sentence, markers) ==
  \E marker \in markers : IsPrefix(marker, StripLeadingMarkup(sentence))

DiscourseMarkerDensity(sentences) ==
  Rate(Len(SelectSeq(sentences, LAMBDA s : StartsWithAny(s, Markers))), TotalWordTokens(sentences))

ContractionCounts(sentences) ==
  [contracted |-> SumOver(sentences, LAMBDA s : MapThenSumSet(
      LAMBDA pair : CountPhraseOccurrences(WordTokens(s), <<pair.contracted>>), Contractions)),
   contractible |-> SumOver(sentences, LAMBDA s : MapThenSumSet(
      LAMBDA pair : CountPhraseOccurrences(WordTokens(s), pair.expanded), Contractions))]

ContractionRatio(sentences) ==
  LET counts == ContractionCounts(sentences)
  IN Rate(counts.contracted, counts.contracted + counts.contractible)

RitualMarkerRate(units) ==
  LET flagged(u) == \/ StartsWithAny(Head(u.sentences), Rituals)
                    \/ StartsWithAny(Last(u.sentences), Rituals)
  IN Rate(Len(SelectSeq(Paragraphs(units), flagged)), Len(Paragraphs(units)))

IsNotJustBut(sentence) ==
  LET words == Tokens(sentence)
  IN \E i, j \in DOMAIN words :
       /\ i + 1 < j /\ words[i] = "not" /\ words[i + 1] \in {"just", "only"} /\ words[j] = "but"

NotJustButRate(sentences) == Rate(Len(SelectSeq(sentences, IsNotJustBut)), Len(sentences))

-----------------------------------------------------------------------------
(* rhythm.rs: Spread is the square of n times the standard deviation. *)
RhythmStats(values) ==
  LET sum == SumOver(values, LAMBDA v : v)
  IN [n |-> Len(values), sum |-> sum,
      spread |-> Len(values) * SumOver(values, LAMBDA v : v * v) - sum * sum]

TokenCount(sentence) ==
  Cardinality({i \in DOMAIN sentence :
                 sentence[i] # Space /\ (i = 1 \/ sentence[i - 1] = Space)})

SentenceLength(sentences) == RhythmStats([i \in DOMAIN sentences |-> TokenCount(sentences[i])])

ParagraphShape(units) ==
  LET paras == Paragraphs(units) IN RhythmStats([i \in DOMAIN paras |-> Len(paras[i].sentences)])

\* The lexeme next to a double hyphen, one space away at most.
Flank(sentence, i, step) ==
  LET near == i + step
      at == IF near \in DOMAIN sentence /\ sentence[near] = Space THEN near + step ELSE near
  IN at \in DOMAIN sentence /\ sentence[at] \in DOMAIN Tag

CountEmDashes(sentence) ==
  Cardinality({i \in DOMAIN sentence :
     \/ sentence[i] = "em dash"
     \/ sentence[i] = "--" /\ Flank(sentence, i, -1) /\ Flank(sentence, i, 1)})

CountSemicolons(sentence) == Cardinality({i \in DOMAIN sentence : sentence[i] = ";"})

DashDensity(sentences) == Rate(SumOver(sentences, CountEmDashes), SumOver(sentences, TokenCount))

SemicolonDensity(sentences) ==
  Rate(SumOver(sentences, CountSemicolons), SumOver(sentences, TokenCount))

-----------------------------------------------------------------------------
(* compute.rs *)
ComputeSegmented(d, sentences) ==
  [sentence_length |-> SentenceLength(sentences),
   discourse_marker_density |-> DiscourseMarkerDensity(sentences),
   triad_rate |-> TriadRate(sentences),
   contraction_ratio |-> ContractionRatio(sentences),
   bullet_parallelism |-> BulletParallelism(d),
   paragraph_shape |-> ParagraphShape(d.units),
   em_dash_density |-> DashDensity(sentences),
   semicolon_density |-> SemicolonDensity(sentences),
   participial_closer_rate |-> ParticipialCloserRate(sentences),
   not_just_but_rate |-> NotJustButRate(sentences),
   ritual_marker_rate |-> RitualMarkerRate(d.units),
   llm_favored_phrase_rate |-> PhraseRate(sentences, LlmPhrases),
   human_favored_phrase_rate |-> PhraseRate(sentences, HumanPhrases),
   heading_density |-> BlockKindDensity(d, "heading"),
   list_item_density |-> BlockKindDensity(d, "item"),
   bold_span_density |-> BoldSpanDensity(sentences),
   sentence_opener_repeat_rate |-> SentenceOpenerRepeatRate(sentences),
   top_opener_concentration |-> TopOpenerConcentration(sentences)]

SingleParagraphDocument(d, unit) ==
  [blocks |-> <<d.blocks[unit.block]>>, units |-> <<[unit EXCEPT !.block = 1]>>]

Compute ==
  /\ whole = << >>
  /\ whole' = ComputeSegmented(document, SentencesOf(document.units))
  /\ UNCHANGED <<document, paragraphs>>

ComputeByParagraph ==
  /\ whole # << >> /\ paragraphs = << >>
  /\ Paragraphs(document.units) # << >>
  /\ paragraphs' = [i \in DOMAIN Paragraphs(document.units) |->
                      LET unit == Paragraphs(document.units)[i]
                      IN ComputeSegmented(SingleParagraphDocument(document, unit), unit.sentences)]
  /\ UNCHANGED <<document, whole>>

Init == document \in Documents /\ whole = << >> /\ paragraphs = << >>

Next == Compute \/ ComputeByParagraph

Spec == Init /\ [][Next]_vars

-----------------------------------------------------------------------------
(* A list of three: three runs between stops, the first two closed by commas, *)
(* the third opened by a coordinator, whose heads are of one class.  Two of   *)
(* them may share runs, as in "a, b, and c, and d".                           *)
Runs(tokens) ==
  LET stops == {0, Len(tokens) + 1} \cup {i \in DOMAIN tokens : IsStop(tokens[i])}
  IN {<<i, j>> \in stops \X stops : i < j /\ \A k \in stops : k <= i \/ k >= j}

Triads(tokens) ==
  {<<p[1], r[2]>> : <<p, q, r>> \in
     {<<p, q, r>> \in Runs(tokens) \X Runs(tokens) \X Runs(tokens) :
       /\ p[2] = q[1] /\ q[2] = r[1] /\ tokens[p[2]] = "," /\ tokens[q[2]] = ","
       /\ p[2] > p[1] + 1 /\ q[2] > q[1] + 1 /\ r[2] > r[1] + 2
       /\ IsListCoordinator(tokens[r[1] + 1])
       /\ LET class == SegmentHeadClass(tokens, r[1] + 2, r[2])
          IN /\ class # "none"
             /\ class = SegmentHeadClass(tokens, p[1] + 1, p[2])
             /\ class = SegmentHeadClass(tokens, q[1] + 1, q[2])}}

\* The most lists that can be told apart: no two of them share a run.
ApartTriads(tokens) ==
  Max({Cardinality(T) : T \in {T \in SUBSET Triads(tokens) :
                                 \A s, t \in T : s = t \/ s[2] <= t[1] \/ t[2] <= s[1]}})

\* count_triads scans backwards and forwards from each coordinator; it counts
\* lists of three, whatever punctuation is around them, and as many as can be
\* told apart.  Where lists share items it counts more than that: its doc says
\* a sentence has more than one triad only if it has more than one "such
\* non-overlapping pattern" (symmetry.rs:205-208), but the scan looks behind the
\* coordinator it resumes after (222-230), so "a, b, and c, and d" counts two.
\* Which of the two is meant is not claimed.
TriadsAreListsOfThree ==
  whole # << >> =>
    \A i \in DOMAIN document.units, k \in 1 .. 2 :
      k \in DOMAIN document.units[i].sentences =>
        LET tokens == Tokens(document.units[i].sentences[k])
        IN CountTriads(tokens) \in ApartTriads(tokens) .. Cardinality(Triads(tokens))

\* The stack of block_parents finds, from the ranges alone, the innermost block
\* that holds each one, also when an item is as long as its list.
ParentsAreInnermost ==
  whole # << >> =>
    LET blocks == document.blocks
        parents == BlockParents(blocks)
    IN \A i \in DOMAIN blocks :
         parents[i] = Max({0} \cup {j \in 1 .. i - 1 : ContainsRange(blocks[j], blocks[i])})

Shares == {"contraction_ratio", "participial_closer_rate", "not_just_but_rate", "ritual_marker_rate",
           "sentence_opener_repeat_rate", "top_opener_concentration"}

\* No share is more than the whole it is a share of, a list is never scored
\* without an item, and a length never spreads below zero.
RatesAreInRange ==
  whole # << >> =>
    \A v \in {whole} \cup Range(paragraphs) :
      /\ \A name \in Shares : v[name].num \in 0 .. v[name].den
      /\ \A score \in Range(v.bullet_parallelism) : score.num \in 1 .. score.den
      /\ v.sentence_length.spread >= 0 /\ v.paragraph_shape.spread >= 0

Additive == {"discourse_marker_density", "triad_rate", "contraction_ratio", "em_dash_density",
             "semicolon_density", "participial_closer_rate", "not_just_but_rate",
             "ritual_marker_rate", "llm_favored_phrase_rate", "human_favored_phrase_rate"}

\* The vectors of the paragraphs add up to the one of the document: no phrase
\* and no list is counted across two paragraphs, and none is lost.
ParagraphsAddUp ==
  paragraphs # << >> =>
    /\ \A name \in Additive :
         whole[name].den = SumOver(paragraphs, LAMBDA v : v[name].den)
    /\ whole.sentence_length.sum = SumOver(paragraphs, LAMBDA v : v.sentence_length.sum)
    /\ \A name \in Additive :
         (\A v \in Range(paragraphs) : v[name].den > 0) =>
           whole[name].num = SumOver(paragraphs, LAMBDA v : v[name].num)
=============================================================================
