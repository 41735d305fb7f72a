------------------------------- MODULE Harness -------------------------------
(* friction-harness: what judges an edit from the outside.  It scans a text   *)
(* for tell spans in four families, counts which words an edit may bring in,  *)
(* and scores two texts against each other.  A word is a stem and its form,   *)
(* <<"validate", "past">>; a mark is <<".", "mark">>, a stretch of code       *)
(* <<"code", "mark">>.  Only the space after a sentence's end is kept.        *)
EXTENDS Integers, SequencesExt, FiniteSetsExt

CONSTANTS
  Inputs,
  Rituals,        \* sequences of words
  Substitutions,  \* [id, words, replacement]
  Deletions,      \* [id, words]
  Lexicon,        \* nominalization |-> verb, stems
  Adjectives,     \* the stems tagged JJ
  Insertions      \* words a bad edit might bring in

VARIABLES
  input,
  hits,    \* what tell_span_hits found in it
  output,  \* an edit of it
  origin,  \* "hits" when the edit carries out some of them, "inserted" otherwise
  check    \* the answer of check_accept_pair

vars == <<input, hits, output, origin, check>>

Mark(text) == <<text, "mark">>
Space == Mark(" ")
Code == Mark("code")
Ends == {Mark("."), Mark("!"), Mark("?")}
Syntax == {Mark("*"), Mark("#")}
Plain(stem) == <<stem, "base">>

IsWord(lexeme) == lexeme[2] # "mark"

-----------------------------------------------------------------------------
(* clean.rs *)
Clean(text) == SelectSeq(text, LAMBDA x : x # Code /\ x \notin Syntax)

Words(text) == SelectSeq(Clean(text), IsWord)

\* A run of ends closes a sentence when a space follows it; the last run may not.
SplitSentences(text) ==
  LET closes(i) == /\ text[i] \in Ends
                   /\ i < Len(text) /\ text[i + 1] = Space
      split(state, i) ==
        CASE text[i] = Space /\ state.open = << >> -> state
          [] closes(i) -> [done |-> Append(state.done, Append(state.open, text[i])), open |-> << >>]
          [] OTHER -> [state EXCEPT !.open = Append(@, text[i])]
      all == FoldLeft(split, [done |-> << >>, open |-> << >>], [i \in DOMAIN text |-> i])
  IN IF all.open = << >> THEN all.done ELSE Append(all.done, all.open)

-----------------------------------------------------------------------------
(* lvc.rs: a light verb, an optional article, a noun made of a verb, "of". *)
LightVerbs == {"perform", "conduct", "make", "do"}
Articles == {"a", "an", "the"}

Conjugate(verb, form) == <<verb, form>>

\* The position of the noun: past an article, if there is one.
NounIndex(sentence, i) ==
  IF i < Len(sentence) /\ sentence[i + 1][1] \in Articles THEN i + 2 ELSE i + 1

IsLight(lexeme) == IsWord(lexeme) /\ lexeme[1] \in LightVerbs

Outcome(kind, last, verb) == [kind |-> kind, last |-> last, verb |-> verb]

EndIndex(sentence, j) ==
  IF j < Len(sentence) /\ sentence[j + 1] = Plain("of") THEN j + 1 ELSE j

ClassifyCandidate(sentence, i) ==
  LET form == sentence[i][2]
      j == NounIndex(sentence, i)
      noun == sentence[j]
      no(kind) == Outcome(kind, i, sentence[i])
  IN CASE ~IsLight(sentence[i]) -> no("not light")
       [] form = "past" /\ i > 1 /\ sentence[i - 1][1] = "be" -> no("passive")
       [] j > Len(sentence) -> no("no nominal")
       [] noun[1] \in Adjectives -> no("modified")
       [] noun[1] \in DOMAIN Lexicon /\ noun[2] = "plural" -> no("plural")
       [] noun[1] \notin DOMAIN Lexicon -> no("unlicensed")
       [] OTHER -> Outcome("licensed", EndIndex(sentence, j), Conjugate(Lexicon[noun[1]], form))

\* scan_construction_shape, the gate-free scan of the miners: where one starts.
ScanConstructionShape(sentence, nouns) ==
  {i \in DOMAIN sentence :
     /\ IsLight(sentence[i])
     /\ NounIndex(sentence, i) <= Len(sentence)
     /\ sentence[NounIndex(sentence, i)] \in {Plain(noun) : noun \in nouns}}

\* match_pivot: the first candidate that is licensed or rejected decides.
Decisive == {"passive", "modified", "plural", "licensed"}

MatchPivot(sentence) ==
  LET decided == {i \in DOMAIN sentence : ClassifyCandidate(sentence, i).kind \in Decisive}
  IN IF decided = {} THEN {}
     ELSE LET i == Min(decided)
              outcome == ClassifyCandidate(sentence, i)
          IN IF outcome.kind # "licensed" THEN {}
             ELSE {[family |-> "pivot", id |-> 0, first |-> i, last |-> outcome.last,
                    licensed |-> <<outcome.verb>>]}

-----------------------------------------------------------------------------
(* tellspan.rs *)
OccursAt(sentence, words, i) ==
  i + Len(words) - 1 <= Len(sentence) /\ SubSeq(sentence, i, i + Len(words) - 1) = words

\* The leftmost matches that do not overlap, as find_iter yields them.
FindIter(sentence, words) ==
  FoldLeft(LAMBDA found, i :
             IF OccursAt(sentence, words, i) /\ \A k \in found : k + Len(words) <= i
             THEN found \cup {i} ELSE found,
           {}, [i \in DOMAIN sentence |-> i])

Overlap(a, b) == a.first <= b.last /\ b.first <= a.last
Size(hit) == hit.last - hit.first

\* The longest first, those of one length by their id, each if it is free.
ResolveOverlaps(candidates) ==
  LET before(a, b) == \/ Size(a) > Size(b)
                      \/ Size(a) = Size(b) /\ a.id < b.id
                      \/ Size(a) = Size(b) /\ a.id = b.id /\ a.first < b.first
  IN FoldLeft(LAMBDA accepted, hit :
                IF \E a \in accepted : Overlap(a, hit) THEN accepted ELSE accepted \cup {hit},
              {}, SetToSortSeq(candidates, before))

Candidates(sentence, patterns, family, Licensed(_)) ==
  UNION {{[family |-> family, id |-> p.id, first |-> i, last |-> i + Len(p.words) - 1,
           licensed |-> Licensed(p)] : i \in FindIter(sentence, p.words)} : p \in patterns}

RitualHits(sentence) ==
  {[family |-> "ritual", id |-> 0, first |-> Min(FindIter(sentence, words)),
    last |-> Min(FindIter(sentence, words)) + Len(words) - 1, licensed |-> << >>]
     : words \in {w \in Rituals : FindIter(sentence, w) # {}}}

SubstitutionCandidates(sentence) ==
  Candidates(sentence, Substitutions, "substitution", LAMBDA p : p.replacement)

DeletionCandidates(sentence) == Candidates(sentence, Deletions, "deletion", LAMBDA p : << >>)

SentenceHits(sentence) ==
  RitualHits(sentence) \cup ResolveOverlaps(SubstitutionCandidates(sentence))
    \cup ResolveOverlaps(DeletionCandidates(sentence)) \cup MatchPivot(sentence)

\* The hits of each sentence of the cleaned text.
TellSpanHits(text) ==
  LET sentences == SplitSentences(Clean(text))
  IN [s \in DOMAIN sentences |-> SentenceHits(sentences[s])]

CountHits(found) == FoldLeft(LAMBDA n, hs : n + Cardinality(hs), 0, found)
CountTellSpans(text) == CountHits(TellSpanHits(text))

-----------------------------------------------------------------------------
(* closure.rs *)
CountIn(words, w) == Cardinality({i \in DOMAIN words : words[i] = w})

\* Mutant of LicensedCount: the words a pattern licenses count once, however often it matched.
LicensedOnce(found, w) ==
  IF \E s \in DOMAIN found : \E h \in found[s] : w \in Range(h.licensed) THEN 1 ELSE 0

LicensedCount(found, w) ==
  FoldLeft(LAMBDA n, hs : n + MapThenSumSet(LAMBDA h : CountIn(h.licensed, w), hs), 0, found)

\* The words of the output that the input and what was found in it do not account for.
ExcessTokens(from, found, to) ==
  {w \in Range(Words(to)) : CountIn(Words(to), w) > CountIn(Words(from), w) + LicensedCount(found, w)}

-----------------------------------------------------------------------------
(* fragment.rs and score.rs: the lower a score, the better the text. *)
IsIncomplete(sentence) ==
  /\ \A i \in DOMAIN sentence : sentence[i][2] \notin {"third", "past"}
  /\ ~(sentence[1][1] \in LightVerbs /\ sentence[1][2] = "base")

FragmentRate(text) ==
  LET sentences == SplitSentences(text)
  IN <<Len(SelectSeq(sentences, IsIncomplete)), Len(sentences)>>

LessRate(a, b) == a[1] * b[2] < b[1] * a[2]

\* The secondary signal comes from the metrics: any value, set where it is used.
Score(text, tells) ==
  [tells |-> <<tells, Max({1, Len(Words(text))})>>,
   fragments |-> LET rate == FragmentRate(text) IN <<rate[1], Max({1, rate[2]})>>,
   secondary |-> 0]

Below(a, b) ==
  \/ LessRate(a.tells, b.tells)
  \/ /\ ~LessRate(b.tells, a.tells)
     /\ \/ LessRate(a.fragments, b.fragments)
        \/ ~LessRate(b.fragments, a.fragments) /\ a.secondary < b.secondary

CompareTo(score, baseline) ==
  IF Below(score, baseline) THEN "better" ELSE IF Below(baseline, score) THEN "worse" ELSE "tied"

-----------------------------------------------------------------------------
NoCheck == [excess |-> {}, verdict |-> "none", flag |-> "none"]

Scan ==
  /\ origin = "none" /\ hits = << >> /\ Clean(input) # << >>
  /\ hits' = TellSpanHits(input)
  /\ UNCHANGED <<input, output, origin, check>>

\* Some of the hits are carried out, of two that overlap one.
Carried(sentence, chosen) ==
  FlattenSeq([i \in DOMAIN sentence |->
     IF \E h \in chosen : i = h.first THEN (CHOOSE h \in chosen : i = h.first).licensed
     ELSE IF \E h \in chosen : i \in h.first .. h.last THEN << >> ELSE <<sentence[i]>>])

Apart(chosen) == \A a, b \in chosen : a # b => ~Overlap(a, b)

Apply ==
  /\ origin = "none" /\ hits # << >>
  /\ \E sentences \in {SplitSentences(Clean(input))}, s \in DOMAIN hits :
     \E chosen \in {c \in SUBSET hits[s] : Apart(c)} :
       LET rest == [k \in DOMAIN hits |-> IF k = s THEN chosen ELSE ResolveOverlaps(hits[k])]
       IN output' = FlattenSeq([k \in DOMAIN sentences |-> Append(Carried(sentences[k], rest[k]), Space)])
  /\ origin' = "hits"
  /\ UNCHANGED <<input, hits, check>>

Insert ==
  /\ origin = "none" /\ hits # << >>
  /\ \E w \in Insertions : output' = Append(input, w)
  /\ origin' = "inserted"
  /\ UNCHANGED <<input, hits, check>>

\* check_accept_pair, and check_reject_output on the same pair.
CheckPair ==
  /\ origin # "none" /\ check = NoCheck
  /\ \E excess \in {ExcessTokens(input, hits, output)},
       before \in {Score(input, CountHits(hits))}, after \in {Score(output, CountTellSpans(output))},
       secondary \in {<<0, 0>>, <<0, 1>>, <<1, 0>>} :
       LET verdict == CompareTo([after EXCEPT !.secondary = secondary[1]],
                                [before EXCEPT !.secondary = secondary[2]])
       IN check' = [excess |-> excess, verdict |-> verdict,
                    flag |-> CASE excess # {} -> "closure violated"
                               [] excess = {} /\ verdict # "better" -> "score not better"
                               [] OTHER -> "unflagged"]
  /\ UNCHANGED <<input, hits, output, origin>>

Init ==
  /\ input \in Inputs
  /\ hits = << >> /\ output = << >> /\ origin = "none" /\ check = NoCheck

Next == Scan \/ Apply \/ Insert \/ CheckPair

Spec == Init /\ [][Next]_vars

-----------------------------------------------------------------------------
\* Carrying out what was found never brings in a word the check calls
\* untraceable, however many spans share a replacement and whichever are left.
AppliedHitsStayClosed == (origin = "hits" /\ check # NoCheck) => check.excess = {}

\* A word that was brought in passes only when a span that was found licenses it.
InsertionsAreTraced ==
  (origin = "inserted" /\ check # NoCheck /\ check.excess = {}) =>
    \E s \in DOMAIN hits : \E h \in hits[s] : Last(output) \in Range(h.licensed)

\* Within a family no two hits overlap, and each candidate that was passed over
\* overlaps a hit that is at least as long.
HitsAreMaximal ==
  origin = "none" =>
  LET sentences == SplitSentences(Clean(input))
  IN \A s \in DOMAIN hits :
       \A candidates \in {SubstitutionCandidates(sentences[s]), DeletionCandidates(sentences[s])} :
         LET accepted == candidates \cap hits[s]
         IN /\ Apart(accepted)
            /\ \A c \in candidates \ accepted : \E a \in accepted : Overlap(a, c) /\ Size(a) >= Size(c)

\* The pivot the harness counts is one the miners' scan sees, and carrying it out
\* leaves no preposition behind its object.
PivotsAreConstructions ==
  origin = "none" =>
  LET sentences == SplitSentences(Clean(input))
  IN \A s \in DOMAIN hits : \A h \in {x \in hits[s] : x.family = "pivot"} :
       /\ h.first \in ScanConstructionShape(sentences[s], DOMAIN Lexicon)
       /\ h.last < Len(sentences[s]) => sentences[s][h.last + 1] # Plain("of")
=============================================================================
