----------------------------- MODULE Attestation -----------------------------
(* The attestation pack from the corpus to the engine: `corpus-tool attest`   *)
(* mines it (attest.rs) and calibrates the budget of the near-no-op rule with *)
(* the engine of the last build, `attest-pack` packs it, the next build       *)
(* embeds and loads the artifact (friction-packs, attestation.rs).  An        *)
(* artifact may be damaged in one cell, cut short or extended.                *)
(* A document has words and tags for its sentences, a number of words, and    *)
(* the rules of the edits that an engine without a budget would charge to it, *)
(* in order: pivot.lvc or frame.dejust.                                       *)
EXTENDS PackCells, FiniteSetTheorems, WellFoundedInduction, TLAPS, TLC

CONSTANTS
  Documents,   \* human documents of the training split
  Queried,     \* texts that are looked up
  SentenceStart, SkeletonStart, SkeletonEnd,
  Pooled,      \* pairs the pooled filter answers for
  Radix,       \* 2^32: ids are below it
  DamagedCells \* what a damaged cell may hold

VARIABLES
  corpus,   \* the documents collected
  toml,     \* the audited pack, << >> before the first
  mining,   \* the documents an attest run has yet to calibrate on
  artifact, \* the cells of the packed file
  intact,   \* it is as it was written
  embedded, \* the pack the last build loaded, << >> for a build that fails
  under,    \* the calibration in force when the last one was measured, or << >>
  built,    \* the audited pack the artifact was made from
  behind    \* the one behind the artifact that was embedded

vars == <<corpus, toml, mining, artifact, intact, embedded, under, built, behind>>

-----------------------------------------------------------------------------
(* Mining.  seam_pairs: a sentence begins at SentenceStart.                  *)
SeamPairs(words) ==
  LET seq == <<SentenceStart>> \o words IN {<<seq[i], seq[i + 1]>> : i \in 1 .. Len(words)}

SentencesOf(docs) == UNION {ToSet(d.sentences) : d \in docs}
WordVocab(docs) == <<SentenceStart>> \o InByteOrder(UNION {ToSet(s.words) : s \in SentencesOf(docs)})

\* build_bigram: the ids that follow each id.
SeamIds(docs, vocab) ==
  {<<FirstId(vocab, p[1]), FirstId(vocab, p[2])>> :
     p \in UNION {SeamPairs(s.words) : s \in SentencesOf(docs)}}
Following(pairs) ==
  [left \in {p[1] : p \in pairs} |-> {p[2] : p \in {q \in pairs : q[1] = left}}]
Bigram(docs) == Following(SeamIds(docs, WordVocab(docs)))

Wrapped(tags) == <<SkeletonStart>> \o tags \o <<SkeletonEnd>>
TagVocab(docs) ==
  <<SkeletonStart, SkeletonEnd>>
    \o InByteOrder((UNION {ToSet(s.tags) : s \in SentencesOf(docs)}) \ {SkeletonStart, SkeletonEnd})

\* pack_window: the ids of a window as the digits of one number.
WindowCode(ids, base) == FoldLeft(LAMBDA value, id : value * base + id, 0, ids)

Windows(tags, n) == {SubSeq(tags, i, i + n - 1) : i \in 1 .. Len(tags) - n + 1}

\* build_skeleton: sentences without a tag give no windows.
SkeletonCodes(docs, vocab, n) ==
  {WindowCode([i \in DOMAIN w |-> FirstId(vocab, w[i])], Len(vocab)) :
     w \in UNION {Windows(Wrapped(s.tags), n) : s \in {t \in SentencesOf(docs) : t.tags # << >>}}}

(* render_pack: the documents stand for the digest of the manifest, and sets *)
(* are in ascending order.                                                   *)
Render(docs, bigram, lefts, tags) ==
  [docs |-> docs, tokens |-> WordVocab(docs), lefts |-> lefts,
   rights |-> [i \in DOMAIN lefts |-> InOrder(bigram[lefts[i]])],
   tags |-> tags, tag5 |-> InOrder(SkeletonCodes(docs, tags, 5)),
   tag4 |-> InOrder(SkeletonCodes(docs, tags, 4)), nearNoop |-> << >>]
Rendered(docs) == Render(docs, Bigram(docs), InOrder(DOMAIN Bigram(docs)), TagVocab(docs))

-----------------------------------------------------------------------------
(* AttestationPack::parse; an id a group names must be one of the vocabulary; *)
(* a left listed twice has the rights of both groups.                         *)
Parses(raw) ==
  /\ Len(raw.lefts) = Len(raw.rights)
  /\ \A i \in DOMAIN raw.lefts : raw.lefts[i] < Len(raw.tokens)
  /\ \A i \in DOMAIN raw.rights : \A r \in ToSet(raw.rights[i]) : r < Len(raw.tokens)

Parsed(raw) ==
  [tokens |-> raw.tokens, tags |-> raw.tags, tag5 |-> ToSet(raw.tag5), tag4 |-> ToSet(raw.tag4),
   nearNoop |-> raw.nearNoop,
   edges |-> [left \in ToSet(raw.lefts) |->
                UNION {ToSet(raw.rights[i]) : i \in {j \in DOMAIN raw.lefts : raw.lefts[j] = left}}]]

\* pack_edge
Edge(left, right) == left * Radix + right

NearNoopCells(nearNoop) ==
  IF nearNoop = << >> THEN <<0>>
  ELSE LET calibration == nearNoop[1]
       IN <<1, calibration.threshold, calibration.documents, Len(calibration.dev)>>
            \o calibration.dev \o <<Len(calibration.method)>> \o calibration.method

Magic == 7
Version == 1
ShaOf == 5

Section(numbers) == <<Cardinality(numbers)>> \o InOrder(numbers)

\* Mutant of EdgesOf: edges by their right id first.
EdgesByRight(pack) ==
  UNION {{Edge(r, left) : r \in pack.edges[left]} : left \in DOMAIN pack.edges}

EdgesOf(pack) ==
  UNION {{Edge(left, r) : r \in pack.edges[left]} : left \in DOMAIN pack.edges}

\* pack_attestation_bin
ArtifactOf(pack) ==
  <<Magic, Version, ShaOf>> \o NearNoopCells(pack.nearNoop)
    \o VocabCells(pack.tokens) \o <<Cardinality(DOMAIN pack.edges)>> \o Section(EdgesOf(pack))
    \o VocabCells(pack.tags) \o Section(pack.tag5) \o Section(pack.tag4)

-----------------------------------------------------------------------------
(* AttestationPack::from_bin.                                                *)
NoPart == [at |-> Refused, value |-> << >>]

ReadNearNoop(file, from) ==
  LET dev == Peek(file, from + 3)
      size == Peek(file, from + 4 + dev)
      end == from + 5 + dev + size
      method == SubSeq(file, end - size + 1, end)
  IN CASE Within(file, from, from + 1) /\ file[from + 1] = 0 -> [at |-> from + 1, value |-> << >>]
       [] /\ Within(file, from, end) /\ file[from + 1] = 1
          /\ dev \in {0, 1} /\ IsText(method) ->
            [at |-> end,
             value |-> <<[threshold |-> file[from + 2], documents |-> file[from + 3],
                          dev |-> SubSeq(file, from + 5, from + 4 + dev), method |-> method]>>]
       [] OTHER -> NoPart

(* What read_vocab demands: offsets that ascend over the pool, and a lookup  *)
(* table of ids that are there, in the order of their texts.                 *)
SoundVocab(vocab) ==
  LET n == Len(vocab.lookup)
  IN /\ n <= vocab.count
     /\ \A i \in 1 .. vocab.count : vocab.offsets[i] <= vocab.offsets[i + 1]
     /\ vocab.offsets[1] = 0 /\ vocab.offsets[vocab.count + 1] = Len(vocab.pool)
     /\ \A i \in 1 .. n : vocab.lookup[i] < vocab.count
     /\ \A i \in 1 .. n - 1 :
          ByteLess(TextAt(vocab, vocab.lookup[i]), TextAt(vocab, vocab.lookup[i + 1]))

WithLookup(table, ids) == [k \in {"count", "offsets", "pool"} |-> table[k]] @@ [lookup |-> ids]

AfterTable(file, table) ==
  LET end == table.at + 1 + Peek(file, table.at)
      vocab == WithLookup(table, SubSeq(file, table.at + 2, end))
  IN IF Within(file, table.at, end) /\ SoundVocab(vocab) THEN [at |-> end, value |-> vocab] ELSE NoPart

ReadVocab(file, from) == AfterTable(file, ReadStringTable(file, from))

ReadNumber(file, from) ==
  IF Within(file, from, from + 1) THEN [at |-> from + 1, value |-> file[from + 1]] ELSE NoPart

\* validate_edges and validate_ascending_u64, of a counted section.
ReadAscending(file, from) ==
  LET end == from + 1 + Peek(file, from)
      cells == SubSeq(file, from + 2, end)
  IN IF Within(file, from, end) /\ StrictlyAscending(cells) THEN [at |-> end, value |-> cells] ELSE NoPart

ReadSection(file, from, section) ==
  CASE section = "nearNoop" -> ReadNearNoop(file, from)
    [] section \in {"vocab", "tags"} -> ReadVocab(file, from)
    [] section = "lefts" -> ReadNumber(file, from)
    [] section \in {"edges", "tag5", "tag4"} -> ReadAscending(file, from)

DistinctLefts(edges) == Cardinality({e \div Radix : e \in ToSet(edges)})

ReadSections(file) ==
  FoldLeft(LAMBDA so, section :
             LET part == ReadSection(file, so.at, section)
             IN [at |-> part.at, view |-> (section :> part.value) @@ so.view],
           [at |-> IF Len(file) >= 3 THEN 3 ELSE Refused, view |-> [sha |-> ShaOf]],
           <<"nearNoop", "vocab", "lefts", "edges", "tags", "tag5", "tag4">>)

Checked(file, read) ==
  IF /\ read.at = Len(file)
     /\ file[1] = Magic /\ file[2] = Version /\ file[3] # NotUtf8
     /\ DistinctLefts(read.view.edges) = read.view.lefts
  THEN <<read.view>> ELSE << >>

\* The view in a sequence of its own, or no view.
LoadArtifact(file) == Checked(file, ReadSections(file))

-----------------------------------------------------------------------------
(* Lookups of the parsed pack and of the view.                               *)
AttestsOwned(pack, left, right) ==
  \/ /\ {left, right} \subseteq ToSet(pack.tokens)
     /\ FirstId(pack.tokens, left) \in DOMAIN pack.edges
     /\ FirstId(pack.tokens, right) \in pack.edges[FirstId(pack.tokens, left)]
  \/ <<left, right>> \in Pooled

HasEdge(view, l, r) == Missing \notin {l, r} /\ Finds(view.edges, Edge(l, r))
AttestsView(view, left, right) ==
  HasEdge(view, IdIn(view.vocab, left), IdIn(view.vocab, right)) \/ <<left, right>> \in Pooled

\* The code of a window of tags, Missing when one is unknown.
OwnedCode(pack, window) ==
  IF ToSet(window) \subseteq ToSet(pack.tags)
  THEN WindowCode([i \in DOMAIN window |-> FirstId(pack.tags, window[i])], Len(pack.tags))
  ELSE Missing

CodeOf(ids, base) == IF Missing \in ToSet(ids) THEN Missing ELSE WindowCode(ids, base)
ViewCode(view, window) ==
  CodeOf([i \in DOMAIN window |-> IdIn(view.tags, window[i])], view.tags.count)

\* Whether the five tags from position i are attested, or else the four.
OwnedWindows(pack, tags) ==
  [i \in 1 .. Len(tags) |->
     \/ i + 4 <= Len(tags) /\ OwnedCode(pack, SubSeq(tags, i, i + 4)) \in pack.tag5
     \/ i + 3 <= Len(tags) /\ OwnedCode(pack, SubSeq(tags, i, i + 3)) \in pack.tag4]

ViewWindows(view, tags) ==
  [i \in 1 .. Len(tags) |->
     \/ i + 4 <= Len(tags) /\ Finds(view.tag5, ViewCode(view, SubSeq(tags, i, i + 4)))
     \/ i + 3 <= Len(tags) /\ Finds(view.tag4, ViewCode(view, SubSeq(tags, i, i + 3)))]

\* Mutant of WindowAttested: the last window that starts in reach is looked at too.
OneWindowFurther(windows, lo, hi) ==
  LET n == Len(windows)
      start == Max({lo - 3, 0})
      end == Max({Min({Max({n - 4, 0}), hi + 3}) + 1, start + 1})
  IN n > 0 /\ \A i \in start .. end : i < n => windows[i + 1]

(* window_attested: every window near the edit of tags lo to hi, from 0, and *)
(* at least one.                                                             *)
WindowAttested(windows, lo, hi) ==
  LET n == Len(windows)
      start == Max({lo - 3, 0})
      end == Max({Min({Max({n - 4, 0}), hi + 3}), start + 1})
  IN n > 0 /\ \A i \in start .. end - 1 : i < n => windows[i + 1]

-----------------------------------------------------------------------------
(* The budget, in hundredths of an edit per thousand words; PivotBudget       *)
(* rounds it up.                                                             *)
Budget(nearNoop, words) ==
  (nearNoop[1].threshold * words + 99999) \div 100000

(* Pivots (sentence.rs 996) and dejusts (1141) are charged alike, and the     *)
(* first the budget does not last for is the last one tried: the edits made   *)
(* are the first so many.                                                     *)
Spent(nearNoop, doc) ==
  IF nearNoop = << >> THEN Len(doc.charges)
  ELSE Cardinality({i \in DOMAIN doc.charges : i <= Budget(nearNoop, doc.words)})

\* Which of the first n edits are of a rule.
OfRule(doc, n, rule) == {i \in 1 .. n : doc.charges[i] = rule}

\* measure_pivot_rates counts the patches of pivot.lvc and no others.
Pivots(nearNoop, doc) == Cardinality(OfRule(doc, Spent(nearNoop, doc), "pivot.lvc"))

\* Mutant of Threshold: the documents' mean in place of their maximum.
ThresholdOfMean(nearNoop, docs) ==
  LET counted == {d \in docs : d.words > 0}
  IN (SumSet({(Pivots(nearNoop, d) * 115000) \div d.words : d \in counted})) \div (Cardinality(counted) + 1)

(* calibrate_near_noop: 1.15 times the highest rate, rounded up. *)
Threshold(nearNoop, docs) ==
  Max({(Pivots(nearNoop, d) * 115000 + d.words - 1) \div d.words :
         d \in {e \in docs : e.words > 0}} \cup {0})

Calibration(nearNoop, docs) ==
  [threshold |-> Threshold(nearNoop, docs), documents |-> Cardinality(docs), dev |-> << >>,
   method |-> <<1, 2>>]

-----------------------------------------------------------------------------
Init ==
  /\ corpus = {} /\ mining = << >> /\ under = << >> /\ intact = TRUE
  /\ toml = Rendered({})
  /\ built = toml /\ behind = toml
  /\ artifact = ArtifactOf(Parsed(toml))
  /\ embedded = LoadArtifact(artifact)

Collect ==
  /\ intact
  /\ \E d \in Documents \ corpus : corpus' = corpus \cup {d}
  /\ UNCHANGED <<toml, mining, artifact, intact, embedded, under, built, behind>>

(* attest writes the pack without a calibration first; with                  *)
(* --calibrate-near-noop it then measures and writes it again.               *)
Attest ==
  /\ intact /\ mining = << >>
  /\ toml' = Rendered(corpus)
  /\ mining' \in {<< >>, <<corpus>>}
  /\ UNCHANGED <<corpus, artifact, intact, embedded, under, built, behind>>

Calibrate ==
  /\ intact /\ mining # << >>
  /\ toml' = [toml EXCEPT !.nearNoop = <<Calibration(embedded[1].nearNoop, mining[1])>>]
  /\ under' = embedded[1].nearNoop
  /\ mining' = << >>
  /\ UNCHANGED <<corpus, artifact, intact, embedded, built, behind>>

\* The run ends while it measures.
Interrupt ==
  /\ mining # << >>
  /\ mining' = << >>
  /\ UNCHANGED <<corpus, toml, artifact, intact, embedded, under, built, behind>>

Pack ==
  /\ intact /\ Parses(toml)
  /\ artifact' = ArtifactOf(Parsed(toml))
  /\ built' = toml
  /\ UNCHANGED <<corpus, toml, mining, intact, embedded, under, behind>>

Damaged(file) ==
  {[file EXCEPT ![i] = cell] : i \in DOMAIN file, cell \in DamagedCells}
    \cup {SubSeq(file, 1, n) : n \in 0 .. Len(file) - 1}
    \cup {Append(file, cell) : cell \in DamagedCells}

\* Bound: a fresh artifact is damaged, once, and nobody works on after it.
Damage ==
  /\ intact /\ mining = << >> /\ toml = built /\ corpus = toml.docs
  /\ artifact' \in Damaged(artifact) \ {artifact}
  /\ intact' = FALSE
  /\ UNCHANGED <<corpus, toml, mining, embedded, under, built, behind>>

Rebuild ==
  /\ embedded' = LoadArtifact(artifact)
  /\ behind' = built
  /\ UNCHANGED <<corpus, toml, mining, artifact, intact, under, built>>

Next == Collect \/ Attest \/ Calibrate \/ Interrupt \/ Pack \/ Damage \/ Rebuild
Spec == Init /\ [][Next]_vars

-----------------------------------------------------------------------------
TaggedSentences == {Wrapped(s.tags) : s \in SentencesOf(Documents)}

(* The view answers every pair of words and every sequence of tags as the    *)
(* audited pack it was made from.                                            *)
AnswersAlike(view, pack) ==
  /\ view.nearNoop = pack.nearNoop
  /\ \A l, r \in Queried : AttestsView(view, l, r) = AttestsOwned(pack, l, r)
  /\ \A tags \in TaggedSentences : ViewWindows(view, tags) = OwnedWindows(pack, tags)

(* No lookup in an artifact that loads, damaged or not, leaves its slices.   *)
LookupsStayInside ==
  embedded # << >> =>
    \A text \in Queried : IdIn(embedded[1].vocab, text) # Panic /\ IdIn(embedded[1].tags, text) # Panic

(* An artifact loads and answers like the audited pack it was made from, and *)
(* no lookup in one that loads, damaged or not, leaves it.                   *)
ArtifactAnswersLikeItsSource ==
  /\ intact => embedded # << >> /\ AnswersAlike(embedded[1], Parsed(behind))
  /\ LookupsStayInside

(* What a human wrote is attested: every seam of a mined sentence, and any    *)
(* edit of it that leaves its tags as they are, when it has two tags or more. *)
(* With one it has no window of four, and none of its edits is attested: "at  *)
(* least one window" is looked at (attestation.rs:548-550), and it is short.  *)
AnyEditAttested(windows) ==
  LET n == Len(windows)
  IN \A lo \in 0 .. n - 1 : \A hi \in lo .. n - 1 : WindowAttested(windows, lo, hi) <=> n >= 4

MinedEvidenceIsAttested ==
  intact =>
    \A s \in SentencesOf(behind.docs) :
      /\ \A p \in SeamPairs(s.words) : AttestsView(embedded[1], p[1], p[2])
      /\ AnyEditAttested(ViewWindows(embedded[1], Wrapped(s.tags)))

(* Of the edits the measuring engine made in a document, the budget that is   *)
(* calibrated from them would hold back no more than it made dejusts: none,   *)
(* where pivots alone were made.  It may hold back a pivot that comes after a *)
(* dejust, since dejusts spend the budget (sentence.rs:1114-1116) but are not *)
(* measured (attest.rs:144-149).  The measuring engine is the one of the last *)
(* build, with its calibration if it has one: only without one is it          *)
(* "unconstrained by any prior [near_noop] table" (attest.rs:88-91), and then *)
(* what it made is all there is to make.                                      *)
CalibrationSparesHumans ==
  toml.nearNoop # << >> =>
    \A d \in toml.docs :
      Spent(under, d) - Spent(toml.nearNoop, d)
        <= Cardinality(OfRule(d, Spent(under, d), "frame.dejust"))
-----------------------------------------------------------------------------
(* Why a calibration spares the documents it was measured on, for any        *)
(* corpus: an engine makes no edit where there is no word; the pack and the  *)
(* run that measures speak of the same documents, whatever is collected,     *)
(* packed, embedded or interrupted in between; a measurement of finitely     *)
(* many documents has a highest rate; and what is not a pivot is a dejust.   *)
DocumentsAreCounted ==
  \A d \in Documents :
    /\ d.words \in Nat /\ d.charges \in Seq({"pivot.lvc", "frame.dejust"})
    /\ d.words = 0 => d.charges = << >>

RateOf(nearNoop, d) == (Pivots(nearNoop, d) * 115000 + d.words - 1) \div d.words
Spoken(docs) == {d \in docs : d.words > 0}
Bounded(docs) == \E b \in Nat : \A d \in docs : Len(d.charges) <= b
Measured(docs) == docs \subseteq Documents /\ Bounded(docs)

CalibrationInv ==
  /\ Measured(corpus)
  /\ toml = [field \in DOMAIN toml |-> toml[field]] /\ {"docs", "nearNoop"} \subseteq DOMAIN toml
  /\ Measured(toml.docs)
  /\ mining # << >> => mining = <<toml.docs>>
  /\ toml.nearNoop # << >> => toml.nearNoop = <<Calibration(under, toml.docs)>>

\* A bounded set of numbers with 0 in it has a greatest one.
LEMMA GreatestNat ==
  ASSUME NEW T, T \subseteq Nat, 0 \in T, NEW b \in Nat, \A x \in T : x <= b
  PROVE  Max(T) \in T /\ \A x \in T : x <= Max(T)
<1> DEFINE U == {n \in Nat : \A x \in T : x <= n}
           R == OpToRel(<, Nat)
<1>1. b \in U /\ U \subseteq Nat
  OBVIOUS
<1>2. \E m \in U : \A n \in U : ~(n < m)
  <2>1. IsWellFoundedOn(R, Nat)
    BY NatLessThanWellFounded
  <2> HIDE DEF U, R
  <2>2. PICK m \in U : \A n \in U : ~ (<<n, m>> \in R)
    BY <1>1, <2>1, WFMin
  <2> QED BY <1>1, <2>2 DEF OpToRel, R
<1>3. PICK m \in U : \A n \in U : ~(n < m)
  BY <1>2
<1>4. m \in T
  <2> SUFFICES ASSUME m \notin T PROVE FALSE
    OBVIOUS
  <2>1. \A x \in T : x <= m /\ x # m /\ x \in Nat
    BY <1>3
  <2>2. m - 1 \in U
    BY <2>1, <1>3
  <2> QED BY <2>2, <1>3
<1>5. \A x \in T : x <= m
  BY <1>3
<1> QED BY <1>4, <1>5 DEF Max

\* Quotient and remainder.
LEMMA Division ==
  ASSUME NEW x \in Nat, NEW w \in Nat, w > 0
  PROVE  /\ x \div w \in Nat /\ x % w \in 0 .. w - 1
         /\ x = w * (x \div w) + (x % w)
  OBVIOUS

\* No more edits are made than there are.
LEMMA SpentIsCounted ==
  ASSUME DocumentsAreCounted, NEW d \in Documents, NEW nearNoop
  PROVE  Spent(nearNoop, d) \in 0 .. Len(d.charges)
<1> DEFINE n == Len(d.charges)
           S == {i \in DOMAIN d.charges : i <= Budget(nearNoop, d.words)}
<1>1. n \in Nat /\ DOMAIN d.charges = 1 .. n
  BY DEF DocumentsAreCounted
<1>2. IsFiniteSet(1 .. n) /\ Cardinality(1 .. n) = n
  BY <1>1, FS_Interval
<1>3. S \subseteq 1 .. n
  BY <1>1
<1>4. Cardinality(S) \in Nat /\ Cardinality(S) <= n
  BY <1>2, <1>3, FS_Subset, FS_CardinalityType
<1> QED BY <1>1, <1>4 DEF Spent

\* The edits of the two rules make up all of them.
LEMMA PivotsAndDejusts ==
  ASSUME DocumentsAreCounted, NEW d \in Documents, NEW n \in 0 .. Len(d.charges)
  PROVE  /\ Cardinality(OfRule(d, n, "pivot.lvc")) \in Nat
         /\ Cardinality(OfRule(d, n, "frame.dejust")) \in Nat
         /\ n = Cardinality(OfRule(d, n, "pivot.lvc")) + Cardinality(OfRule(d, n, "frame.dejust"))
<1> DEFINE P == OfRule(d, n, "pivot.lvc")
           D == OfRule(d, n, "frame.dejust")
<1>1. n \in Nat /\ \A i \in 1 .. n : d.charges[i] \in {"pivot.lvc", "frame.dejust"}
  BY DEF DocumentsAreCounted
<1>2. P \cup D = 1 .. n /\ P \cap D = {} /\ P \subseteq 1 .. n /\ D \subseteq 1 .. n
  BY <1>1 DEF OfRule
<1>3. IsFiniteSet(1 .. n) /\ Cardinality(1 .. n) = n
  BY <1>1, FS_Interval
<1>4. IsFiniteSet(P) /\ IsFiniteSet(D)
  BY <1>2, <1>3, FS_Subset
<1>5. Cardinality(P) \in Nat /\ Cardinality(D) \in Nat
  BY <1>4, FS_CardinalityType
<1>6. Cardinality(P \cup D) = Cardinality(P) + Cardinality(D) - Cardinality(P \cap D)
  BY <1>4, FS_Union
<1>7. Cardinality(P \cap D) = 0
  BY <1>2, FS_EmptySet
<1> HIDE DEF P, D
<1>8. Cardinality(P \cup D) = n
  BY <1>2, <1>3
<1>9. n = Cardinality(P) + Cardinality(D)
  BY <1>1, <1>5, <1>6, <1>7, <1>8
<1> QED BY <1>5, <1>9 DEF P, D

\* A rate is rounded up, and bounded by the edits there are.
LEMMA RatesAreNumbers ==
  ASSUME DocumentsAreCounted, NEW d \in Documents, d.words > 0, NEW nearNoop
  PROVE  /\ Pivots(nearNoop, d) \in Nat /\ RateOf(nearNoop, d) \in Nat
         /\ Pivots(nearNoop, d) * 115000 <= RateOf(nearNoop, d) * d.words
         /\ RateOf(nearNoop, d) <= Len(d.charges) * 115000
<1> DEFINE p == Pivots(nearNoop, d)
           w == d.words
           x == p * 115000 + w - 1
           r == RateOf(nearNoop, d)
<1>1. w \in Nat /\ w > 0 /\ Len(d.charges) \in Nat
  BY DEF DocumentsAreCounted
<1>2. p \in Nat /\ p <= Len(d.charges)
  <2>1. Spent(nearNoop, d) \in 0 .. Len(d.charges)
    BY SpentIsCounted
  <2> QED BY <2>1, <1>1, PivotsAndDejusts DEF Pivots
<1>3. r = x \div w
  BY DEF RateOf
<1> HIDE DEF p, w, r
<1>4. x \in Nat
  BY <1>1, <1>2
<1>5. r \in Nat /\ x % w \in 0 .. w - 1 /\ x = w * r + (x % w)
  <2> HIDE DEF x
  <2> QED BY <1>1, <1>3, <1>4, Division
<1>6. p * 115000 <= r * w
  <2>1. r * w = w * r /\ w * r \in Int
    BY <1>1, <1>5
  <2> QED BY <1>1, <1>2, <1>5, <2>1
<1>7. r <= p * 115000
  <2> DEFINE k == p * 115000
  <2>1. k \in Nat /\ w * r <= k + w - 1
    <3>1. w * r \in Int
      BY <1>1, <1>5
    <3> QED BY <1>1, <1>2, <1>5, <3>1
  <2> HIDE DEF k
  <2>2. SUFFICES ASSUME r >= k + 1 PROVE FALSE
    BY <2>1, <1>5 DEF k
  <2>3. r - (k + 1) \in Nat
    BY <2>1, <2>2, <1>5
  <2>4. w * r = w * (k + 1) + w * (r - (k + 1)) /\ w * (r - (k + 1)) \in Nat
    BY <1>1, <1>5, <2>1, <2>3
  <2>5. w * (k + 1) = k + (w - 1) * k + w /\ (w - 1) * k \in Nat
    BY <1>1, <2>1
  <2> QED BY <1>1, <2>1, <2>4, <2>5
<1>8. r <= Len(d.charges) * 115000
  BY <1>1, <1>2, <1>5, <1>7
<1> HIDE DEF x
<1> QED BY <1>2, <1>5, <1>6, <1>8 DEF p, w, r

\* The documents' own rates stay under the threshold.
LEMMA ThresholdIsHighest ==
  ASSUME DocumentsAreCounted, NEW docs, Measured(docs), NEW nearNoop
  PROVE  /\ Threshold(nearNoop, docs) \in Nat
         /\ \A d \in Spoken(docs) : RateOf(nearNoop, d) <= Threshold(nearNoop, docs)
<1> DEFINE T == {RateOf(nearNoop, d) : d \in Spoken(docs)} \cup {0}
<1>1. PICK b \in Nat : \A d \in docs : Len(d.charges) <= b
  BY DEF Measured, Bounded
<1>2. T \subseteq Nat
  BY RatesAreNumbers DEF Spoken, Measured
<1>3. Threshold(nearNoop, docs) = Max(T)
  BY DEF Threshold, RateOf, Spoken
<1>4. Max(T) \in T /\ \A x \in T : x <= Max(T)
  <2>1. \A d \in Spoken(docs) : RateOf(nearNoop, d) <= b * 115000
    <3> SUFFICES ASSUME NEW d \in Spoken(docs) PROVE RateOf(nearNoop, d) <= b * 115000
      OBVIOUS
    <3>1. d \in Documents /\ d.words > 0 /\ Len(d.charges) <= b /\ Len(d.charges) \in Nat
      BY <1>1 DEF Spoken, Measured, DocumentsAreCounted
    <3>2. RateOf(nearNoop, d) \in Nat /\ RateOf(nearNoop, d) <= Len(d.charges) * 115000
      BY <3>1, RatesAreNumbers
    <3> QED BY <3>1, <3>2
  <2> DEFINE c == b * 115000
  <2>2. 0 \in T /\ c \in Nat /\ \A x \in T : x <= c
    BY <2>1
  <2> HIDE DEF T, c
  <2> QED BY <1>2, <2>2, GreatestNat
<1> QED BY <1>2, <1>3, <1>4

\* What a budget of so many allows: that many edits, or all there are.
LEMMA BudgetIsSpent ==
  ASSUME DocumentsAreCounted, NEW d \in Documents, NEW nearNoop, nearNoop # << >>,
         Budget(nearNoop, d.words) \in Nat
  PROVE  \/ Spent(nearNoop, d) = Budget(nearNoop, d.words)
         \/ Spent(nearNoop, d) = Len(d.charges)
<1> DEFINE n == Len(d.charges)
           k == Budget(nearNoop, d.words)
           S == {i \in DOMAIN d.charges : i <= k}
<1>1. n \in Nat /\ DOMAIN d.charges = 1 .. n
  BY DEF DocumentsAreCounted
<1>2. Spent(nearNoop, d) = Cardinality(S) /\ k \in Nat
  BY DEF Spent
<1> HIDE DEF n, k
<1>3. \A m \in Nat : Cardinality(1 .. m) = m
  BY FS_Interval
<1>4. CASE k <= n
  <2>1. S = 1 .. k
    BY <1>1, <1>2, <1>4 DEF k
  <2>2. Spent(nearNoop, d) = k
    BY <1>2, <1>3, <2>1
  <2> QED BY <2>2 DEF k
<1>5. CASE n < k
  <2>1. S = 1 .. n
    BY <1>1, <1>2, <1>5 DEF k
  <2>2. Spent(nearNoop, d) = n
    BY <1>1, <1>2, <1>3, <2>1
  <2> QED BY <2>2 DEF n
<1> QED BY <1>1, <1>2, <1>4, <1>5

\* What the budget allows a document that was measured is the pivots it was
\* measured by, at least.
LEMMA MeasuredIsAllowed ==
  ASSUME DocumentsAreCounted, NEW docs, Measured(docs), NEW d \in docs, NEW nearNoop
  PROVE  LET allowed == Budget(<<Calibration(nearNoop, docs)>>, d.words)
         IN allowed \in Nat /\ Pivots(nearNoop, d) \in Nat /\ Pivots(nearNoop, d) <= allowed
<1> DEFINE t == Threshold(nearNoop, docs)
           p == Pivots(nearNoop, d)
           allowed == (t * d.words + 99999) \div 100000
<1>1. /\ d \in Documents /\ d.words \in Nat /\ Len(d.charges) \in Nat
      /\ (d.words = 0 => Len(d.charges) = 0)
  BY DEF Measured, DocumentsAreCounted
<1>2. t \in Nat /\ \A e \in Spoken(docs) : RateOf(nearNoop, e) <= t
  BY ThresholdIsHighest
<1>3. Budget(<<Calibration(nearNoop, docs)>>, d.words) = allowed
  <2> DEFINE c == Calibration(nearNoop, docs)
  <2>1. c.threshold = t
    BY DEF Calibration
  <2> HIDE DEF c, t
  <2>2. <<c>>[1] = c
    OBVIOUS
  <2> QED BY <2>1, <2>2 DEF Budget, c
<1>4. p \in Nat /\ p <= Len(d.charges)
  <2>1. Spent(nearNoop, d) \in 0 .. Len(d.charges)
    BY <1>1, SpentIsCounted
  <2> QED BY <2>1, <1>1, PivotsAndDejusts DEF Pivots
<1>5. d.words > 0 => /\ RateOf(nearNoop, d) \in Nat /\ p * 115000 <= RateOf(nearNoop, d) * d.words
                     /\ RateOf(nearNoop, d) <= t
  BY <1>1, <1>2, RatesAreNumbers DEF Spoken
<1> HIDE DEF t, p
<1>6. t * d.words \in Nat
  BY <1>1, <1>2
<1>7. p * 115000 <= t * d.words
  <2>1. CASE d.words = 0
    BY <2>1, <1>1, <1>4, <1>6
  <2>2. CASE d.words > 0
    <3> DEFINE r == RateOf(nearNoop, d)
    <3>1. r \in Nat /\ p * 115000 <= r * d.words /\ r <= t
      BY <2>2, <1>5
    <3> HIDE DEF r
    <3>2. t - r \in Nat
      BY <3>1, <1>2
    <3>3. t * d.words = r * d.words + (t - r) * d.words
      BY <3>1, <3>2, <1>1, <1>2
    <3>4. (t - r) * d.words \in Nat /\ r * d.words \in Nat
      BY <3>1, <3>2, <1>1
    <3> QED BY <3>1, <3>3, <3>4, <1>4
  <2> QED BY <2>1, <2>2, <1>1
<1>8. allowed \in Nat /\ p <= allowed
  <2> DEFINE x == t * d.words
  <2>1. x \in Nat /\ p * 115000 <= x
    BY <1>6, <1>7
  <2> HIDE DEF x
  <2>2. (x + 99999) \div 100000 \in Nat /\ p <= (x + 99999) \div 100000
    BY <2>1, <1>4
  <2> QED BY <2>2 DEF x
<1> HIDE DEF allowed
<1> QED BY <1>3, <1>4, <1>8 DEF p

\* So no more is held back than there are dejusts among what was made.
LEMMA MeasuredIsSpared ==
  ASSUME DocumentsAreCounted, NEW docs, Measured(docs), NEW d \in docs, NEW nearNoop
  PROVE  Spent(nearNoop, d) - Spent(<<Calibration(nearNoop, docs)>>, d)
           <= Cardinality(OfRule(d, Spent(nearNoop, d), "frame.dejust"))
<1> DEFINE c == <<Calibration(nearNoop, docs)>>
           made == Spent(nearNoop, d)
           dejusts == Cardinality(OfRule(d, made, "frame.dejust"))
<1>1. d \in Documents /\ Len(d.charges) \in Nat
  BY DEF Measured, DocumentsAreCounted
<1>2. /\ Budget(c, d.words) \in Nat /\ Pivots(nearNoop, d) \in Nat
      /\ Pivots(nearNoop, d) <= Budget(c, d.words)
  BY MeasuredIsAllowed
<1>3. c # << >>
  OBVIOUS
<1>4. made \in 0 .. Len(d.charges)
  BY <1>1, SpentIsCounted
<1>5. dejusts \in Nat /\ made = Pivots(nearNoop, d) + dejusts
  BY <1>1, <1>4, PivotsAndDejusts DEF Pivots
<1> HIDE DEF c, made, dejusts
<1>6. Spent(c, d) = Budget(c, d.words) \/ Spent(c, d) = Len(d.charges)
  BY <1>1, <1>2, <1>3, BudgetIsSpent
<1>7. made - Spent(c, d) <= dejusts
  BY <1>1, <1>2, <1>4, <1>5, <1>6
<1> QED BY <1>7 DEF c, made, dejusts

\* A document more raises the number of edits to some number, at most.
LEMMA CollectingKeepsMeasure ==
  ASSUME DocumentsAreCounted, Measured(corpus), NEW d \in Documents
  PROVE  Measured(corpus \cup {d})
<1>1. PICK b \in Nat : \A e \in corpus : Len(e.charges) <= b
  BY DEF Measured, Bounded
<1>2. \A e \in corpus \cup {d} : Len(e.charges) \in Nat
  BY DEF Measured, DocumentsAreCounted
<1>3. b + Len(d.charges) \in Nat /\ \A e \in corpus \cup {d} : Len(e.charges) <= b + Len(d.charges)
  BY <1>1, <1>2
<1> QED BY <1>3 DEF Measured, Bounded

\* A pack speaks of the documents it was mined from and holds no calibration yet.
LEMMA RenderedSpeaksOf ==
  ASSUME NEW docs
  PROVE  /\ Rendered(docs) = [field \in DOMAIN Rendered(docs) |-> Rendered(docs)[field]]
         /\ {"docs", "nearNoop"} \subseteq DOMAIN Rendered(docs)
         /\ Rendered(docs).docs = docs /\ Rendered(docs).nearNoop = << >>
  BY DEF Rendered, Render

\* The invariant holds of the empty corpus.
LEMMA CalibrationInit ==
  ASSUME Init
  PROVE  CalibrationInv
<1>1. Measured({})
  BY DEF Measured, Bounded
<1> QED BY <1>1, RenderedSpeaksOf DEF Init, CalibrationInv

\* Every step keeps it; only Calibrate measures, and it measures toml's documents.
LEMMA CalibrationStep ==
  ASSUME DocumentsAreCounted, CalibrationInv, [Next]_vars
  PROVE  CalibrationInv'
<1>1. CASE Collect
  BY <1>1, CollectingKeepsMeasure DEF Collect, CalibrationInv
<1>2. CASE Attest
  BY <1>2, RenderedSpeaksOf DEF Attest, CalibrationInv
<1>3. CASE Calibrate
  <2>1. mining = <<toml.docs>> /\ mining[1] = toml.docs
    BY <1>3 DEF Calibrate, CalibrationInv
  <2>2. toml' = [toml EXCEPT !.nearNoop = <<Calibration(embedded[1].nearNoop, toml.docs)>>]
    BY <1>3, <2>1 DEF Calibrate
  <2>3. /\ DOMAIN toml' = DOMAIN toml /\ toml' = [field \in DOMAIN toml' |-> toml'[field]]
        /\ toml'.docs = toml.docs /\ toml'.nearNoop = <<Calibration(embedded[1].nearNoop, toml.docs)>>
    BY <2>2 DEF CalibrationInv
  <2>4. under' = embedded[1].nearNoop /\ corpus' = corpus /\ mining' = << >>
    BY <1>3 DEF Calibrate
  <2> QED BY <2>3, <2>4 DEF CalibrationInv, Measured, Bounded
<1>4. CASE Interrupt \/ Pack \/ Damage \/ Rebuild \/ UNCHANGED vars
  BY <1>4 DEF Interrupt, Pack, Damage, Rebuild, vars, CalibrationInv
<1> QED BY <1>1, <1>2, <1>3, <1>4 DEF Next

(* For every set of documents and every order of collecting, mining,         *)
(* calibrating, packing, embedding and interruptions, calibrations under an  *)
(* earlier one included: the budget holds back no more of what the measuring *)
(* engine made in a document than it made dejusts, with 1.15 and both        *)
(* roundings as calibrate_near_noop and PivotBudget make them.               *)
THEOREM CalibrationsSpareHumans ==
  ASSUME DocumentsAreCounted
  PROVE  Spec => []CalibrationSparesHumans
<1>1. Init => CalibrationInv
  BY CalibrationInit
<1>2. CalibrationInv /\ [Next]_vars => CalibrationInv'
  BY CalibrationStep
<1>3. CalibrationInv => CalibrationSparesHumans
  BY MeasuredIsSpared DEF CalibrationInv, CalibrationSparesHumans
<1> QED BY <1>1, <1>2, <1>3, PTL DEF Spec
=============================================================================
