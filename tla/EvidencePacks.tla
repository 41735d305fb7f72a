---------------------------- MODULE EvidencePacks ----------------------------
(* The evidence mined from outside the corpus: the human-evidence pack of     *)
(* word and phrase counts, the pooled filter of seam pairs and the jargon     *)
(* filter of titles (friction-packs: human_evidence.rs, pooled_attest.rs,     *)
(* jargon_attest.rs; the corpus-tool commands of the same names).  The two    *)
(* filters are a file of their own with a second file beside it, written one  *)
(* after the other.  A filter holds the hashes it was built from and answers  *)
(* for some others too.                                                       *)
EXTENDS PackCells

CONSTANTS
  Sources,         \* label -> its documents, sequences of sentences of texts
  Phrases,         \* literal phrases of the frame rules: parts split at hyphens
  Titles, Topics,  \* of encyclopedia and index: segments between underscores,
                   \* parts between hyphens; the first letter and whether another
                   \* is not a small one
  Queries,         \* phrases looked up, as Phrases
  SentenceStart,
  HashValues,      \* values of a hash
  UnigramFloor,    \* 5: rarer words are left out
  BurstFloor,      \* 120 tokens: shorter documents have no burst
  PerMillion,      \* 1000000
  MinOccurrences,  \* 2: rarer pairs are left out
  DamagedCells

VARIABLES
  staged,   \* the labels of the sources staged so far
  hash,     \* of every pair and title
  evidence, \* the cells of the human-evidence pack
  mined,    \* the sources they were mined from
  intact,   \* they are as they were written
  loaded,   \* what both loaders made of them, and the sources these were mined from
  pooled,   \* the two files of the pooled filter, and where the bin came from
  jargon,   \* likewise
  writing   \* what a run has still to write, or << >>

vars == <<staged, hash, evidence, mined, intact, loaded, pooled, jargon, writing>>

DocumentsOf(labels) == UNION {{<<label, i>> : i \in DOMAIN Sources[label]} : label \in labels}
Tokens(doc) == FlattenSeq(Sources[doc[1]][doc[2]])

-----------------------------------------------------------------------------
(* Mining human evidence.                                                    *)
CountIn(tokens, word) == Cardinality({i \in DOMAIN tokens : tokens[i] = word})
Total(labels, word) == MapThenSumSet(LAMBDA d : CountIn(Tokens(d), word), DocumentsOf(labels))
Words(labels) == UNION {ToSet(Tokens(d)) : d \in DocumentsOf(labels)}

\* Rate of a word in a document, rounded.
Rate(tokens, word) ==
  (2 * CountIn(tokens, word) * PerMillion + Len(tokens)) \div (2 * Len(tokens))

Burst(labels, word) ==
  Max({0} \cup {Rate(Tokens(d), word) : d \in {e \in DocumentsOf(labels) : Len(Tokens(e)) >= BurstFloor}})

Unigrams(labels) ==
  [word \in {w \in Words(labels) : Total(labels, w) >= UnigramFloor} |->
     <<Total(labels, word), Burst(labels, word)>>]

\* derive_probes: a hyphen parts words; no probe is empty.
Key(phrase) == SelectSeq(FlattenSeq(phrase), LAMBDA part : part # << >>)
Probes(labels) == IF DocumentsOf(labels) = {} THEN {} ELSE {Key(p) : p \in Phrases} \ {<< >>}

\* Mutant of Scan: the next match may begin in the last word of this one.
ScanOverlapping(tokens, probe) ==
  FoldLeft(LAMBDA scan, i :
             IF i >= scan.from /\ i + Len(probe) - 1 <= Len(tokens)
                /\ SubSeq(tokens, i, i + Len(probe) - 1) = probe
             THEN [from |-> i + Max({1, Len(probe) - 1}), count |-> scan.count + 1] ELSE scan,
           [from |-> 1, count |-> 0], [i \in DOMAIN tokens |-> i]).count

(* scan_document: matches from the left, none that overlaps the one before. *)
Scan(tokens, probe) ==
  FoldLeft(LAMBDA scan, i :
             IF i >= scan.from /\ i + Len(probe) - 1 <= Len(tokens)
                /\ SubSeq(tokens, i, i + Len(probe) - 1) = probe
             THEN [from |-> i + Len(probe), count |-> scan.count + 1] ELSE scan,
           [from |-> 1, count |-> 0], [i \in DOMAIN tokens |-> i]).count

ProbeHits(labels) ==
  [probe \in Probes(labels) |->
     MapThenSumSet(LAMBDA d : Scan(Tokens(d), probe), DocumentsOf(labels))]

Magic == 7
Version == 2

WordIds(words, texts) == [i \in DOMAIN texts |-> FirstId(words, texts[i])]

UnigramCells(words, unigrams, listed) ==
  <<Len(listed)>> \o FlattenSeq([i \in DOMAIN listed |-> <<FirstId(words, listed[i])>> \o unigrams[listed[i]]])

ProbeCells(words, probes, listed) ==
  <<Len(listed)>>
    \o FlattenSeq([i \in DOMAIN listed |->
                     <<Len(listed[i])>> \o WordIds(words, listed[i]) \o <<probes[listed[i]]>>])

ProbeOrder(words, probes) ==
  SetToSortSeq(DOMAIN probes, LAMBDA p, q : ByteLess(WordIds(words, p), WordIds(words, q)))

PackBytes(words, unigrams, probes, total) ==
  <<Magic, Version, total>> \o StringTable(words)
    \o UnigramCells(words, unigrams, InByteOrder(DOMAIN unigrams))
    \o ProbeCells(words, probes, ProbeOrder(words, probes))

(* build_pack_bytes: words, then unigrams and probes by the ids of their words. *)
EvidenceCells(unigrams, probes, total) ==
  PackBytes(InByteOrder(DOMAIN unigrams \cup UNION {ToSet(p) : p \in DOMAIN probes}),
            unigrams, probes, total)

Mined(labels) ==
  EvidenceCells(Unigrams(labels), ProbeHits(labels),
                MapThenSumSet(LAMBDA d : Len(Tokens(d)), DocumentsOf(labels)))

-----------------------------------------------------------------------------
(* Both loaders read the same sections; the entry width of a unigram is      *)
(* three cells: id, count, burst.                                            *)
ProbeEnd(file, at) ==
  LET end == at + 2 + Peek(file, at) IN IF Within(file, at, end) THEN end ELSE Refused

ReadProbes(file, from) ==
  FoldLeft(LAMBDA so, i :
             LET end == ProbeEnd(file, so.at)
             IN [at |-> end,
                 probes |-> Append(so.probes, [ids |-> SubSeq(file, so.at + 2, end - 1),
                                               count |-> IF end = Refused THEN 0 ELSE file[end]])],
           [at |-> from + 1, probes |-> << >>], [i \in 1 .. Peek(file, from) |-> i])

AfterTable(file, table) ==
  LET count == Peek(file, table.at)
      probed == table.at + 1 + 3 * count
      read == ReadProbes(file, probed)
  IN IF /\ Within(file, table.at, probed + 1)
        /\ file[1] = Magic /\ file[2] = Version /\ IsText(table.pool)
        /\ read.at # Refused
     THEN <<[table |-> table, end |-> read.at, probes |-> read.probes,
             unigrams |-> [i \in 1 .. count |-> SubSeq(file, table.at + 3 * i - 1, table.at + 3 * i + 1)]]>>
     ELSE << >>

Sections(file) == AfterTable(file, ReadStringTable(file, 3))

NamedIds(part) ==
  {part.unigrams[i][1] : i \in DOMAIN part.unigrams}
    \cup UNION {ToSet(part.probes[i].ids) : i \in DOMAIN part.probes}

\* load: each id named resolves; a later entry replaces an earlier one.
Resolves(part) ==
  \A id \in NamedIds(part) : id < part.table.count /\ TextAt(part.table, id) # Outside

LastOf(entries, entry) == Max({i \in DOMAIN entries : entries[i] = entry})

OwnedMap(part, words, phrases) ==
  [unigrams |-> [w \in ToSet(words) |-> Tail(part.unigrams[LastOf(words, w)])],
   probes |-> [p \in ToSet(phrases) |-> part.probes[LastOf(phrases, p)].count]]

Texts(part, ids) == [j \in DOMAIN ids |-> TextAt(part.table, ids[j])]

LoadOwned(read) ==
  IF read = << >> THEN << >>
  ELSE IF ~Resolves(read[1]) THEN << >>
  ELSE <<OwnedMap(read[1],
                  [i \in DOMAIN read[1].unigrams |-> TextAt(read[1].table, read[1].unigrams[i][1])],
                  [i \in DOMAIN read[1].probes |-> Texts(read[1], read[1].probes[i].ids)])>>

\* Mutant of Ordered: entries of the interner may be equal.
OrderedLoosely(part) ==
  /\ \A id \in 1 .. part.table.count - 1 :
       /\ TextAt(part.table, id - 1) # Outside /\ TextAt(part.table, id) # Outside
       /\ ~ByteLess(TextAt(part.table, id), TextAt(part.table, id - 1))
  /\ \A i \in DOMAIN part.unigrams :
       /\ part.unigrams[i][1] < part.table.count
       /\ i > 1 => part.unigrams[i - 1][1] < part.unigrams[i][1]
  /\ \A i \in DOMAIN part.probes :
       /\ \A id \in ToSet(part.probes[i].ids) : id < part.table.count
       /\ i > 1 => ByteLess(part.probes[i - 1].ids, part.probes[i].ids)

(* What load_static demands besides: everything strictly ascends, so that it *)
(* can be searched; a table of a single word is never looked into.           *)
Ordered(part) ==
  /\ \A id \in 1 .. part.table.count - 1 :
       /\ TextAt(part.table, id - 1) # Outside /\ TextAt(part.table, id) # Outside
       /\ ByteLess(TextAt(part.table, id - 1), TextAt(part.table, id))
  /\ \A i \in DOMAIN part.unigrams :
       /\ part.unigrams[i][1] < part.table.count
       /\ i > 1 => part.unigrams[i - 1][1] < part.unigrams[i][1]
  /\ \A i \in DOMAIN part.probes :
       /\ \A id \in ToSet(part.probes[i].ids) : id < part.table.count
       /\ i > 1 => ByteLess(part.probes[i - 1].ids, part.probes[i].ids)

LoadStatic(read, size) ==
  IF read = << >> THEN << >> ELSE IF read[1].end = size /\ Ordered(read[1]) THEN read ELSE << >>

Loaded(read, size, labels) ==
  [view |-> LoadStatic(read, size), owned |-> LoadOwned(read), labels |-> labels]

-----------------------------------------------------------------------------
(* Lookups: an answer is a sequence, empty for none.                         *)
OwnedUnigram(pack, word) == IF word \in DOMAIN pack.unigrams THEN pack.unigrams[word] ELSE << >>
OwnedProbe(pack, key) == IF key \in DOMAIN pack.probes THEN <<pack.probes[key]>> ELSE << >>

WordId(view, word) ==
  BinarySearch([id \in 1 .. view.table.count |-> Compare(TextAt(view.table, id - 1), word)])

UnigramOf(view, id) ==
  LET found == BinarySearch([i \in DOMAIN view.unigrams |-> CompareNumbers(view.unigrams[i][1], id)])
  IN CASE id = Panic -> <<Panic>>
       [] id # Panic /\ Missing \in {id, found} -> << >>
       [] OTHER -> Tail(view.unigrams[found + 1])

ViewUnigram(view, word) == UnigramOf(view, WordId(view, word))

ProbeOf(view, ids) ==
  LET found == BinarySearch([i \in DOMAIN view.probes |-> Compare(view.probes[i].ids, ids)])
  IN CASE Panic \in ToSet(ids) -> <<Panic>>
       [] Panic \notin ToSet(ids) /\ Missing \in ToSet(ids) \cup {found} -> << >>
       [] OTHER -> <<view.probes[found + 1].count>>

ViewProbe(view, key) == ProbeOf(view, [i \in DOMAIN key |-> WordId(view, key[i])])

-----------------------------------------------------------------------------
(* The pooled filter.  seam_pairs counted over all documents of all sources. *)
PairCountIn(words, pair) ==
  LET seq == <<SentenceStart>> \o words
  IN Cardinality({i \in DOMAIN words : <<seq[i], seq[i + 1]>> = pair})

PairCount(labels, pair) ==
  MapThenSumSet(LAMBDA d : LET doc == Sources[d[1]][d[2]]
                           IN MapThenSumSet(LAMBDA i : PairCountIn(doc[i], pair), DOMAIN doc),
                DocumentsOf(labels))

AllPairs == (Words(DOMAIN Sources) \cup {SentenceStart}) \X Words(DOMAIN Sources)

KeptPairs(labels) == {pair \in AllPairs : PairCount(labels, pair) >= MinOccurrences}

(* build_pack_bytes of either filter: keys of one hash are one key; the      *)
(* filter answers for every key and may answer for other hashes.             *)
Filters(keys) ==
  LET hashes == {hash[k] : k \in keys}
  IN [count : {Cardinality(hashes)}, answers : {S \in SUBSET HashValues : hashes \subseteq S}]

Answers(filter, key) == hash[key] \in filter.answers

-----------------------------------------------------------------------------
(* The jargon filter.                                                        *)
Normalized(title) == SelectSeq(FlattenSeq(title.segments), LAMBDA part : part # << >>)
InWordRange(words) == Len(words) \in 2 .. 4

\* is_concept_shaped: a word, then one to three parts in small letters.
IsConceptShaped(title) ==
  /\ Len(title.segments[1]) = 1 /\ title.segments[1][1] # << >>
  /\ ~title.odd
  /\ Len(title.segments) - 1 \in 1 .. 3
  /\ \A i \in 2 .. Len(title.segments) : title.segments[i] # <<<< >>>>

\* fold_wikipedia_titles and fold_openalex_topics
JargonKeys(raw) ==
  {Normalized(t) : t \in {u \in Titles : /\ raw => IsConceptShaped(u)
                                        /\ u.initial # "small"
                                        /\ InWordRange(Normalized(u))}}
    \cup {Normalized(t) : t \in {u \in Topics : InWordRange(Normalized(u))}}

-----------------------------------------------------------------------------
AbsentFiles == [bin |-> << >>, beside |-> << >>]

\* What is hashed: pairs common enough in any of the sources, titles and topics.
HashedKeys ==
  {pair \in AllPairs : PairCount(DOMAIN Sources, pair) >= MinOccurrences}
    \cup {Normalized(t) : t \in Titles \cup Topics}

Init ==
  /\ staged = {} /\ intact = TRUE /\ writing = << >>
  /\ hash \in [HashedKeys -> HashValues]
  /\ evidence = Mined({}) /\ mined = {}
  /\ loaded = Loaded(Sections(evidence), Len(evidence), mined)
  /\ pooled = AbsentFiles /\ jargon = AbsentFiles

Stage ==
  /\ \E label \in DOMAIN Sources \ staged : staged' = staged \cup {label}
  /\ intact
  /\ UNCHANGED <<hash, evidence, mined, intact, loaded, pooled, jargon, writing>>

MineEvidence ==
  /\ intact /\ writing = << >>
  /\ evidence' = Mined(staged) /\ mined' = staged
  /\ UNCHANGED <<staged, hash, intact, loaded, pooled, jargon, writing>>

Load ==
  /\ loaded' = Loaded(Sections(evidence), Len(evidence), mined)
  /\ UNCHANGED <<staged, hash, evidence, mined, intact, pooled, jargon, writing>>

(* The filter's own file is written first, the one with its count after it. *)
MinePooled ==
  /\ intact /\ writing = << >>
  /\ \E filter \in Filters(KeptPairs(staged)) :
       /\ pooled' = [pooled EXCEPT !.bin = <<filter, staged>>]
       /\ writing' = <<"pooled", filter.count>>
  /\ UNCHANGED <<staged, hash, evidence, mined, intact, loaded, jargon>>

MineJargon ==
  /\ intact /\ writing = << >>
  /\ \E raw \in BOOLEAN : \E filter \in Filters(JargonKeys(raw)) :
       /\ jargon' = [jargon EXCEPT !.bin = <<filter, raw>>]
       /\ writing' = <<"jargon", filter.count>>
  /\ UNCHANGED <<staged, hash, evidence, mined, intact, loaded, pooled>>

WriteBeside ==
  /\ writing # << >>
  /\ writing' = << >>
  /\ pooled' = IF writing[1] = "pooled" THEN [pooled EXCEPT !.beside = <<writing[2]>>] ELSE pooled
  /\ jargon' = IF writing[1] = "jargon" THEN [jargon EXCEPT !.beside = <<writing[2]>>] ELSE jargon
  /\ UNCHANGED <<staged, hash, evidence, mined, intact, loaded>>

Interrupt ==
  /\ writing # << >>
  /\ writing' = << >>
  /\ UNCHANGED <<staged, hash, evidence, mined, intact, loaded, pooled, jargon>>

Damaged(file) ==
  {[file EXCEPT ![i] = cell] : i \in DOMAIN file, cell \in DamagedCells}
    \cup {SubSeq(file, 1, n) : n \in 0 .. Len(file) - 1}
    \cup {Append(file, cell) : cell \in DamagedCells}

\* Bound: one damage, before any filter is built, and nothing after it.
Damage ==
  /\ intact /\ pooled = AbsentFiles /\ jargon = AbsentFiles /\ writing = << >>
  /\ evidence' \in Damaged(evidence) \ {evidence}
  /\ intact' = FALSE
  /\ UNCHANGED <<staged, hash, mined, loaded, pooled, jargon, writing>>

Next == Stage \/ MineEvidence \/ Load \/ MinePooled \/ MineJargon \/ WriteBeside \/ Interrupt \/ Damage

-----------------------------------------------------------------------------
\* load: both files are there and name one count.
Loads(files) ==
  /\ files.bin # << >> /\ files.beside # << >>
  /\ files.bin[1].count = files.beside[1]

Looked == Words(DOMAIN Sources) \cup {<<3, 3>>}

(* Whatever has happened to the file: when the loader that only checks order *)
(* accepts it, the one that copies does too, both answer alike, and no       *)
(* lookup leaves the file.  An interner of one word, which nothing checks,   *)
(* is left out.                                                              *)
LoadersAgree ==
  LET view == loaded.view
      owned == loaded.owned
  IN /\ intact => view # << >>
     /\ (view # << >> /\ view[1].table.count # 1) =>
          /\ owned # << >>
          /\ \A word \in Looked : ViewUnigram(view[1], word) = OwnedUnigram(owned[1], word)
          /\ \A phrase \in Queries : ViewProbe(view[1], Key(phrase)) = OwnedProbe(owned[1], Key(phrase))

DisjointOccurrences(tokens, probe) ==
  LET starts == {i \in DOMAIN tokens : i + Len(probe) - 1 <= Len(tokens)
                                       /\ SubSeq(tokens, i, i + Len(probe) - 1) = probe}
  IN Max({Cardinality(S) : S \in {T \in SUBSET starts :
            \A i, j \in T : i < j => j - i >= Len(probe)}})

(* The pack answers for every literal phrase of the rules, spelled with or   *)
(* without hyphens, with as many matches as fit into the documents side by   *)
(* side, none for one that never occurs, and for no other phrase.            *)
CountsAreOccurrences ==
  intact =>
    \A phrase \in Queries :
      ViewProbe(loaded.view[1], Key(phrase)) =
        IF Key(phrase) \notin Probes(loaded.labels) THEN << >>
        ELSE <<MapThenSumSet(LAMBDA d : DisjointOccurrences(Tokens(d), Key(phrase)),
                             DocumentsOf(loaded.labels))>>

(* A filter that loads answers for everything its file was built from:       *)
(* every seam common enough in all the sources together, every title of the  *)
(* wanted shape and every topic, whatever hashes coincide and wherever an    *)
(* earlier run was interrupted.                                              *)
FiltersForgetNothing ==
  /\ Loads(pooled) =>
       \A pair \in AllPairs :
         MapThenSumSet(LAMBDA label : PairCount({label}, pair), pooled.bin[2]) >= MinOccurrences
           => Answers(pooled.bin[1], pair)
  /\ Loads(jargon) =>
       \A t \in Topics : Len(Normalized(t)) \in 2 .. 4 => Answers(jargon.bin[1], Normalized(t))
  /\ Loads(jargon) =>
       \A t \in Titles : (IsConceptShaped(t) /\ t.initial = "capital" /\ Len(Normalized(t)) <= 4)
                            => Answers(jargon.bin[1], Normalized(t))
=============================================================================
