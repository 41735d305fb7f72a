------------------------------ MODULE DmsIndex ------------------------------
(* The DMS pack from the corpus to a match: `corpus-tool index` writes the    *)
(* token streams (index.rs), DmsIndex::parse builds an automaton for each     *)
(* (friction-packs, dms.rs), `dms-pack` writes them as cells and              *)
(* DmsIndexView reads those in place (dms_bin.rs).                            *)
EXTENDS PackCells, TLC

CONSTANTS
  Records,      \* the manifest, in the order of its ids
  Families,     \* ModelFamily::ALL
  Alphabetical, \* the families by name
  Placeholder, Separator, \* texts no document has
  Questions     \* texts scanned

VARIABLES
  collected, \* the positions of the records collected so far
  streams,   \* the audited pack: documents, tokens, ids of each stream
  artifact,  \* the packed file
  packed,    \* the documents of the streams it was made from
  embedded,  \* what the last build read from it
  covered    \* the documents it was made from then

vars == <<collected, streams, artifact, packed, embedded, covered>>

MaxId == 1 + Cardinality(UNION {ToSet(Records[i].tokens) : i \in DOMAIN Records})

Sam == INSTANCE SuffixAutomaton WITH Ids <- 0 .. MaxId, NoId <- Missing

Training(positions) == {i \in positions : Records[i].split = "train" /\ Records[i].lang = "en"}
Pool(positions, family) ==
  LET of == {i \in Training(positions) : Records[i].family = family}
      order == SetToSortSeq(of, <)
  IN [k \in DOMAIN order |-> Records[order[k]].tokens]

Human == "human"
Present(positions) == SelectSeq(Families, LAMBDA f : Pool(positions, f) # << >>)

\* VocabBuilder: ids in the order of first sight.
Interned(tokens, token) == IF token \in ToSet(tokens) THEN tokens ELSE Append(tokens, token)

VocabOf(positions) ==
  LET seen == FlattenSeq(FlattenSeq([i \in 1 .. Len(Present(positions)) + 1 |->
                 Pool(positions, Append(Present(positions), Human)[i])]))
  IN FoldLeft(Interned, <<Placeholder, Separator>>, seen)

\* Mutant of Stream: the separator stands between documents of one stream only by chance.
StreamWithoutEnd(tokens, docs) ==
  FlattenSeq([k \in DOMAIN docs |-> [j \in DOMAIN docs[k] |-> FirstId(tokens, docs[k][j])]])

\* build_stream: every document is followed by the separator.
Stream(tokens, docs) ==
  FlattenSeq([k \in DOMAIN docs |->
                [j \in DOMAIN docs[k] |-> FirstId(tokens, docs[k][j])] \o <<FirstId(tokens, Separator)>>])

Render(positions, tokens) ==
  [docs |-> positions, tokens |-> tokens,
   ids |-> [f \in ToSet(Present(positions)) \cup {Human} |-> Stream(tokens, Pool(positions, f))]]
Rendered(positions) == Render(positions, VocabOf(positions))

-----------------------------------------------------------------------------
(* DmsIndex::parse, and build_pooled_machine: the families by name with a    *)
(* separator between two.                                                    *)
Parses(pack) == \A f \in DOMAIN pack.ids : \A id \in ToSet(pack.ids[f]) : id < Len(pack.tokens)

PooledIds(pack) ==
  LET present == SelectSeq(Alphabetical, LAMBDA f : f \in DOMAIN pack.ids)
  IN FlattenSeq([i \in DOMAIN present |->
       (IF i = 1 THEN << >> ELSE <<FirstId(pack.tokens, Separator)>>) \o pack.ids[present[i]]])

SamSection(sam) ==
  <<Len(sam.len)>> \o sam.len \o sam.link \o sam.offsets
    \o FlattenSeq([i \in DOMAIN sam.trans |-> <<sam.trans[i].label, sam.trans[i].target>>])
SamCells(ids) == SamSection(Sam!WriteSam(Sam!Build(ids)))

Magic == 7
Version == 2
ShaOf == 5
HumanTag == 0
PooledTag == Len(Families) + 1

\* pack_dms_index_bin
ArtifactOf(pack) ==
  LET present == SelectSeq([i \in DOMAIN Families |-> i], LAMBDA i : Families[i] \in DOMAIN pack.ids)
  IN <<Magic, Version, ShaOf>> \o VocabCells(pack.tokens) \o <<Len(present) + 2>>
       \o <<HumanTag>> \o SamCells(pack.ids[Human])
       \o FlattenSeq([k \in DOMAIN present |-> <<present[k]>> \o SamCells(pack.ids[Families[present[k]]])])
       \o <<PooledTag>> \o SamCells(PooledIds(pack))

-----------------------------------------------------------------------------
(* DmsIndexView::parse.  Of the vocabulary only the sizes are checked.       *)
ParseVocab(file, from) ==
  LET table == ReadStringTable(file, from)
      count == Peek(file, table.at)
      end == table.at + 1 + count
  IN IF /\ Within(file, table.at, end)
        /\ Last(table.offsets) = Len(table.pool)
        /\ count <= table.count
     THEN [table EXCEPT !.at = end] @@ [lookup |-> SubSeq(file, table.at + 2, end)]
     ELSE NoTable

NoSam == [at |-> Refused]

ParseSam(file, from) ==
  LET states == Peek(file, from)
      count == Peek(file, from + 3 * states + 1)
      first == from + 3 * states + 2
  IN IF states = 0 \/ ~Within(file, from, first + 2 * count) THEN NoSam
     ELSE [at |-> first + 2 * count, len |-> SubSeq(file, from + 2, from + states + 1),
           link |-> SubSeq(file, from + states + 2, from + 2 * states + 1),
           offsets |-> SubSeq(file, from + 2 * states + 2, first),
           trans |-> [i \in 1 .. count |->
                        [label |-> file[first + 2 * i - 1], target |-> file[first + 2 * i]]]]

\* A stream is its tag and its automaton; a tag read twice is the later one.
ReadStreams(file, from) ==
  FoldLeft(LAMBDA so, i :
             LET sam == ParseSam(file, IF Within(file, so.at, so.at + 1) THEN so.at + 1 ELSE Refused)
             IN [at |-> sam.at, stream |-> (Peek(file, so.at) :> sam) @@ so.stream],
           [at |-> from + 1, stream |-> << >>], [i \in 1 .. Peek(file, from) |-> i])

Checked(file, vocab, read) ==
  IF /\ vocab.at # Refused /\ read.at = Len(file)
     /\ file[1] = Magic /\ file[2] = Version /\ file[3] # NotUtf8
     /\ DOMAIN read.stream \subseteq HumanTag .. PooledTag
     /\ {HumanTag, PooledTag} \subseteq DOMAIN read.stream
  THEN <<[vocab |-> vocab, stream |-> read.stream]>>
  ELSE << >>

LoadAfter(file, vocab) == Checked(file, vocab, ReadStreams(file, vocab.at))
\* The view in a sequence of its own.
LoadArtifact(file) == LoadAfter(file, ParseVocab(file, 3))

Query(view, texts) == [i \in DOMAIN texts |-> IdIn(view.vocab, texts[i])]
Statistics(view, tag, texts) == Sam!MatchingStats(view.stream[tag], Query(view, texts))

-----------------------------------------------------------------------------
Init ==
  /\ collected = {}
  /\ streams = Rendered({})
  /\ artifact = ArtifactOf(streams)
  /\ embedded = LoadArtifact(artifact)
  /\ packed = {} /\ covered = {}

Collect ==
  /\ \E i \in DOMAIN Records \ collected : collected' = collected \cup {i}
  /\ UNCHANGED <<streams, artifact, packed, embedded, covered>>

\* run: a model of no known family ends it before anything is written.
Index ==
  /\ \A i \in Training(collected) : Records[i].family \in ToSet(Families) \cup {Human}
  /\ streams' = Rendered(collected)
  /\ UNCHANGED <<collected, artifact, packed, embedded, covered>>

Pack ==
  /\ Parses(streams)
  /\ artifact' = ArtifactOf(streams)
  /\ packed' = streams.docs
  /\ UNCHANGED <<collected, streams, embedded, covered>>

Rebuild ==
  /\ embedded' = LoadArtifact(artifact)
  /\ covered' = packed
  /\ UNCHANGED <<collected, streams, artifact, packed>>

Next == Collect \/ Index \/ Pack \/ Rebuild

-----------------------------------------------------------------------------
Occurs(texts, doc) == \E k \in 0 .. Len(doc) - Len(texts) : SubSeq(doc, k + 1, k + Len(texts)) = texts

LongestInOneDocument(texts, docs) ==
  [i \in DOMAIN texts |->
     Max({k \in 0 .. i : k = 0 \/ \E doc \in docs : Occurs(SubSeq(texts, i - k + 1, i), doc)})]

TrainingTexts(positions, families) ==
  {Records[i].tokens : i \in {j \in Training(positions) : Records[j].family \in families}}

(* From the corpus to the embedded artifact: at each token of a scanned text  *)
(* a stream reports the longest run of tokens ending there that one of its    *)
(* documents contains, never one that begins in a document and ends in        *)
(* another, and the pooled stream what any family's documents contain.        *)
Expected(texts, families) == LongestInOneDocument(texts, TrainingTexts(covered, families))
MatchesLieInOneDocument ==
  /\ embedded # << >>
  /\ \A texts \in Questions :
       /\ Statistics(embedded[1], HumanTag, texts) = Expected(texts, {Human})
       /\ Statistics(embedded[1], PooledTag, texts) = Expected(texts, ToSet(Families))
       /\ \A f \in DOMAIN Families : f \in DOMAIN embedded[1].stream =>
            Statistics(embedded[1], f, texts) = Expected(texts, {Families[f]})
=============================================================================
