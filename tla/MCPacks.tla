------------------------------ MODULE MCPacks -------------------------------
(* The packs the engine is built with, from what they are mined from to the   *)
(* lookups: attestation, human evidence, the two filters and the token        *)
(* streams, the file of the frame rules, the packs that people write, and the *)
(* bands measured on the corpus.  The variable focus names the pack a         *)
(* behaviour is about.                                                        *)
EXTENDS Attestation

CONSTANTS HashValues, EvidenceDamage, FrameDamage

VARIABLES focus,
          staged, hash, evidence, mined, unharmed, loaded, pooled, jargon, writing,
          collected, streams, index, packed, view, covered,
          entries, authored, audit, rules, frameFile, frameView,
          records, envelope, authentic, report,
          document, whole, paragraphs,
          input, hits, output, origin, check

evidenceVars == <<staged, hash, evidence, mined, unharmed, loaded, pooled, jargon, writing>>
indexVars == <<collected, streams, index, packed, view, covered>>
authoredVars == <<entries, authored, audit>>
frameVars == <<rules, frameFile, frameView>>
bandVars == <<records, envelope, authentic, report>>
metricVars == <<document, whole, paragraphs>>
harnessVars == <<input, hits, output, origin, check>>
minedVars == <<vars, evidenceVars, indexVars>>
measureVars == <<bandVars, metricVars, harnessVars>>
otherVars == <<authoredVars, frameVars, measureVars>>

-----------------------------------------------------------------------------
A == <<1>>
B == <<2>>
AB == <<1, 2>>
Start == <<0>>
Tag == <<5>>
Tag2 == <<6>>

MCDocuments ==
  {[words |-> 40, charges |-> <<"frame.dejust", "pivot.lvc", "frame.dejust">>,
    sentences |-> <<[words |-> <<A, AB, A>>, tags |-> <<Tag, Tag2, Tag>>]>>],
   [words |-> 900, charges |-> <<"pivot.lvc", "pivot.lvc", "frame.dejust", "pivot.lvc">>,
    sentences |-> <<[words |-> <<B, A>>, tags |-> <<Tag2, Tag2>>], [words |-> << >>, tags |-> <<Tag>>]>>],
   [words |-> 0, charges |-> << >>, sentences |-> <<[words |-> <<B>>, tags |-> << >>]>>]}

LookedUp == {Start, A, B, AB, Tag, Tag2, <<0, 1>>, <<0, 2>>}
SkeletonOpens == <<0, 2>>
SkeletonCloses == <<0, 1>>
PooledPairs == {<<B, B>>}

(* What the proof about calibrations asks of a document. *)
ASSUME CountedAssumption == DocumentsAreCounted

Title(initial, odd, segments) == [initial |-> initial, odd |-> odd, segments |-> segments]

Mines == INSTANCE EvidencePacks
  WITH intact <- unharmed, SentenceStart <- Start, DamagedCells <- EvidenceDamage,
       Sources <- [one |-> << <<<<A, A, A>>, <<A>>>>, <<<<B, A, B>>>> >>,
                   two |-> << <<<<AB, B, A>>, <<B>>>>, <<<<A, B, A, B, A>>>> >>],
       Phrases <- {<<<<A>>, <<A>>>>, <<<<A, B>>>>, <<<<B>>, <<A>>, <<B>>>>, <<<<B, << >>>>>>,
                   <<<<A, B, A>>>>},
       Queries <- {<<<<A, A>>>>, <<<<A>>, <<B>>>>, <<<<B, A>>, <<B>>>>, <<<<B>>>>, <<<<A>>>>,
                   <<<<AB, B>>>>, <<<<A>>, <<B>>, <<A>>>>, <<<< <<3>> >>>>},
       Titles <- {Title("capital", FALSE, <<<<A>>, <<B>>>>), Title("small", FALSE, <<<<B>>, <<A>>>>),
                  Title("capital", FALSE, <<<<A>>, <<B, A>>>>),
                  Title("capital", TRUE, <<<<B>>, <<B>>>>), Title("capital", FALSE, <<<<A, B>>>>)},
       Topics <- {Title("capital", TRUE, <<<<B>>, <<A>>>>), Title("capital", TRUE, <<<<B>>>>)},
       UnigramFloor <- 2, BurstFloor <- 3, PerMillion <- 12, MinOccurrences <- 2

Record(family, split, tokens) == [family |-> family, split |-> split, lang |-> "en", tokens |-> tokens]

Indexes == INSTANCE DmsIndex
  WITH artifact <- index, embedded <- view,
       Records <- <<Record("qwen", "train", <<A, B>>), Record("human", "train", <<B, A>>),
                    Record("claude", "train", <<B, B>>), Record("qwen", "train", <<B, A, A>>),
                    Record("other", "dev", <<A>>), Record("other", "train", <<A>>)>>,
       Families <- <<"qwen", "claude">>, Alphabetical <- <<"claude", "qwen">>,
       Placeholder <- Start, Separator <- <<0, 0>>,
       Questions <- {<<A, B, B, A, A>>, <<B, A, A, A, B>>, <<B, <<3>>, A, B, A>>, << >>}

-----------------------------------------------------------------------------
(* The packs that people write. *)
Edit(family, id, pattern, repair) ==
  [family |-> family, id |-> id, pattern |-> pattern, repair |-> repair]
Deletion(id, pattern, anchor) ==
  [anchor |-> anchor] @@ Edit("deletion_spans", id, pattern, "delete")
Pair(id, pattern, replacement, declared, attested, notes, repair) ==
  [replacement |-> replacement, declared |-> declared, attested |-> attested, notes |-> notes]
  @@ Edit("substitution_pairs", id, pattern, repair)
Lexeme(lexeme, plural, gloss) ==
  [family |-> "lexemes", lexeme |-> lexeme, plural |-> plural, source |-> "mined",
   notes |-> "why", gloss |-> gloss]
Exception(compound, notes) ==
  [family |-> "attested_exceptions", compound |-> compound, notes |-> notes]
Rate(max, docs) ==
  [family |-> "output_frequency_bands", frame |-> 1, text |-> <<"important">>,
   unit |-> "per_thousand_words", finite |-> max < 9, max |-> max, docs |-> docs, observed |-> 2]
Lvc(n, v, light) ==
  [family |-> "lvc_pairs", nominalization |-> n, verb |-> v, light |-> light]
MCEntries ==
  {Deletion(1, <<"^", "important", "\\s+">>, "sentence_initial"),
   Deletion(2, <<"\\s+", "for", " ", "you">>, "trailing"),
   Deletion(10, <<"\\s+", "important", " ">>, "mid_sentence"),
   Deletion(3, <<"not">>, "nowhere"), Deletion(1, <<"important", "(">>, "trailing"),
   Pair(4, <<"crucial">>, <<"important">>, {}, {"important"}, "measured", "substitute"),
   Pair(5, <<"good", "\\s+", "for">>, <<"for", " ", "you">>, {"for"}, {"you"}, "measured", "substitute"),
   Pair(6, <<"delve", "[ ]", "into">>, <<"important">>, {"important"}, {}, "", "substitute"),
   Pair(4, <<"not">>, <<"crucial">>, {}, {"crucial"}, "", "substitute"),
   Pair(7, <<"delve">>, <<"delve">>, {}, {}, "", "delete"),
   Edit("ritual_frames", 8, <<"in", " ", "short">>, "diagnostic_only"),
   Edit("preview_frames", 9, <<"not", " ", "only">>, "delete"),
   Lvc(1, "decide", "make"), Lvc(1, "decide", "made"), Lvc(2, "decide", "make"),
   Rate(3, 2), Rate(1, 2), Rate(9, 1), Rate(2, 0), [Rate(3, 2) EXCEPT !.unit = "per_page"],
   Lexeme(1, 2, "g1"), Lexeme(2, 0, "g2"), Lexeme(2, 3, "absent"), Lexeme(4, 4, "g4"),
   Lexeme(3, 0, ""), [Lexeme(5, 6, "g5") EXCEPT !.source = "heard"],
   Exception(1, "why"),
   Exception(2, "")}

Authors == INSTANCE AuthoredPacks
  WITH file <- entries, loaded <- authored,
       Entries <- MCEntries, MaxEntries <- 3, GuardWords <- {"not", "only"}, FunctionWords <- {"for"},
       Lexicon <- <<"decide">>, BaseVerbs <- {"make"},
       Around <- {[before |-> b, after |-> a] : b \in {<<>>, <<"the", " ">>, <<"the", "\n">>},
                                               a \in {<<>>, <<" ", "end">>, <<"\n", "end">>}}

(* The frame rules. *)
Op(kind, a, b) == [kind |-> kind, a |-> a, b |-> b]
Opt(inner) == [kind |-> "Opt", inner |-> inner]
Group(alts, optional) == [kind |-> "Group", alts |-> alts, optional |-> optional]
Frame(id, kind, pattern, templates, anchors, elems) ==
  [id |-> id, kind |-> kind, pattern |-> pattern, templates |-> templates, anchors |-> anchors,
   elems |-> elems, surface |-> kind = "Delete", support |-> Len(id)]
MCCompiled ==
  {[words |-> <<B, AB, A>>, names |-> <<A>>, classes |-> <<<< <<1>>, <<0, 2>> >>>>,
    rules |->
      <<Frame(A, "Rewrite",
              <<Op("SentStart", 0, 0),
                Group(<< <<Op("Lit", 0, 0), Op("Slot", 1, 0)>>, <<Opt(Op("Tag", 2, 0))>> >>, TRUE),
                Op("Lit", 0, 2), Op("Class", 1, 0)>>,
              << <<Op("Inflect", 2, 1), Op("AltCopy", 0, 0)>>, << >>, <<Op("ClassRealize", 1, 0)>> >>,
              <<2>>, <<2, 3>>),
        Frame(AB, "Guard",
              <<Opt(Group(<< <<Op("Lit", 0, 1)>> >>, TRUE)), Op("Lit", 0, 1), Op("Lit", 0, 0)>>,
              << >>, <<1, 0>>, <<1, 3>>)>>],
   [words |-> <<AB, A, B>>, names |-> << >>, classes |-> << >>,
    rules |-> <<Frame(B, "Delete", <<Op("Lit", 0, 0), Opt(Op("Clitic", 1, 0))>>,
                      << <<Op("InflectForm", 1, 2), Op("Clitic", 2, 0)>> >>, <<0>>, <<0, 1>>)>>]}

Frames == INSTANCE FrameFile
  WITH compiled <- rules, file <- frameFile, view <- frameView,
       Compiled <- MCCompiled, Codes <- 1 .. 2, DamagedCells <- FrameDamage

(* The bands. *)
Doc(id, class, split, genre, length, dashes) ==
  [id |-> id, class |-> class, split |-> split, genre |-> genre,
   metrics |-> [length |-> length, dashes |-> dashes]]
MCRecords ==
  {Doc(1, "human", "train", "docs", 4, 1), Doc(2, "human", "train", "docs", 6, 1),
   Doc(3, "llm", "train", "docs", 6, 3), Doc(4, "llm", "train", "docs", 3, 1),
   Doc(5, "human", "train", "blog", 8, 0), Doc(6, "llm", "train", "blog", 8, 2),
   Doc(7, "human", "dev", "docs", 7, 2), Doc(8, "llm", "dev", "docs", 2, 3),
   Doc(9, "human", "holdout", "blog", 8, 2), Doc(10, "llm", "holdout", "blog", 4, 2)}

Measures == INSTANCE Bands
  WITH corpus <- records, Documents <- MCRecords,
       Fixed <- [k \in 1 .. 10 |-> [length |-> 8, dashes |-> 1]],
       Metrics <- {"length", "dashes"}, Genres <- {"docs", "blog"},
       LoPercentile <- 10, HiPercentile <- 90, IncludeThreshold <- 60, GateThreshold <- 85,
       GateGenres <- 1, Unit <- 48

(* What is measured: lists of three and their near misses, two paragraphs of  *)
(* up to two sentences, and blocks in the parser's order: a list holds items, *)
(* and only a list does, a paragraph holds nothing.                           *)
Sp == " "
WordTags == [dogs |-> "NN", run |-> "VB", making |-> "VBG", and |-> "CC", the |-> "DT", not |-> "RB",
             just |-> "RB", but |-> "CC", it |-> "PRP", is |-> "VBZ", its |-> "PRP", overall |-> "RB"]
UpTo(n, S) == UNION {[1 .. k -> S] : k \in 0 .. n}
Listings ==
  {x \o <<",", "and">> \o y : x \in UpTo(4, {"dogs", "run", ",", ";"}),
                              y \in UpTo(1, {"dogs", "the", ",", "and"}) \cup {<<"the", "run">>}}
  \cup {<<"dogs", ",", "dogs", ",", "and", "dogs", ",", "and", "dogs">>,
        <<"dogs", ",", "dogs", ",", "and", "the", "dogs", ";", "run", ",", "run", ",", "and", "run">>}
Lines ==
  {<<"**", "overall", "**", Sp, "its", Sp, "dogs", ";">>,
   <<"it", Sp, "is", Sp, "not", Sp, "just", Sp, "dogs", Sp, "but", Sp, "the", Sp, "dogs">>,
   <<"dogs", Sp, "--", Sp, "dogs", "em dash", "dogs", ",", Sp, "making", Sp, "dogs", ".">>,
   <<"dogs", Sp, "--", ".">>, <<";", Sp, ";">>, <<"it", Sp, "is", Sp, "dogs", "__">>}
Block(kind, first, last) == [kind |-> kind, first |-> first, last |-> last]
Unit(block, sentences) == [block |-> block, sentences |-> sentences]
Flat(units) == [blocks |-> <<Block("heading", 1, 1), Block("paragraph", 2, 2)>>, units |-> units]

Fits(blocks, x) ==
  LET around == {i \in DOMAIN blocks : blocks[i].first <= x.first /\ x.last <= blocks[i].last}
      inner == IF around = {} THEN "none" ELSE blocks[CHOOSE i \in around : \A j \in around : j <= i].kind
  IN /\ \A i \in DOMAIN blocks : i \in around \/ blocks[i].last < x.first
     /\ inner # "paragraph" /\ (x.kind = "item" <=> inner = "list")
Blocks == {b \in [kind : {"list", "item", "quote", "paragraph"}, first : 1 .. 3, last : 1 .. 3] : b.first <= b.last}
Trees[n \in 0 .. 5] ==
  IF n = 0 THEN {<< >>}
  ELSE Trees[n - 1] \cup UNION {{Append(t, x) : x \in {y \in Blocks : Fits(t, y)}}
                                  : t \in {u \in Trees[n - 1] : Len(u) = n - 1}}
Laid(blocks, odd) ==
  LET holders == SelectSeq([i \in DOMAIN blocks |-> i], LAMBDA i : blocks[i].kind \in {"paragraph", "item"})
  IN [blocks |-> blocks,
      units |-> [u \in DOMAIN holders |->
                   Unit(holders[u], IF u % 2 = odd THEN << <<"run", Sp, "dogs">> >>
                                    ELSE IF u % 3 = 0 THEN << >> ELSE << <<";">>, <<"dogs">> >>)]]

Taken == INSTANCE Metrics
  WITH Documents <- {[blocks |-> <<Block("paragraph", 1, 1)>>, units |-> <<Unit(1, <<s>>)>>] : s \in Listings}
                    \cup {Flat(<<Unit(1, s), Unit(2, t)>>) : s \in UpTo(2, Lines), t \in UpTo(1, Lines)}
                    \cup {Laid(t, odd) : t \in Trees[4], odd \in 0 .. 1},
       Tag <- WordTags, Markers <- {<<"overall">>},
       Rituals <- {<<"overall">>, <<"it", Sp, "is", Sp, "dogs">>},
       Contractions <- {[expanded |-> <<"it", "is">>, contracted |-> "its"],
                        [expanded |-> <<"is", "not">>, contracted |-> "isnt"]},
       LlmPhrases <- {<<"dogs", "dogs">>, <<"the", "dogs">>}, HumanPhrases <- {<<"not", "just">>}

(* Texts of three parts: constructions and what rejects them, patterns that   *)
(* overlap and share their replacement, code, and ends of sentences.          *)
Plain(stem) == <<stem, "base">>
Sign(text) == <<text, "mark">>
Parts ==
  {<<Plain("make"), Plain("a"), Plain("check"), Plain("of")>>, << <<"make", "past">>, Plain("check")>>,
   << <<"be", "third">>, <<"make", "past">>, Plain("check")>>, <<Plain("quick"), Plain("check")>>,
   <<Plain("will"), Plain("delve"), Plain("into")>>, <<Plain("delve"), Plain("into")>>,
   <<Plain("simply"), Plain("put")>>, <<Plain("simply")>>, <<Sign("code")>>, <<Sign("."), Sign(" ")>>,
   <<Sign("."), Sign("!")>>}
Judges == INSTANCE Harness
  WITH Inputs <- {a \o b \o c : a \in Parts, b \in Parts, c \in Parts},
       Rituals <- {<<Plain("simply"), Plain("put")>>},
       Substitutions <-
         {[id |-> 1, words |-> <<Plain("delve"), Plain("into")>>, replacement |-> <<Plain("explore")>>],
          [id |-> 2, words |-> <<Plain("will"), Plain("delve"), Plain("into")>>,
           replacement |-> <<Plain("will"), Plain("explore")>>],
          [id |-> 3, words |-> <<Plain("into"), Plain("simply")>>, replacement |-> <<Plain("to")>>]},
       Deletions <- {[id |-> 1, words |-> <<Plain("simply")>>],
                     [id |-> 2, words |-> <<Plain("put"), Plain("simply")>>]},
       Lexicon <- [check |-> "test"], Adjectives <- {"quick"},
       Insertions <- {Plain("explore"), <<"test", "past">>}

-----------------------------------------------------------------------------
MCInit ==
  /\ focus \in {"attestation", "evidence", "filters", "index", "authored", "frames", "bands", "metrics", "harness"}
  /\ IF focus = "attestation" THEN Init
     ELSE /\ corpus = {} /\ toml = [docs |-> {}, nearNoop |-> << >>] /\ mining = << >> /\ artifact = << >> /\ intact = FALSE
          /\ embedded = << >> /\ under = << >> /\ built = << >> /\ behind = << >>
  /\ CASE focus = "evidence" -> Mines!Init /\ hash = [k \in Mines!HashedKeys |-> 1]
       [] focus = "filters" -> Mines!Init
       [] OTHER -> /\ staged = {} /\ hash = << >> /\ evidence = << >> /\ mined = {}
                   /\ unharmed = FALSE /\ loaded = << >>
                   /\ pooled = Mines!AbsentFiles /\ jargon = Mines!AbsentFiles /\ writing = << >>
  /\ IF focus = "index" THEN Indexes!Init
     ELSE collected = {} /\ streams = << >> /\ index = << >> /\ packed = {} /\ view = << >>
          /\ covered = {}
  /\ IF focus = "authored" THEN Authors!Init ELSE entries = << >> /\ authored = << >> /\ audit = {}
  /\ IF focus = "frames" THEN Frames!Init ELSE rules = << >> /\ frameFile = << >> /\ frameView = << >>
  /\ IF focus = "bands" THEN Measures!Init
     ELSE records = {} /\ envelope = << >> /\ authentic = FALSE /\ report = << >>
  /\ IF focus = "metrics" THEN Taken!Init ELSE document = << >> /\ whole = << >> /\ paragraphs = << >>
  /\ IF focus = "harness" THEN Judges!Init
     ELSE input = << >> /\ hits = << >> /\ output = << >> /\ origin = "none" /\ check = << >>

MCNext ==
  /\ UNCHANGED focus
  /\ \/ /\ focus = "attestation" /\ Next
        /\ UNCHANGED <<evidenceVars, indexVars, otherVars>>
     \/ /\ focus = "evidence" /\ (Mines!Stage \/ Mines!MineEvidence \/ Mines!Load \/ Mines!Damage)
        /\ UNCHANGED <<vars, indexVars, otherVars>>
     \/ /\ focus = "filters"
        /\ (Mines!Stage \/ Mines!MinePooled \/ Mines!MineJargon \/ Mines!WriteBeside \/ Mines!Interrupt)
        /\ UNCHANGED <<vars, indexVars, otherVars>>
     \/ focus = "index" /\ Indexes!Next /\ UNCHANGED <<vars, evidenceVars, otherVars>>
     \/ focus = "authored" /\ Authors!Next /\ UNCHANGED <<minedVars, frameVars, measureVars>>
     \/ focus = "frames" /\ Frames!Next /\ UNCHANGED <<minedVars, authoredVars, measureVars>>
     \/ /\ focus = "bands" /\ Measures!Next
        /\ UNCHANGED <<minedVars, authoredVars, frameVars, metricVars, harnessVars>>
     \/ /\ focus = "metrics" /\ Taken!Next
        /\ UNCHANGED <<minedVars, authoredVars, frameVars, bandVars, harnessVars>>
     \/ /\ focus = "harness" /\ Judges!Next
        /\ UNCHANGED <<minedVars, authoredVars, frameVars, bandVars, metricVars>>

MCSpec == MCInit /\ [][MCNext]_<<focus, minedVars, otherVars>>

\* Both loaders of human evidence answer alike.
LoadersAgree == focus = "evidence" => Mines!LoadersAgree
\* What is mined is what the sources hold: the counts of phrases and all that
\* a filter has to answer for.
MiningIsComplete ==
  /\ focus = "evidence" => Mines!CountsAreOccurrences
  /\ focus = "filters" => Mines!FiltersForgetNothing
MatchesLieInOneDocument == focus = "index" => Indexes!MatchesLieInOneDocument
AuthoredPacksAreSound == focus = "authored" => Authors!AuthoredPacksAreSound
FrameFileAnswersLikeItsSource == focus = "frames" => Frames!FrameFileAnswersLikeItsSource

\* A text is measured as its parts are and judged by bands that are sound, and
\* an edit made of what the harness found is one it lets through.
MeasuresAreSound ==
  /\ focus = "bands" => Measures!BandsAreSound
  /\ focus = "metrics" => /\ Taken!TriadsAreListsOfThree /\ Taken!ParentsAreInnermost
                          /\ Taken!RatesAreInRange /\ Taken!ParagraphsAddUp
  /\ focus = "harness" => /\ Judges!AppliedHitsStayClosed /\ Judges!InsertionsAreTraced
                          /\ Judges!HitsAreMaximal /\ Judges!PivotsAreConstructions
=============================================================================
