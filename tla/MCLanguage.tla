----------------------------- MODULE MCLanguage -----------------------------
(* The parts of friction-nlp, the register pass, the detection channels and   *)
(* how their packs are loaded, one at a time: the variable focus names the    *)
(* part a behaviour exercises, the others rest.                               *)
EXTENDS ArcEager, LoadFriction, Tagging, Weights, TLC

-----------------------------------------------------------------------------
(* What the register pass is run on: documents of up to two of twenty         *)
(* parsed sentences, their words, and the bands of register-en-v1.toml per    *)
(* 180 words.                                                                 *)
Sentence(wordsOf, heads, relations) == [words |-> wordsOf, head |-> heads, relation |-> relations]

Sentences == {
  Sentence(<<"we", "deploy", "changes", "--", "it", "works", ".">>,
           <<2, 6, 2, 6, 6, 0, 6>>,
           <<"nsubj", "ccomp", "dobj", "punct", "nsubj", "root", "punct">>),
  Sentence(<<"the", "creation", "of", "indexes", "works", ".">>,
           <<2, 5, 2, 3, 0, 5>>,
           <<"det", "nsubj", "prep", "pobj", "root", "punct">>),
  Sentence(<<"the", "creation", "of", "a", "cache", "--", "small", "--", "works", ".">>,
           <<2, 9, 2, 5, 3, 5, 5, 5, 0, 9>>,
           <<"det", "nsubj", "prep", "det", "pobj", "punct", "other", "punct", "root", "punct">>),
  Sentence(<<"the", "creation", "of", "a", "cache", "--", "small", "--", "here", ".">>,
           <<2, 0, 2, 5, 3, 5, 5, 5, 2, 2>>,
           <<"det", "root", "prep", "det", "pobj", "punct", "other", "punct", "advmod", "punct">>),
  Sentence(<<"the", "creation", "of", "indexes", ".">>,
           <<2, 0, 2, 3, 2>>,
           <<"det", "root", "prep", "pobj", "punct">>),
  Sentence(<<"it", "was", "going", "here", ".">>,
           <<3, 3, 0, 3, 3>>,
           <<"nsubj", "aux", "root", "advmod", "punct">>),
  Sentence(<<"we", "deploy", "servers", "--", "small", ".">>,
           <<2, 0, 2, 3, 3, 2>>,
           <<"nsubj", "root", "dobj", "punct", "other", "punct">>),
  Sentence(<<"#quote", "the", "creation", "of", "indexes", "--", "here", "#quote", ".">>,
           <<3, 3, 0, 3, 4, 3, 3, 3, 3>>,
           <<"punct", "det", "root", "prep", "pobj", "punct", "advmod", "punct", "punct">>),
  Sentence(<<"#quote", "we", "deploy", "servers", "--", "small", "--", "3", "--", "here", "#quote", ".">>,
           <<3, 3, 0, 3, 4, 4, 4, 4, 4, 4, 3, 3>>,
           <<"punct", "nsubj", "root", "dobj", "punct", "other", "punct", "other", "punct", "other", "punct", "punct">>),
  Sentence(<<"it", "was", "the", "creation", "of", "indexes", ".">>,
           <<2, 0, 4, 2, 4, 5, 2>>,
           <<"nsubj", "root", "det", "other", "prep", "pobj", "punct">>),
  Sentence(<<"caching", "--", "a", "cache", ".">>,
           <<0, 1, 4, 1, 1>>,
           <<"root", "punct", "det", "dobj", "punct">>),
  Sentence(<<"it", "works", "--", "not", "here", ".">>,
           <<2, 0, 2, 5, 2, 2>>,
           <<"nsubj", "root", "punct", "neg", "advmod", "punct">>),
  Sentence(<<"it", "was", "running", "--", "3", "servers", "failed", ".">>,
           <<3, 3, 7, 7, 6, 7, 0, 7>>,
           <<"nsubj", "aux", "ccomp", "punct", "other", "nsubj", "root", "punct">>),
  Sentence(<<"it", "works", ";", "we", "failed", ".">>,
           <<2, 5, 5, 5, 0, 5>>,
           <<"nsubj", "ccomp", "punct", "nsubj", "root", "punct">>),
  Sentence(<<"it", "was", "running", ",", "it", "was", "going", "here", ".">>,
           <<3, 3, 0, 3, 7, 7, 3, 7, 3>>,
           <<"nsubj", "aux", "root", "punct", "nsubj", "aux", "ccomp", "advmod", "punct">>),
  Sentence(<<"it", "was", "running", "when", "we", "failed", ".">>,
           <<3, 3, 0, 6, 6, 3, 3>>,
           <<"nsubj", "aux", "root", "advmod", "nsubj", "advcl", "punct">>),
  Sentence(<<"#quote", "it", "works", "--", "here", ".", "#quote">>,
           <<3, 3, 0, 3, 3, 3, 3>>,
           <<"punct", "nsubj", "root", "punct", "advmod", "punct", "punct">>),
  Sentence(<<"it", "works", "--", "here">>,
           <<2, 0, 2, 2>>,
           <<"nsubj", "root", "punct", "advmod">>),
  Sentence(<<"the", "creation", "and", "deployment", "of", "the", "environment", "works", ".">>,
           <<2, 8, 2, 2, 2, 7, 5, 0, 8>>,
           <<"det", "nsubj", "cc", "conj", "prep", "det", "pobj", "root", "punct">>),
  Sentence(<<"it", "isn't", "here", "--", "it's", "small", ".">>,
           <<3, 3, 0, 3, 6, 3, 3>>,
           <<"nsubj", "neg", "root", "punct", "nsubj", "ccomp", "punct">>)}

Entry(pos, lemma) == [pos |-> pos, lemma |-> lemma]
Mark == Entry("punct", "mark")
PackLexicon ==
  ("we" :> Entry("PRP", "we")) @@ ("it" :> Entry("PRP", "it")) @@ ("the" :> Entry("DT", "the"))
  @@ ("a" :> Entry("DT", "a")) @@ ("3" :> Entry("CD", "3")) @@ ("of" :> Entry("IN", "of"))
  @@ ("creation" :> Entry("NN", "creation")) @@ ("indexes" :> Entry("NNS", "index"))
  @@ ("changes" :> Entry("NNS", "change")) @@ ("cache" :> Entry("NN", "cache"))
  @@ ("servers" :> Entry("NNS", "server")) @@ ("small" :> Entry("JJ", "small"))
  @@ ("here" :> Entry("RB", "here")) @@ ("not" :> Entry("RB", "not"))
  @@ ("when" :> Entry("WRB", "when")) @@ ("deploy" :> Entry("VBP", "deploy"))
  @@ ("deployed" :> Entry("VBN", "deploy")) @@ ("works" :> Entry("VBZ", "work"))
  @@ ("was" :> Entry("VBD", "be")) @@ ("were" :> Entry("VBD", "be"))
  @@ ("is" :> Entry("VBZ", "be")) @@ ("are" :> Entry("VBP", "be"))
  @@ ("running" :> Entry("VBG", "run")) @@ ("ran" :> Entry("VBD", "run"))
  @@ ("going" :> Entry("VBG", "go")) @@ ("went" :> Entry("VBD", "go"))
  @@ ("caching" :> Entry("VBG", "cache")) @@ ("failed" :> Entry("VBD", "fail"))
  @@ ("creating" :> Entry("VBG", "create")) @@ ("deploying" :> Entry("VBG", "deploy"))
  @@ ("deployment" :> Entry("NN", "deployment")) @@ ("environment" :> Entry("NN", "environment"))
  @@ ("and" :> Entry("CC", "and")) @@ ("it's" :> Entry("PRP", "it")) @@ ("isn't" :> Entry("RB", "not"))
  @@ [mark \in {"--", ";", ":", ",", ".", "(", ")", "#quote"} |-> Mark]

PackPastForm == ("run" :> "ran") @@ ("go" :> "went")
Band(low, high) == [low |-> low, high |-> high]
RegisterBands ==
  ("nominalization" :> Band(3, 9)) @@ ("agentless_passive" :> Band(1, 4))
  @@ ("em_dash" :> Band(0, 0)) @@ ("semicolon" :> Band(0, 1))
  @@ ("past_progressive" :> Band(0, 0)) @@ ("contrast_closer" :> Band(0, 0))

PackDocuments == UNION {[1 .. n -> Sentences] : n \in 0 .. 2}
PackNominalVerbs == ("creation" :> "creating") @@ ("deployment" :> "deploying")
PackParticiple == "deploy" :> "deployed"
PackGenericSubjects == {<<"we">>}

-----------------------------------------------------------------------------
(* Documents, packs and runs of tokens for Findings: every channel reports   *)
(* something in one of them, and spans of several channels overlap or touch. *)
Prose(sentences) == [scoped |-> TRUE, label |-> FALSE, sentences |-> sentences]
FDocuments == {
  <<Prose(<< <<"Is", "it", "just", "core", "layer", "or", "dog", "?">>,
             <<"It's", "not", "core", "layer", ".">>, <<"It's", "dog", ".">> >>),
    [scoped |-> FALSE, label |-> FALSE, sentences |-> << <<"core", "layer", ".">> >>] >>,
  <<[scoped |-> TRUE, label |-> TRUE, sentences |-> << <<"core", "layer">> >>],
    Prose(<< <<"However", ",", "dog", "isn't", "core", "layer", ";", "it's", "dog", ".">>,
             <<"dog", "isn't", "dog", ".">>, <<"They're", "dog", ".">> >>)>>,
  <<Prose(<< <<"It's", "not", "just", "core", "dog", ",", "it's", "delve", "layer", ".">>,
             <<"dog", "delve", "core", "layer", ".">>, <<"dog", "delve", ".">> >>),
    Prose(<< <<"make", "a", "choice", "of", "prime", "layer", "in", "order", "to", "go", ".">> >>)>>,
  <<Prose(<< <<"dog", "was", "made", "choice", ",", "however", ",", "in", "order", "to", "very", "well", ".">>,
             <<"It's", "not", "dog", "--", "it's", "core", "layer", ".">>,
             <<"is", "it", "not", "just", "dog", "or", "dog", "?">>,
             <<"make", "choices", "very", "in", "order", ".">> >>)>> }

FRuns == SUBSET {[first |-> 2, last |-> 4, score |-> 5], [first |-> 4, last |-> 8, score |-> 7],
                 [first |-> 9, last |-> 9, score |-> 5], [first |-> 10, last |-> 13, score |-> 6]}
FFolded == ("Is" :> "is") @@ ("It's" :> "it's") @@ ("They're" :> "they're") @@ ("However" :> "however")
FTags == ("core" :> "JJ") @@ ("layer" :> "NN") @@ ("prime" :> "JJ") @@ ("delve" :> "VB") @@ ("is" :> "VBZ")
         @@ ("it" :> "PRP") @@ ("just" :> "RB") @@ ("a" :> "DT") @@ ("not" :> "RB") @@ ("," :> ",")
FLetterWords == {"just", "core", "layer", "dog", "not", "delve", "make", "choice", "prime", "order",
                 "was", "made", "very", "well", "choices", "However", "however"}
FInventory == <<
  [id |-> "in_order", phrase |-> <<"in", "order">>, plain |-> TRUE, initial |-> FALSE, unless |-> {}],
  [id |-> "in_order_to", phrase |-> <<"in", "order", "to">>, plain |-> TRUE, initial |-> FALSE, unless |-> {"very"}],
  [id |-> "however", phrase |-> <<"however", ",">>, plain |-> FALSE, initial |-> TRUE, unless |-> {}],
  [id |-> "very", phrase |-> <<"very">>, plain |-> FALSE, initial |-> FALSE, unless |-> {"well"}] >>

-----------------------------------------------------------------------------
CONSTANTS Lexicon, NominalVerbs, PastForm, Participle, GenericSubjects, Stative,
          IrregularBases, ObjectPronouns, FusedSubjects, FusedAuxiliaries, SuffixNouns, Documents, Paddings, Scale, Bands

VARIABLES focus,
          doc, padding, stage, plan, pool, words, accepted, held, finals, out,
          vocab, streams, machine, human, unit, found,
          report, units, stream, reports, tagged, checked, fixed,
          lock, touch, within, begun, forced

registerVars == <<doc, padding, stage, plan, pool, words, accepted, held, finals, out>>
dmsVars == <<vocab, streams, machine, human, unit, found>>
reportVars == <<report, units, stream, reports, tagged, checked, fixed>>
registryVars == <<lock, touch, within, begun, forced>>

MCFeatures == 1 .. 2
MCKeys == 1 .. 3
MCHashValues == {0, 7}
MCClassOrders == {<<1, 2, 3>>, <<2, 3, 1>>}
MCFamilyStreams ==
  {<<a, b>> : a \in [1 .. 4 -> {1, 2}], b \in {<< >>, <<2>>, <<1, 1, 2>>}}
MCHumanStreams == {<< >>, <<2, 1>>, <<1, 1, 2>>}
MCUnits == (UNION {[1 .. n -> {1, 2, 9}] : n \in 1 .. 4}) \cup {<<1, 0, 2>>}

Pass == INSTANCE Register WITH phase <- stage
Channel == INSTANCE Dms
  WITH Ids <- 1 .. 3, NoId <- None, Separator <- 0, Vocabs <- {<<1, 2>>, <<2, 1, 0>>},
       FamilyStreams <- MCFamilyStreams, HumanStreams <- MCHumanStreams, Units <- MCUnits,
       StartThresh <- 2, ContThresh <- 1, MinLen <- 2
MCAssets == <<"tagger", "dms">>
Reports == INSTANCE Findings
  WITH step <- report, runs <- reports, Documents <- FDocuments, Runs <- FRuns,
       Folded <- FFolded, Tags <- FTags,
       HeadWords <- {"layer"}, Exceptions <- {<<"prime", "layer">>},
       LightVerbs <- [make |-> "base", made |-> "past"], Lexicon <- {"choice"},
       PluralNouns <- [choices |-> "choice"], Envelope <- [delve |-> 1, is |-> 1], Scale <- 100,
       LetterWords <- FLetterWords,
       MinDocTokens <- 20, MinOccurrences <- 3, Inventory <- FInventory
Packs == INSTANCE Registry WITH Workers <- {"w1", "w2"}, phase <- forced

(* What a part is while another one runs. *)
ParserRests == len = 0 /\ gold = << >> /\ stack = << >> /\ buffer = 1 /\ head = << >>
               /\ relation = << >> /\ bounds = << >> /\ phase = "parsed"
TaggerRests == text = << >> /\ tokens = << >> /\ tags = << >>
RegisterRests == doc = << >> /\ padding = 0 /\ stage = "done" /\ plan = << >> /\ pool = << >>
                 /\ words = 0 /\ accepted = << >> /\ held = << >> /\ finals = << >>
                 /\ out = Pass!Result(<< >>, 0, TRUE)
ChannelRests == vocab = << >> /\ streams = << >> /\ machine = << >> /\ human = << >>
                /\ unit = << >> /\ found = << >>
ReportRests == report = "done" /\ units = << >> /\ stream = << >> /\ reports = << >>
               /\ tagged = << >> /\ checked = << >> /\ fixed = << >>
LoaderRests == site = 1 /\ names = Nothing /\ caches = << >> /\ loads = 0
               /\ page = [p \in Pages |-> NewPage]

MCInit ==
  /\ focus \in {"parser", "tagger", "weights", "register", "dms", "report", "registry", "loader"}
  /\ IF focus = "parser" THEN Init ELSE ParserRests
  /\ IF focus = "tagger" THEN TagInit ELSE TaggerRests
  /\ WeightsInit
  /\ IF focus = "register" THEN Pass!Init ELSE RegisterRests
  /\ IF focus = "dms" THEN Channel!Init ELSE ChannelRests
  /\ IF focus = "report" THEN Reports!Init ELSE ReportRests
  /\ Packs!Init
  /\ IF focus = "loader" THEN LoadInit ELSE LoaderRests

(* UNCHANGED for every part but the one that runs. *)
Rests(part, v) == IF focus = part THEN TRUE ELSE UNCHANGED v
OthersRest ==
  /\ Rests("parser", vars) /\ Rests("tagger", taggerVars)
  /\ Rests("weights", <<trainVars, tableVars>>)
  /\ Rests("register", registerVars) /\ Rests("dms", dmsVars)
  /\ Rests("report", reportVars) /\ Rests("registry", registryVars) /\ Rests("loader", loaderVars)

MCNext ==
  /\ UNCHANGED focus
  /\ \/ focus = "parser" /\ Next
     \/ focus = "tagger" /\ TagNext
     \/ focus = "weights" /\ WeightsNext
     \/ focus = "register" /\ Pass!Next
     \/ focus = "dms" /\ Channel!Next
     \/ focus = "report" /\ Reports!Next
     \/ focus = "registry" /\ Packs!Next
     \/ focus = "loader" /\ LoadNext
  /\ OthersRest

MCVars == <<focus, vars, taggerVars, trainVars, tableVars, registerVars, dmsVars,
            reportVars, registryVars, loaderVars>>

(* Every thread under friction fix goes on running. *)
InRegistry(A) == focus = "registry" /\ A /\ UNCHANGED focus /\ OthersRest
MCSpec ==
  /\ MCInit /\ [][MCNext]_MCVars
  /\ WF_MCVars(focus = "parser" /\ MCNext)
  /\ WF_MCVars(InRegistry(Packs!Start \/ Packs!Continue))
  /\ \A t \in Packs!Threads : WF_MCVars(InRegistry(Packs!Thread(t)))

\* The register pass keeps count of the text it returns but for what single
\* deltas leave out, and reports every construction it leaves above its band once.
RegisterReportIsTrue == Pass!RewritesAddUp /\ Pass!RemainderIsReported

PooledFlagsASuperset == Channel!PooledFlagsASuperset
\* Findings are made with tags of the text they are about, and their regions
\* are the connected groups of their spans.
ReportIsOfThisText ==
  focus = "report" => Reports!ReusedTagsAreFresh /\ Reports!RegionsAreComponents

EveryTouchReturns == focus = "registry" => Packs!EveryTouchReturns
=============================================================================
