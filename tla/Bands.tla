-------------------------------- MODULE Bands --------------------------------
(* The envelope of human metrics: corpus-tool envelope measures it on the     *)
(* train split, separate and separate-holdout judge it on the other two,      *)
(* friction check and the harness score a document by it, and register-bands  *)
(* measures the bands of the register pack.  Metrics are integers; a score is *)
(* counted in Unit-ths, which every band width and count of metrics divides.  *)
EXTENDS Integers, FiniteSets, FiniteSetsExt

CONSTANTS
  Documents,   \* what may be in the corpus: [id, class, split, genre, metrics]
  Fixed,       \* what friction fix makes of a document: its metrics afterwards
  Metrics, Genres,
  LoPercentile, HiPercentile,
  IncludeThreshold,  \* auc_include_threshold, in hundredths
  GateThreshold,     \* GATE_AUC_THRESHOLD, in hundredths
  GateGenres,        \* GATE_MIN_GENRES
  Unit

VARIABLES
  corpus,    \* the records of the manifest
  envelope,  \* the pack: genre |-> metric |-> band; no genre before it is written
  authentic, \* the pack is what corpus-tool envelope wrote
  report     \* what the last command printed

vars == <<corpus, envelope, authentic, report>>

NoReport == [kind |-> "none"]
NoScore == -1
NoDirection == "unrecognized"

Of(split, class, genre) ==
  {d \in corpus : d.split = split /\ d.class = class /\ d.genre = genre}

ValuesOf(docs, metric) == [d \in docs |-> d.metrics[metric]]

-----------------------------------------------------------------------------
(* The value of rank ceil(p/100 * n), at least the first.                     *)
NearestRankPercentile(values, percentile) ==
  LET n == Cardinality(DOMAIN values)
      rank == Max({1, (percentile * n + 99) \div 100})
      atMost(v) == Cardinality({d \in DOMAIN values : values[d] <= v})
  IN Min({v \in {values[d] : d \in DOMAIN values} : atMost(v) >= rank})

(* Values that are equal share the mean of their ranks, so that twice the     *)
(* rank of x is what lies below it and one more, and what is at most x.       *)
Below(values, x) == Cardinality({d \in DOMAIN values : values[d] < x})
UpTo(values, x) == Cardinality({d \in DOMAIN values : values[d] <= x})

TwiceMidrank(human, llm, x) ==
  Below(human, x) + Below(llm, x) + 1 + UpTo(human, x) + UpTo(llm, x)

Measured(num, den) ==
  IF 2 * num >= den THEN [num |-> num, den |-> den, direction |-> "llm higher"]
  ELSE [num |-> den - num, den |-> den, direction |-> "llm lower"]

NoAuc == [num |-> 0, den |-> 0, direction |-> "llm higher"]

MannWhitneyAuc(human, llm) ==
  LET n1 == Cardinality(DOMAIN human)
      n2 == Cardinality(DOMAIN llm)
      ranks == MapThenSumSet(LAMBDA d : TwiceMidrank(human, llm, llm[d]), DOMAIN llm)
  IN IF n1 = 0 \/ n2 = 0 THEN NoAuc ELSE Measured(ranks - n2 * (n2 + 1), 2 * n1 * n2)

Reaches(auc, hundredths) == auc.den > 0 /\ 100 * auc.num >= hundredths * auc.den

-----------------------------------------------------------------------------
(* corpus-tool envelope. *)
EstimateBand(human, llm) ==
  LET auc == MannWhitneyAuc(human, llm)
  IN [lo |-> NearestRankPercentile(human, LoPercentile),
      hi |-> NearestRankPercentile(human, HiPercentile),
      direction |-> auc.direction, auc |-> auc,
      include |-> auc = NoAuc \/ Reaches(auc, IncludeThreshold)]

EstimateBands ==
  [g \in {x \in Genres : Of("train", "human", x) # {}} |->
     [m \in Metrics |-> EstimateBand(ValuesOf(Of("train", "human", g), m),
                                     ValuesOf(Of("train", "llm", g), m))]]

WriteEnvelope ==
  /\ envelope = << >> /\ EstimateBands # << >>
  /\ LoPercentile \in 0 .. 100 /\ HiPercentile \in 0 .. 100 /\ LoPercentile < HiPercentile
  /\ IncludeThreshold \in 50 .. 100
  /\ envelope' = EstimateBands
  /\ authentic' = TRUE
  /\ UNCHANGED <<corpus, report>>

(* "do not hand-edit": a band is dropped, its edges are swapped, its flag is  *)
(* left out, or its direction is misspelt.                                    *)
HandEdit ==
  /\ authentic /\ envelope # << >> /\ report = NoReport
  /\ \E g \in DOMAIN envelope, m \in Metrics :
       LET band == envelope[g][m]
       IN envelope' \in
            {[envelope EXCEPT ![g] = [x \in Metrics \ {m} |-> @[x]]],
             [envelope EXCEPT ![g][m].lo = band.hi, ![g][m].hi = band.lo],
             [envelope EXCEPT ![g][m] = [k \in DOMAIN band \ {"include"} |-> band[k]]],
             [envelope EXCEPT ![g][m].direction = NoDirection]}
  /\ authentic' = FALSE
  /\ UNCHANGED <<corpus, report>>

-----------------------------------------------------------------------------
(* The two loaders. *)
Bands(pack) == UNION {{pack[g][m] : m \in DOMAIN pack[g]} : g \in DOMAIN pack}

\* EnvelopePack::parse of friction-packs: a band without a flag is included.
Accepts(pack) == \A band \in Bands(pack) : band.lo <= band.hi
Included(band) == IF "include" \in DOMAIN band THEN band.include ELSE TRUE

\* load_envelope_pack of corpus-tool.
AcceptsStrictly(pack) ==
  /\ Accepts(pack)
  /\ \A band \in Bands(pack) : "include" \in DOMAIN band /\ band.direction # NoDirection

Exceedance(value, band) ==
  LET width == band.hi - band.lo
      gap == Max({band.lo - value, value - band.hi, 0})
  IN CASE gap = 0 -> 0
       [] gap > 0 /\ width = 0 -> Unit
       [] OTHER -> Min({(gap * Unit) \div width, Unit})

MeanExceedance(metrics, bands, names) ==
  IF names = {} THEN NoScore
  ELSE MapThenSumSet(LAMBDA m : Exceedance(metrics[m], bands[m]), names) \div Cardinality(names)

CombinedScore(metrics, bands) ==
  MeanExceedance(metrics, bands, {m \in DOMAIN bands : Included(bands[m])})

\* That of corpus-tool gives up on a genre that lacks a metric.
StrictScore(metrics, bands) ==
  IF DOMAIN bands # Metrics THEN NoScore
  ELSE MeanExceedance(metrics, bands, {m \in Metrics : bands[m].include})

-----------------------------------------------------------------------------
(* separate, on the dev split, and separate-holdout, which also scores what   *)
(* friction fix makes of the machine's documents.                             *)
Scored(metricsOf, genre) ==
  LET scores == IF genre \in DOMAIN envelope
                THEN [d \in DOMAIN metricsOf |-> StrictScore(metricsOf[d], envelope[genre])]
                ELSE << >>
  IN [d \in {x \in DOMAIN scores : scores[x] # NoScore} |-> scores[d]]

AsWritten(docs) == [d \in docs |-> d.metrics]
AsFixed(docs) == [d \in docs |-> Fixed[d.id]]

CombinedAuc(split, genre, llm) ==
  MannWhitneyAuc(Scored(AsWritten(Of(split, "human", genre)), genre), Scored(llm, genre))

Separate ==
  /\ report = NoReport /\ envelope # << >> /\ AcceptsStrictly(envelope)
  /\ LET combined == [g \in Genres |-> CombinedAuc("dev", g, AsWritten(Of("dev", "llm", g)))]
     IN report' = [kind |-> "separate", combined |-> combined,
                   metrics |-> [g \in Genres |-> [m \in Metrics |->
                     MannWhitneyAuc(ValuesOf(Of("dev", "human", g), m),
                                    ValuesOf(Of("dev", "llm", g), m))]],
                   met |-> Cardinality({g \in Genres : Reaches(combined[g], GateThreshold)})
                           >= GateGenres]
  /\ UNCHANGED <<corpus, envelope, authentic>>

SeparateHoldout ==
  /\ report = NoReport /\ envelope # << >> /\ AcceptsStrictly(envelope)
  /\ report' = [kind |-> "holdout",
                raw |-> [g \in Genres |->
                  CombinedAuc("holdout", g, AsWritten(Of("holdout", "llm", g)))],
                fixed |-> [g \in Genres |->
                  CombinedAuc("holdout", g, AsFixed(Of("holdout", "llm", g)))]]
  /\ UNCHANGED <<corpus, envelope, authentic>>

-----------------------------------------------------------------------------
(* friction check of a document whose genre is not known: the union of the    *)
(* bands of all genres, and a metric is weak unless most genres include it.   *)
GenresWith(metric) == {g \in DOMAIN envelope : metric \in DOMAIN envelope[g]}
Including(metric) == {g \in GenresWith(metric) : Included(envelope[g][metric])}

BandUnion(metric) ==
  LET of == GenresWith(metric)
  IN [lo |-> Min({envelope[g][metric].lo : g \in of}), hi |-> Max({envelope[g][metric].hi : g \in of})]

WeakSignal(metric) == 2 * Cardinality(Including(metric)) <= Cardinality(GenresWith(metric))

InEnvelope(metric, value) ==
  GenresWith(metric) = {} \/ Exceedance(value, BandUnion(metric)) = 0

AllInEnvelope(metrics) == \A m \in Metrics : WeakSignal(m) \/ InEnvelope(m, metrics[m])

\* The harness's secondary signal: the mean of the scores that there are.
SecondarySignal(scores) ==
  LET given == {g \in DOMAIN scores : scores[g] # NoScore}
  IN IF given = {} THEN 0
     ELSE MapThenSumSet(LAMBDA g : scores[g], given) \div Cardinality(given)

Check ==
  /\ report = NoReport /\ envelope # << >> /\ Accepts(envelope)
  /\ \E d \in Documents :
       LET scores == [g \in DOMAIN envelope |-> CombinedScore(d.metrics, envelope[g])]
       IN report' = [kind |-> "check", document |-> d, scores |-> scores,
                     clean |-> AllInEnvelope(d.metrics), secondary |-> SecondarySignal(scores)]
  /\ UNCHANGED <<corpus, envelope, authentic>>

(* register-bands prints three percentiles of the rate of each feature over   *)
(* the human documents of one genre, and RegisterPack::parse reads them.      *)
RegisterBands ==
  /\ report = NoReport
  /\ \E g \in Genres :
       LET docs == Of("train", "human", g)
       IN /\ docs # {}
          /\ report' =
               [kind |-> "register", genre |-> g,
                bands |-> [m \in Metrics |->
                  [low |-> NearestRankPercentile(ValuesOf(docs, m), 10),
                   median |-> NearestRankPercentile(ValuesOf(docs, m), 50),
                   high |-> NearestRankPercentile(ValuesOf(docs, m), 90)]]]
  /\ UNCHANGED <<corpus, envelope, authentic>>

WellFormed(band) == band.low <= band.median /\ band.median <= band.high

-----------------------------------------------------------------------------
Init == corpus \in SUBSET Documents /\ envelope = << >> /\ authentic = FALSE /\ report = NoReport

Next == WriteEnvelope \/ HandEdit \/ Separate \/ SeparateHoldout \/ Check \/ RegisterBands
Spec == Init /\ [][Next]_vars

-----------------------------------------------------------------------------
\* The area counts the pairs: how many of (human, llm) the machine's value is
\* above, ties as half, or below when that is more (separate.rs:195).
CountsPairs(auc, human, llm) ==
  LET pairs == (DOMAIN human) \X (DOMAIN llm)
      above == Cardinality({p \in pairs : human[p[1]] < llm[p[2]]})
      below == Cardinality({p \in pairs : human[p[1]] > llm[p[2]]})
      ties == Cardinality(pairs) - above - below
  IN IF pairs = {} THEN auc = NoAuc
     ELSE auc.num * 2 * Cardinality(pairs) = auc.den * (2 * Max({above, below}) + ties)

AucCountsPairs ==
  /\ authentic => \A g \in DOMAIN envelope, m \in Metrics :
       CountsPairs(envelope[g][m].auc, ValuesOf(Of("train", "human", g), m),
                   ValuesOf(Of("train", "llm", g), m))
  /\ report.kind = "separate" => \A g \in Genres, m \in Metrics :
       CountsPairs(report.metrics[g][m], ValuesOf(Of("dev", "human", g), m),
                   ValuesOf(Of("dev", "llm", g), m))

\* What corpus-tool scores, the engine scores alike (envelope.rs:163), and it
\* reads every pack that corpus-tool reads.
LoadersScoreAlike ==
  AcceptsStrictly(envelope) =>
    /\ Accepts(envelope)
    /\ \A g \in DOMAIN envelope, d \in Documents :
         LET strict == StrictScore(d.metrics, envelope[g])
         IN strict # NoScore => CombinedScore(d.metrics, envelope[g]) = strict

\* A document that scores nothing in every genre is one that check passes:
\* what it calls out of envelope costs in every genre that counts the metric.
CleanDocumentsPass ==
  report.kind = "check" =>
    /\ (\A g \in DOMAIN envelope : report.scores[g] <= 0) => report.clean /\ report.secondary = 0
    /\ \A m \in Metrics : ~InEnvelope(m, report.document.metrics[m]) =>
         \A g \in Including(m) : report.scores[g] > 0

\* The bands that register-bands prints are ones the register pack accepts.
RegisterBandsLoad == report.kind = "register" => \A m \in Metrics : WellFormed(report.bands[m])

BandsAreSound ==
  AucCountsPairs /\ LoadersScoreAlike /\ CleanDocumentsPass /\ RegisterBandsLoad
=============================================================================
