# friction in TLA+

`friction` reads prose, finds wording that reads machine-made, and rewrites what
it can rewrite safely. This directory models the program: the edit engine in
`crates/friction-edit` first, then what feeds it (segmentation, parsing,
tagging, detection, packs) and what surrounds it (the command line, the browser
loader, the corpus tool). Small instances are checked with TLC; what matters
most is proved with TLAPS for every value of the constants.

Most of the program is sequential. What makes it hard is not threads but *layers
of coordinates, caches and artifacts*: six operations run one after another on
the working text of a sentence, each sees what the earlier ones left, yet every
edit is reported against the original bytes; sentences are decided one by one,
but share a budget and a cache; a user runs the whole thing again on its own
output; tables are trained, averaged, packed, hashed and probed by five
different programs that must agree. Real concurrency and failure are at the
edges: pages of one site over a shared cache storage, threads that force lazily
built packs, commands cut short, a machine that loses power.

## Inventory

| component | state | operations | what makes it correct |
|---|---|---|---|
| patches and spans (`friction-core`; `resolve`, `apply`, `rebase_range` of `friction-edit/src/document.rs`) | none | overlap, validation, conflict resolution, application, rebasing | accepted patches disjoint; only an accepted patch shadows another; a rebased span follows its text |
| sentence splicer (`splice.rs`) | chunk chain, recorded patches | `new`, `apply`, `can_apply`, `starts_with_original`, `opening_intact`, `finish` | patches disjoint, and applying them to the source gives the working text |
| near-no-op budget (`nearnoop.rs`) | takes left | `for_document`, `unlimited`, `try_take` | charged exactly for what is applied |
| sentence pipeline (`sentence.rs`, `gates.rs`) | working text, held findings | ritual deletion, substitution, pivot, span deletion, frame dejust, frame rewrite, recapitalization | no guarded word, quotation, list item or clause is lost |
| generation cache (`sentence.rs`) | outcome per key | lookup, insert, rebase | a hit decides what generating the sentence would |
| document orchestrator (`document.rs`) | text, report, budget, caches | at most two passes, restructure, register; `remaining_held` | passes behave as whole passes without a cache; every hold points at its text |
| restructure pass (`restructure.rs`) | none | T10 to T13, once | both halves of a split are clauses; fragments left alone |
| register pass (`register.rs`, `friction-register`) | feature counts and rates | greedy selection into bands | rewrites of several features do not disturb each other's counts; what is left above its band is reported once |
| segmentation, parsing (`friction-nlp`, `friction-parse`) | the walk's open session | blocks, prose units, sentences | ranges cover the prose, never structure |
| frame rules (`friction-packs`, `friction-match`) | compiled rules, captures | compile, fence, match, realize | a rewrite is never found again; a match occurs where it says |
| detection channels (`friction-match`) | indices | scan, pool, report | spans are of this text; pooling loses no flag |
| tagger, dependency parser (`friction-nlp`) | model weights, parser configuration | scan, tag, parse, train | arcs form a projective tree; trained weights score as trained |
| packs (`friction-packs`, `corpus-tool`) | artifacts | mine, calibrate, pack, load, look up | an artifact answers like its source or is refused |
| metrics, harness (`friction-metrics`, `friction-harness`) | none | measure, score, judge | measures count what they say |
| command line (`friction-cli`) | files, threads | `fix`, `check`, `write_in_place`, reuse of tags | an interrupted write loses nothing; no thread waits forever |
| browser loader (`web/loader.js`), `friction-wasm` | asset cache, write-once slots | `loadFriction`, `init_engine` | no engine starts on damaged packs or on packs older than itself |
| corpus tool | manifest, documents, lock | ingest, generate, remove, decode, split, seal, check | which records a command cut short may leave wrong, and what running it again makes good; a sealed holdout stays sealed |

How the parts interact. `edit_document` parses and segments the text, collects
the position of every sentence and the casing of every word, and calls
`edit_sentence` on each in turn. That looks the sentence up in the generation
cache under its text, its position flags, the gaps to its neighbours and the
budget left, capped at three; on a miss `generate_sentence` runs the stages on a
`SentenceSplicer`; in both cases recapitalization runs afterwards, because it
reads the casing of the whole document. The collected patches are resolved and
applied, and the pass is repeated once. Restructure and register follow, each
once; the command line scans the output, reusing the register pass's tags, and
writes it in place. Packs come out of the corpus through `corpus-tool`, are
embedded by a build, and are forced lazily by whichever thread needs them first.

`PROJECT.json` lists the hazards in this code at their lines, with the
properties that would catch each, and the components with their sources.

## Modules

| modules | model |
|---|---|
| `Spans`, `Resolution` | spans, patches, `resolve`, `apply`, `rebase_range` as operators; a pass proposing candidates to them in any order |
| `WorkingText`, `Splicer` | what a splicer promises, in cells that remember where they came from; the chunk chain, shown to implement it |
| `Prose`, `Sentence`, `Restructure` | sentences and their positions; gates, budget and the stages; the whole of `generate_sentence`, the cache key, `from_outcome`, recapitalization, and `run_restructure` |
| `BoundedPasses`, `EditDocument` | `edit_document` in whole passes without a cache, for any segmentation, edits and resolution (its parameters); one `edit_sentence` call at a time with the cache, shown to implement the former |
| `Register` | features, generators T4 to T7 and T9, greedy selection with conflicts, the findings left |
| `FrameRules`, `FrameCompile`, `FrameProgram` | the rule language; compiler and fences; scan, verifier with backtracking, realization |
| `Html`, `Markdown` | the two extractors as walks over lexemes and over parser events |
| `ArcEager`, `Tagging`, `Weights` | transition system with parser, oracle, derivation and training; scan and tagging pass; perceptron averaging, the sparse file, the packed hash table |
| `SuffixAutomaton`, `Dms`, `Findings` | the automaton, its matching statistics; the differential channel; all channels and the reports of `check` and `fix` |
| `PackCells`, `Attestation`, `EvidencePacks`, `DmsIndex`, `AuthoredPacks`, `FrameFile` | packs from what they are mined from to a lookup, as sequences of cells, with damage, interruption and earlier builds |
| `Bands`, `Metrics`, `Harness` | the envelope and what is judged by it; the metric vector; what judges an edit from outside |
| `Corpus` | the corpus commands, each cut short anywhere; the plans of `generate` and `generate-paired` |
| `WriteInPlace`, `Registry`, `LoadFriction` | `fix --in-place` under crashes; the packs' locks under `fix`'s threads; pages loading an engine while the site is redeployed |
| `SentenceProofs`, `PassProofs`, `PatchProofs`, `PerceptronProofs`, `LoadFrictionProofs`, `DiskProofs`, `FoldFacts` | theorems (one more stands in `Attestation`) |
| `MCPatches`, `MCEditDocument`, `MCLanguage`, `MCCorpus`, `MCPacks` | instances for TLC |

Correspondence of `EditDocument` with the code: `text` is `current`, `passes`
and `finalBounded` are the fields of `EditReport` (the index counted from 1),
`budget` is `PivotBudget::remaining`, `cache` the `GenerationCache`, `positions`,
`casing`, `candidates` and `held` the locals of one turn of the loop, `next` the
loop index. `Segment` is the head of a pass, `EditHit` and `EditMiss` one
`edit_sentence` call, `EndPass` resolution, application and the report,
`RestructurePass` the call of `run_restructure` with its filter of earlier
holds, `FixAgain` the next call of the engine on what this one returned, as
`tests/idempotence.rs` makes it. `entry` remembers the budget at the start of a
pass, for the refinement.

In the edit engine a text is a sequence of symbols: a word, a space, a mark, or
a phrase that a pattern always takes whole; offsets count symbols. What
statistics decide (tags, attested seams and skeletons) is given by sets, chosen
so that each gate both passes and fails. `PROJECT.json` maps every definition of
the models to the lines it stands for.

Composite instances carry a variable `focus` that names the part a behaviour
exercises while the others rest: `MCPatches` (splicer, resolution, rules, html,
markdown), `MCLanguage` (parser, tagger, weights, register, dms, report,
registry, loader), `MCCorpus` (corpus, plan, writer), `MCPacks` (attestation,
evidence, filters, index, authored, frames, bands, metrics, harness). A property
of such a run speaks about its own part.

## Runs

| run | bounds | shows |
|---|---|---|
| `patches` | a five-symbol sentence at offset 3, `MaxEdits = 3`; `MaxCandidates = 3` on three bytes; three rule sets on sentences of up to four words and longer ones; pages of up to four lexemes | `DisjointPatches`, `HonestPatches`, `ImplementsWorkingText`; `OnlyAcceptedShadow`, `RebasedSpansFollow`; `MatchesAreOccurrences`, `RewritesStayClosed`; `ProseIsPageText` |
| `edit_document` | documents of one to four sentences, in paragraphs, ordered items and around code spans; two passes as in the code; `MaxRuns = 3`; three calibrations; `Unlimited = 1000` | `ImplementsBoundedPasses`, `BudgetSpentIsApplied`, `GuardedWordsSurvive`, `QuotedTextIsKept`, `ItemsKeepContent`, `RecapitalizedOpensSentence`, `NoClauseLost`, `BudgetHoldsEnd` |
| `language` | sentences of up to four tokens; three iterations over two features and three classes, three keys; texts of four characters; documents of up to two of twenty parsed sentences; short units and streams; two pages, two versions, two packs, three loads | `ArcsNeverCross`, `BoundsAreTheScan`, `DerivesTheProjectiveTrees`, `LoopsEnd`; `TrainedWeightsScore`; `ScanAgreesWithClassifier`; `RegisterReportIsTrue`; `PooledFlagsASuperset`; `ReportIsOfThisText`; `StartsOnOwnPacks`; `EveryTouchReturns` |
| `corpus` | three fragments (two of one source, either collected first; one refused), one job, every command cut short anywhere; small plans; three runs of `fix --in-place`, two blocks, two losses of power | `InterruptedRunsRecover`, `SealedHoldoutKept`; `PlanKeepsItsShares`; `DocumentIsWhole` |
| `packs` | a few documents, words and entries per pack; one cell damaged, or the file cut or extended, once | `ArtifactAnswersLikeItsSource`, `MinedEvidenceIsAttested`, `CalibrationSparesHumans`, `LoadersAgree`, `MiningIsComplete`, `MatchesLieInOneDocument`, `AuthoredPacksAreSound`, `FrameFileAnswersLikeItsSource`, `MeasuresAreSound` |
| `third_run`, `quotation`, `holds`, `fix_entities`, `realizable`, `kinds`, `markers` | the part concerned only | one statement each that the code does not keep |

Why the bounds are enough. *Splicer*: an edit touches one chunk, so what it can
interfere with is the chunk before, the chunk after, and itself; three edits make
chains in which a middle piece is cut again, and the proofs cover any number.
*Candidates*: three let one be shadowed by another that is itself dropped.
*Runs of the engine*: what a run leaves depends only on its text; runs after the
third are not cut off, only no longer numbered. `Unlimited` stands for
`u32::MAX`; no document here has more than a few takes, and the cache key sees at
most three. The calibrations (`Rates`, edits per thousand words) are none, a low
one that leaves one take, and one that leaves different numbers for documents of
different length, so that the budget runs out in the middle of a document, and
between a sentence and its repetition. *Parser*: crossing arcs need four tokens;
the proofs cover any length. *Weights*: two hash values put every key behind
every other and make a probe wrap; three iterations let a weight change, rest
and change back. *Loader*: two pages of two versions and three loads let a page
keep a cache open that the other deletes and a later load looks for again.
*Corpus*: two fragments of one source are what the id rule and the shared split
key are about, a refused one is passed over by every command, and a generation
job is what fails and is retried. *Writer*: `Overlap = FALSE`: runs follow one
another, as the code relies on (`common.rs:156-164` writes to one shared
`.partial` name; with `Overlap = TRUE` the property fails). *Packs*: a cell per
integer or byte makes a cut or a change possible between any two of them.

Shared tables are scaled down and named: `Radix` (the base of an integer's
cells), `HashValues`, `NotUtf8`, `DamagedCells`, `EvidenceDamage`,
`FrameDamage` (what a damaged cell may hold), `Scale` and `Paddings` (words a
rate is counted over), `MaxLen`, `MaxIterations`, `MaxLoads`, `MaxCrashes`,
`Blocks`, `MaxEdits`, `MaxCandidates`, `MaxRuns`.

### Where the code departs from what is said of it

`findings` in `PROJECT.json` quotes the lines.

- `third_run`: "a third pass changes nothing". Each call gets a fresh budget, so
  with more constructions than budget each call rewrites some more.
- `quotation`: "no operation may rewrite" quoted text. Quotation marks are
  counted per sentence, so the second sentence of a quotation is not protected.
- `holds`: "every reported range slices your original bytes". A frame hold is
  positioned in the working text of its sentence, which earlier stages of the
  same pass may have shortened.
- `fix_entities`: a command cut short after a file and run again leaves the old
  hash in the manifest.
- `realizable`: a shipped frame rule copies a slot that stands in an optional
  group; it matches and can never edit.
- `kinds`: an element that begins with an inline tag joins the block before it
  and its kind.
- `markers`: a quote marker inside emphasized text becomes prose.

### Fairness

`EditDocument` is a function that runs to its end, called in a loop: exactly one
of its actions is enabled in every state (TLC checks deadlock), and
`[]<><<Next>>_vars` says that the program keeps running and is called again. That
is weak fairness of `Next`, written without `ENABLED`, because `Next` is always
enabled and evaluating `ENABLED` over the whole pipeline is expensive. No fairness
between actions is assumed: there is never a choice. `BudgetHoldsEnd` (run on its
own output the engine comes to make every rewrite it held for want of budget)
rests on it.

In `language`, `LoopsEnd` assumes that the parser's loop keeps running, whatever
the scores pick; it is a `while` loop of one thread. `EveryTouchReturns` assumes
that every thread of `fix` that can take a step eventually takes one, as the
operating system's scheduler does; a thread waiting for a lock has no step to
take. The other parts check safety only. Deadlock is not checked where a part
really stops (an edit list is finished, a page is read, the pool is done).

## Proofs

Each result holds for every value of the constants that satisfies the named
`ASSUME`s of the module it is about, or the condition the theorem names; TLC
evaluates these assumptions on its instances. Nothing is assumed without proof; the results rest on the library's
theorems about sequences, finite sets and well-founded relations.

### Bounded passes and the generation cache (`PassProofs`, `SentenceProofs`)

- `CachedPassesAreWholePasses`: for all documents, packs, transducers and
  calibrations, `EditDocument` implements `BoundedPasses`: the passes that walk a
  text one `edit_sentence` call at a time, share outcomes through a cache that
  outlives a pass, and charge one budget, end with the texts, the number of passes
  and the budget of whole passes that generate every sentence afresh. It rests on the
  `ASSUME`s that texts and pack entries are sequences and that a calibration is a
  number or absent.
- `CacheIsSound`, the inductive invariant (`PassInv`). What is on the walk
  (`Collecting`) is what visiting the same sentences without a cache gives from the
  budget the pass began with; to keep that on a hit, every entry must be the
  outcome of *some* sentence with its key (`SoundCache`): of an earlier text,
  perhaps, with another place and another budget.
- `HitIsAsGood`, the lemma on which everything turns: such an entry, rebased, gives
  any sentence of that key what generating it would. Two runs of the stages on the
  same text that differ in their budgets stay `Alike` and take equally often
  (`Took`) while both have room for the takes still to come. A sentence takes at
  most three times (two pivots, one dejust: `StagesTake`), so budgets with the same
  `Regime` suffice: `remaining().min(3)` is exactly enough, and with `min(2)` TLC
  finds the refinement broken. A sentence's place enters in two ways, as a shift of
  every patch and through the separators a ritual deletion takes along, which the
  gaps in the key determine (`WholeIsAlike`). Recapitalization reads the casing of
  the whole document and therefore runs after the lookup, on hits as on misses.
- What a hit replays are patches, casing and takes. Its holds are not part of the
  statement: `remaining_held` reports them, and the run `holds` is about them.

### Quotations (`PassProofs`, `SentenceProofs`)

- `QuotationsAreLeftAlone`: for all documents, packs, transducers and calibrations,
  no operation but the deletion of a whole sentence takes text that is quoted
  within one sentence, or its marks. Each stage asks `in_quoted_span`, which counts
  the marks before a span in the *working* text; what must survive are offsets of
  the *original* sentence.
- `Sheltered` are those offsets: the marks, and what an odd number of them precedes.
  `Faithful` ties the working text to them. Its cells hold every sheltered symbol
  still, in order, and no mark that is not the sentence's own, so as many marks stand
  before a cell as before its place in the sentence (`SameMarksBefore`), and the gate
  judges what it should. `Quiet` adds that the patches recorded so far take no sheltered symbol.
  Every stage keeps it (`QuietStages`): a deletion widened to take a space, the two
  edits of a frame, and the stages that find all their edits on one working text and
  make them from the right, where an edit does not move what is left of it
  (`PlansStayQuiet`).
- A patch list that is `Sober` stays so when `apply_recapitalize` replays it and takes
  the first word along (`SettledStaysSober`): no mark precedes the first symbol, and
  a mark has no capital. Outcomes from the cache are of the same
  text, so the same offsets are sheltered. Sentences do not overlap
  (`SentencesLieApart`), so an edit of one is outside the quotations of all others
  (`IsAside`). `QuoteInv` adds to `PassInv` that all a pass has collected is aside.
- Assumed (`QuoteAssumption`, `TransducersAssumption`): no pack entry puts in a
  quotation mark, as in the shipped inventory, and by the syntax of the frame rules,
  whose literals are delimited by such marks (`frame_rules.rs:508-529`); a rule
  without a pattern is rejected (`frame_compile.rs:1470`), and so is a slot in a
  target that its pattern does not capture (`frame_compile.rs:1481`).

### Patches (`PatchProofs`)

- `TypeCorrect`, `Inductive`, `PatchesDisjoint`: the patches one splicer records
  never overlap, which is what `apply_recapitalize` relies on. Disjointness is
  not inductive: an edit is made inside an original chunk and meets no earlier
  patch only because every original chunk is apart from every patch; to keep
  that, original chunks must be apart from each other. `IInv` is the three.
- `SplicerImplementsWorkingText`: the chain implements `WorkingText`. The cells of
  a chain are a fold over it; the lemmas say what the fold of a chain with one
  chunk split is, that the walk's cursor counts cells, and that a span inside
  one original chunk is a run of cells that were neighbours in the source, which
  is exactly when the abstract edit is accepted.
- `PatchesHonest`: `resolve` keeps every patch of a splicer, applying them to the
  sentence gives the working text, `opening_intact` tells whether one took the
  first byte, and the replay in `apply_recapitalize` rebuilds the chain. Nothing in
  `IInv` says how a chain depends on the order of the edits. `Canonical`
  (`ChainIsCanonical`) does: the chain is the one its patches compose when they are
  taken from the right. An edit puts one more patch into that order and splits one
  chunk of the composed chain (`ComposedInserts`), which is what `apply` does to the
  chunk it stops at (`SplitIsEdit`). Then all four read off the same chain: `replay`
  splits its first chunk once per patch, `apply_patches` splices from the right,
  and, the patches being disjoint, `resolve` sorts and drops none.
- `ResolutionIsLeftmostFirst`: what `resolve` accepts is ordered and disjoint, and
  a valid candidate is dropped only for an accepted one before it. The sorting
  fold keeps "ascending, and holding the valid candidates seen"; the keeping
  fold keeps "pairwise apart, and everything dropped is shadowed".
- `SpansFollowEdits`: the text `apply` makes and the offsets `rebase_range` computes
  agree. Two folds run over the same patches, one from the right and one from the
  left. `Carries` says of the text, while patches 1 to k are still to be spliced,
  where every replacement and every byte between two patches stands; the last
  patches first is what keeps the earlier offsets good (`LandingsInOrder`).
  `RebasedIs` says of an edge that the patches it is past are the first ones of the
  row, and that at most the next one holds it strictly inside. A span no patch meets
  has both edges past the same patches (`UnmetMoves`), the insertions at its own
  edges included.

### Parser (`PerceptronProofs`, part 1)

- `ArcsProjective`: whatever the scores pick, arcs never cross. Not inductive: an
  arc between the top of the stack and the front of the buffer crosses nothing
  because of what the stack is. `Shape` adds that the stack ascends behind the
  buffer, that what is not on it has a head, and that nothing on it is covered.
- `BoundsScanned`, `DerivesExactly`: the incrementally kept bounds are those of a
  scan; `derive` drops a gold tree only when it has no projective derivation,
  never asks for a refused step, and rebuilds the tree otherwise. The second
  invariant (`TreeInv`) adds that dependents precede the buffer, that heads form
  no cycle, and that every gold arc not yet made is still within reach.

### Weights (`PerceptronProofs`, part 2)

- `TrainingPaysOff`: for every set of features, number of classes and examples,
  every hash function and every order of classes in a file: the lazily kept
  averages are the averages, the table never fills while it is built, and both
  backends score every key by them. `LazyTotals`: the naive sum of a weight is
  its recorded total plus the weight times the iterations since; `RowsHoldAverages`:
  the file has a row for exactly the averages that are not zero; `Probed`: every
  key placed is reached from its hash without meeting an empty slot. A pigeonhole
  argument gives the free slot.

### Tagger (`PerceptronProofs`)

- `ScanIsTheClassifiers`: for texts of every length, the scan gives a token the kind
  `classify_token_kind` gives its characters, overlaps nothing and skips only
  whitespace. A run that is as long as it can be holds nothing its first character
  does not keep taking (`RunsAreClassified`); `TagInv` adds that tokens lie in the
  text.

### Loader (`LoadFrictionProofs`)

- `EnginesStartOnOwnPacks`, `CachesKeepToTheirVersion`: an engine starts on intact
  packs no older than its own build or than the version its page read in
  `package.json`, and on that version's if they come from its tag, for any pages,
  versions, packs and calls. A page takes its build from the site at the import
  and its version at a later step, and bytes are labelled with the version they
  were made with: the tag's own, or what the site serves when they are fetched.
  The invariant says that every cache ever created, deleted or not, has one owner
  version, which alone opens it, and what its entries may be. It assumes versions
  are deployed in order and that the browser does not answer a request for the
  site from an HTTP cache of its own.

### Disk (`DiskProofs`)

- `RunsLeaveTheDocumentWhole`: for any number of runs, text length and losses of
  power, if runs do not overlap (`Overlap = FALSE`). `DocumentIsWhole` is not
  inductive: the invariant speaks of every directory a loss of power may fall
  back to. In each, the file behind the document is whole and synced and is not
  the current `.partial`, the only file ever written to.
- `HoldoutStaysSealed`, `RunsAreMadeGood`, `CorpusInductive`: whatever commands are
  run and cut short in whatever order, and in whatever order fragments are
  collected, a sealed holdout stays sealed, a record comes apart from its file only
  where a removal or decoding of it was cut, and an ingest or generate that reaches
  its end has made good the interrupted ones, but for a fragment whose id is held
  by one that has moved (see "Observed without a run").
  `CorpusInv` says, per command, how its copy of the manifest differs from the
  manifest and which files it has written or deleted so far. Assumed: ids are
  hashes, so no job has a fragment's id.
- `PlansKeepTheirShares`: the plans of `generate` and `generate-paired`, for any
  number of genres, models, prompts and jobs and any share, filter and limit. The
  jobs of a genre are a block of the plan (`JobBlocks`, `PairBlocks`, by induction
  over the sequences laid one after the other, `FlattenLaid`), cut by the limit.
  What a share counts in a block are the places that leave one remainder
  (`BlockCount`); of the numbers below `n` any remainder occurs as often as any
  other but for one (`ResidueCount`, `EvenCounts`), and rounding `low_every` down
  and `style_every` up puts the counts on the promised side of the share
  (`ShareCounts`). Jobs with one id have one place, as the row and column of the
  matrix determine it (`DistinctJobs`, `DistinctPairs`). Assumed
  (`PlansAssumption`): shares lie in (0, 1] (`genconfig.rs:155-166`), the
  configuration names every model once, and the catalogues give every prompt an id
  of its own, in all genres.

### Packs (`Attestation`)

- `CalibrationsSpareHumans`: of the edits the measuring engine made in a document,
  the budget calibrated from them holds back no more than that engine made dejusts
  there, for any documents and any order of collecting, mining, calibrating (under an
  earlier calibration too), packing and embedding; none, then, where it made pivots
  alone. Dejusts spend the budget (`sentence.rs:1114-1116`) and are not measured
  (`attest.rs:144-149`), so more than that does not hold. The threshold is the
  highest rate times 1.15, rounded up in hundredths per thousand words, and the
  budget made of it is rounded up once more, so both roundings favour the document
  (`RatesAreNumbers`, `MeasuredIsSpared`). `CalibrationInv` says that the pack and the
  run that is measuring speak of the same documents, and that their rates, being
  finitely many, have an upper bound: that a maximum exists is proved, not assumed
  (`GreatestNat`). Assumed (`DocumentsAreCounted`): a document without words has no
  pivots; `MCPacks` has TLC check it of its documents.

### How folds are proved

Induction principles of the library take an operator as a parameter, which the
provers cannot instantiate. What is needed follows from the least number principle
instead (`LeastNat`, `NatInduct`): a left fold over a sequence is the end of a
*trace*, a function from `0..Len(s)` whose neighbours are related by the step. A
proof takes an instance of `FoldFacts` for its own step (`F == INSTANCE FoldFacts
WITH Op <- Step`), links the model's fold to it by unfolding both, and uses
`FoldTrace`, `FoldInvariant` and `FoldUnique`. Every instance brings a copy of all
the module extends into every obligation, so `FoldFacts` extends the integers alone
and has induction as a hypothesis, `Inductive`, which the module that makes the
instance proves of it (`StagesInduct`, `MatchesInduct`, ...).

### What is only model-checked

Liveness (`LoopsEnd`, `EveryTouchReturns`, `BudgetHoldsEnd`) is out of the
prover's reach, as is anything that speaks of `ENABLED`. Modules that compute by
`RECURSIVE` operators (`FrameCompile`, `FrameProgram`, `FrameFile`, `Html`) reach
no theorem. The inductive invariant `PassInv` is the one that no run checks: it
says that there *is* some sentence whose outcome an entry is, which TLC could only
look for among all texts; the runs check what follows from it.
`BudgetSpentIsApplied` is not a theorem of every pack: an edit the splicer declines
(a pivot on replaced text, a `dejust` across a seam) is charged and leaves no patch;
that this does not happen rests on the packs' entries being disjoint.
Nor is `GuardedWordsSurvive`: a guard of several words is matched in the original
sentence, while a frame is kept from the guards it finds in the working text, so a
substitution that rewrites one of the words would let a frame take the rest; that
none does is again a matter of the entries.
Nor is `ItemsKeepContent`: a deletion inside the only sentence of an item is held
back by the clause gate and the skeleton table alone, and a pack may list an item's
every word where its table has room for a bare full stop.
`RecapitalizedOpensSentence`, and the other properties of register, detection and packs
are checked on their instances only: they compare whole computations
(replaying patches, scanning, mining) with a reference definition, each of which
would need an induction of its own.

## Not modelled, and what is abstracted

**Edit engine.** UTF-8 boundaries; curly quotation marks; indefinite articles
(`repair_article`); headings, tables, bullet lists and nested blocks in `Prose`;
the three construction guards of `frame_candidate_hold` and its parenthetical
case; inflection of template literals; skeleton windows wider than the pair at
the seam; duplicate holds of one rule on one span. The transducers T10 to T13 are
a table of what they find and what becomes of it. The register pass is checked on
its own and not composed with `EditDocument`.

**Register.** "(" stands for both brackets; the "-ed" lemma guard and the
classifier openers are left out.

**Parser, tagger, weights.** A score is abstracted to the choice it leads to; an
example's features are a set; weights are the integers before the division; the
hash is any function and the class order any permutation; feature templates,
normalisation of words, headers and the reading of sections are left out.

**Detection.** Regular expressions are patterns of words; the Wilson bound is an
exact integer inequality; matches of the automaton that begin inside a word and
the document summary of the differential channel are left out.

**Frame rules.** A stream of words is the evidence; an absent pack is a total of
0; `MaxSlot` is 2 where the code has 12; article repair and capitals are left
out; which candidates the gates hold is any choice.

**Parsing.** Html: lexemes instead of bytes (no attribute parsing, no sniffing of
JSON types or of HTML itself). Markdown: pulldown-cmark is external, its events
are given with the lexemes; front matter is one lexeme.

**Packs.** A file is a sequence of cells, one per integer or byte; a hash is one
cell; filters are external and may answer for hashes they were not built from;
floors and factors (`UnigramFloor`, `BurstFloor`, `PerMillion`) are scaled down;
f64 is exact; one cell is damaged, or the file cut or extended, once. Authored
packs: names are numbers, patterns are sequences of words and items, no case.
`FrameFile`: rates left out, codes are one range.

**Bands, metrics, harness.** Small integers, scores counted in 48ths; two genres
and two metrics; a rate is a fraction with denominator 0 where the code answers
0; the tagger is a function from words to tags; a word is a stem with its form;
the layout of reports, and the fixture table of `gates.rs`, are left out.

**Corpus and disk.** A class stands for its (class, genre) cell; commands run one
at a time; a text's hash is the text; a text is an array of blocks.

**Left out altogether.** Argument parsing and printing of the commands, prompts
and server options, `adjudicate` and `mine_inventory` (reports for people to
read), `web/`'s page and the events and diff of `friction-wasm`, the fuzz targets
(they call what is modelled, on bytes) and packaging.

## Observed without a run

Disagreements and curiosities met while modelling, none of which a run states.

- `splice.rs:110`: `apply` refuses an edit across a seam an earlier deletion left,
  while 87-88 calls that impossible; callers ignore the answer, so the budget or a
  hold may be spent on nothing ("simply" deleted before "to suit your needs").
- `sentence.rs:341-343` calls a cache hit byte-identical; patches and budget are,
  but holds are widened or dropped on a hit (463).
- `sentence.rs:548-554`: "only a genuine sentence start gets its leading letter
  capitalized", judged before the pass; when the pass deletes the fragment between
  a code span and the sentence, the capital stands in the middle of the sentence
  the span had cut ("See `x` I hope this helps. very simply goes." becomes "See `x`
  Goes."). `RecapitalizedOpensSentence` speaks of the text the pass was given.
- `sentence.rs:142-147`: `DocumentCasing` counts "words seen with a lowercase first
  letter", but `record_sentence` (160-178) tests tokens `tokenize_str` has already
  folded (`token.rs:83-91`): every word counts, and a lowercase opener is held when
  the document merely opens another sentence with that word, capitalized.
- `sentence.rs:110-117` against 1358: a fragment after a code span is capitalized
  by a frame rewrite at its start. `sentence.rs:1383`: two adjacent deletions leave
  a doubled space.
- `transduce.rs:3`: "exact per-feature count delta" has exceptions: a dash before a
  word that cannot be capitalized becomes a semicolon nothing counts; "was the
  creation of x" becomes "was creating x", a progressive; and T5 replaces everything
  from the article to the argument (786-835), so "the creation and deployment of the
  environment" becomes "creating the environment", two nominalizations fewer and a
  conjunct lost, "the one failure mode this module must never produce" (780-781).
  `RewritesAddUp` (in `RegisterReportIsTrue`) takes the effects as they are.
- `register.rs:186-192`: the convergence pass with no patches is never run by
  `edit_document` (`document.rs:272`).
- `extract.rs:14-24`: text of a tight list item after a nested block is never
  extracted.
- `common.rs:156-164`: two concurrent runs share one `.partial`.
- `web/loader.js` stores bytes before they are validated. Packs and engine need not
  agree (294: "at the engine's version tag"): a redeployment between the import and
  `package.json` (315-318) pairs an old engine with new packs, and with the local
  base (49-72, 129-145) one in the middle of a load mixes releases and keeps newer
  packs in the older version's cache. `StartsOnOwnPacks` says what is left: packs
  are never older than the engine.
- The manifest is written by `fs::write`, which truncates first (`manifest.rs:209`),
  against "a crash mid-run loses at most the in-flight job" (`generate.rs:318-319`):
  a crash then loses any of its records, or leaves it unreadable (`torn`).
- `ingest.rs:231-249`: ids depend on the fragments collected by now. One that sorts
  ahead of those of its source takes the plain id: it counts as ingested already and
  never is, and the fragment that had the id is ingested again under a new one
  (`moved` in `Corpus`; `WorkIsResumed` excepts these two cases).
- `fix.rs:553-555`: the label of a tie is not the one described.
- `frame_rewrite.rs:31-37`: optionals are said not to backtrack and groups to commit
  to their first alternative; `match_ops` (635-639) and `match_group` (714-724)
  backtrack. `MatchesAreOccurrences` bounds the match from both sides, by the
  documented policy and by the grammar, and leaves open which is meant. `match_group`
  leaves the `op_tokens` of a failed alternative (72-76). A `?` after a quoted
  phrase binds to its last word.
- `frame_compile.rs`: the closure fence compares words as written while matching is
  by lemma, ignores `ClassRealize` emissions (1703-1709) and allows a rule to emit
  its own anchor; `ship_parents` (732-736) includes parents that did not compile.
- `register.rs:76-81` of `friction-packs` accepts the equality its error message
  excludes. `attestation.rs:851` against 780: an empty rights group packs into an
  artifact its own loader refuses. A recalibration is
  measured under the embedded budget, not "unconstrained by any prior `[near_noop]`
  table" (`attest.rs:88-91`, 122-124); dejusts spend the budget and are not measured
  (144-149). A sentence of one tag has no window of four, and no edit of it is
  attested (`attestation.rs:565-587`). An interrupted
  calibration leaves an uncapped pack. `human_evidence.rs:379` leaves out an
  interner of one word. `validate.rs:242-258`: a pattern that is only a guard
  passes rule 4. `validate.rs:216-233`: a pattern that takes whitespace on both sides
  at once passes the audit "no replacement may match any pattern", which tries a
  space on one side at a time, and matches in running text
  (`ReplacementsAreLeftAlone` excepts it by name, `TakesBothSides`).
- `packs/envelope.rs` (192-225): "at least one genre" in the doc is a strict
  majority in the code; `separate_holdout`'s report names a `--genre` the command
  does not pass.
- `symmetry.rs:205-208`: "a, b, and c, and d" counts two overlapping triads,
  where the doc counts "non-overlapping" patterns; `TriadsAreListsOfThree` holds of
  lists that share nothing, and leaves open which of the two is meant. A
  contraction with a curly apostrophe never matches the pair table; "it is not"
  counts two places; `match_pivot` counts one light verb of a sentence.

## Plan

Done: every module above. Left, in the order of their worth:

1. The register pass inside `EditDocument`.
