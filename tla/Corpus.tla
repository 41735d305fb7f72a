-------------------------------- MODULE Corpus --------------------------------
(* corpus-tool's life cycle of the corpus: documents are ingested or         *)
(* generated, removed, re-decoded, split and sealed by commands that each    *)
(* read the whole manifest, work on their copy, and write it back with       *)
(* std::fs::write.  A command can be cut short at any step.                  *)
(* An id is <<source, fragment>> (fragment 0: the plain id of the source); a *)
(* text's hash is the text; a class stands for its (class, genre) cell.      *)
(* At the end, the plans the jobs of generate and generate-paired come from. *)
EXTENDS Naturals, Sequences, SequencesExt, FiniteSetsExt, Functions

CONSTANTS
  Fragments,       \* metadata fragments, in file order: [source, kept]
  Jobs,            \* the generation plan: [id, model]
  ById, ByHash,    \* every id in its own order, and in the order of its hash
  Legacies,        \* the fragments already there before entities were decoded: the choices
  Interruptible,   \* commands that may be cut short
  Absent, Torn     \* no lock file; a lock whose last line is cut

(* Hashes of different things differ: no job has the id of a fragment. *)
ASSUME CorpusAssumption ==
  /\ DOMAIN Fragments = 1 .. Len(Fragments)
  /\ \A legacy \in Legacies : legacy \subseteq DOMAIN Fragments
  /\ DOMAIN Jobs = 1 .. Len(Jobs)
  /\ \A i \in DOMAIN Jobs, k \in DOMAIN Fragments :
       Jobs[i].id \notin {<<Fragments[k].source, 0>>, <<Fragments[k].source, k>>}

VARIABLES
  incoming,  \* indices of the fragments collected so far
  manifest,  \* id |-> [class, text, sha, split]; when torn, what was being written
  torn,      \* the manifest's last line is cut: no command can read it
  collection,  \* id |-> content of its file
  lock,      \* holdout.lock: Absent, Torn, or id |-> sha
  cmd,       \* the running command and its copy of the manifest
  cut,       \* history: ids whose removal or decoding was left unfinished
  moved      \* history: fragments whose id changed when another was collected

corpusVars == <<incoming, manifest, torn, collection, lock, cmd, cut, moved>>

Content(text, form) == [text |-> text, form |-> form]
Record(class, text, content) ==
  [class |-> class, text |-> text, sha |-> content, split |-> "none"]
Without(f, S) == Restrict(f, DOMAIN f \ S)
With(f, x, y) == [z \in DOMAIN f \cup {x} |-> IF z = x THEN y ELSE f[z]]

Idle == [name |-> "idle", step |-> "each", todo |-> {}, recs |-> << >>,
         known |-> {}, ids |-> << >>, models |-> {}, changed |-> {}]
Started(name, todo) ==
  [name |-> name, step |-> "each", todo |-> todo, recs |-> manifest,
   known |-> DOMAIN manifest, ids |-> << >>, models |-> {}, changed |-> {}]
Reads == cmd = Idle /\ ~torn
Running(name, step) == cmd.name = name /\ cmd.step = step

(* A command works through a list; todo holds the positions it has not done, *)
(* and the first of them is due.                                             *)
Due == {n \in cmd.todo : \A m \in cmd.todo : n <= m}
Rest == cmd.todo \ Due
Listed(ids) == {n \in DOMAIN ById : ById[n] \in ids}

Place(order, x) == CHOOSE i \in DOMAIN order : order[i] = x

(* The whole lines a cut-short write of a file of one line per id may leave. *)
WholeLines(f) == {Restrict(f, {id \in DOMAIN f : Place(ById, id) <= n}) : n \in 0 .. Len(ById)}

(* The last step of every command that changes the manifest. *)
WriteManifest(next) ==
  /\ cmd.step = "write"
  /\ manifest' = cmd.recs
  /\ cmd' = next
  /\ UNCHANGED <<incoming, torn, collection, lock, moved>>

-----------------------------------------------------------------------------
(* assign_ids: the first fragment of a source has the plain id. *)
IdAmong(fragments, k) ==
  LET source == Fragments[k].source
  IN IF \E j \in fragments : j < k /\ Fragments[j].source = source
     THEN <<source, k>> ELSE <<source, 0>>

AssignId(k) == IdAmong(incoming, k)

(* A new fragment may sort anywhere among those already collected. *)
Collect ==
  /\ cmd = Idle
  /\ \E k \in DOMAIN Fragments \ incoming : incoming' = incoming \cup {k}
  /\ moved' = moved \cup {k \in incoming : IdAmong(incoming', k) # AssignId(k)}
  /\ UNCHANGED <<manifest, torn, collection, lock, cmd, cut>>

StartIngest ==
  /\ Reads
  /\ cmd' = [Started("ingest", incoming) EXCEPT
               !.ids = [k \in incoming |-> AssignId(k)]]
  /\ UNCHANGED <<incoming, manifest, torn, collection, lock, cut, moved>>

(* In the manifest that was read, refused, or under 300 words. *)
IngestSkips(k) == cmd.ids[k] \in cmd.known \/ ~Fragments[k].kept

IngestOne ==
  /\ Running("ingest", "each")
  /\ \E k \in Due :
     LET id == cmd.ids[k] content == Content(k, "clean")
     IN IF IngestSkips(k)
        THEN cmd' = [cmd EXCEPT !.todo = Rest] /\ UNCHANGED <<collection, cut>>
        ELSE /\ collection' = With(collection, id, content)
             /\ cmd' = [cmd EXCEPT !.recs = With(@, id, Record("human", k, content)),
                                   !.step = "write"]
             /\ cut' = cut \ {id}
  /\ UNCHANGED <<incoming, manifest, torn, lock, moved>>

IngestRecord ==
  /\ Running("ingest", "write")
  /\ WriteManifest([cmd EXCEPT !.step = "each", !.todo = Rest])
  /\ UNCHANGED cut

-----------------------------------------------------------------------------
(* Every model of the plan may be missing from the server. *)
StartGenerate ==
  /\ Reads
  /\ \E available \in SUBSET {job.model : job \in Range(Jobs)} :
       cmd' = [Started("generate", DOMAIN Jobs) EXCEPT !.models = available]
  /\ UNCHANGED <<incoming, manifest, torn, collection, lock, cut, moved>>

GenerateSkips(job) == job.id \in cmd.known \/ job.model \notin cmd.models

(* Generation is not reproducible: a model answers anything twice. *)
GenerateOne ==
  /\ Running("generate", "each")
  /\ \E n \in Due :
     LET job == Jobs[n]
     IN IF GenerateSkips(job)
        THEN cmd' = [cmd EXCEPT !.todo = Rest] /\ UNCHANGED <<collection, cut>>
        ELSE \E answer \in {"first", "second"} :
               LET content == Content(0, answer)
               IN /\ collection' = With(collection, job.id, content)
                  /\ cmd' = [cmd EXCEPT !.recs = With(@, job.id, Record("llm", 0, content)),
                                        !.known = @ \cup {job.id}, !.step = "write"]
                  /\ cut' = cut \ {job.id}
  /\ UNCHANGED <<incoming, manifest, torn, lock, moved>>

GenerateRecord ==
  /\ Running("generate", "write")
  /\ WriteManifest([cmd EXCEPT !.step = "each", !.todo = Rest])
  /\ UNCHANGED cut

(* A request to the server fails: what is recorded stays. *)
ServerFails ==
  /\ Running("generate", "each")
  /\ \E n \in Due : ~GenerateSkips(Jobs[n])
  /\ cmd' = Idle
  /\ UNCHANGED <<incoming, manifest, torn, collection, lock, cut, moved>>

-----------------------------------------------------------------------------
(* One id not in the manifest and nothing is touched. *)
StartRemove ==
  /\ Reads
  /\ \E ids \in SUBSET DOMAIN manifest \ {{}} :
       cmd' = [Started("remove", Listed(ids)) EXCEPT
                 !.recs = Without(manifest, ids), !.changed = ids]
  /\ UNCHANGED <<incoming, manifest, torn, collection, lock, cut, moved>>

(* A file that is already gone is no error. *)
RemoveOne ==
  /\ Running("remove", "each")
  /\ collection' = Without(collection, {ById[n] : n \in Due})
  /\ cmd' = IF cmd.todo = {} THEN [cmd EXCEPT !.step = "write"] ELSE [cmd EXCEPT !.todo = Rest]
  /\ UNCHANGED <<incoming, manifest, torn, lock, cut, moved>>

RemoveRecords ==
  /\ Running("remove", "write")
  /\ WriteManifest(Idle)
  /\ cut' = cut \ cmd.changed

-----------------------------------------------------------------------------
StartFixEntities ==
  /\ Reads
  /\ cmd' = Started("fix-entities", Listed(DOMAIN manifest))
  /\ UNCHANGED <<incoming, manifest, torn, collection, lock, cut, moved>>

\* Mutant of Refreshed: the hash of the file as it was read is kept.
NotRefreshed(id, decoded) == cmd.recs
Refreshed(id, decoded) == [cmd.recs EXCEPT ![id].sha = decoded]

(* A file that cannot be read ends the command before the manifest is        *)
(* written; a file without entities is passed over, whatever its hash.       *)
FixOne ==
  /\ Running("fix-entities", "each")
  /\ \E n \in Due :
     LET id == ById[n]
     IN IF id \notin DOMAIN collection
        THEN cmd' = Idle /\ cut' = cut \cup cmd.changed /\ UNCHANGED collection
        ELSE IF collection[id].form # "entities"
        THEN cmd' = [cmd EXCEPT !.todo = Rest] /\ UNCHANGED <<collection, cut>>
        ELSE LET decoded == [collection[id] EXCEPT !.form = "clean"]
             IN /\ collection' = [collection EXCEPT ![id] = decoded]
                /\ cmd' = [cmd EXCEPT !.todo = Rest, !.changed = @ \cup {id},
                                      !.recs = Refreshed(id, decoded)]
                /\ UNCHANGED cut
  /\ UNCHANGED <<incoming, manifest, torn, lock, moved>>

FixRecords ==
  /\ Running("fix-entities", "each") /\ cmd.todo = {}
  /\ cmd' = IF cmd.changed = {} THEN Idle ELSE [cmd EXCEPT !.step = "write"]
  /\ UNCHANGED <<incoming, manifest, torn, collection, lock, cut, moved>>

FixWrite ==
  /\ Running("fix-entities", "write")
  /\ WriteManifest(Idle)
  /\ UNCHANGED cut

-----------------------------------------------------------------------------
Classes == {"human", "llm"}
Cell(recs, class) == {id \in DOMAIN recs : recs[id].class = class}
Holdout(recs, class) == {id \in Cell(recs, class) : recs[id].split = "holdout"}

(* 70/15/15 along the order of the hashes. *)
SplitOf(recs, id) ==
  LET ordered == SelectSeq(ByHash, LAMBDA i : i \in Cell(recs, recs[id].class))
      n == Len(ordered)
      slot == Place(ordered, id) - 1
  IN IF slot < (n * 70) \div 100 THEN "train"
     ELSE IF slot < (n * 85) \div 100 THEN "dev" ELSE "holdout"

Assigned(recs) == [id \in DOMAIN recs |-> [recs[id] EXCEPT !.split = SplitOf(recs, id)]]

MembershipKept(recs, class) ==
  Holdout(recs, class) \in {{}, Holdout(Assigned(recs), class)}

(* One cell whose sealed membership would change and nothing is written. *)
StartSplit ==
  /\ Reads
  /\ \A class \in Classes : MembershipKept(manifest, class)
  /\ cmd' = [Started("split", {}) EXCEPT !.recs = Assigned(manifest), !.step = "write"]
  /\ UNCHANGED <<incoming, manifest, torn, collection, lock, cut, moved>>

SplitWrite ==
  /\ Running("split", "write")
  /\ WriteManifest(Idle)
  /\ UNCHANGED cut

-----------------------------------------------------------------------------
Honest(id) == id \in DOMAIN collection /\ collection[id] = manifest[id].sha

HoldoutIds == UNION {Holdout(manifest, class) : class \in Classes}
Sealed == [id \in HoldoutIds |-> manifest[id].sha]

\* Mutant of MaySeal: the manifest's hashes are trusted.
TrustsManifest(init) == lock # Sealed /\ (lock = Absent \/ init)
(* Every holdout file is read and hashed; a lock that would change needs     *)
(* --init, and one that would not is left as it is.                          *)
MaySeal(init) ==
  /\ \A id \in HoldoutIds : Honest(id)
  /\ lock # Sealed
  /\ lock = Absent \/ init

StartSeal ==
  /\ Reads
  /\ \E init \in BOOLEAN : MaySeal(init)
  /\ cmd' = [Started("seal", {}) EXCEPT !.recs = Sealed, !.step = "lock"]
  /\ UNCHANGED <<incoming, manifest, torn, collection, lock, cut, moved>>

SealWrite ==
  /\ Running("seal", "lock")
  /\ lock' = cmd.recs
  /\ cmd' = Idle
  /\ UNCHANGED <<incoming, manifest, torn, collection, cut, moved>>

-----------------------------------------------------------------------------
Finish ==
  /\ cmd.name \in {"ingest", "generate"} /\ cmd.step = "each" /\ cmd.todo = {}
  /\ cmd' = Idle
  /\ UNCHANGED <<incoming, manifest, torn, collection, lock, cut, moved>>

(* The file a step is about to write, which being cut short leaves partial. *)
WritesNext ==
  IF cmd.step # "each" THEN {}
  ELSE CASE cmd.name = "ingest" -> {cmd.ids[k] : k \in {k \in Due : ~IngestSkips(k)}}
         [] cmd.name = "generate" -> {Jobs[n].id : n \in {n \in Due : ~GenerateSkips(Jobs[n])}}
         [] cmd.name = "fix-entities" ->
              {id \in {ById[n] : n \in Due} : id \in DOMAIN collection /\ collection[id].form = "entities"}
         [] OTHER -> {}

(* The process dies; a manifest, lock or document being written stays cut:   *)
(* std::fs::write truncates the file before it writes.                       *)
Crash ==
  /\ cmd.name \in Interruptible
  /\ cmd' = Idle
  /\ cut' = cut \cup CASE cmd.name = "remove" -> cmd.changed
                     [] cmd.name = "fix-entities" -> cmd.changed \cup WritesNext
                     [] OTHER -> {}
  /\ \/ cmd.step # "write" /\ UNCHANGED <<manifest, torn>>
     \/ cmd.step = "write" /\ manifest' \in WholeLines(cmd.recs) /\ UNCHANGED torn
     \/ cmd.step = "write" /\ manifest' = cmd.recs /\ torn' = TRUE
  /\ lock' \in IF cmd.step = "lock" THEN WholeLines(cmd.recs) \cup {Torn} ELSE {lock}
  /\ collection' \in {collection} \cup {With(collection, id, Content(0, "cut")) : id \in WritesNext}
  /\ UNCHANGED <<incoming, moved>>

CorpusInit ==
  /\ incoming \in Legacies
  /\ LET ids == [k \in {k \in incoming : Fragments[k].kept} |-> AssignId(k)]
         holder(id) == CHOOSE k \in DOMAIN ids : ids[k] = id
         old(id) == Content(holder(id), "entities")
     IN /\ manifest = [id \in Range(ids) |-> Record("human", holder(id), old(id))]
        /\ collection = [id \in Range(ids) |-> old(id)]
  /\ torn = FALSE
  /\ lock = Absent
  /\ cmd = Idle
  /\ cut = {} /\ moved = {}

CorpusNext ==
  \/ Collect
  \/ StartIngest \/ IngestOne \/ IngestRecord
  \/ StartGenerate \/ GenerateOne \/ GenerateRecord \/ ServerFails
  \/ StartRemove \/ RemoveOne \/ RemoveRecords
  \/ StartFixEntities \/ FixOne \/ FixRecords \/ FixWrite
  \/ StartSplit \/ SplitWrite
  \/ StartSeal \/ SealWrite
  \/ Finish \/ Crash

CorpusSpec == CorpusInit /\ [][CorpusNext]_corpusVars

-----------------------------------------------------------------------------
(* Wherever commands are cut short, the document behind every record is      *)
(* there and hashes to it, unless the record's removal or decoding is what   *)
(* was cut.  That holds even of the records behind a torn manifest, which no *)
(* command can read: what is lost is the manifest.  (generate.rs:318-319 has *)
(* a crash lose "at most the in-flight job"; write_manifest truncates the    *)
(* file it rewrites, manifest.rs:209, so it may lose any records or leave    *)
(* none readable.)  A removal done again takes its records out; a decoding   *)
(* done again does not mend them, which is what FixEntitiesRefreshesSha is   *)
(* about.                                                                    *)
StaleOnlyWhenCut ==
  cmd = Idle => \A id \in DOMAIN manifest : Honest(id) \/ id \in cut

(* However often ingest is cut short and run again, no fragment's text is in *)
(* the corpus under two ids, and when it ends every fragment it keeps is in  *)
(* it; but not around a fragment that has moved.  The ids are a function of  *)
(* the fragments collected by now ("the same incoming fragment set always    *)
(* gets the same id assignment", ingest.rs:235-236): when one is collected   *)
(* that sorts ahead of those of its source, it gets the plain id of the      *)
(* first, which is taken, and is never ingested, and the first is ingested   *)
(* again.  A generate that ends has recorded every job whose model is        *)
(* served, the ones an earlier run was cut short in included.                *)
WorkIsResumed ==
  /\ \A a, b \in Cell(manifest, "human") :
       manifest[a].text = manifest[b].text => a = b \/ manifest[a].text \in moved
  /\ Running("ingest", "each") /\ cmd.todo = {} =>
       \A k \in incoming : Fragments[k].kept =>
         \E id \in DOMAIN manifest :
           manifest[id].text = k \/ (id = AssignId(k) /\ manifest[id].text \in moved)
  /\ Running("generate", "each") /\ cmd.todo = {} =>
       \A job \in Range(Jobs) : job.model \in cmd.models => job.id \in DOMAIN manifest

(* What a command that is cut short leaves, and what running it again does. *)
InterruptedRunsRecover == StaleOnlyWhenCut /\ WorkIsResumed

(* holdout-check. *)
HoldoutCheck ==
  /\ \A id \in DOMAIN lock :
       /\ id \in DOMAIN collection /\ collection[id] = lock[id]
       /\ id \in DOMAIN manifest /\ manifest[id].split = "holdout" /\ manifest[id].sha = lock[id]
  /\ HoldoutIds \subseteq DOMAIN lock

HoldoutMembers ==
  \A class \in Classes : Holdout(manifest, class) # {} =>
    \A id \in DOMAIN manifest \cap DOMAIN manifest' :
      manifest[id].class = class =>
        (manifest[id].split = "holdout") = (manifest'[id].split = "holdout")

(* A holdout is sealed for good.  In a cell that has one, no command moves a *)
(* document that stays in the manifest into or out of it, whatever was added *)
(* or removed between (split.rs:74); and a lock that was just written passes *)
(* holdout-check: seal never freezes a hash that is not the file's           *)
(* (seal.rs:65).                                                             *)
SealedHoldoutKept ==
  [][HoldoutMembers /\ (SealWrite => HoldoutCheck')]_corpusVars

(* "decodes ... and refreshes the manifest's `sha256` field to match"        *)
(* (fix_entities.rs:5-6): when the command has run, they match.              *)
FixEntitiesRefreshesSha ==
  [][FixWrite \/ (FixRecords /\ cmd' = Idle) =>
       \A id \in DOMAIN manifest' : id \in DOMAIN collection => collection[id] = manifest'[id].sha]_corpusVars

-----------------------------------------------------------------------------
(* The plans: the jobs of generate, one completion each, and of              *)
(* generate-paired, one for either side of a pair.  A share such as          *)
(* low_fraction is a rational <<n, d>>; a seed or an id is the tuple that is *)
(* hashed for it.                                                            *)
CONSTANTS
  Genres,    \* in their frozen order
  Models,    \* in the order of the matrix
  Prompts,   \* per genre: its prompt ids, sorted
  Targets, Shares, Limits, PairedTargets,  \* the configurations tried
  NoFilter

(* A share lies in (0, 1] (genconfig.rs:155-166).  The catalogues give every *)
(* prompt an id of its own, and the configuration names every model once.    *)
ASSUME PlansAssumption ==
  /\ Genres \in Seq(ToSet(Genres)) /\ IsInjective(Genres)
  /\ Models \in Seq(ToSet(Models)) /\ IsInjective(Models) /\ Models # << >>
  /\ \A g \in ToSet(Genres) : Prompts[g] \in Seq(ToSet(Prompts[g])) /\ IsInjective(Prompts[g])
  /\ \A g, h \in ToSet(Genres) : g # h => ToSet(Prompts[g]) \cap ToSet(Prompts[h]) = {}
  /\ Targets \subseteq Nat /\ PairedTargets \subseteq Nat /\ Limits \subseteq Nat
  /\ \A s \in Shares : s[1] \in Nat /\ s[2] \in Nat /\ 0 < s[1] /\ s[1] <= s[2]

VARIABLES planned, jobs, config

planVars == <<planned, jobs, config>>

PlanInit == planned = "nothing" /\ jobs = << >> /\ config = << >>

ForGenre(genre) == IF genre = NoFilter THEN Genres ELSE <<genre>>
Limited(plan, limit) ==
  IF limit = NoFilter \/ limit >= Len(plan) THEN plan ELSE SubSeq(plan, 1, limit)

-----------------------------------------------------------------------------
(* Every LowEvery-th job of a genre is cool, from the first on; the last of *)
(* every StyleEvery jobs carries the style instruction.                     *)
LowEvery(share) == share[2] \div share[1]

\* Mutant of StyleEvery: rounded down as LowEvery is.
StyleEveryFloor(share) == share[2] \div share[1]

StyleEvery(share) == (share[2] + share[1] - 1) \div share[1]

Job(genre, models, c, k) ==
  LET model == models[(k % Len(models)) + 1]
      prompt == Prompts[genre][((k \div Len(models)) % Len(Prompts[genre])) + 1]
      low == k % LowEvery(c.low) = 0
      style == k % StyleEvery(c.style) = StyleEvery(c.style) - 1
      seed == <<model, prompt, low, style>>
  IN [genre |-> genre, model |-> model, prompt |-> prompt, low |-> low, style |-> style,
      seed |-> seed, id |-> <<model, prompt, seed, low>>]

PlanGenreJobs(genre, models, c) ==
  LET all == Len(Prompts[genre]) * Len(models)
      target == IF c.target < all THEN c.target ELSE all
  IN [k \in 1 .. target |-> Job(genre, models, c, k - 1)]

BuildPlan(c) ==
  LET models == IF c.model = NoFilter THEN Models ELSE <<c.model>>
      genres == ForGenre(c.genre)
  IN Limited(FlattenSeq([g \in DOMAIN genres |-> PlanGenreJobs(genres[g], models, c)]), c.limit)

Plan ==
  /\ planned = "nothing" /\ planned' = "jobs"
  /\ \E genre \in ToSet(Genres) \cup {NoFilter}, model \in ToSet(Models) \cup {NoFilter},
        limit \in Limits \cup {NoFilter}, target \in Targets, low, style \in Shares :
       config' = [genre |-> genre, model |-> model, limit |-> limit, target |-> target,
                  low |-> low, style |-> style]
  /\ jobs' = BuildPlan(config')

-----------------------------------------------------------------------------
(* Both sides of a pair have its seed and id; a genre with too few prompts *)
(* is an error.                                                            *)
Sides == <<"stock", "antislop">>

PairedJob(genre, prompt, side) ==
  LET seed == <<genre, prompt>>
  IN [genre |-> genre, side |-> side, prompt |-> prompt, seed |-> seed,
      id |-> <<genre, prompt, seed>>]

BuildPairedPlan(c) ==
  LET genres == ForGenre(c.genre)
      sides == IF c.side = NoFilter THEN Sides ELSE <<c.side>>
      OfGenre(genre) ==
        [i \in 1 .. c.prompts * Len(sides) |->
           PairedJob(genre, Prompts[genre][((i - 1) \div Len(sides)) + 1],
                     sides[((i - 1) % Len(sides)) + 1])]
  IN Limited(FlattenSeq([g \in DOMAIN genres |-> OfGenre(genres[g])]), c.limit)

PlanPairs ==
  /\ planned = "nothing" /\ planned' = "pairs"
  /\ \E genre \in ToSet(Genres) \cup {NoFilter}, side \in ToSet(Sides) \cup {NoFilter},
        limit \in Limits \cup {NoFilter}, prompts \in PairedTargets :
       /\ \A g \in ToSet(ForGenre(genre)) : Len(Prompts[g]) >= prompts
       /\ config' = [genre |-> genre, side |-> side, limit |-> limit, prompts |-> prompts]
  /\ jobs' = BuildPairedPlan(config')

PlanNext == Plan \/ PlanPairs

PlanSpec == PlanInit /\ [][PlanNext]_planVars

-----------------------------------------------------------------------------
Count(S) == Cardinality({i \in DOMAIN jobs : jobs[i] \in S})

SharesKept ==
  \A g \in ToSet(Genres) :
    LET of == {j \in ToSet(jobs) : j.genre = g}
        PerModel(m) == Count({j \in of : j.model = m})
    IN /\ Count({j \in of : j.low}) * config.low[2] >= Count(of) * config.low[1]
       /\ Count({j \in of : j.style}) * config.style[2] <= Count(of) * config.style[1]
       /\ config.model = NoFilter =>
            \A m, n \in ToSet(Models) : PerModel(m) <= PerModel(n) + 1

PairsKept ==
  config.side = NoFilter =>
    /\ \A i \in DOMAIN jobs : i % 2 = 0 => jobs[i].id = jobs[i - 1].id
    /\ config.limit = NoFilter =>
         \A g \in ToSet(ForGenre(config.genre)) :
           Count({j \in ToSet(jobs) : j.genre = g}) = 2 * config.prompts

(* low_every and style_every, for any number of jobs, of a filtered or       *)
(* limited plan too: in every genre at least the low share is cool and at    *)
(* most the style share is styled, and the models' shares differ by one job  *)
(* at most.  A paired plan has both sides of each prompt, next to each       *)
(* other.  No two jobs of a plan have the same document.                     *)
PlanKeepsItsShares ==
  /\ planned = "jobs" => SharesKept /\ Cardinality({j.id : j \in ToSet(jobs)}) = Len(jobs)
  /\ planned = "pairs" =>
       PairsKept /\ Cardinality({<<j.id, j.side>> : j \in ToSet(jobs)}) = Len(jobs)
=============================================================================
