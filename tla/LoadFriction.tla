----------------------------- MODULE LoadFriction -----------------------------
(* web/loader.js and the engine it starts: pages of one site load the engine *)
(* and its packs while the site may be redeployed with another version.      *)
(* A page's steps are those between two awaits.  The cache storage is shared *)
(* by the pages; a cache that is deleted while a page has it open still      *)
(* takes that page's writes, but nobody will find them.  Versions are        *)
(* deployed in order, and what the site is asked for is what it serves then. *)
(* A mirror named by the caller or by ?packs= is left out: what it serves is *)
(* up to the caller.                                                         *)
EXTENDS Naturals, Sequences, SequencesExt

CONSTANTS
  Pages, Versions,
  Assets,    \* the packs, in the order they are loaded
  Bases,     \* where packs come from: "local" (the site) or "tag" (the version's tag)
  MaxLoads,  \* bound on the calls of loadFriction
  Nothing    \* no cache storage, nothing cached, no version yet, no failure

ASSUME LoadAssumption ==
  /\ Assets \in Seq(ToSet(Assets)) /\ Assets # << >>
  /\ Versions \subseteq Nat \ {0} /\ Nothing \notin Versions
  /\ Nothing \notin {"fetch", "init"} /\ Nothing \notin [Versions -> Nat]

VARIABLES
  site,     \* the version deployed
  names,    \* cache storage: version |-> cache, 0 if there is none; Nothing: no storage
  caches,   \* every cache ever created: url |-> bytes
  loads,    \* calls of loadFriction made
  page      \* per page: the module instance and its call of loadFriction

loaderVars == <<site, names, caches, loads, page>>

(* The local packs have one address for every version.  Bytes are for the *)
(* version they were made with, and may not be intact.                    *)
Url(base, version, key) == <<IF base = "tag" THEN version ELSE 0, key>>
Urls == ({0} \cup Versions) \X ToSet(Assets)
Bytes(version, good) == [for |-> version, good |-> good]
Indices == DOMAIN Assets

(* A page that has loaded nothing; the engine build, the slots and the engine *)
(* are those of its module instance.                                          *)
Blank(step, instance, failed) ==
  [step |-> step, version |-> Nothing, base |-> Nothing, cache |-> 0, evict |-> {},
   loaded |-> << >>, build |-> instance.build, slots |-> instance.slots,
   engine |-> instance.engine, failed |-> failed]

NewInstance == [build |-> Nothing, slots |-> << >>, engine |-> FALSE]
NewPage == Blank("closed", NewInstance, Nothing)

LoadInit ==
  /\ site \in Versions
  /\ names \in {Nothing, [v \in Versions |-> 0]}
  /\ caches = << >>
  /\ loads = 0
  /\ page = [p \in Pages |-> NewPage]

At(p, step) == page[p].step = step
NextUrl(p) == Url(page[p].base, page[p].version, Assets[Len(page[p].loaded) + 1])

Redeploy ==
  /\ \E v \in Versions : v > site /\ site' = v
  /\ UNCHANGED <<names, caches, loads, page>>

(* What outlives a call: the module instance. *)
Kept(p, step, failed) == Blank(step, page[p], failed)

(* Opening the page, reloading it, or calling loadFriction again in it. *)
Call(p) ==
  /\ page[p].step \in {"closed", "ready", "error"} /\ loads < MaxLoads
  /\ loads' = loads + 1
  /\ \E again \in {Blank("import", NewInstance, Nothing), Kept(p, "import", Nothing)} :
       page' = [page EXCEPT ![p] = again]
  /\ UNCHANGED <<site, names, caches>>

(* import() and wasm.default(): the engine build deployed now, or the one this *)
(* module instance already has.                                                *)
Import(p) ==
  /\ At(p, "import")
  /\ page' = [page EXCEPT ![p].step = "package", ![p].build = IF @ = Nothing THEN site ELSE @]
  /\ UNCHANGED <<site, names, caches, loads>>

(* package.json, as deployed by now, names the version; resolvePackBase picks *)
(* the base.                                                                  *)
Package(p) ==
  /\ At(p, "package")
  /\ \E base \in Bases :
       page' = [page EXCEPT ![p].step = "keys", ![p].version = site, ![p].base = base]
  /\ UNCHANGED <<site, names, caches, loads>>

\* Mutant of CacheName: one cache for every version.
SharedName(version) == CHOOSE v \in Versions : \A w \in Versions : v <= w

CacheName(version) == version

(* openAssetCache, in three awaits; nothing to do without caches in window. *)
NoStorage(p) ==
  /\ At(p, "keys") /\ names = Nothing
  /\ page' = [page EXCEPT ![p].step = "asset"]
  /\ UNCHANGED <<site, names, caches, loads>>

KeysOfCaches(p) ==
  /\ At(p, "keys") /\ names # Nothing
  /\ page' = [page EXCEPT ![p].step = "evict",
       ![p].evict = {v \in Versions \ {CacheName(page[p].version)} : names[v] # 0}]
  /\ UNCHANGED <<site, names, caches, loads>>

Evict(p) ==
  /\ At(p, "evict")
  /\ names' = [v \in Versions |-> IF v \in page[p].evict THEN 0 ELSE names[v]]
  /\ page' = [page EXCEPT ![p].step = "open", ![p].evict = {}]
  /\ UNCHANGED <<site, caches, loads>>

OpenCache(p) ==
  /\ At(p, "open")
  /\ LET v == CacheName(page[p].version)
         cache == IF names[v] = 0 THEN Len(caches) + 1 ELSE names[v]
     IN /\ names' = [names EXCEPT ![v] = cache]
        /\ caches' = IF names[v] = 0 THEN Append(caches, [u \in Urls |-> Nothing]) ELSE caches
        /\ page' = [page EXCEPT ![p].step = "asset", ![p].cache = cache]
  /\ UNCHANGED <<site, loads>>

(* loadAsset: the cache's bytes, or the network's, put in the cache. *)
Cached(p) == IF page[p].cache = 0 THEN Nothing ELSE caches[page[p].cache][NextUrl(p)]

Loaded(p, bytes) ==
  page' = [page EXCEPT ![p].loaded = Append(@, bytes),
       ![p].step = IF Len(page[p].loaded) + 1 = Len(Assets) THEN "init" ELSE "asset"]

FromCache(p) ==
  /\ At(p, "asset") /\ Cached(p) # Nothing
  /\ Loaded(p, Cached(p))
  /\ UNCHANGED <<site, names, caches, loads>>

(* The tag keeps its version's packs; the site serves those deployed by now. *)
Served(p) == IF page[p].base = "tag" THEN page[p].version ELSE site

Download(p) ==
  /\ At(p, "asset") /\ Cached(p) = Nothing
  /\ \E good \in BOOLEAN :
       LET bytes == Bytes(Served(p), good)
       IN /\ Loaded(p, bytes)
          /\ caches' = IF page[p].cache = 0 THEN caches
                       ELSE [caches EXCEPT ![page[p].cache][NextUrl(p)] = bytes]
  /\ UNCHANGED <<site, names, loads>>

(* A fetch or a cache operation that rejects. *)
Reject(p) ==
  /\ page[p].step \in {"import", "package", "keys", "evict", "open", "asset"}
  /\ page' = [page EXCEPT ![p] = Kept(p, "error", "fetch")]
  /\ UNCHANGED <<site, names, caches, loads>>

(* init_engine: the slots, each set once, are filled when all packs have  *)
(* been validated; then the engine is built.                              *)
Installed(loaded, slots) ==
  IF slots = << >> /\ \A i \in Indices : loaded[i].good THEN loaded ELSE slots

InitEngine(p) ==
  /\ At(p, "init")
  /\ LET slots == Installed(page[p].loaded, page[p].slots)
         built == page[p].slots = << >> /\ Len(slots) = Len(Assets)
     IN page' = [page EXCEPT ![p].slots = slots, ![p].engine = @ \/ built, ![p].cache = 0,
                             ![p].step = IF built THEN "ready" ELSE "error",
                             ![p].failed = IF built THEN Nothing ELSE "init"]
  /\ UNCHANGED <<site, names, caches, loads>>

LoadNext ==
  \/ Redeploy
  \/ \E p \in Pages :
       \/ Call(p) \/ Import(p) \/ Package(p) \/ NoStorage(p) \/ KeysOfCaches(p)
       \/ Evict(p) \/ OpenCache(p) \/ FromCache(p) \/ Download(p) \/ Reject(p)
       \/ InitEngine(p)

LoadSpec == LoadInit /\ [][LoadNext]_loaderVars

-----------------------------------------------------------------------------
(* loadFriction, openAssetCache, init_engine: "a stale cached pack must never *)
(* outlive the engine build it was fetched for" (loader.js:114-116): whatever *)
(* pages of other versions cache and evict meanwhile, an engine starts on     *)
(* intact packs, none older than its build or than the version its page read  *)
(* in package.json; from the tag they are that version's.  Packs that do not  *)
(* validate use up no slot: init only fails on bad bytes or where the engine  *)
(* already runs.                                                              *)
(* It does not say that packs and engine agree, and they need not, though     *)
(* loader.js:294 fetches packs "at the engine's version tag": the site may be *)
(* redeployed after the import and before package.json is read (315-318), and *)
(* ./packs/ serves what is deployed by then, under the older version's cache  *)
(* (49-72, 129-145).  Then the packs are newer than the engine.               *)
OwnPack(q, pack) ==
  /\ pack.good
  /\ q.build <= q.version /\ q.version <= pack.for
  /\ q.base = "tag" => pack.for = q.version

StartsOnOwnPacks ==
  /\ \A p \in Pages : At(p, "ready") => \A i \in Indices : OwnPack(page[p], page[p].slots[i])
  /\ \A p \in Pages : page[p].failed = "init" =>
       page[p].engine \/ \E i \in Indices : ~page[p].loaded[i].good
=============================================================================
