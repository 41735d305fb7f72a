--------------------------- MODULE LoadFrictionProofs ---------------------------
(* Proofs about LoadFriction, for any pages, versions, packs and number of    *)
(* calls: LoadTyped types the state, and CachesOwned says whose bytes a cache *)
(* holds.                                                                     *)
EXTENDS LoadFriction, TLAPS

Steps == {"closed", "import", "package", "keys", "evict", "open", "asset", "init",
          "ready", "error"}
Downloads == [for : Versions, good : BOOLEAN]
PageStates ==
  [step : Steps, version : Versions \cup {Nothing}, base : Bases \cup {Nothing}, cache : Nat,
   evict : SUBSET Versions, loaded : Seq(Downloads), build : Versions \cup {Nothing},
   slots : Seq(Downloads), engine : BOOLEAN, failed : {Nothing, "fetch", "init"}]

LoadTyped ==
  /\ site \in Versions
  /\ names = Nothing \/ names \in [Versions -> 0 .. Len(caches)]
  /\ caches \in Seq([Urls -> Downloads \cup {Nothing}])
  /\ loads \in Nat
  /\ page \in [Pages -> PageStates]

(* What an address yields to a page or a cache of a version: the tag's packs *)
(* are the version's, the site's no older.                                   *)
Fits(tagged, version, bytes) == IF tagged THEN bytes.for = version ELSE bytes.for >= version

(* Every cache that was ever created belongs to one version: only that one's *)
(* name finds it, only pages of that version have it open, and it holds what *)
(* fits the version.                                                         *)
Owns(owner) ==
  /\ names # Nothing => \A v \in Versions : names[v] # 0 => owner[names[v]] = v
  /\ \A c \in 1 .. Len(caches), u \in Urls :
       caches[c][u] # Nothing => Fits(u[1] # 0, owner[c], caches[c][u])
  /\ \A p \in Pages : page[p].cache # 0 =>
       page[p].cache \in 1 .. Len(caches) /\ owner[page[p].cache] = page[p].version

CachesOwned == \E owner \in [1 .. Len(caches) -> Versions] : Owns(owner)

(* Where a page is in its call. *)
Placed(q) ==
  /\ q.step \in {"import", "package"} =>
       q.loaded = << >> /\ q.cache = 0 /\ q.version = Nothing
  /\ q.step \in {"keys", "evict", "open"} => q.loaded = << >> /\ q.cache = 0
  /\ q.step \in {"keys", "evict", "open", "asset", "init", "ready"} => q.version \in Versions
  /\ q.step = "asset" => Len(q.loaded) < Len(Assets)
  /\ q.step = "init" => Len(q.loaded) = Len(Assets)
  /\ \A i \in 1 .. Len(q.loaded) : Fits(q.base = "tag", q.version, q.loaded[i])
  /\ q.step \notin {"closed", "import", "error"} => q.build \in Versions
  /\ q.version # Nothing => q.build \in Versions /\ q.build <= q.version
  /\ q.slots # << >> => q.engine
  /\ q.failed # Nothing => q.step = "error"
  /\ q.step = "ready" =>
       /\ Len(q.slots) = Len(Assets)
       /\ \A i \in Indices : q.slots[i].good /\ Fits(q.base = "tag", q.version, q.slots[i])
  /\ q.failed = "init" => q.engine \/ \E i \in Indices : ~q.loaded[i].good

PagesPlaced ==
  /\ \A p \in Pages : Placed(page[p])
  /\ \A p \in Pages : page[p].step \in {"evict", "open"} => names # Nothing

(* The site never goes back behind what a page was told. *)
Behind(q) ==
  /\ q.build # Nothing => q.build <= site
  /\ q.version # Nothing => q.version <= site

PagesBehind == \A p \in Pages : Behind(page[p])

LoadInv == LoadTyped /\ CachesOwned /\ PagesPlaced /\ PagesBehind

-----------------------------------------------------------------------------
LEMMA AssetFacts ==
  /\ Len(Assets) \in Nat /\ Len(Assets) > 0
  /\ Indices = 1 .. Len(Assets)
  /\ \A i \in Indices : Assets[i] \in ToSet(Assets)
  BY LoadAssumption DEF Indices, ToSet

(* A step of the call of p leaves the other pages alone. *)
LEMMA OnlyPage ==
  ASSUME NEW p \in Pages, page \in [Pages -> PageStates], PagesPlaced, PagesBehind,
         NEW q \in PageStates, Placed(q), Behind(q), page' = [page EXCEPT ![p] = q],
         names' = names \/ names' # Nothing, site' = site,
         q.step \in {"evict", "open"} => names' # Nothing
  PROVE  /\ page' \in [Pages -> PageStates]
         /\ PagesPlaced' /\ PagesBehind'
<1>1. page' \in [Pages -> PageStates]
  OBVIOUS
<1>2. ASSUME NEW r \in Pages PROVE page'[r] = IF r = p THEN q ELSE page[r]
  OBVIOUS
<1>3. ASSUME NEW r \in Pages PROVE Placed(page'[r])
  BY <1>2 DEF PagesPlaced
<1>4. ASSUME NEW r \in Pages, page'[r].step \in {"evict", "open"} PROVE names' # Nothing
  BY <1>2, <1>4 DEF PagesPlaced
<1>5. PagesBehind'
  BY <1>2 DEF PagesBehind, Behind
<1> QED
  BY <1>1, <1>3, <1>4, <1>5 DEF PagesPlaced, Placed, Indices, Fits

(* Caches stay with their owners as long as they, their names and the pages' *)
(* hold on them stay.                                                        *)
LEMMA OnlyHold ==
  ASSUME NEW p \in Pages, page \in [Pages -> PageStates], CachesOwned,
         NEW q \in PageStates, page' = [page EXCEPT ![p] = q],
         q.cache = 0 \/ (q.cache = page[p].cache /\ q.version = page[p].version),
         names' = names, caches' = caches
  PROVE  CachesOwned'
<1>1. PICK owner \in [1 .. Len(caches) -> Versions] : Owns(owner)
  BY DEF CachesOwned
<1>2. ASSUME NEW r \in Pages PROVE page'[r] = IF r = p THEN q ELSE page[r]
  OBVIOUS
<1>3. Owns(owner)'
  BY <1>1, <1>2 DEF Owns
<1> QED
  BY <1>3 DEF CachesOwned

(* A page before it has loaded anything. *)
LEMMA NothingLoaded ==
  ASSUME NEW q \in PageStates, q.loaded = << >>, q.cache = 0,
         q.step \in {"closed", "import", "error"}, q.slots # << >> => q.engine,
         q.version = Nothing, q.failed \in {Nothing, "fetch"},
         q.failed # Nothing => q.step = "error"
  PROVE  Placed(q)
  BY LoadAssumption DEF Placed

LEMMA KeptFacts ==
  ASSUME NEW p, page[p] \in PageStates, Placed(page[p]),
         NEW step \in Steps, NEW failed \in {Nothing, "fetch"}
  PROVE  /\ Kept(p, step, failed) \in PageStates
         /\ Kept(p, step, failed).step = step /\ Kept(p, step, failed).cache = 0
         /\ Kept(p, step, failed).failed = failed /\ Kept(p, step, failed).loaded = << >>
         /\ Kept(p, step, failed).version = Nothing
         /\ Behind(page[p]) => Behind(Kept(p, step, failed))
         /\ Kept(p, step, failed).slots # << >> => Kept(p, step, failed).engine
<1>1. Kept(p, step, failed) =
        [step |-> step, version |-> Nothing, base |-> Nothing, cache |-> 0, evict |-> {},
         loaded |-> << >>, build |-> page[p].build, slots |-> page[p].slots,
         engine |-> page[p].engine, failed |-> failed]
  BY DEF Kept, Blank
<1>2. /\ page[p].slots \in Seq(Downloads) /\ page[p].engine \in BOOLEAN
      /\ page[p].build \in Versions \cup {Nothing}
      /\ page[p].slots # << >> => page[p].engine
  BY DEF PageStates, Placed
<1> HIDE DEF Kept
<1> QED
  BY <1>1, <1>2 DEF PageStates, Behind

LEMMA LoadStarts == LoadInit => LoadInv
<1> SUFFICES ASSUME LoadInit PROVE LoadInv
  OBVIOUS
<1>1. NewPage \in PageStates /\ Placed(NewPage)
  BY AssetFacts, LoadAssumption DEF NewPage, Blank, NewInstance, PageStates, Steps, Placed
<1>2. LoadTyped
  BY <1>1 DEF LoadTyped, LoadInit
<1>3. PagesPlaced
  BY <1>1 DEF PagesPlaced, LoadInit, NewPage, Blank
<1>4. Owns([c \in 1 .. Len(caches) |-> site])
  BY DEF LoadInit, Owns, NewPage, Blank
<1>5. PagesBehind
  BY DEF PagesBehind, Behind, LoadInit, NewPage, Blank, NewInstance
<1> QED
  BY <1>2, <1>3, <1>4, <1>5 DEF LoadInv, CachesOwned, LoadInit

LEMMA RedeployKeeps == ASSUME LoadInv, Redeploy PROVE LoadInv'
<1>1. PagesBehind'
  <2>1. ASSUME NEW p \in Pages PROVE Behind(page[p])'
    <3>1. /\ page[p] \in PageStates /\ Behind(page[p]) /\ page' = page
          /\ site \in Nat /\ site' \in Nat /\ site < site'
      BY LoadAssumption DEF LoadInv, LoadTyped, PagesBehind, Redeploy
    <3>2. /\ page[p].build # Nothing => page[p].build \in Nat
          /\ page[p].version # Nothing => page[p].version \in Nat
      BY <3>1, LoadAssumption DEF PageStates
    <3> QED
      BY <3>1, <3>2 DEF Behind
  <2> QED
    BY <2>1 DEF PagesBehind
<1> QED
  BY <1>1 DEF LoadInv, LoadTyped, CachesOwned, Owns, PagesPlaced, Redeploy

LEMMA CallKeeps ==
  ASSUME LoadInv, NEW p \in Pages, Call(p) PROVE LoadInv'
<1> DEFINE fresh == Blank("import", NewInstance, Nothing)
           again == Kept(p, "import", Nothing)
<1>1. page[p] \in PageStates /\ Placed(page[p]) /\ Behind(page[p])
  BY DEF LoadInv, LoadTyped, PagesPlaced, PagesBehind
<1>2. fresh \in PageStates /\ Placed(fresh) /\ Behind(fresh) /\ fresh.step = "import" /\ fresh.cache = 0
  <2>1. fresh = [step |-> "import", version |-> Nothing, base |-> Nothing, cache |-> 0,
                 evict |-> {}, loaded |-> << >>, build |-> Nothing, slots |-> << >>,
                 engine |-> FALSE, failed |-> Nothing]
    BY DEF Blank, NewInstance
  <2> HIDE DEF fresh
  <2>2. fresh \in PageStates
    BY <2>1 DEF PageStates, Steps
  <2> QED
    BY <2>1, <2>2, NothingLoaded DEF Behind
<1>3. again \in PageStates /\ Placed(again) /\ Behind(again) /\ again.step = "import" /\ again.cache = 0
  BY <1>1, KeptFacts, NothingLoaded DEF Steps
<1>4. PICK q \in {fresh, again} : page' = [page EXCEPT ![p] = q]
  BY DEF Call
<1>5. q \in PageStates /\ Placed(q) /\ Behind(q) /\ q.step = "import" /\ q.cache = 0
  BY <1>2, <1>3
<1> HIDE DEF fresh, again
<1>6. page' \in [Pages -> PageStates] /\ PagesPlaced' /\ PagesBehind' /\ CachesOwned'
  BY <1>4, <1>5, OnlyPage, OnlyHold DEF Call, LoadInv, LoadTyped
<1> QED
  BY <1>6 DEF LoadInv, LoadTyped, Call

LEMMA RejectKeeps ==
  ASSUME LoadInv, NEW p \in Pages, Reject(p) PROVE LoadInv'
<1> DEFINE q == Kept(p, "error", "fetch")
<1>1. page[p] \in PageStates /\ Placed(page[p]) /\ Behind(page[p])
  BY DEF LoadInv, LoadTyped, PagesPlaced, PagesBehind
<1>2. q \in PageStates /\ Placed(q) /\ Behind(q) /\ q.step = "error" /\ q.cache = 0
  BY <1>1, KeptFacts, NothingLoaded DEF Steps
<1>3. page' = [page EXCEPT ![p] = q]
  BY DEF Reject
<1> HIDE DEF q
<1>4. page' \in [Pages -> PageStates] /\ PagesPlaced' /\ PagesBehind' /\ CachesOwned'
  BY <1>2, <1>3, OnlyPage, OnlyHold DEF Reject, LoadInv, LoadTyped
<1> QED
  BY <1>4 DEF LoadInv, LoadTyped, Reject

LEMMA ImportKeeps ==
  ASSUME LoadInv, NEW p \in Pages, Import(p) PROVE LoadInv'
<1> DEFINE build == IF page[p].build = Nothing THEN site ELSE page[p].build
           q == [page[p] EXCEPT !.step = "package", !.build = build]
<1>1. /\ page[p] \in PageStates /\ Placed(page[p]) /\ Behind(page[p]) /\ page[p].step = "import"
      /\ site \in Versions /\ site \in Nat
  BY LoadAssumption DEF LoadInv, LoadTyped, PagesPlaced, PagesBehind, Import, At
<1>2. build \in Versions /\ build <= site
  BY <1>1 DEF PageStates, Behind
<1>3. page' = [page EXCEPT ![p] = q]
  BY DEF Import, LoadInv, LoadTyped
<1> HIDE DEF build
<1>4. /\ q \in PageStates /\ q.step = "package" /\ q.build = build
      /\ q.cache = page[p].cache /\ q.version = page[p].version
      /\ q.version = Nothing /\ q.loaded = << >> /\ q.cache = 0
      /\ q.slots = page[p].slots /\ q.engine = page[p].engine /\ q.failed = page[p].failed
  BY <1>1, <1>2 DEF PageStates, Steps, Placed
<1> HIDE DEF q
<1>5. Placed(q) /\ Behind(q)
  BY <1>1, <1>2, <1>4, LoadAssumption DEF Placed, Behind
<1>6. page' \in [Pages -> PageStates] /\ PagesPlaced' /\ PagesBehind' /\ CachesOwned'
  BY <1>3, <1>4, <1>5, OnlyPage, OnlyHold DEF Import, LoadInv, LoadTyped
<1> QED
  BY <1>6 DEF LoadInv, LoadTyped, Import

LEMMA PackageKeeps ==
  ASSUME LoadInv, NEW p \in Pages, Package(p) PROVE LoadInv'
<1>1. page[p] \in PageStates /\ Placed(page[p]) /\ Behind(page[p]) /\ page[p].step = "package"
  BY DEF LoadInv, LoadTyped, PagesPlaced, PagesBehind, Package, At
<1>2. PICK base \in Bases :
        page' = [page EXCEPT ![p] =
                   [page[p] EXCEPT !.step = "keys", !.version = site, !.base = base]]
  BY DEF Package, LoadInv, LoadTyped
<1> DEFINE q == [page[p] EXCEPT !.step = "keys", !.version = site, !.base = base]
<1>3. q \in PageStates /\ Placed(q) /\ Behind(q) /\ q.step = "keys" /\ q.cache = 0
  <2>1. site \in Versions
    BY DEF LoadInv, LoadTyped
  <2>2. q \in PageStates /\ q.step = "keys" /\ q.cache = 0
    BY <1>1, <2>1 DEF PageStates, Steps, Placed, Behind, Fits
  <2>3. /\ q.version = site /\ q.loaded = << >> /\ q.slots = page[p].slots
        /\ q.engine = page[p].engine /\ q.failed = Nothing /\ q.build = page[p].build
    BY <1>1, LoadAssumption DEF PageStates, Placed
  <2>4. q.build \in Versions /\ q.build <= site /\ site <= site
    BY <1>1, <2>1, <2>3, LoadAssumption DEF Placed, Behind
  <2> HIDE DEF q
  <2> QED
    BY <1>1, <2>1, <2>2, <2>3, <2>4, LoadAssumption DEF Placed, Behind
<1>4. page' = [page EXCEPT ![p] = q]
  BY <1>2
<1> HIDE DEF q
<1>5. page' \in [Pages -> PageStates] /\ PagesPlaced' /\ PagesBehind' /\ CachesOwned'
  BY <1>3, <1>4, OnlyPage, OnlyHold DEF Package, LoadInv, LoadTyped
<1> QED
  BY <1>5 DEF LoadInv, LoadTyped, Package

LEMMA NoStorageKeeps ==
  ASSUME LoadInv, NEW p \in Pages, NoStorage(p) PROVE LoadInv'
<1> DEFINE q == [page[p] EXCEPT !.step = "asset"]
<1>1. page[p] \in PageStates /\ Placed(page[p]) /\ Behind(page[p]) /\ page[p].step = "keys"
  BY DEF LoadInv, LoadTyped, PagesPlaced, PagesBehind, NoStorage, At
<1>2. /\ q \in PageStates /\ Placed(q) /\ Behind(q) /\ q.step = "asset"
      /\ q.cache = page[p].cache /\ q.version = page[p].version
  BY <1>1, AssetFacts, LoadAssumption DEF PageStates, Steps, Placed, Behind, Fits
<1>3. page' = [page EXCEPT ![p] = q]
  BY DEF NoStorage, LoadInv, LoadTyped
<1> HIDE DEF q
<1>4. page' \in [Pages -> PageStates] /\ PagesPlaced' /\ PagesBehind' /\ CachesOwned'
  BY <1>2, <1>3, OnlyPage, OnlyHold DEF NoStorage, LoadInv, LoadTyped
<1> QED
  BY <1>4 DEF LoadInv, LoadTyped, NoStorage

LEMMA KeysKeeps ==
  ASSUME LoadInv, NEW p \in Pages, KeysOfCaches(p) PROVE LoadInv'
<1> DEFINE gone == {v \in Versions \ {CacheName(page[p].version)} : names[v] # 0}
           q == [page[p] EXCEPT !.step = "evict", !.evict = gone]
<1>1. page[p] \in PageStates /\ Placed(page[p]) /\ Behind(page[p]) /\ page[p].step = "keys"
  BY DEF LoadInv, LoadTyped, PagesPlaced, PagesBehind, KeysOfCaches, At
<1>2. /\ q \in PageStates /\ Placed(q) /\ Behind(q) /\ q.step = "evict"
      /\ q.cache = page[p].cache /\ q.version = page[p].version
  BY <1>1, AssetFacts, LoadAssumption DEF PageStates, Steps, Placed, Behind, Fits
<1>3. page' = [page EXCEPT ![p] = q]
  BY DEF KeysOfCaches, LoadInv, LoadTyped
<1> HIDE DEF q
<1>4. page' \in [Pages -> PageStates] /\ PagesPlaced' /\ PagesBehind' /\ CachesOwned'
  BY <1>2, <1>3, OnlyPage, OnlyHold DEF KeysOfCaches, LoadInv, LoadTyped
<1> QED
  BY <1>4 DEF LoadInv, LoadTyped, KeysOfCaches

LEMMA EvictKeeps ==
  ASSUME LoadInv, NEW p \in Pages, Evict(p) PROVE LoadInv'
<1> DEFINE q == [page[p] EXCEPT !.step = "open", !.evict = {}]
<1>1. page[p] \in PageStates /\ Placed(page[p]) /\ Behind(page[p]) /\ page[p].step = "evict"
  BY DEF LoadInv, LoadTyped, PagesPlaced, PagesBehind, Evict, At
<1>2. /\ q \in PageStates /\ Placed(q) /\ Behind(q) /\ q.step = "open"
      /\ q.cache = page[p].cache /\ q.version = page[p].version
  BY <1>1, AssetFacts, LoadAssumption DEF PageStates, Steps, Placed, Behind, Fits
<1>3. page' = [page EXCEPT ![p] = q]
  BY DEF Evict, LoadInv, LoadTyped
<1> HIDE DEF q
<1>4. names \in [Versions -> 0 .. Len(caches)]
  BY <1>1 DEF LoadInv, LoadTyped, PagesPlaced, PagesBehind
<1>5. /\ names' \in [Versions -> 0 .. Len(caches)]
      /\ \A v \in Versions : names'[v] \in {0, names[v]}
  BY <1>4 DEF Evict, LoadInv, LoadTyped
<1>6. names # Nothing
  BY <1>1 DEF LoadInv, PagesPlaced
<1>7. PICK owner \in [1 .. Len(caches) -> Versions] : Owns(owner)
  BY DEF LoadInv, CachesOwned
<1>8. ASSUME NEW v \in Versions, names'[v] # 0 PROVE owner[names'[v]] = v
  BY <1>5, <1>6, <1>7, <1>8 DEF Owns
<1>9. ASSUME NEW r \in Pages
      PROVE  page'[r].cache = page[r].cache /\ page'[r].version = page[r].version
  BY <1>2, <1>3 DEF LoadInv, LoadTyped
<1>10. Owns(owner)'
  BY <1>7, <1>8, <1>9 DEF Owns, Evict
<1>11. CachesOwned'
  BY <1>10 DEF CachesOwned, Evict
<1>12. page' \in [Pages -> PageStates] /\ PagesPlaced' /\ PagesBehind'
  <2>1. names' # Nothing
    BY <1>5, LoadAssumption DEF LoadInv, LoadTyped
  <2> QED
    BY <1>2, <1>3, <2>1, OnlyPage DEF LoadInv, LoadTyped, Evict
<1> QED
  BY <1>5, <1>11, <1>12 DEF LoadInv, LoadTyped, Evict

LEMMA OpenKeeps ==
  ASSUME LoadInv, NEW p \in Pages, OpenCache(p) PROVE LoadInv'
<1> DEFINE v == page[p].version
           cache == IF names[v] = 0 THEN Len(caches) + 1 ELSE names[v]
           q == [page[p] EXCEPT !.step = "asset", !.cache = cache]
           fresh == [u \in Urls |-> Nothing]
<1>1. /\ page[p] \in PageStates /\ Placed(page[p]) /\ Behind(page[p]) /\ page[p].step = "open"
      /\ v \in Versions /\ Len(caches) \in Nat
      /\ names # Nothing /\ names \in [Versions -> 0 .. Len(caches)]
  BY DEF LoadInv, LoadTyped, PagesPlaced, PagesBehind, OpenCache, At, Placed
<1>2. /\ names' = [names EXCEPT ![v] = cache]
      /\ caches' = IF names[v] = 0 THEN Append(caches, fresh) ELSE caches
      /\ page' = [page EXCEPT ![p] = q]
  BY <1>1 DEF OpenCache, CacheName, LoadInv, LoadTyped
<1>3. cache \in Nat
  BY <1>1
<1>4. q \in PageStates /\ Placed(q) /\ Behind(q) /\ q.step = "asset" /\ q.cache = cache /\ q.version = v
  <2> HIDE DEF cache
  <2> QED
    BY <1>1, <1>3, AssetFacts, LoadAssumption DEF PageStates, Steps, Placed, Behind, Fits
<1> HIDE DEF q
<1>5. PICK owner \in [1 .. Len(caches) -> Versions] : Owns(owner)
  BY DEF LoadInv, CachesOwned
<1>6. caches \in Seq([Urls -> Downloads \cup {Nothing}])
  BY DEF LoadInv, LoadTyped
<1> DEFINE Opened ==
           /\ caches' \in Seq([Urls -> Downloads \cup {Nothing}])
           /\ names' \in [Versions -> 0 .. Len(caches')] /\ CachesOwned'
<1>7. ASSUME names[v] = 0 PROVE Opened
  <2> DEFINE owner2 == [c \in 1 .. Len(caches) + 1 |-> IF c <= Len(caches) THEN owner[c] ELSE v]
  <2>1. /\ caches' = Append(caches, fresh) /\ cache = Len(caches) + 1
        /\ fresh \in [Urls -> Downloads \cup {Nothing}]
    BY <1>2, <1>7
  <2> HIDE DEF fresh, cache
  <2>2. /\ caches' \in Seq([Urls -> Downloads \cup {Nothing}])
        /\ Len(caches') = Len(caches) + 1 /\ caches'[Len(caches) + 1] = fresh
        /\ \A c \in 1 .. Len(caches) : caches'[c] = caches[c]
    BY <2>1, <1>6
  <2>3. names' \in [Versions -> 0 .. Len(caches')]
    BY <1>1, <1>2, <2>1, <2>2
  <2>4. owner2 \in [1 .. Len(caches') -> Versions]
    BY <1>1, <2>2
  <2>5. ASSUME NEW w \in Versions, names'[w] # 0 PROVE owner2[names'[w]] = w
    BY <1>1, <1>2, <1>5, <2>1, <2>5 DEF Owns
  <2>6. ASSUME NEW c \in 1 .. Len(caches'), NEW u \in Urls, caches'[c][u] # Nothing
        PROVE  Fits(u[1] # 0, owner2[c], caches'[c][u])
    <3>1. c # Len(caches) + 1
      BY <2>2, <2>6 DEF fresh
    <3>2. c \in 1 .. Len(caches) /\ caches'[c] = caches[c] /\ owner2[c] = owner[c]
      BY <1>1, <2>2, <3>1
    <3> HIDE DEF owner2
    <3> QED
      BY <1>5, <2>6, <3>2 DEF Owns
  <2>7. ASSUME NEW r \in Pages, page'[r].cache # 0
        PROVE  /\ page'[r].cache \in 1 .. Len(caches')
               /\ owner2[page'[r].cache] = page'[r].version
    BY <1>1, <1>2, <1>4, <1>5, <2>1, <2>2, <2>7 DEF Owns, LoadInv, LoadTyped
  <2> HIDE DEF owner2
  <2>8. PICK owners \in [1 .. Len(caches') -> Versions] : owners = owner2
    BY <2>4
  <2>9. Owns(owners)'
    BY <2>5, <2>6, <2>7, <2>8 DEF Owns, Fits
  <2> QED
    BY <2>2, <2>3, <2>8, <2>9 DEF CachesOwned
<1>8. ASSUME names[v] # 0 PROVE Opened
  <2>1. caches' = caches /\ cache = names[v]
    BY <1>2, <1>8
  <2> HIDE DEF cache
  <2>2. names' = names
    BY <1>1, <1>2, <2>1
  <2>3. ASSUME NEW r \in Pages, page'[r].cache # 0
        PROVE  /\ page'[r].cache \in 1 .. Len(caches)
               /\ owner[page'[r].cache] = page'[r].version
    BY <1>1, <1>2, <1>4, <1>5, <1>8, <2>1, <2>3 DEF Owns, LoadInv, LoadTyped
  <2>4. Owns(owner)'
    BY <1>5, <2>1, <2>2, <2>3 DEF Owns
  <2> QED
    BY <1>1, <1>6, <2>1, <2>2, <2>4 DEF CachesOwned
<1>9. Opened
  BY <1>7, <1>8
<1>10. names' # Nothing
  BY <1>9, LoadAssumption
<1>11. page' \in [Pages -> PageStates] /\ PagesPlaced' /\ PagesBehind'
  BY <1>2, <1>4, <1>10, OnlyPage DEF LoadInv, LoadTyped, OpenCache
<1> QED
  BY <1>9, <1>11 DEF LoadInv, LoadTyped, OpenCache

(* The page takes bytes of its own version as its next pack. *)
LEMMA TakesBytes ==
  ASSUME LoadInv, NEW p \in Pages, page[p].step = "asset",
         NEW bytes \in Downloads, Fits(page[p].base = "tag", page[p].version, bytes),
         Loaded(p, bytes)
  PROVE  \E q \in PageStates :
           /\ Placed(q) /\ Behind(q) /\ page' = [page EXCEPT ![p] = q] /\ q.step \in {"asset", "init"}
           /\ q.cache = page[p].cache /\ q.version = page[p].version
<1> DEFINE next == IF Len(page[p].loaded) + 1 = Len(Assets) THEN "init" ELSE "asset"
           more == Append(page[p].loaded, bytes)
           q == [page[p] EXCEPT !.loaded = more, !.step = next]
<1>1. page[p] \in PageStates /\ Placed(page[p]) /\ Behind(page[p])
  BY DEF LoadInv, LoadTyped, PagesPlaced, PagesBehind
<1>2. page' = [page EXCEPT ![p] = q]
  BY DEF Loaded, LoadInv, LoadTyped
<1>3. /\ page[p].loaded \in Seq(Downloads) /\ Len(page[p].loaded) \in Nat
      /\ Len(page[p].loaded) < Len(Assets) /\ page[p].failed = Nothing
      /\ \A i \in 1 .. Len(page[p].loaded) :
            Fits(page[p].base = "tag", page[p].version, page[p].loaded[i])
  BY <1>1 DEF PageStates, Placed
<1>4. /\ more \in Seq(Downloads) /\ Len(more) = Len(page[p].loaded) + 1
      /\ \A i \in 1 .. Len(more) : Fits(page[p].base = "tag", page[p].version, more[i])
  <2>1. \A i \in 1 .. Len(more) : i = Len(more) \/ i \in 1 .. Len(page[p].loaded)
    BY <1>3
  <2>2. \A i \in 1 .. Len(page[p].loaded) : more[i] = page[p].loaded[i]
    BY <1>3
  <2> QED
    BY <1>3, <2>1, <2>2
<1>5. /\ next \in {"asset", "init"}
      /\ next = "asset" => Len(more) < Len(Assets)
      /\ next = "init" => Len(more) = Len(Assets)
  BY <1>3, <1>4, AssetFacts
<1> HIDE DEF next, more
<1>9. next \in Steps
  BY <1>5 DEF Steps
<1>6. /\ q \in PageStates /\ q.step = next /\ q.loaded = more
      /\ q.cache = page[p].cache /\ q.version = page[p].version
      /\ q.base = page[p].base /\ q.build = page[p].build
      /\ q.slots = page[p].slots /\ q.engine = page[p].engine /\ q.failed = Nothing
  BY <1>1, <1>3, <1>4, <1>9 DEF PageStates
<1> HIDE DEF q
<1>7. /\ page[p].version \in Versions
      /\ page[p].build \in Versions /\ page[p].build <= page[p].version
      /\ page[p].slots # << >> => page[p].engine
  BY <1>1, LoadAssumption DEF Placed
<1>8. Placed(q) /\ Behind(q)
  BY <1>1, <1>4, <1>5, <1>6, <1>7, LoadAssumption DEF Placed, Behind
<1>10. q \in PageStates
  BY <1>6
<1> WITNESS q \in PageStates
<1> QED
  BY <1>2, <1>5, <1>6, <1>8

LEMMA UrlIsKnown ==
  ASSUME LoadInv, NEW p \in Pages, page[p].step = "asset"
  PROVE  NextUrl(p) \in Urls /\ (NextUrl(p)[1] # 0 <=> page[p].base = "tag")
<1>1. page[p] \in PageStates /\ Placed(page[p]) /\ Behind(page[p]) /\ page[p].version \in Versions
  BY DEF LoadInv, LoadTyped, PagesPlaced, PagesBehind, Placed
<1>2. Len(page[p].loaded) + 1 \in Indices
  BY <1>1, AssetFacts DEF PageStates, Placed
<1> DEFINE key == Assets[Len(page[p].loaded) + 1]
           version == IF page[p].base = "tag" THEN page[p].version ELSE 0
<1>3. key \in ToSet(Assets) /\ version \in {0} \cup Versions
  BY <1>1, <1>2, AssetFacts
<1>4. NextUrl(p) = <<version, key>>
  BY DEF NextUrl, Url
<1>5. version # 0 <=> page[p].base = "tag"
  BY <1>1, LoadAssumption
<1> HIDE DEF key, version
<1> QED
  BY <1>3, <1>4, <1>5 DEF Urls

LEMMA FromCacheKeeps ==
  ASSUME LoadInv, NEW p \in Pages, FromCache(p) PROVE LoadInv'
<1>1. page[p].step = "asset" /\ Cached(p) # Nothing /\ Loaded(p, Cached(p))
  BY DEF FromCache, At
<1>2. NextUrl(p) \in Urls
  BY <1>1, UrlIsKnown
<1>3. page[p].cache # 0 /\ Cached(p) = caches[page[p].cache][NextUrl(p)]
  BY <1>1 DEF Cached
<1>4. PICK owner \in [1 .. Len(caches) -> Versions] : Owns(owner)
  BY DEF LoadInv, CachesOwned
<1>5. page[p].cache \in 1 .. Len(caches) /\ owner[page[p].cache] = page[p].version
  BY <1>3, <1>4 DEF Owns
<1>6. caches[page[p].cache] \in [Urls -> Downloads \cup {Nothing}]
  BY <1>5 DEF LoadInv, LoadTyped
<1>7. Cached(p) \in Downloads
  BY <1>1, <1>2, <1>3, <1>6
<1>8. Fits(page[p].base = "tag", page[p].version, Cached(p))
  BY <1>1, <1>2, <1>3, <1>4, <1>5, UrlIsKnown DEF Owns
<1>9. PICK q \in PageStates :
           /\ Placed(q) /\ Behind(q) /\ page' = [page EXCEPT ![p] = q] /\ q.step \in {"asset", "init"}
           /\ q.cache = page[p].cache /\ q.version = page[p].version
  BY <1>1, <1>7, <1>8, TakesBytes
<1>10. page' \in [Pages -> PageStates] /\ PagesPlaced' /\ PagesBehind' /\ CachesOwned'
  BY <1>9, OnlyPage, OnlyHold DEF FromCache, LoadInv, LoadTyped
<1> QED
  BY <1>10 DEF LoadInv, LoadTyped, FromCache

LEMMA DownloadKeeps ==
  ASSUME LoadInv, NEW p \in Pages, Download(p) PROVE LoadInv'
<1> DEFINE cache == page[p].cache
<1>1. PICK good \in BOOLEAN :
        /\ Loaded(p, Bytes(Served(p), good))
        /\ caches' = IF cache = 0 THEN caches
                     ELSE [caches EXCEPT ![cache][NextUrl(p)] = Bytes(Served(p), good)]
  BY DEF Download
<1> DEFINE bytes == Bytes(Served(p), good)
<1>2. /\ page[p].step = "asset" /\ NextUrl(p) \in Urls
      /\ NextUrl(p)[1] # 0 <=> page[p].base = "tag"
  BY UrlIsKnown DEF Download, At
<1>3. bytes \in Downloads /\ Fits(page[p].base = "tag", page[p].version, bytes)
  <2>1. page[p].version \in Versions /\ site \in Versions /\ site >= page[p].version
    BY <1>2, LoadAssumption
    DEF LoadInv, LoadTyped, PagesPlaced, Placed, PagesBehind, Behind
  <2>2. Served(p) \in Versions
    BY <2>1 DEF Served
  <2>3. bytes = [for |-> Served(p), good |-> good]
    BY DEF Bytes
  <2> HIDE DEF bytes
  <2> QED
    BY <2>1, <2>2, <2>3 DEF Downloads, Fits, Served
<1> HIDE DEF bytes
<1>4. PICK q \in PageStates :
           /\ Placed(q) /\ Behind(q) /\ page' = [page EXCEPT ![p] = q] /\ q.step \in {"asset", "init"}
           /\ q.cache = page[p].cache /\ q.version = page[p].version
  BY <1>1, <1>2, <1>3, TakesBytes DEF bytes
<1>5. page' \in [Pages -> PageStates] /\ PagesPlaced' /\ PagesBehind'
  BY <1>4, OnlyPage DEF Download, LoadInv, LoadTyped
<1>6. PICK owner \in [1 .. Len(caches) -> Versions] : Owns(owner)
  BY DEF LoadInv, CachesOwned
<1>7. caches \in Seq([Urls -> Downloads \cup {Nothing}])
  BY DEF LoadInv, LoadTyped
<1>8. cache # 0 => cache \in 1 .. Len(caches) /\ owner[cache] = page[p].version
  BY <1>6 DEF Owns
<1>9. /\ caches' \in Seq([Urls -> Downloads \cup {Nothing}]) /\ Len(caches') = Len(caches)
      /\ \A c \in 1 .. Len(caches), u \in Urls :
            caches'[c][u] = caches[c][u]
            \/ (c = cache /\ u = NextUrl(p) /\ caches'[c][u] = bytes)
  <2>1. CASE cache = 0
    BY <1>1, <1>7, <2>1
  <2>2. CASE cache # 0
    <3> DEFINE now == [caches[cache] EXCEPT ![NextUrl(p)] = bytes]
    <3>1. caches[cache] \in [Urls -> Downloads \cup {Nothing}]
      BY <1>7, <1>8, <2>2
    <3>2. /\ now \in [Urls -> Downloads \cup {Nothing}]
          /\ \A u \in Urls : now[u] = IF u = NextUrl(p) THEN bytes ELSE caches[cache][u]
      BY <1>2, <1>3, <3>1
    <3>3. caches' = [caches EXCEPT ![cache] = now]
      BY <1>1, <2>2 DEF bytes
    <3> HIDE DEF now
    <3> QED
      BY <1>7, <1>8, <2>2, <3>2, <3>3
  <2> QED
    BY <2>1, <2>2
<1>10. ASSUME NEW c \in 1 .. Len(caches), NEW u \in Urls, caches'[c][u] # Nothing
       PROVE  Fits(u[1] # 0, owner[c], caches'[c][u])
  <2> DEFINE now == caches'[c][u]
  <2>1. now = caches[c][u] \/ (c = cache /\ u = NextUrl(p) /\ now = bytes)
    BY <1>9
  <2>2. now # Nothing /\ c # 0
    BY <1>10
  <2> HIDE DEF now
  <2>3. Fits(u[1] # 0, owner[c], now)
    BY <1>2, <1>3, <1>6, <1>8, <2>1, <2>2 DEF Owns
  <2> QED
    BY <2>3 DEF now
<1>11. ASSUME NEW r \in Pages
      PROVE  page'[r].cache = page[r].cache /\ page'[r].version = page[r].version
  BY <1>4 DEF LoadInv, LoadTyped
<1>12. Owns(owner)'
  BY <1>6, <1>9, <1>10, <1>11 DEF Owns, Download, Fits
<1>13. CachesOwned'
  BY <1>9, <1>12 DEF CachesOwned
<1> QED
  BY <1>5, <1>9, <1>13 DEF LoadInv, LoadTyped, Download

LEMMA InitEngineKeeps ==
  ASSUME LoadInv, NEW p \in Pages, InitEngine(p) PROVE LoadInv'
<1> DEFINE slotsNow == Installed(page[p].loaded, page[p].slots)
           built == page[p].slots = << >> /\ Len(slotsNow) = Len(Assets)
           ends == IF built THEN "ready" ELSE "error"
           failing == IF built THEN Nothing ELSE "init"
           running == page[p].engine \/ built
           q == [page[p] EXCEPT !.slots = slotsNow, !.engine = running, !.cache = 0,
                                !.step = ends, !.failed = failing]
<1>1. /\ page[p] \in PageStates /\ Placed(page[p]) /\ Behind(page[p]) /\ page[p].step = "init"
      /\ page[p].version \in Versions
  BY DEF LoadInv, LoadTyped, PagesPlaced, PagesBehind, InitEngine, At, Placed
<1>2. page' = [page EXCEPT ![p] = q]
  BY DEF InitEngine, LoadInv, LoadTyped
<1>3. /\ page[p].loaded \in Seq(Downloads) /\ page[p].slots \in Seq(Downloads)
      /\ Len(page[p].loaded) = Len(Assets) /\ page[p].engine \in BOOLEAN
      /\ \A i \in Indices : Fits(page[p].base = "tag", page[p].version, page[p].loaded[i])
      /\ page[p].slots # << >> => page[p].engine
  BY <1>1, AssetFacts DEF PageStates, Placed
<1>4. /\ slotsNow \in Seq(Downloads)
      /\ slotsNow # << >> => running
      /\ built => /\ Len(slotsNow) = Len(Assets)
                  /\ \A i \in Indices : /\ slotsNow[i].good
                                        /\ Fits(page[p].base = "tag", page[p].version, slotsNow[i])
      /\ ~built => running \/ \E i \in Indices : ~page[p].loaded[i].good
  BY <1>3, AssetFacts DEF Installed
<1>5. running \in BOOLEAN /\ ends \in {"ready", "error"} /\ failing \in {Nothing, "init"}
  BY <1>3
<1>6. /\ ends = "ready" <=> built
      /\ failing = "init" <=> ~built
      /\ failing # Nothing => ends = "error"
  BY LoadAssumption
<1> HIDE DEF slotsNow, built, ends, failing, running
<1>7. /\ q \in PageStates /\ q.step = ends /\ q.failed = failing /\ q.cache = 0
      /\ q.slots = slotsNow /\ q.engine = running /\ q.loaded = page[p].loaded
      /\ q.version = page[p].version /\ q.base = page[p].base /\ q.build = page[p].build
  BY <1>1, <1>4, <1>5 DEF PageStates, Steps
<1> HIDE DEF q
<1>8. Placed(q) /\ Behind(q)
  BY <1>1, <1>3, <1>4, <1>5, <1>6, <1>7, AssetFacts DEF Placed, Behind
<1>9. q \in PageStates /\ q.step \notin {"evict", "open"} /\ q.cache = 0
  BY <1>5, <1>7
<1>10. names' = names /\ caches' = caches
  BY DEF InitEngine
<1>11. page \in [Pages -> PageStates] /\ PagesPlaced /\ PagesBehind /\ CachesOwned
  BY DEF LoadInv, LoadTyped
<1>12. page' \in [Pages -> PageStates] /\ PagesPlaced' /\ PagesBehind'
  BY <1>2, <1>8, <1>9, <1>10, <1>11, OnlyPage DEF InitEngine
<1>13. CachesOwned'
  BY <1>2, <1>9, <1>10, <1>11, OnlyHold
<1> QED
  BY <1>12, <1>13 DEF LoadInv, LoadTyped, InitEngine

-----------------------------------------------------------------------------
LEMMA LoadKeeps == ASSUME LoadInv, [LoadNext]_loaderVars PROVE LoadInv'
<1>1. CASE LoadNext
  BY <1>1, RedeployKeeps, CallKeeps, ImportKeeps, PackageKeeps, NoStorageKeeps, KeysKeeps,
     EvictKeeps, OpenKeeps, FromCacheKeeps, DownloadKeeps, RejectKeeps, InitEngineKeeps
  DEF LoadNext
<1>2. CASE UNCHANGED loaderVars
  BY <1>2 DEF loaderVars, LoadInv, LoadTyped, CachesOwned, Owns, PagesPlaced, PagesBehind, Behind
<1> QED
  BY <1>1, <1>2

(* Each cache that any page ever created belongs to one version: no page of  *)
(* another version has it open, what it keeps for the version's tag is that  *)
(* version's, and what it keeps for the site is no older.                    *)
THEOREM CachesKeepToTheirVersion == LoadSpec => []LoadInv
  BY LoadStarts, LoadKeeps, PTL DEF LoadSpec

(* loadFriction, openAssetCache, init_engine: whatever other pages,          *)
(* redeployments and rejected requests do meanwhile, an engine starts on     *)
(* intact packs no older than itself, those of the version its page was told *)
(* when they come from the tag, and init fails only on bad bytes or where    *)
(* the engine already runs.                                                  *)
THEOREM EnginesStartOnOwnPacks == LoadSpec => []StartsOnOwnPacks
<1>1. LoadInv => StartsOnOwnPacks
  <2>1. ASSUME LoadInv, NEW p \in Pages, At(p, "ready"), NEW i \in Indices
        PROVE  OwnPack(page[p], page[p].slots[i])
    <3>1. /\ Placed(page[p]) /\ page[p].step = "ready"
          /\ page[p].slots \in Seq(Downloads)
          /\ Len(page[p].slots) = Len(Assets)
      BY <2>1 DEF LoadInv, LoadTyped, PagesPlaced, PageStates, At, Placed
    <3>2. page[p].slots[i] \in Downloads
      BY <3>1, AssetFacts
    <3>3. /\ page[p].slots[i].for \in Nat /\ page[p].version \in Nat
          /\ page[p].slots[i].good /\ page[p].build <= page[p].version
          /\ Fits(page[p].base = "tag", page[p].version, page[p].slots[i])
      BY <3>1, <3>2, LoadAssumption DEF Placed, Downloads
    <3> QED
      BY <3>3 DEF Fits, OwnPack
  <2> QED
    BY <2>1 DEF LoadInv, PagesPlaced, Placed, StartsOnOwnPacks
<1> QED
  BY <1>1, CachesKeepToTheirVersion, PTL
=============================================================================
