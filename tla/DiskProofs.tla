------------------------------ MODULE DiskProofs ------------------------------
(* What the tools leave on disk.                                             *)
(*                                                                           *)
(* The document fix writes in place: runs that do not overlap leave it       *)
(* whole, however many there are, wherever each is stopped and however often *)
(* the machine loses power.  DocumentIsWhole is not inductive: the invariant *)
(* behind it speaks of every directory a loss of power may fall back to.     *)
(* The file behind the document in any of them is whole and on the disk, and *)
(* is not the .partial of now, the only file that is ever written.           *)
(*                                                                           *)
(* The corpus: whatever command is cut short and wherever, a record and its  *)
(* file come apart only by a removal or a decoding left unfinished, a run    *)
(* that is repeated completes the work, and a sealed holdout stays as it is. *)
(* CorpusInv says how the copy of the manifest each command works on differs *)
(* from the manifest, and what it has done to the files in between.          *)
(*                                                                           *)
(* The plans: of the numbers below n, every remainder of a division occurs   *)
(* as often as any other, but for one; and the jobs of a genre stand         *)
(* together in the plan, so that its shares are counts of remainders.        *)
EXTENDS WriteInPlace, Corpus, FiniteSetTheorems, WellFoundedInduction, NaturalsInduction, TLAPS

Settled(f) == data[f] = disk[f] /\ data[f] \in Whole
PathsSettled ==
  /\ dir \in durable
  /\ \A d \in durable : Settled(d.path) /\ d.path # d.partial /\ d.path # dir.partial
Unstarted == {"open", "read", "create"}
FreshRuns == \A r \in Runs : step[r] \in Unstarted => \A d \in durable : d.path # r /\ d.partial # r
OneWriter == \A q, r \in Runs : step[q] \in Writing /\ step[r] \in Writing => q = r
AtFirstBlock == \A r \in Runs : step[r] \in {"open", "create"} => pos[r] = 1
Written ==
  \A r \in Runs :
    /\ step[r] \in Writing => file[r] = dir.partial
    /\ step[r] = "write" => \A b \in 1 .. pos[r] - 1 : data[file[r]][b] = r
    /\ step[r] \in {"sync", "rename"} => data[file[r]] = TextOf(r)
    /\ step[r] = "rename" => disk[file[r]] = TextOf(r)
ReadWhole ==
  \A r \in Runs :
    /\ step[r] = "read" => /\ \E d \in durable : file[r] = d.path
                           /\ \A b \in 1 .. pos[r] - 1 : source[r][b] = data[file[r]][b]
    /\ step[r] \in {"create", "done"} \cup Writing => source[r] \in Whole

IInv == TypeOK /\ PathsSettled /\ FreshRuns /\ OneWriter /\ AtFirstBlock /\ Written /\ ReadWhole

LEMMA InitIInv == ASSUME ~Overlap, Init PROVE IInv
<1>1. TypeOK
  BY SystemAssumption DEF Init, TypeOK, Files, Texts, TextOf, Empty, Steps, Writing
<1>2. PathsSettled
  BY SystemAssumption DEF Init, PathsSettled, Settled, Whole, Files
<1>3. FreshRuns
  BY SystemAssumption DEF Init, FreshRuns
<1>4. OneWriter /\ AtFirstBlock /\ Written /\ ReadWhole
  BY DEF Init, OneWriter, AtFirstBlock, Written, ReadWhole, Writing
<1> QED BY <1>1, <1>2, <1>3, <1>4 DEF IInv

LEMMA OpenKeeps == ASSUME ~Overlap, IInv, NEW r \in Runs, Open(r) PROVE IInv'
<1> USE DEF IInv
<1>1. TypeOK'
  BY DEF Open, TypeOK, Files, Steps
<1>2. PathsSettled'
  BY DEF Open, PathsSettled, Settled
<1>3. FreshRuns' /\ OneWriter' /\ AtFirstBlock'
  BY DEF Open, FreshRuns, Unstarted, OneWriter, AtFirstBlock, Writing, TypeOK
<1>4. Written'
  BY DEF Open, Written, Writing, TypeOK
<1>5. ReadWhole'
  BY DEF Open, ReadWhole, PathsSettled, AtFirstBlock, Writing, TypeOK
<1> QED BY <1>1, <1>2, <1>3, <1>4, <1>5
(* A text with one block written, and two texts equal block by block. *)
LEMMA BlockWritten ==
  ASSUME NEW t \in Texts, NEW k \in 1 .. Blocks, NEW v \in Files \cup {Nothing}
  PROVE /\ [t EXCEPT ![k] = v] \in Texts /\ [t EXCEPT ![k] = v][k] = v
        /\ \A b \in 1 .. Blocks \ {k} : [t EXCEPT ![k] = v][b] = t[b]
BY DEF Texts

LEMMA SameBlocks ==
  ASSUME NEW t \in Texts, NEW u \in Texts, \A b \in 1 .. Blocks : t[b] = u[b]
  PROVE t = u
<1>1. t = [b \in 1 .. Blocks |-> t[b]] /\ u = [b \in 1 .. Blocks |-> u[b]]
  BY DEF Texts
<1> QED BY <1>1

(* The block a run reads next is the one its file has there. *)
LEMMA ReadBlock ==
  ASSUME ~Overlap, IInv, NEW r \in Runs, Read(r)
  PROVE /\ source' \in [Runs -> Texts]
        /\ \A b \in 1 .. pos[r] : source'[r][b] = data[file[r]][b]
<1> DEFINE t == source[r]
           v == data[file[r]][pos[r]]
<1>1. t \in Texts /\ pos[r] \in 1 .. Blocks /\ file[r] \in Files /\ data[file[r]] \in Texts
  BY DEF IInv, TypeOK
<1>2. v \in Files \cup {Nothing}
  BY <1>1 DEF Texts
<1>3. source' = [source EXCEPT ![r] = [t EXCEPT ![pos[r]] = v]] /\ source \in [Runs -> Texts]
  BY DEF Read, IInv, TypeOK
<1>4. \A b \in 1 .. pos[r] - 1 : t[b] = data[file[r]][b]
  BY DEF Read, IInv, ReadWhole
<1>5. source'[r] = [t EXCEPT ![pos[r]] = v]
  BY <1>3
<1> HIDE DEF t, v
<1>6. [t EXCEPT ![pos[r]] = v] \in Texts /\ [t EXCEPT ![pos[r]] = v][pos[r]] = v
  BY <1>1, <1>2, BlockWritten
<1>7. \A b \in 1 .. Blocks \ {pos[r]} : [t EXCEPT ![pos[r]] = v][b] = t[b]
  BY <1>1, <1>2, BlockWritten
<1>8. source' \in [Runs -> Texts]
  BY <1>3, <1>6
<1>9. \A b \in 1 .. pos[r] : b = pos[r] \/ (b \in 1 .. pos[r] - 1 /\ b \in 1 .. Blocks \ {pos[r]})
  BY <1>1, SystemAssumption
<1> QED BY <1>4, <1>5, <1>6, <1>7, <1>8, <1>9 DEF v

LEMMA ReadKeeps == ASSUME ~Overlap, IInv, NEW r \in Runs, Read(r) PROVE IInv'
<1> USE DEF IInv
<1>1. TypeOK'
  <2>1. source' \in [Runs -> Texts]
    BY ReadBlock
  <2> QED BY <2>1, SystemAssumption DEF Read, Advance, TypeOK, Steps
<1>2. PathsSettled'
  BY DEF Read, PathsSettled, Settled
<1>3. FreshRuns' /\ OneWriter' /\ AtFirstBlock'
  BY DEF Read, Advance, FreshRuns, Unstarted, OneWriter, AtFirstBlock, Writing, TypeOK
<1>4. Written'
  BY DEF Read, Advance, Written, Writing, TypeOK
<1>5. ReadWhole'
  <2> SUFFICES ASSUME NEW q \in Runs
      PROVE /\ step'[q] = "read" => /\ \E d \in durable' : file'[q] = d.path
                                    /\ \A b \in 1 .. pos'[q] - 1 : source'[q][b] = data'[file'[q]][b]
            /\ step'[q] \in {"create", "done"} \cup Writing => source'[q] \in Whole'
    BY DEF ReadWhole
  <2>1. CASE q # r
    BY <2>1 DEF Read, Advance, ReadWhole, TypeOK, Whole
  <2>2. CASE q = r /\ pos[r] < Blocks
    <3>1. step'[r] = "read" /\ pos'[r] = pos[r] + 1 /\ file'[r] = file[r] /\ durable' = durable /\ data' = data
      BY <2>2 DEF Read, Advance, TypeOK
    <3>2. \A b \in 1 .. pos[r] : source'[r][b] = data[file[r]][b]
      BY ReadBlock
    <3>3. \E d \in durable : file[r] = d.path
      BY DEF Read, ReadWhole
    <3> QED BY <2>2, <3>1, <3>2, <3>3 DEF TypeOK, Writing
  <2>3. CASE q = r /\ pos[r] = Blocks
    <3>1. step'[r] = "create"
      BY <2>3 DEF Read, Advance, TypeOK
    <3>2. \A b \in 1 .. Blocks : source'[r][b] = data[file[r]][b]
      BY <2>3, ReadBlock
    <3>3. source'[r] \in Texts /\ data[file[r]] \in Texts
      BY <1>1 DEF TypeOK
    <3>4. source'[r] = data[file[r]]
      BY <3>2, <3>3, SameBlocks
    <3>5. data[file[r]] \in Whole
      BY DEF Read, ReadWhole, PathsSettled, Settled
    <3> QED BY <2>3, <3>1, <3>4, <3>5 DEF Whole, Writing
  <2>4. pos[r] < Blocks \/ pos[r] = Blocks
    BY SystemAssumption DEF TypeOK
  <2> QED BY <2>1, <2>2, <2>3, <2>4
<1> QED BY <1>1, <1>2, <1>3, <1>4, <1>5

(* The file a run takes for its .partial is behind no durable document. *)
LEMMA PartialIsUnread ==
  ASSUME IInv, NEW r \in Runs, step[r] = "create"
  PROVE Partial(r) \in Files /\ \A d \in durable : d.path # Partial(r)
BY DEF IInv, TypeOK, Files, Partial, PathsSettled, FreshRuns, Unstarted

LEMMA CreateKeeps == ASSUME ~Overlap, IInv, NEW r \in Runs, Create(r) PROVE IInv'
<1> USE DEF IInv
<1> DEFINE p == Partial(r)
<1>0. p \in Files /\ \A d \in durable : d.path # p
  BY PartialIsUnread DEF Create
<1>a. /\ dir' = [dir EXCEPT !.partial = p] /\ durable' = durable \cup {dir'}
      /\ file' = [file EXCEPT ![r] = p] /\ data' = [data EXCEPT ![p] = Empty]
      /\ step' = [step EXCEPT ![r] = "write"]
      /\ disk' = disk /\ pos' = pos /\ source' = source /\ crashes' = crashes
      /\ step[r] = "create"
  BY DEF Create
<1>b. \A q \in Runs : step[q] \notin Writing
  BY DEF Create
<1>c. Empty \in Texts
  BY DEF Empty, TextOf, Texts
<1> HIDE DEF p
<1>1. TypeOK'
  <2>1. dir' \in [path : Files, partial : Files \cup {Nothing}]
    BY <1>0, <1>a DEF TypeOK
  <2>2. data' \in [Files -> Texts]
    BY <1>0, <1>a, <1>c DEF TypeOK
  <2>3. step' \in [Runs -> Steps] /\ file' \in [Runs -> Files]
    BY <1>0, <1>a DEF TypeOK, Steps, Writing
  <2> QED BY <1>a, <2>1, <2>2, <2>3 DEF TypeOK
<1>2. PathsSettled'
  <2>1. dir \in durable /\ dir'.path = dir.path /\ dir'.partial = p
    BY <1>a DEF PathsSettled, TypeOK
  <2>2. \A d \in durable : data'[d.path] = data[d.path] /\ disk'[d.path] = disk[d.path]
    BY <1>0, <1>a DEF TypeOK
  <2>3. \A d \in durable : Settled(d.path)'
    BY <2>2 DEF PathsSettled, Settled, Whole
  <2> QED BY <1>0, <1>a, <2>1, <2>3 DEF PathsSettled
<1>3. FreshRuns'
  <2>1. p = r \/ p = dir.partial
    BY DEF p, Partial
  <2>2. \A q \in Runs : step'[q] \in Unstarted => step[q] \in Unstarted /\ q # r
    BY <1>a DEF TypeOK, Unstarted
  <2>3. dir \in durable /\ dir'.path = dir.path /\ dir'.partial = p
    BY <1>a DEF PathsSettled, TypeOK
  <2> QED BY <1>a, <2>1, <2>2, <2>3 DEF FreshRuns
<1>4. OneWriter' /\ AtFirstBlock'
  BY <1>a, <1>b DEF OneWriter, AtFirstBlock, TypeOK
<1>5. Written'
  <2>1. \A q \in Runs : step'[q] \in Writing => q = r
    BY <1>a, <1>b DEF TypeOK
  <2>2. step'[r] = "write" /\ file'[r] = p /\ dir'.partial = p /\ pos'[r] = 1
    BY <1>a DEF TypeOK, AtFirstBlock
  <2> QED BY <2>1, <2>2 DEF Written, Writing
<1>6. ReadWhole'
  <2>1. \A q \in Runs : step'[q] = "read" => q # r /\ step[q] = "read"
    BY <1>a DEF TypeOK
  <2>2. \A q \in Runs : step[q] = "read" =>
          /\ file[q] # p /\ data'[file[q]] = data[file[q]]
          /\ \E d \in durable : file[q] = d.path
    BY <1>0, <1>a DEF ReadWhole, TypeOK
  <2>3. \A q \in Runs : step'[q] \in {"create", "done"} \cup Writing => source[q] \in Whole
    BY <1>a DEF ReadWhole, TypeOK, Writing
  <2> QED BY <1>a, <2>1, <2>2, <2>3 DEF ReadWhole, TypeOK, Whole
<1> QED BY <1>1, <1>2, <1>3, <1>4, <1>5, <1>6

LEMMA WriteAllKeeps == ASSUME ~Overlap, IInv, NEW r \in Runs, WriteAll(r) PROVE IInv'
<1> USE DEF IInv
<1> DEFINE p == file[r]
<1>0. p = dir.partial /\ p \in Files /\ \A d \in durable : d.path # p
  BY DEF WriteAll, Written, PathsSettled, TypeOK, Writing
<1>a. /\ data' = [data EXCEPT ![p][pos[r]] = r]
      /\ UNCHANGED <<dir, durable, disk, file, source, crashes>> /\ step[r] = "write"
      /\ Advance(r, "sync")
  BY DEF WriteAll
<1>b. \A q \in Runs \ {r} : step'[q] = step[q] /\ pos'[q] = pos[q] /\ step[q] \notin Writing
  BY <1>a DEF Advance, OneWriter, TypeOK, Writing
<1>c. \A f \in Files \ {p} : data'[f] = data[f]
  BY <1>a DEF TypeOK
<1>1. TypeOK'
  <2>1. data' \in [Files -> Texts]
    BY <1>0, <1>a DEF TypeOK, Texts, Files
  <2> QED BY <1>a, <2>1, SystemAssumption DEF Advance, TypeOK, Steps, Writing
<1>2. PathsSettled'
  BY <1>0, <1>a, <1>c DEF PathsSettled, Settled, Whole, TypeOK
<1>3. FreshRuns' /\ AtFirstBlock' /\ OneWriter'
  BY <1>a, <1>b DEF Advance, FreshRuns, Unstarted, AtFirstBlock, OneWriter, Writing, TypeOK
<1>4. Written'
  <2>1. \A b \in 1 .. pos[r] : data'[p][b] = r
    <3> DEFINE t == data[p]
    <3>1. t \in Texts /\ pos[r] \in 1 .. Blocks /\ r \in Files \cup {Nothing}
      BY <1>0 DEF TypeOK, Files
    <3>2. data'[p] = [t EXCEPT ![pos[r]] = r]
      BY <1>0, <1>a DEF TypeOK
    <3>3. \A b \in 1 .. pos[r] - 1 : t[b] = r
      BY <1>a DEF Written
    <3> HIDE DEF t
    <3>4. [t EXCEPT ![pos[r]] = r] \in Texts /\ [t EXCEPT ![pos[r]] = r][pos[r]] = r
      BY <3>1, BlockWritten
    <3>5. \A b \in 1 .. Blocks \ {pos[r]} : [t EXCEPT ![pos[r]] = r][b] = t[b]
      BY <3>1, BlockWritten
    <3>6. \A b \in 1 .. pos[r] : b = pos[r] \/ (b \in 1 .. pos[r] - 1 /\ b \in 1 .. Blocks \ {pos[r]})
      BY <3>1, SystemAssumption
    <3> QED BY <3>2, <3>3, <3>4, <3>5, <3>6
  <2>2. CASE pos[r] < Blocks
    BY <1>0, <1>a, <1>b, <2>1, <2>2 DEF Advance, Written, Writing, TypeOK
  <2>3. CASE pos[r] = Blocks
    <3>1. data'[p] \in Texts
      BY <1>0, <1>1 DEF TypeOK
    <3>2. data'[p] = TextOf(r)
      BY <2>1, <2>3, <3>1 DEF Texts, TextOf
    <3>3. step'[r] = "sync"
      BY <1>a, <2>3 DEF Advance, TypeOK
    <3>4. file'[r] = p /\ dir'.partial = p
      BY <1>0, <1>a
    <3>5. \A q \in Runs : step'[q] \in Writing => q = r
      BY <1>b
    <3> QED BY <3>2, <3>3, <3>4, <3>5 DEF Written, Writing, TextOf
  <2> QED BY <2>2, <2>3, SystemAssumption DEF TypeOK
<1>5. ReadWhole'
  <2>1. step'[r] \in {"write", "sync"} /\ source[r] \in Whole
    BY <1>a DEF Advance, TypeOK, ReadWhole, Writing
  <2>2. \A q \in Runs : step[q] = "read" => file[q] \in Files \ {p}
    BY <1>0 DEF ReadWhole, TypeOK
  <2>3. source' = source /\ file' = file /\ durable' = durable
    BY <1>a
  <2>4. \A q \in Runs : step'[q] = "read" =>
          q # r /\ step[q] = "read" /\ pos'[q] = pos[q] /\ data'[file[q]] = data[file[q]]
    BY <1>b, <1>c, <2>1, <2>2
  <2>5. \A q \in Runs : step'[q] \in {"create", "done"} \cup Writing => source[q] \in Whole
    BY <1>b, <2>1 DEF ReadWhole
  <2> QED BY <2>3, <2>4, <2>5 DEF ReadWhole, Whole
<1> QED BY <1>1, <1>2, <1>3, <1>4, <1>5

LEMMA SyncAllKeeps == ASSUME ~Overlap, IInv, NEW r \in Runs, SyncAll(r) PROVE IInv'
<1> USE DEF IInv
<1>0. file[r] = dir.partial /\ file[r] \in Files /\ \A d \in durable : d.path # file[r]
  BY DEF SyncAll, Written, PathsSettled, TypeOK, Writing
<1>1. TypeOK'
  BY DEF SyncAll, TypeOK, Steps, Writing
<1>2. PathsSettled'
  BY <1>0 DEF SyncAll, PathsSettled, Settled, TypeOK
<1>3. FreshRuns' /\ OneWriter' /\ AtFirstBlock'
  BY DEF SyncAll, FreshRuns, Unstarted, OneWriter, AtFirstBlock, Writing, TypeOK
<1>4. Written'
  BY <1>0 DEF SyncAll, Written, OneWriter, Writing, TypeOK
<1>5. ReadWhole'
  BY DEF SyncAll, ReadWhole, Writing, TypeOK
<1> QED BY <1>1, <1>2, <1>3, <1>4, <1>5

LEMMA RenameKeeps == ASSUME ~Overlap, IInv, NEW r \in Runs, Rename(r) PROVE IInv'
<1> USE DEF IInv
<1>0. /\ file[r] = dir.partial /\ dir.partial \in Files /\ dir \in durable
      /\ data[dir.partial] = TextOf(r) /\ disk[dir.partial] = TextOf(r)
  BY DEF Rename, Written, TypeOK, Writing, PathsSettled
<1>1. TypeOK'
  BY <1>0 DEF Rename, TypeOK, Steps
<1>2. PathsSettled'
  <2>1. Settled(dir.partial)
    BY <1>0 DEF Settled, Whole, Files
  <2>2. \A d \in durable : d.path \in Files
    BY DEF TypeOK
  <2>3. Nothing \notin Files
    BY SystemAssumption DEF Files
  <2> QED BY <1>0, <2>1, <2>2, <2>3 DEF Rename, PathsSettled, Settled, Whole
<1>3. FreshRuns' /\ OneWriter' /\ AtFirstBlock'
  <2>1. \A q \in Runs : step'[q] \in Unstarted => step[q] \in Unstarted
    BY DEF Rename, Unstarted, TypeOK
  <2>2. Nothing \notin Runs
    BY SystemAssumption
  <2>3. FreshRuns'
    BY <1>0, <2>1, <2>2 DEF Rename, FreshRuns
  <2> QED BY <2>3 DEF Rename, OneWriter, AtFirstBlock, Writing, TypeOK
<1>4. Written'
  BY DEF Rename, Written, OneWriter, Writing, TypeOK
<1>5. ReadWhole'
  BY DEF Rename, ReadWhole, Writing, TypeOK
<1> QED BY <1>1, <1>2, <1>3, <1>4, <1>5

LEMMA StopKeeps == ASSUME ~Overlap, IInv, NEW r \in Runs, Stop(r) PROVE IInv'
<1> USE DEF IInv
<1>1. TypeOK' /\ PathsSettled'
  BY DEF Stop, TypeOK, Steps, PathsSettled, Settled
<1>2. FreshRuns' /\ OneWriter' /\ AtFirstBlock'
  BY DEF Stop, FreshRuns, Unstarted, OneWriter, AtFirstBlock, Writing, TypeOK
<1>3. Written' /\ ReadWhole'
  BY DEF Stop, Written, ReadWhole, Writing, TypeOK
<1> QED BY <1>1, <1>2, <1>3

LEMMA LosePowerKeeps == ASSUME ~Overlap, IInv, LosePower PROVE IInv'
<1> USE DEF IInv
<1>a. PICK d \in durable : dir' = d /\ durable' = {d}
  BY DEF LosePower
<1>b. PICK lost \in SUBSET (Files \X (1 .. Blocks)) :
        data' = [f \in Files |-> [b \in 1 .. Blocks |->
                   IF <<f, b>> \in lost THEN disk[f][b] ELSE data[f][b]]]
  BY DEF LosePower
<1>c. /\ disk' = data' /\ crashes' = crashes + 1 /\ crashes < MaxCrashes
      /\ step' = [r \in Runs |-> IF step[r] \in {"open", "done"} THEN step[r] ELSE "stopped"]
      /\ file' = file /\ pos' = pos /\ source' = source
  BY DEF LosePower
<1>1. TypeOK'
  <2>1. \A f \in Files, b \in 1 .. Blocks :
          disk[f][b] \in Files \cup {Nothing} /\ data[f][b] \in Files \cup {Nothing}
    <3>1. data \in [Files -> Texts] /\ disk \in [Files -> Texts]
      BY DEF TypeOK
    <3> HIDE DEF IInv
    <3> QED BY <3>1 DEF Texts
  <2>2. \A f \in Files :
          [b \in 1 .. Blocks |-> IF <<f, b>> \in lost THEN disk[f][b] ELSE data[f][b]] \in Texts
    BY <2>1 DEF Texts
  <2>3. data' \in [Files -> Texts]
    BY <1>b, <2>2
  <2>4. dir' \in [path : Files, partial : Files \cup {Nothing}]
    BY <1>a DEF TypeOK
  <2>5. step' \in [Runs -> Steps]
    BY <1>c DEF TypeOK, Steps
  <2>6. crashes' \in 0 .. MaxCrashes
    BY <1>c, SystemAssumption DEF TypeOK
  <2> QED BY <1>a, <1>c, <2>3, <2>4, <2>5, <2>6 DEF TypeOK
<1>2. PathsSettled'
  <2>1. d.path \in Files /\ data[d.path] = disk[d.path] /\ data[d.path] \in Whole
    BY DEF PathsSettled, Settled, TypeOK
  <2>2. data'[d.path] = [b \in 1 .. Blocks |-> data[d.path][b]]
    BY <1>b, <2>1
  <2>3. data[d.path] \in Texts
    BY <2>1 DEF TypeOK
  <2>4. data'[d.path] = data[d.path]
    BY <2>2, <2>3 DEF Texts
  <2> QED BY <1>a, <1>c, <2>1, <2>4 DEF PathsSettled, Settled, Whole
<1>3. FreshRuns' /\ OneWriter' /\ AtFirstBlock'
  BY <1>a, <1>c DEF FreshRuns, Unstarted, OneWriter, AtFirstBlock, Writing
<1>4. Written' /\ ReadWhole'
  BY <1>c DEF Written, ReadWhole, Writing, Whole
<1> QED BY <1>1, <1>2, <1>3, <1>4

LEMMA NextKeeps == ASSUME ~Overlap, IInv, [Next]_vars PROVE IInv'
<1>1. CASE Next
  BY <1>1, OpenKeeps, ReadKeeps, CreateKeeps, WriteAllKeeps, SyncAllKeeps, RenameKeeps,
     StopKeeps, LosePowerKeeps DEF Next
<1>2. CASE UNCHANGED vars
  BY <1>2 DEF vars, IInv, TypeOK, PathsSettled, Settled, FreshRuns, Unstarted, OneWriter,
     AtFirstBlock, Written, ReadWhole, Whole
<1> QED BY <1>1, <1>2

(* write_in_place on any number of runs that do not overlap, with texts of   *)
(* any length: no failure, kill or loss of power leaves a part of a text.    *)
THEOREM RunsLeaveTheDocumentWhole ==
  ASSUME ~Overlap
  PROVE  Spec => []DocumentIsWhole
<1>1. Init => IInv
  BY InitIInv
<1>2. IInv /\ [Next]_vars => IInv'
  BY NextKeeps
<1>3. IInv => DocumentIsWhole
  BY DEF IInv, PathsSettled, Settled, ReadWhole, DocumentIsWhole
<1> QED BY <1>1, <1>2, <1>3, PTL DEF Spec

(* The types of the model, from the same invariant. *)
THEOREM TypeCorrect ==
  ASSUME ~Overlap
  PROVE  Spec => []TypeOK
<1>1. Init => IInv
  BY InitIInv
<1>2. IInv /\ [Next]_vars => IInv'
  BY NextKeeps
<1>3. IInv => TypeOK
  BY DEF IInv
<1> QED BY <1>1, <1>2, <1>3, PTL DEF Spec

-----------------------------------------------------------------------------
(* The manifest and the commands of corpus-tool. *)
IsRecord(r) ==
  /\ r = [class |-> r.class, text |-> r.text, sha |-> r.sha, split |-> r.split]
  /\ r.class \in Classes
IsManifest(m) == m = [id \in DOMAIN m |-> m[id]] /\ \A id \in DOMAIN m : IsRecord(m[id])
Shaped(c) ==
  c = [name |-> c.name, step |-> c.step, todo |-> c.todo, recs |-> c.recs,
       known |-> c.known, ids |-> c.ids, models |-> c.models, changed |-> c.changed]
Names == {"idle", "ingest", "generate", "remove", "fix-entities", "split", "seal"}

CorpusType ==
  /\ incoming \subseteq DOMAIN Fragments
  /\ Shaped(cmd) /\ cmd.name \in Names
  /\ cmd.name = "idle" => cmd = Idle
  /\ IsManifest(manifest)
  /\ cmd.name \notin {"idle", "seal"} => IsManifest(cmd.recs) /\ cmd.step \in {"each", "write"}

Ingested(k) ==
  /\ cmd.recs = With(manifest, cmd.ids[k], Record("human", k, Content(k, "clean")))
  /\ cmd.ids[k] \in DOMAIN collection /\ collection[cmd.ids[k]] = Content(k, "clean")
Ingesting == cmd.name = "ingest" =>
  /\ cmd.todo \subseteq incoming /\ cmd.ids = [k \in incoming |-> AssignId(k)]
  /\ cmd.known \subseteq DOMAIN manifest
  /\ \A k \in cmd.todo : cmd.ids[k] \in DOMAIN manifest => cmd.ids[k] \in cmd.known
  /\ cmd.step = "each" => cmd.recs = manifest
  /\ cmd.step = "write" => \E k \in Due : ~IngestSkips(k) /\ Ingested(k)

Generated(id, content) ==
  /\ id \notin DOMAIN manifest
  /\ cmd.recs = With(manifest, id, Record("llm", 0, content))
  /\ id \in DOMAIN collection /\ collection[id] = content
Generating == cmd.name = "generate" =>
  /\ cmd.todo \subseteq DOMAIN Jobs
  /\ cmd.known = DOMAIN cmd.recs
  /\ cmd.step = "each" => cmd.recs = manifest
  /\ cmd.step = "write" => \E n \in Due : \E content : Generated(Jobs[n].id, content)

Removing == cmd.name = "remove" =>
  /\ cmd.recs = Without(manifest, cmd.changed)
  /\ \A n \in cmd.todo : ById[n] \in cmd.changed

Decoding == cmd.name = "fix-entities" =>
  /\ DOMAIN cmd.recs = DOMAIN manifest
  /\ \A n \in cmd.todo : ById[n] \in DOMAIN manifest
  /\ \A id \in DOMAIN manifest :
       /\ cmd.recs[id].class = manifest[id].class /\ cmd.recs[id].text = manifest[id].text
       /\ cmd.recs[id].split = manifest[id].split
       /\ id \notin cut => id \in DOMAIN collection /\ collection[id] = cmd.recs[id].sha

Splitting == cmd.name = "split" =>
  /\ cmd.step = "write" /\ cmd.recs = Assigned(manifest)
  /\ \A class \in Classes : MembershipKept(manifest, class)

Sealing == cmd.name = "seal" =>
  /\ cmd.step = "lock" /\ cmd.recs = Sealed
  /\ \A id \in HoldoutIds : Honest(id)

Unfinished == IF cmd.name \in {"remove", "fix-entities"} THEN cmd.changed ELSE {}
FilesMatch ==
  \A id \in DOMAIN manifest : Honest(id) \/ id \in cut \cup Unfinished

CorpusInv ==
  /\ CorpusType /\ Ingesting /\ Generating /\ Removing /\ Decoding /\ Splitting /\ Sealing
  /\ FilesMatch

-----------------------------------------------------------------------------
(* Functions with one value more, and with fewer. *)
LEMMA WithIs ==
  ASSUME NEW f, NEW x, NEW y
  PROVE  /\ With(f, x, y) = [z \in DOMAIN With(f, x, y) |-> With(f, x, y)[z]]
         /\ DOMAIN With(f, x, y) = DOMAIN f \cup {x}
         /\ With(f, x, y)[x] = y
         /\ \A z \in DOMAIN f : z # x => With(f, x, y)[z] = f[z]
BY DEF With

LEMMA WithoutIs ==
  ASSUME NEW f, NEW S
  PROVE  /\ Without(f, S) = [z \in DOMAIN Without(f, S) |-> Without(f, S)[z]]
         /\ DOMAIN Without(f, S) = DOMAIN f \ S
         /\ \A z \in DOMAIN f \ S : Without(f, S)[z] = f[z]
BY DEF Without, Restrict

LEMMA WholeLinesAre ==
  ASSUME NEW f, NEW g \in WholeLines(f)
  PROVE  /\ g = [z \in DOMAIN g |-> g[z]]
         /\ DOMAIN g \subseteq DOMAIN f
         /\ \A z \in DOMAIN g : g[z] = f[z]
BY DEF WholeLines, Restrict

LEMMA RestrictedManifest ==
  ASSUME NEW f, NEW g, IsManifest(f), g = [z \in DOMAIN g |-> g[z]],
         DOMAIN g \subseteq DOMAIN f, \A z \in DOMAIN g : g[z] = f[z]
  PROVE  IsManifest(g)
BY DEF IsManifest

LEMMA ExtendedManifest ==
  ASSUME NEW f, NEW x, NEW r, IsManifest(f), IsRecord(r)
  PROVE  IsManifest(With(f, x, r))
<1> DEFINE g == With(f, x, r)
<1>1. g = [z \in DOMAIN g |-> g[z]] /\ DOMAIN g = DOMAIN f \cup {x} /\ g[x] = r
      /\ \A z \in DOMAIN f : z # x => g[z] = f[z]
  BY DEF With
<1> HIDE DEF g
<1>2. \A id \in DOMAIN g : IsRecord(g[id])
  BY <1>1 DEF IsManifest
<1>3. IsManifest(g)
  BY <1>1, <1>2 DEF IsManifest
<1> QED BY <1>3 DEF g

LEMMA RecordIs ==
  ASSUME NEW class \in Classes, NEW text, NEW content
  PROVE  /\ IsRecord(Record(class, text, content))
         /\ Record(class, text, content).class = class
         /\ Record(class, text, content).text = text
         /\ Record(class, text, content).sha = content
         /\ Record(class, text, content).split = "none"
BY DEF IsRecord, Record

(* No two fragments have the same id. *)
LEMMA IdsDiffer ==
  ASSUME incoming \subseteq DOMAIN Fragments, NEW j \in incoming, NEW k \in incoming,
         AssignId(j) = AssignId(k)
  PROVE  j = k
<1>1. j \in Int /\ k \in Int /\ j # 0 /\ k # 0
  BY CorpusAssumption
<1>2. \A i \in incoming : AssignId(i) \in {<<Fragments[i].source, 0>>, <<Fragments[i].source, i>>}
  BY DEF AssignId, IdAmong
<1> DEFINE s == Fragments[j].source
           t == Fragments[k].source
<1>p. \A b, d : <<s, b>> = <<t, d>> => s = t /\ b = d
  OBVIOUS
<1>q. /\ AssignId(j) = <<s, 0>> \/ AssignId(j) = <<s, j>>
      /\ AssignId(k) = <<t, 0>> \/ AssignId(k) = <<t, k>>
  BY <1>2
<1> HIDE DEF s, t
<1>3. CASE AssignId(j) = <<s, j>>
  BY <1>1, <1>p, <1>q, <1>3
<1>4. CASE AssignId(j) = <<s, 0>>
  <2>1. AssignId(k) = <<t, 0>> /\ s = t
    BY <1>1, <1>p, <1>q, <1>4
  <2>2. AssignId(j) # <<s, j>> /\ AssignId(k) # <<t, k>>
    BY <1>1, <1>4, <2>1
  <2>3. ~(k < j) /\ ~(j < k)
    BY <2>1, <2>2 DEF AssignId, IdAmong, s, t
  <2> QED BY <1>1, <2>3
<1> QED BY <1>q, <1>3, <1>4

-----------------------------------------------------------------------------
LEMMA CorpusInitInv == CorpusInit => CorpusInv
<1> SUFFICES ASSUME CorpusInit PROVE CorpusInv
  OBVIOUS
<1> DEFINE Ids == [k \in {k \in incoming : Fragments[k].kept} |-> AssignId(k)]
           Holder(id) == CHOOSE k \in DOMAIN Ids : Ids[k] = id
           Old(id) == Content(Holder(id), "entities")
<1>1. /\ manifest = [id \in Range(Ids) |-> Record("human", Holder(id), Old(id))]
      /\ collection = [id \in Range(Ids) |-> Old(id)]
  BY DEF CorpusInit
<1> HIDE DEF Ids, Old, Holder
<1>2. IsManifest(manifest)
  BY <1>1 DEF IsManifest, IsRecord, Record, Classes
<1>3. Shaped(cmd) /\ cmd.name = "idle" /\ cmd = Idle
  BY DEF CorpusInit, Shaped, Idle
<1>4. CorpusType
  BY <1>2, <1>3, CorpusAssumption DEF CorpusType, Names, CorpusInit
<1>5. FilesMatch
  BY <1>1 DEF FilesMatch, Honest, Record
<1> QED BY <1>3, <1>4, <1>5
        DEF CorpusInv, Ingesting, Generating, Removing, Decoding, Splitting, Sealing

-----------------------------------------------------------------------------
(* What a command leaves alone, and what remains once it has ended. *)
LEMMA Vacuous ==
  /\ cmd'.name # "ingest" => Ingesting'
  /\ cmd'.name # "generate" => Generating'
  /\ cmd'.name # "remove" => Removing'
  /\ cmd'.name # "fix-entities" => Decoding'
  /\ cmd'.name # "split" => Splitting'
  /\ cmd'.name # "seal" => Sealing'
BY DEF Ingesting, Generating, Removing, Decoding, Splitting, Sealing

LEMMA IdleIs ==
  /\ Shaped(Idle) /\ Idle.name = "idle" /\ Idle.step = "each" /\ Idle.changed = {}
  /\ Idle.todo = {}
BY DEF Shaped, Idle

LEMMA BackToIdle ==
  ASSUME CorpusInv, cmd' = Idle, UNCHANGED incoming,
         IsManifest(manifest'),
         \A id \in DOMAIN manifest' :
           id \in cut' \/ (id \in DOMAIN collection' /\ collection'[id] = manifest'[id].sha)
  PROVE  CorpusInv'
<1>1. CorpusType'
  BY IdleIs DEF CorpusInv, CorpusType, Names
<1>2. FilesMatch'
  BY IdleIs DEF FilesMatch, Honest
<1> QED BY <1>1, <1>2, IdleIs, Vacuous DEF CorpusInv

(* A record's file is its own, in the corpus or in the copy a command works on. *)
Matches(m, id) == id \in DOMAIN collection /\ collection[id] = m[id].sha

LEMMA IdleMatches ==
  ASSUME CorpusInv, cmd.name \notin {"remove", "fix-entities"},
         NEW id \in DOMAIN manifest
  PROVE  id \in cut \/ (id \in DOMAIN collection /\ collection[id] = manifest[id].sha)
BY DEF CorpusInv, FilesMatch, Unfinished, Honest

(* A command that starts leaves everything but cmd as it was. *)
LEMMA StartsIn ==
  ASSUME CorpusInv, Reads, UNCHANGED <<incoming, manifest, collection, lock, cut>>,
         Shaped(cmd'), cmd'.name \in Names \ {"idle"},
         cmd'.name # "seal" => IsManifest(cmd'.recs) /\ cmd'.step \in {"each", "write"}
  PROVE  CorpusType' /\ FilesMatch'
<1>1. CorpusType'
  BY DEF CorpusInv, CorpusType, Reads
<1>2. FilesMatch'
  <2>1. cmd.name = "idle"
    BY IdleIs DEF Reads
  <2>2. \A id \in DOMAIN manifest : id \in cut \/ Honest(id)
    BY <2>1, IdleMatches DEF Honest
  <2> QED BY <2>1, <2>2 DEF FilesMatch, Honest
<1> QED BY <1>1, <1>2

LEMMA StartedIs ==
  ASSUME NEW name, NEW todo
  PROVE  /\ Shaped(Started(name, todo))
         /\ Started(name, todo).name = name /\ Started(name, todo).step = "each"
         /\ Started(name, todo).todo = todo /\ Started(name, todo).recs = manifest
         /\ Started(name, todo).known = DOMAIN manifest /\ Started(name, todo).changed = {}
BY DEF Started, Shaped

-----------------------------------------------------------------------------
LEMMA CollectKeeps == ASSUME CorpusInv, Collect PROVE CorpusInv'
<1>1. cmd.name = "idle"
  BY IdleIs DEF Collect
<1>2. CorpusType'
  BY DEF Collect, CorpusInv, CorpusType
<1>3. FilesMatch'
  BY DEF Collect, CorpusInv, FilesMatch, Honest, Unfinished
<1> QED BY <1>1, <1>2, <1>3, Vacuous DEF CorpusInv, Collect

LEMMA StartIngestKeeps == ASSUME CorpusInv, StartIngest PROVE CorpusInv'
<1> DEFINE ids == [k \in incoming |-> AssignId(k)]
           c == Started("ingest", incoming)
<1>1. cmd' = [c EXCEPT !.ids = ids]
  BY DEF StartIngest
<1>2. /\ Shaped(cmd') /\ cmd'.name = "ingest" /\ cmd'.step = "each" /\ cmd'.todo = incoming
      /\ cmd'.recs = manifest /\ cmd'.known = DOMAIN manifest /\ cmd'.ids = ids
  <2>1. Shaped(c) /\ c.name = "ingest" /\ c.step = "each" /\ c.todo = incoming /\ c.recs = manifest
        /\ c.known = DOMAIN manifest
    BY StartedIs
  <2> HIDE DEF c, ids
  <2> QED BY <1>1, <2>1 DEF Shaped
<1> HIDE DEF c
<1>3. IsManifest(manifest)
  BY DEF StartIngest, Reads, CorpusInv, CorpusType
<1>4. CorpusType' /\ FilesMatch'
  BY <1>2, <1>3, StartsIn DEF StartIngest, Names
<1>5. Ingesting'
  BY <1>2 DEF Ingesting, StartIngest, AssignId, IdAmong
<1> QED BY <1>2, <1>4, <1>5, Vacuous DEF CorpusInv

LEMMA IngestOneKeeps == ASSUME CorpusInv, IngestOne PROVE CorpusInv'
<1>1. /\ Shaped(cmd) /\ cmd.name = "ingest" /\ cmd.step = "each" /\ cmd.recs = manifest
      /\ IsManifest(manifest) /\ Ingesting
  BY DEF IngestOne, Running, CorpusInv, CorpusType, Ingesting
<1>2. PICK k \in Due :
        IF IngestSkips(k)
        THEN cmd' = [cmd EXCEPT !.todo = Rest] /\ UNCHANGED <<collection, cut>>
        ELSE /\ collection' = With(collection, cmd.ids[k], Content(k, "clean"))
             /\ cmd' = [cmd EXCEPT !.recs = With(@, cmd.ids[k], Record("human", k, Content(k, "clean"))),
                                   !.step = "write"]
             /\ cut' = cut \ {cmd.ids[k]}
  BY DEF IngestOne
<1>3. UNCHANGED <<incoming, manifest, lock>>
  BY DEF IngestOne
<1>4. CASE IngestSkips(k)
  <2>1. cmd' = [cmd EXCEPT !.todo = Rest] /\ UNCHANGED <<collection, cut>>
    BY <1>2, <1>4
  <2>2. /\ Shaped(cmd') /\ cmd'.name = "ingest" /\ cmd'.step = "each" /\ cmd'.recs = manifest
        /\ cmd'.todo = Rest /\ cmd'.ids = cmd.ids /\ cmd'.known = cmd.known
    BY <1>1, <2>1 DEF Shaped
  <2>3. CorpusType'
    BY <1>1, <1>3, <2>2 DEF CorpusInv, CorpusType, Names
  <2>4. Ingesting'
    BY <1>1, <1>3, <2>2 DEF Ingesting, Rest, AssignId, IdAmong
  <2>5. FilesMatch'
    BY <1>1, <1>3, <2>1, <2>2, IdleMatches DEF FilesMatch, Honest
  <2> QED BY <2>2, <2>3, <2>4, <2>5, Vacuous DEF CorpusInv
<1>5. CASE ~IngestSkips(k)
  <2> DEFINE r == Record("human", k, Content(k, "clean"))
  <2>1. /\ collection' = With(collection, cmd.ids[k], Content(k, "clean"))
        /\ cmd' = [cmd EXCEPT !.recs = With(manifest, cmd.ids[k], r), !.step = "write"]
        /\ cut' = cut \ {cmd.ids[k]}
    BY <1>1, <1>2, <1>5 DEF Shaped
  <2>2. /\ Shaped(cmd') /\ cmd'.name = "ingest" /\ cmd'.step = "write"
        /\ cmd'.recs = With(manifest, cmd.ids[k], r)
        /\ cmd'.todo = cmd.todo /\ cmd'.ids = cmd.ids /\ cmd'.known = cmd.known
    <3> HIDE DEF r
    <3> QED BY <1>1, <2>1 DEF Shaped
  <2>3. CorpusType'
    <3>1. IsManifest(With(manifest, cmd.ids[k], r))
      BY <1>1, ExtendedManifest, RecordIs DEF Classes
    <3> HIDE DEF r
    <3> QED BY <1>1, <1>3, <2>2, <3>1 DEF CorpusInv, CorpusType, Names
  <2>4. cmd.ids[k] \notin DOMAIN manifest
    BY <1>1, <1>5 DEF Ingesting, IngestSkips, Due
  <2>5. Ingesting'
    <3>1. cmd.ids[k] \in DOMAIN collection' /\ collection'[cmd.ids[k]] = Content(k, "clean")
      BY <2>1 DEF With
    <3>2. Ingested(k)' /\ ~IngestSkips(k)' /\ k \in Due'
      BY <1>3, <1>5, <2>2, <3>1 DEF Ingested, IngestSkips, Due
    <3> HIDE DEF r
    <3> QED BY <1>1, <1>3, <2>2, <3>2 DEF Ingesting, AssignId, IdAmong
  <2>6. FilesMatch'
    <3>1. \A id \in DOMAIN manifest : id # cmd.ids[k]
      BY <2>4
    <3>2. \A id \in DOMAIN collection : id # cmd.ids[k] => id \in DOMAIN collection' /\ collection'[id] = collection[id]
      BY <2>1 DEF With
    <3>3. \A id \in DOMAIN manifest : id \in cut \/ (id \in DOMAIN collection /\ collection[id] = manifest[id].sha)
      BY <1>1, IdleMatches
    <3> QED BY <1>3, <2>1, <3>1, <3>2, <3>3 DEF FilesMatch, Honest
  <2> HIDE DEF r
  <2> QED BY <2>2, <2>3, <2>5, <2>6, Vacuous DEF CorpusInv
<1> QED BY <1>4, <1>5

LEMMA IngestRecordKeeps == ASSUME CorpusInv, IngestRecord PROVE CorpusInv'
<1>1. /\ Shaped(cmd) /\ cmd.name = "ingest" /\ cmd.step = "write" /\ IsManifest(cmd.recs)
      /\ IsManifest(manifest) /\ Ingesting /\ incoming \subseteq DOMAIN Fragments
  BY DEF IngestRecord, Running, CorpusInv, CorpusType
<1>2. PICK k \in Due : ~IngestSkips(k) /\ Ingested(k)
  BY <1>1 DEF Ingesting
<1>3. /\ manifest' = cmd.recs /\ cmd' = [cmd EXCEPT !.step = "each", !.todo = Rest]
      /\ UNCHANGED <<incoming, collection, lock, cut>>
  BY DEF IngestRecord, WriteManifest
<1>4. /\ Shaped(cmd') /\ cmd'.name = "ingest" /\ cmd'.step = "each" /\ cmd'.recs = cmd.recs
      /\ cmd'.todo = Rest /\ cmd'.ids = cmd.ids /\ cmd'.known = cmd.known
  BY <1>1, <1>3 DEF Shaped
<1> DEFINE r == Record("human", k, Content(k, "clean"))
           id == cmd.ids[k]
<1>5. /\ manifest' = With(manifest, id, r) /\ r.sha = Content(k, "clean")
      /\ id \in DOMAIN collection /\ collection[id] = Content(k, "clean")
      /\ DOMAIN manifest' = DOMAIN manifest \cup {id} /\ manifest'[id] = r
      /\ \A z \in DOMAIN manifest : z # id => manifest'[z] = manifest[z]
  BY <1>2, <1>3, RecordIs DEF Ingested, Classes, With
<1>6. \A j \in Rest : cmd.ids[j] # id
  BY <1>1, IdsDiffer DEF Rest, Due, Ingesting
<1> HIDE DEF r, id
<1>7. CorpusType'
  BY <1>1, <1>3, <1>4 DEF CorpusInv, CorpusType, Names
<1>8. Ingesting'
  BY <1>1, <1>3, <1>4, <1>5, <1>6 DEF Ingesting, Rest, AssignId, IdAmong
<1>9. FilesMatch'
  <2>1. \A z \in DOMAIN manifest : z \in cut \/ (z \in DOMAIN collection /\ collection[z] = manifest[z].sha)
    BY <1>1, IdleMatches
  <2> QED BY <1>3, <1>5, <2>1 DEF FilesMatch, Honest
<1> QED BY <1>4, <1>7, <1>8, <1>9, Vacuous DEF CorpusInv

-----------------------------------------------------------------------------
(* What a command is about to write as the manifest fits the files. *)
LEMMA RecsMatch ==
  ASSUME CorpusInv, cmd.step = "write"
  PROVE  /\ IsManifest(cmd.recs)
         /\ \A id \in DOMAIN cmd.recs : id \in cut \/ Matches(cmd.recs, id)
<1>1. cmd.name \in Names \ {"idle", "seal"} /\ IsManifest(cmd.recs)
  BY IdleIs DEF CorpusInv, CorpusType, Sealing
<1>2. CASE cmd.name = "ingest"
  <2>1. PICK k \in Due : Ingested(k)
    BY <1>2 DEF CorpusInv, Ingesting
  <2>2. \A id \in DOMAIN manifest : id \in cut \/ Matches(manifest, id)
    BY <1>1, <1>2, IdleMatches DEF Matches
  <2> QED BY <1>1, <2>1, <2>2 DEF Ingested, With, Matches, Record
<1>3. CASE cmd.name = "generate"
  <2>0. PICK n \in Due : \E content : Generated(Jobs[n].id, content)
    BY <1>3 DEF CorpusInv, Generating
  <2>1. PICK content : Generated(Jobs[n].id, content)
    BY <2>0
  <2>2. \A id \in DOMAIN manifest : id \in cut \/ Matches(manifest, id)
    BY <1>1, <1>3, IdleMatches DEF Matches
  <2> QED BY <1>1, <2>1, <2>2 DEF Generated, With, Matches, Record
<1>4. CASE cmd.name = "remove"
  BY <1>1, <1>4 DEF CorpusInv, Removing, FilesMatch, Unfinished, Honest, Without, Restrict, Matches
<1>5. CASE cmd.name = "fix-entities"
  BY <1>1, <1>5 DEF CorpusInv, Decoding, Matches
<1>6. CASE cmd.name = "split"
  <2>1. \A id \in DOMAIN manifest : id \in cut \/ Matches(manifest, id)
    BY <1>1, <1>6, IdleMatches DEF Matches
  <2>2. DOMAIN cmd.recs = DOMAIN manifest /\ \A id \in DOMAIN manifest : cmd.recs[id].sha = manifest[id].sha
    BY <1>1, <1>6 DEF CorpusInv, Splitting, Assigned, CorpusType, IsManifest, IsRecord
  <2> QED BY <1>1, <2>1, <2>2 DEF Matches
<1> QED BY <1>1, <1>2, <1>3, <1>4, <1>5, <1>6 DEF Names

LEMMA WritesTheManifest ==
  ASSUME CorpusInv, WriteManifest(Idle),
         \A id \in DOMAIN cmd.recs : id \in cut => id \in cut'
  PROVE  CorpusInv'
<1>1. /\ cmd.step = "write" /\ manifest' = cmd.recs /\ cmd' = Idle
      /\ UNCHANGED <<incoming, collection, lock>>
  BY DEF WriteManifest
<1>2. /\ IsManifest(cmd.recs)
      /\ \A id \in DOMAIN cmd.recs : id \in cut \/ (id \in DOMAIN collection /\ collection[id] = cmd.recs[id].sha)
  BY <1>1, RecsMatch DEF Matches
<1> QED BY <1>1, <1>2, BackToIdle

-----------------------------------------------------------------------------
LEMMA StartGenerateKeeps == ASSUME CorpusInv, StartGenerate PROVE CorpusInv'
<1> DEFINE c == Started("generate", DOMAIN Jobs)
<1>1. PICK available : cmd' = [c EXCEPT !.models = available]
  BY DEF StartGenerate
<1>2. /\ Shaped(cmd') /\ cmd'.name = "generate" /\ cmd'.step = "each" /\ cmd'.todo = DOMAIN Jobs
      /\ cmd'.recs = manifest /\ cmd'.known = DOMAIN manifest
  <2>1. Shaped(c) /\ c.name = "generate" /\ c.step = "each" /\ c.todo = DOMAIN Jobs
        /\ c.recs = manifest /\ c.known = DOMAIN manifest
    BY StartedIs
  <2> HIDE DEF c
  <2> QED BY <1>1, <2>1 DEF Shaped
<1> HIDE DEF c
<1>3. IsManifest(manifest)
  BY DEF StartGenerate, Reads, CorpusInv, CorpusType
<1>4. CorpusType' /\ FilesMatch'
  BY <1>2, <1>3, StartsIn DEF StartGenerate, Names
<1>5. Generating'
  BY <1>2 DEF Generating, StartGenerate
<1> QED BY <1>2, <1>4, <1>5, Vacuous DEF CorpusInv

LEMMA GenerateOneKeeps == ASSUME CorpusInv, GenerateOne PROVE CorpusInv'
<1>1. /\ Shaped(cmd) /\ cmd.name = "generate" /\ cmd.step = "each" /\ cmd.recs = manifest
      /\ IsManifest(manifest) /\ Generating /\ cmd.known = DOMAIN manifest
  BY DEF GenerateOne, Running, CorpusInv, CorpusType, Generating
<1>2. PICK n \in Due :
        IF GenerateSkips(Jobs[n])
        THEN cmd' = [cmd EXCEPT !.todo = Rest] /\ UNCHANGED <<collection, cut>>
        ELSE \E content :
               /\ collection' = With(collection, Jobs[n].id, content)
               /\ cmd' = [cmd EXCEPT !.recs = With(@, Jobs[n].id, Record("llm", 0, content)),
                                     !.known = @ \cup {Jobs[n].id}, !.step = "write"]
               /\ cut' = cut \ {Jobs[n].id}
  BY DEF GenerateOne
<1>3. UNCHANGED <<incoming, manifest, lock>>
  BY DEF GenerateOne
<1>4. CASE GenerateSkips(Jobs[n])
  <2>1. cmd' = [cmd EXCEPT !.todo = Rest] /\ UNCHANGED <<collection, cut>>
    BY <1>2, <1>4
  <2>2. /\ Shaped(cmd') /\ cmd'.name = "generate" /\ cmd'.step = "each" /\ cmd'.recs = manifest
        /\ cmd'.todo = Rest /\ cmd'.known = cmd.known
    BY <1>1, <2>1 DEF Shaped
  <2>3. CorpusType'
    BY <1>1, <1>3, <2>2 DEF CorpusInv, CorpusType, Names
  <2>4. Generating'
    BY <1>1, <1>3, <2>2 DEF Generating, Rest
  <2>5. FilesMatch'
    BY <1>1, <1>3, <2>1, <2>2, IdleMatches DEF FilesMatch, Honest
  <2> QED BY <2>2, <2>3, <2>4, <2>5, Vacuous DEF CorpusInv
<1>5. CASE ~GenerateSkips(Jobs[n])
  <2>1. PICK content :
          /\ collection' = With(collection, Jobs[n].id, content)
          /\ cmd' = [cmd EXCEPT !.recs = With(@, Jobs[n].id, Record("llm", 0, content)),
                                !.known = @ \cup {Jobs[n].id}, !.step = "write"]
          /\ cut' = cut \ {Jobs[n].id}
    BY <1>2, <1>5
  <2> DEFINE r == Record("llm", 0, content)
             id == Jobs[n].id
  <2>2. /\ Shaped(cmd') /\ cmd'.name = "generate" /\ cmd'.step = "write"
        /\ cmd'.recs = With(manifest, id, r)
        /\ cmd'.todo = cmd.todo /\ cmd'.known = DOMAIN manifest \cup {id}
    <3>1. cmd' = [cmd EXCEPT !.recs = With(manifest, id, r), !.known = DOMAIN manifest \cup {id},
                             !.step = "write"]
      BY <1>1, <2>1 DEF Shaped
    <3> HIDE DEF r, id
    <3> QED BY <1>1, <3>1 DEF Shaped
  <2>3. CorpusType'
    <3>1. IsManifest(With(manifest, id, r))
      BY <1>1, ExtendedManifest, RecordIs DEF Classes
    <3> HIDE DEF r, id
    <3> QED BY <1>1, <1>3, <2>2, <3>1 DEF CorpusInv, CorpusType, Names
  <2>4. id \notin DOMAIN manifest
    BY <1>1, <1>5 DEF GenerateSkips
  <2>5. id \in DOMAIN collection' /\ collection'[id] = content
    BY <2>1 DEF With
  <2>6. Generated(id, content)'
    BY <1>3, <2>2, <2>4, <2>5 DEF Generated
  <2>7. Generating'
    <3>1. n \in Due' /\ DOMAIN cmd'.recs = DOMAIN manifest \cup {id}
      BY <2>2 DEF Due, With
    <3> HIDE DEF r
    <3> QED BY <1>1, <2>2, <2>6, <3>1 DEF Generating
  <2>8. FilesMatch'
    <3>1. \A x \in DOMAIN collection : x # id => x \in DOMAIN collection' /\ collection'[x] = collection[x]
      BY <2>1 DEF With
    <3>2. \A x \in DOMAIN manifest : x \in cut \/ (x \in DOMAIN collection /\ collection[x] = manifest[x].sha)
      BY <1>1, IdleMatches
    <3> QED BY <1>3, <2>1, <2>4, <3>1, <3>2 DEF FilesMatch, Honest
  <2> HIDE DEF r, id
  <2> QED BY <2>2, <2>3, <2>7, <2>8, Vacuous DEF CorpusInv
<1> QED BY <1>4, <1>5

LEMMA GenerateRecordKeeps == ASSUME CorpusInv, GenerateRecord PROVE CorpusInv'
<1>1. /\ Shaped(cmd) /\ cmd.name = "generate" /\ cmd.step = "write" /\ IsManifest(cmd.recs)
      /\ IsManifest(manifest) /\ Generating
  BY DEF GenerateRecord, Running, CorpusInv, CorpusType
<1>2. /\ manifest' = cmd.recs /\ cmd' = [cmd EXCEPT !.step = "each", !.todo = Rest]
      /\ UNCHANGED <<incoming, collection, lock, cut>>
  BY DEF GenerateRecord, WriteManifest
<1>3. /\ Shaped(cmd') /\ cmd'.name = "generate" /\ cmd'.step = "each" /\ cmd'.recs = cmd.recs
      /\ cmd'.todo = Rest /\ cmd'.known = cmd.known
  BY <1>1, <1>2 DEF Shaped
<1>4. CorpusType'
  BY <1>1, <1>2, <1>3 DEF CorpusInv, CorpusType, Names
<1>5. Generating'
  BY <1>1, <1>2, <1>3 DEF Generating, Rest
<1>6. FilesMatch'
  BY <1>1, <1>2, RecsMatch DEF FilesMatch, Honest, Matches
<1> QED BY <1>3, <1>4, <1>5, <1>6, Vacuous DEF CorpusInv

LEMMA ServerFailsKeeps == ASSUME CorpusInv, ServerFails PROVE CorpusInv'
<1>1. cmd.name = "generate" /\ IsManifest(manifest)
  BY DEF ServerFails, Running, CorpusInv, CorpusType
<1>2. \A x \in DOMAIN manifest : x \in cut \/ (x \in DOMAIN collection /\ collection[x] = manifest[x].sha)
  BY <1>1, IdleMatches
<1> QED BY <1>1, <1>2, BackToIdle DEF ServerFails

-----------------------------------------------------------------------------
LEMMA StartRemoveKeeps == ASSUME CorpusInv, StartRemove PROVE CorpusInv'
<1>1. PICK ids : cmd' = [Started("remove", Listed(ids)) EXCEPT
                           !.recs = Without(manifest, ids), !.changed = ids]
  BY DEF StartRemove
<1>2. /\ Shaped(cmd') /\ cmd'.name = "remove" /\ cmd'.step = "each" /\ cmd'.todo = Listed(ids)
      /\ cmd'.recs = Without(manifest, ids) /\ cmd'.changed = ids
  BY <1>1 DEF Started, Shaped
<1>3. IsManifest(manifest)
  BY DEF StartRemove, Reads, CorpusInv, CorpusType
<1>4. IsManifest(Without(manifest, ids))
  BY <1>3 DEF Without, Restrict, IsManifest
<1>5. CorpusType' /\ FilesMatch'
  BY <1>2, <1>4, StartsIn DEF StartRemove, Names
<1>6. Removing'
  BY <1>2 DEF Removing, StartRemove, Listed
<1> QED BY <1>2, <1>5, <1>6, Vacuous DEF CorpusInv

LEMMA RemoveOneKeeps == ASSUME CorpusInv, RemoveOne PROVE CorpusInv'
<1>1. /\ Shaped(cmd) /\ cmd.name = "remove" /\ cmd.step = "each" /\ IsManifest(cmd.recs)
      /\ IsManifest(manifest) /\ Removing
  BY DEF RemoveOne, Running, CorpusInv, CorpusType
<1>2. /\ collection' = Without(collection, {ById[n] : n \in Due})
      /\ cmd' = IF cmd.todo = {} THEN [cmd EXCEPT !.step = "write"] ELSE [cmd EXCEPT !.todo = Rest]
      /\ UNCHANGED <<incoming, manifest, lock, cut>>
  BY DEF RemoveOne
<1>3. /\ Shaped(cmd') /\ cmd'.name = "remove" /\ cmd'.step \in {"each", "write"}
      /\ cmd'.recs = cmd.recs /\ cmd'.changed = cmd.changed /\ cmd'.todo \subseteq cmd.todo
  BY <1>1, <1>2 DEF Shaped, Rest
<1>4. CorpusType'
  BY <1>1, <1>2, <1>3 DEF CorpusInv, CorpusType, Names
<1>5. Removing'
  BY <1>1, <1>2, <1>3 DEF Removing
<1>6. FilesMatch'
  <2>1. \A id \in DOMAIN collection :
          id \notin cmd.changed => id \in DOMAIN collection' /\ collection'[id] = collection[id]
    BY <1>1, <1>2 DEF Removing, Due, Without, Restrict
  <2> QED BY <1>1, <1>2, <1>3, <2>1 DEF CorpusInv, FilesMatch, Honest, Unfinished
<1> QED BY <1>3, <1>4, <1>5, <1>6, Vacuous DEF CorpusInv

LEMMA RemoveRecordsKeeps == ASSUME CorpusInv, RemoveRecords PROVE CorpusInv'
<1>1. cmd.recs = Without(manifest, cmd.changed) /\ WriteManifest(Idle) /\ cut' = cut \ cmd.changed
  BY DEF RemoveRecords, Running, CorpusInv, Removing
<1>2. \A id \in DOMAIN cmd.recs : id \notin cmd.changed
  BY <1>1 DEF Without, Restrict
<1> QED BY <1>1, <1>2, WritesTheManifest

-----------------------------------------------------------------------------
LEMMA StartFixEntitiesKeeps == ASSUME CorpusInv, StartFixEntities PROVE CorpusInv'
<1>1. /\ Shaped(cmd') /\ cmd'.name = "fix-entities" /\ cmd'.step = "each" /\ cmd'.recs = manifest
      /\ cmd'.todo = Listed(DOMAIN manifest)
  BY StartedIs DEF StartFixEntities
<1>2. IsManifest(manifest) /\ cmd.name = "idle"
  BY IdleIs DEF StartFixEntities, Reads, CorpusInv, CorpusType
<1>3. CorpusType' /\ FilesMatch'
  BY <1>1, <1>2, StartsIn DEF StartFixEntities, Names
<1>4. Decoding'
  <2>1. \A id \in DOMAIN manifest : id \in cut \/ (id \in DOMAIN collection /\ collection[id] = manifest[id].sha)
    BY <1>2, IdleMatches
  <2> QED BY <1>1, <2>1 DEF Decoding, StartFixEntities, Listed
<1> QED BY <1>1, <1>3, <1>4, Vacuous DEF CorpusInv

LEMMA FixOneKeeps == ASSUME CorpusInv, FixOne PROVE CorpusInv'
<1>1. /\ Shaped(cmd) /\ cmd.name = "fix-entities" /\ cmd.step = "each" /\ IsManifest(cmd.recs)
      /\ IsManifest(manifest) /\ Decoding
      /\ \A id \in DOMAIN manifest : Honest(id) \/ id \in cut \cup cmd.changed
  BY DEF FixOne, Running, CorpusInv, CorpusType, FilesMatch, Unfinished
<1>2. UNCHANGED <<incoming, manifest, lock>>
  BY DEF FixOne
<1>3. PICK n \in Due :
        \/ cmd' = Idle /\ cut' = cut \cup cmd.changed /\ UNCHANGED collection
        \/ cmd' = [cmd EXCEPT !.todo = Rest] /\ UNCHANGED <<collection, cut>>
        \/ LET decoded == [collection[ById[n]] EXCEPT !.form = "clean"]
           IN /\ collection' = [collection EXCEPT ![ById[n]] = decoded]
              /\ cmd' = [cmd EXCEPT !.todo = Rest, !.changed = @ \cup {ById[n]},
                                    !.recs = Refreshed(ById[n], decoded)]
              /\ UNCHANGED cut
              /\ ById[n] \in DOMAIN collection
  BY DEF FixOne
<1>4. CASE cmd' = Idle /\ cut' = cut \cup cmd.changed /\ UNCHANGED collection
  BY <1>1, <1>2, <1>4, BackToIdle DEF Honest
<1>5. CASE cmd' = [cmd EXCEPT !.todo = Rest] /\ UNCHANGED <<collection, cut>>
  <2>1. /\ Shaped(cmd') /\ cmd'.name = "fix-entities" /\ cmd'.step = "each" /\ cmd'.recs = cmd.recs
        /\ cmd'.changed = cmd.changed /\ cmd'.todo \subseteq cmd.todo
    BY <1>1, <1>5 DEF Shaped, Rest
  <2>2. CorpusType'
    BY <1>1, <1>2, <2>1 DEF CorpusInv, CorpusType, Names
  <2>3. Decoding'
    BY <1>1, <1>2, <1>5, <2>1 DEF Decoding
  <2>4. FilesMatch'
    BY <1>1, <1>2, <1>5, <2>1 DEF FilesMatch, Honest, Unfinished
  <2> QED BY <2>1, <2>2, <2>3, <2>4, Vacuous DEF CorpusInv
<1>6. ASSUME NEW decoded,
             collection' = [collection EXCEPT ![ById[n]] = decoded],
             cmd' = [cmd EXCEPT !.todo = Rest, !.changed = @ \cup {ById[n]},
                                !.recs = Refreshed(ById[n], decoded)],
             UNCHANGED cut, ById[n] \in DOMAIN collection
      PROVE  CorpusInv'
  <2> DEFINE id == ById[n]
             recs == Refreshed(id, decoded)
  <2>1. id \in DOMAIN manifest /\ DOMAIN cmd.recs = DOMAIN manifest
    BY <1>1 DEF Decoding, Due
  <2>2. /\ DOMAIN recs = DOMAIN manifest /\ recs = [z \in DOMAIN recs |-> recs[z]]
        /\ IsRecord(recs[id]) /\ recs[id].sha = decoded
        /\ recs[id].class = cmd.recs[id].class /\ recs[id].text = cmd.recs[id].text
        /\ recs[id].split = cmd.recs[id].split
        /\ \A z \in DOMAIN manifest : z # id => recs[z] = cmd.recs[z]
    <3> DEFINE f == cmd.recs
               r == f[id]
               e == [r EXCEPT !.sha = decoded]
    <3>1. recs = [f EXCEPT ![id] = e]
      BY DEF Refreshed
    <3>2. IsRecord(r) /\ f = [z \in DOMAIN f |-> f[z]] /\ id \in DOMAIN f /\ DOMAIN f = DOMAIN manifest
      BY <1>1, <2>1 DEF IsManifest
    <3> HIDE DEF r, f, recs
    <3>3. IsRecord(e) /\ e.sha = decoded /\ e.class = r.class /\ e.text = r.text /\ e.split = r.split
      BY <3>2 DEF IsRecord
    <3> HIDE DEF e
    <3> QED BY <3>1, <3>2, <3>3 DEF r, f
  <2> HIDE DEF recs
  <2>3. /\ Shaped(cmd') /\ cmd'.name = "fix-entities" /\ cmd'.step = "each" /\ cmd'.recs = recs
        /\ cmd'.changed = cmd.changed \cup {id} /\ cmd'.todo \subseteq cmd.todo
    <3>1. cmd' = [cmd EXCEPT !.todo = Rest, !.changed = cmd.changed \cup {id}, !.recs = recs]
      BY <1>1, <1>6 DEF Shaped, recs
    <3> QED BY <1>1, <3>1 DEF Shaped, Rest
  <2>4. CorpusType'
    <3>1. IsManifest(recs)
      BY <1>1, <2>1, <2>2 DEF IsManifest
    <3> QED BY <1>1, <1>2, <2>3, <3>1 DEF CorpusInv, CorpusType, Names
  <2>5. /\ DOMAIN collection' = DOMAIN collection /\ collection'[id] = decoded
        /\ \A z \in DOMAIN collection : z # id => collection'[z] = collection[z]
    BY <1>6
  <2> HIDE DEF id
  <2>6. Decoding'
    BY <1>1, <1>2, <1>6, <2>1, <2>2, <2>3, <2>5 DEF Decoding, id
  <2>7. FilesMatch'
    BY <1>1, <1>2, <1>6, <2>3, <2>5 DEF FilesMatch, Honest, Unfinished
  <2> QED BY <2>3, <2>4, <2>6, <2>7, Vacuous DEF CorpusInv
<1> QED BY <1>3, <1>4, <1>5, <1>6

LEMMA FixRecordsKeeps == ASSUME CorpusInv, FixRecords PROVE CorpusInv'
<1>1. /\ Shaped(cmd) /\ cmd.name = "fix-entities" /\ cmd.step = "each" /\ IsManifest(cmd.recs)
      /\ IsManifest(manifest) /\ Decoding
      /\ \A id \in DOMAIN manifest : Honest(id) \/ id \in cut \cup cmd.changed
  BY DEF FixRecords, Running, CorpusInv, CorpusType, FilesMatch, Unfinished
<1>2. UNCHANGED <<incoming, manifest, collection, lock, cut>>
  BY DEF FixRecords
<1>3. CASE cmd.changed = {}
  BY <1>1, <1>2, <1>3, BackToIdle DEF FixRecords, Honest
<1>4. CASE cmd.changed # {}
  <2>1. cmd' = [cmd EXCEPT !.step = "write"]
    BY <1>4 DEF FixRecords
  <2>2. /\ Shaped(cmd') /\ cmd'.name = "fix-entities" /\ cmd'.step = "write" /\ cmd'.recs = cmd.recs
        /\ cmd'.changed = cmd.changed /\ cmd'.todo = cmd.todo
    BY <1>1, <2>1 DEF Shaped
  <2>3. CorpusType'
    BY <1>1, <1>2, <2>2 DEF CorpusInv, CorpusType, Names
  <2>4. Decoding'
    BY <1>1, <1>2, <2>2 DEF Decoding
  <2>5. FilesMatch'
    BY <1>1, <1>2, <2>2 DEF FilesMatch, Honest, Unfinished
  <2> QED BY <2>2, <2>3, <2>4, <2>5, Vacuous DEF CorpusInv
<1> QED BY <1>3, <1>4

LEMMA FixWriteKeeps == ASSUME CorpusInv, FixWrite PROVE CorpusInv'
BY WritesTheManifest DEF FixWrite

-----------------------------------------------------------------------------
LEMMA StartSplitKeeps == ASSUME CorpusInv, StartSplit PROVE CorpusInv'
<1>1. cmd' = [Started("split", {}) EXCEPT !.recs = Assigned(manifest), !.step = "write"]
  BY DEF StartSplit
<1>2. /\ Shaped(cmd') /\ cmd'.name = "split" /\ cmd'.step = "write" /\ cmd'.recs = Assigned(manifest)
  BY <1>1 DEF Started, Shaped
<1>3. IsManifest(manifest)
  BY DEF StartSplit, Reads, CorpusInv, CorpusType
<1>4. IsManifest(Assigned(manifest))
  BY <1>3 DEF Assigned, IsManifest, IsRecord
<1>5. CorpusType' /\ FilesMatch'
  BY <1>2, <1>4, StartsIn DEF StartSplit, Names
<1>6. Splitting'
  <2>1. Assigned(manifest)' = Assigned(manifest) /\ \A class \in Classes : MembershipKept(manifest, class)'
    BY DEF StartSplit, Assigned, MembershipKept
  <2> QED BY <1>2, <2>1 DEF Splitting
<1> QED BY <1>2, <1>5, <1>6, Vacuous DEF CorpusInv

LEMMA SplitWriteKeeps == ASSUME CorpusInv, SplitWrite PROVE CorpusInv'
BY WritesTheManifest DEF SplitWrite

LEMMA StartSealKeeps == ASSUME CorpusInv, StartSeal PROVE CorpusInv'
<1>1. /\ cmd' = [Started("seal", {}) EXCEPT !.recs = Sealed, !.step = "lock"]
      /\ \A id \in HoldoutIds : Honest(id)
      /\ UNCHANGED <<incoming, manifest, collection, lock, cut>>
  BY DEF StartSeal, MaySeal
<1>2. Shaped(cmd') /\ cmd'.name = "seal" /\ cmd'.step = "lock" /\ cmd'.recs = Sealed
  BY <1>1 DEF Started, Shaped
<1>3. CorpusType' /\ FilesMatch'
  BY <1>1, <1>2, StartsIn DEF StartSeal, Names
<1>4. Sealing'
  <2>1. Sealed' = Sealed /\ HoldoutIds' = HoldoutIds /\ \A id : Honest(id)' <=> Honest(id)
    BY <1>1 DEF Sealed, HoldoutIds, Honest
  <2> QED BY <1>1, <1>2, <2>1 DEF Sealing
<1> QED BY <1>2, <1>3, <1>4, Vacuous DEF CorpusInv

LEMMA SealWriteKeeps == ASSUME CorpusInv, SealWrite PROVE CorpusInv'
<1>1. cmd.name = "seal" /\ IsManifest(manifest)
  BY DEF SealWrite, Running, CorpusInv, CorpusType
<1>2. \A x \in DOMAIN manifest : x \in cut \/ (x \in DOMAIN collection /\ collection[x] = manifest[x].sha)
  BY <1>1, IdleMatches
<1> QED BY <1>1, <1>2, BackToIdle DEF SealWrite

LEMMA FinishKeeps == ASSUME CorpusInv, Finish PROVE CorpusInv'
<1>1. cmd.name \in {"ingest", "generate"} /\ IsManifest(manifest)
  BY DEF Finish, CorpusInv, CorpusType
<1>2. \A x \in DOMAIN manifest : x \in cut \/ (x \in DOMAIN collection /\ collection[x] = manifest[x].sha)
  BY <1>1, IdleMatches
<1> QED BY <1>1, <1>2, BackToIdle DEF Finish

(* The file a command is about to write is no recorded one, but for a file *)
(* whose decoding is then left unfinished.                                 *)
LEMMA WritesAFreshFile ==
  ASSUME CorpusInv, NEW w \in WritesNext
  PROVE  cmd.step # "write" /\ (w \notin DOMAIN manifest \/ cmd.name = "fix-entities")
<1>1. cmd.step = "each" /\ cmd.name \in {"ingest", "generate", "fix-entities"}
  BY DEF WritesNext
<1>2. CASE cmd.name = "ingest"
  <2>1. PICK k \in Due : w = cmd.ids[k] /\ ~IngestSkips(k)
    BY <1>1, <1>2 DEF WritesNext
  <2> QED BY <1>1, <1>2, <2>1 DEF CorpusInv, Ingesting, IngestSkips, Due
<1>3. CASE cmd.name = "generate"
  <2>1. PICK n \in Due : w = Jobs[n].id /\ ~GenerateSkips(Jobs[n])
    BY <1>1, <1>3 DEF WritesNext
  <2> QED BY <1>1, <1>3, <2>1 DEF CorpusInv, Generating, GenerateSkips
<1> QED BY <1>1, <1>2, <1>3

LEMMA CrashKeeps == ASSUME CorpusInv, Crash PROVE CorpusInv'
<1>1. /\ cmd' = Idle /\ UNCHANGED incoming
      /\ cut' = cut \cup CASE cmd.name = "remove" -> cmd.changed
                          [] cmd.name = "fix-entities" -> cmd.changed \cup WritesNext
                          [] OTHER -> {}
      /\ \/ cmd.step # "write" /\ manifest' = manifest
         \/ cmd.step = "write" /\ (manifest' \in WholeLines(cmd.recs) \/ manifest' = cmd.recs)
      /\ collection' \in {collection} \cup {With(collection, id, Content(0, "cut")) : id \in WritesNext}
  BY DEF Crash
<1>2. CASE cmd.step = "write"
  <2>1. UNCHANGED collection
    BY <1>1, <1>2, WritesAFreshFile
  <2>2. cut \subseteq cut'
    BY <1>1
  <2>3. /\ IsManifest(manifest')
        /\ \A id \in DOMAIN manifest' :
             id \in cut' \/ (id \in DOMAIN collection' /\ collection'[id] = manifest'[id].sha)
    <3>1. PICK m : m = manifest'
      OBVIOUS
    <3>2. /\ IsManifest(cmd.recs)
          /\ \A id \in DOMAIN cmd.recs : id \in cut \/ (id \in DOMAIN collection /\ collection[id] = cmd.recs[id].sha)
      BY <1>2, RecsMatch DEF Matches
    <3>3. CASE m = cmd.recs
      BY <2>1, <2>2, <3>1, <3>2, <3>3
    <3>4. CASE m \in WholeLines(cmd.recs)
      <4>1. /\ m = [z \in DOMAIN m |-> m[z]] /\ DOMAIN m \subseteq DOMAIN cmd.recs
            /\ \A z \in DOMAIN m : m[z] = cmd.recs[z]
        BY <3>4, WholeLinesAre
      <4>2. IsManifest(m)
        BY <3>2, <4>1 DEF IsManifest
      <4> QED BY <2>1, <2>2, <3>1, <3>2, <4>1, <4>2
    <3> QED BY <1>1, <1>2, <3>1, <3>3, <3>4
  <2> QED BY <1>1, <2>3, BackToIdle
<1>3. CASE cmd.step # "write"
  <2>1. manifest' = manifest
    BY <1>1, <1>3
  <2>2. ASSUME NEW id \in DOMAIN manifest
        PROVE  id \in cut' \/ (id \in DOMAIN collection' /\ collection'[id] = manifest[id].sha)
    <3>1. (id \in DOMAIN collection /\ collection[id] = manifest[id].sha) \/ id \in cut'
      BY <1>1, <2>2 DEF CorpusInv, FilesMatch, Unfinished, Honest
    <3>2. CASE collection' = collection
      BY <3>1, <3>2
    <3>3. ASSUME NEW w \in WritesNext, collection' = With(collection, w, Content(0, "cut"))
          PROVE  id \in cut' \/ (id \in DOMAIN collection' /\ collection'[id] = manifest[id].sha)
      <4>1. id # w \/ id \in cut'
        BY <1>1, WritesAFreshFile
      <4>2. id # w /\ id \in DOMAIN collection => id \in DOMAIN collection' /\ collection'[id] = collection[id]
        BY <3>3 DEF With
      <4> QED BY <3>1, <4>1, <4>2
    <3> QED BY <1>1, <3>2, <3>3
  <2>3. IsManifest(manifest)
    BY DEF CorpusInv, CorpusType
  <2> QED BY <1>1, <2>1, <2>2, <2>3, BackToIdle
<1> QED BY <1>2, <1>3

LEMMA CorpusStep == ASSUME CorpusInv, [CorpusNext]_corpusVars PROVE CorpusInv'
<1>1. CASE UNCHANGED corpusVars
  BY <1>1 DEF corpusVars, CorpusInv, CorpusType, Ingesting, Ingested, IngestSkips, AssignId, IdAmong,
     Generating, Generated, Removing, Decoding, Splitting, MembershipKept, Sealing, FilesMatch,
     Unfinished, Honest, HoldoutIds, Sealed, Due
<1> QED BY <1>1, CollectKeeps, StartIngestKeeps, IngestOneKeeps, IngestRecordKeeps,
     StartGenerateKeeps, GenerateOneKeeps, GenerateRecordKeeps, ServerFailsKeeps,
     StartRemoveKeeps, RemoveOneKeeps, RemoveRecordsKeeps,
     StartFixEntitiesKeeps, FixOneKeeps, FixRecordsKeeps, FixWriteKeeps,
     StartSplitKeeps, SplitWriteKeeps, StartSealKeeps, SealWriteKeeps, FinishKeeps, CrashKeeps
     DEF CorpusNext

THEOREM CorpusInductive == CorpusSpec => []CorpusInv
<1>1. CorpusInit => CorpusInv
  BY CorpusInitInv
<1>2. CorpusInv /\ [CorpusNext]_corpusVars => CorpusInv'
  BY CorpusStep
<1> QED BY <1>1, <1>2, PTL DEF CorpusSpec

(* Whatever commands are cut short, a recorded file that is missing or does  *)
(* not hash to its record was left so by a removal or a decoding.            *)
THEOREM FilesStayHonest == CorpusSpec => []StaleOnlyWhenCut
<1>1. CorpusInv => StaleOnlyWhenCut
  BY IdleIs DEF CorpusInv, FilesMatch, StaleOnlyWhenCut, Unfinished
<1> QED BY <1>1, CorpusInductive, PTL

-----------------------------------------------------------------------------
(* The holdout.  Only a write changes the manifest. *)
LEMMA ManifestMoves ==
  ASSUME CorpusInv, [CorpusNext]_corpusVars
  PROVE  \/ manifest' = manifest
         \/ /\ cmd.step = "write"
            /\ DOMAIN manifest' \subseteq DOMAIN cmd.recs
            /\ \A id \in DOMAIN manifest' : manifest'[id] = cmd.recs[id]
<1>1. CASE Crash
  <2>1. PICK m : m = manifest'
    OBVIOUS
  <2>2. CASE cmd.step = "write"
    BY <1>1, <2>1, <2>2, WholeLinesAre DEF Crash
  <2>3. CASE cmd.step # "write"
    BY <1>1, <2>3 DEF Crash
  <2> QED BY <2>2, <2>3
<1>2. CASE \/ IngestRecord \/ GenerateRecord \/ RemoveRecords \/ FixWrite \/ SplitWrite
  BY <1>2 DEF IngestRecord, GenerateRecord, RemoveRecords, FixWrite, SplitWrite, WriteManifest
<1>3. CASE \/ Collect \/ StartIngest \/ IngestOne \/ StartGenerate \/ GenerateOne \/ ServerFails
           \/ StartRemove \/ RemoveOne \/ StartFixEntities \/ FixOne \/ FixRecords
           \/ StartSplit \/ StartSeal \/ SealWrite \/ Finish \/ UNCHANGED corpusVars
  BY <1>3 DEF Collect, StartIngest, IngestOne, StartGenerate, GenerateOne, ServerFails,
     StartRemove, RemoveOne, StartFixEntities, FixOne, FixRecords, StartSplit, StartSeal, SealWrite,
     Finish, corpusVars
<1> QED BY <1>1, <1>2, <1>3 DEF CorpusNext

LEMMA IngestsAFreshId ==
  ASSUME CorpusInv, cmd.name = "ingest", NEW k \in Due, ~IngestSkips(k)
  PROVE  cmd.ids[k] \notin DOMAIN manifest
BY DEF CorpusInv, Ingesting, IngestSkips, Due

LEMMA MembersKept ==
  ASSUME CorpusInv, cmd.step = "write", NEW class \in Classes, Holdout(manifest, class) # {},
         NEW id \in DOMAIN manifest, id \in DOMAIN cmd.recs, manifest[id].class = class
  PROVE  (manifest[id].split = "holdout") = (cmd.recs[id].split = "holdout")
<1>1. cmd.name \in Names \ {"idle", "seal"} /\ IsManifest(manifest)
  BY IdleIs DEF CorpusInv, CorpusType, Sealing
<1>2. CASE cmd.name = "ingest"
  <2>1. PICK k \in Due : ~IngestSkips(k) /\ Ingested(k)
    BY <1>2 DEF CorpusInv, Ingesting
  <2>2. id # cmd.ids[k]
    BY <1>2, <2>1, IngestsAFreshId
  <2> QED BY <2>1, <2>2 DEF Ingested, With
<1>3. CASE cmd.name = "generate"
  <2>0. PICK n \in Due : \E content : Generated(Jobs[n].id, content)
    BY <1>3 DEF CorpusInv, Generating
  <2>1. PICK content : Generated(Jobs[n].id, content)
    BY <2>0
  <2> QED BY <2>1 DEF Generated, With
<1>4. CASE cmd.name = "remove"
  BY <1>4 DEF CorpusInv, Removing, Without, Restrict
<1>5. CASE cmd.name = "fix-entities"
  BY <1>5 DEF CorpusInv, Decoding
<1>6. CASE cmd.name = "split"
  <2>1. cmd.recs = Assigned(manifest) /\ Holdout(manifest, class) = Holdout(cmd.recs, class)
    BY <1>6 DEF CorpusInv, Splitting, MembershipKept
  <2>2. cmd.recs[id].class = class
    BY <1>1, <2>1 DEF Assigned, IsManifest, IsRecord
  <2>3. id \in Holdout(manifest, class) <=> manifest[id].split = "holdout"
    BY DEF Holdout, Cell
  <2>4. id \in Holdout(cmd.recs, class) <=> cmd.recs[id].split = "holdout"
    BY <2>2 DEF Holdout, Cell
  <2> QED BY <2>1, <2>3, <2>4
<1> QED BY <1>1, <1>2, <1>3, <1>4, <1>5, <1>6 DEF Names

(* A holdout stays what it was sealed as, and a seal passes holdout-check. *)
THEOREM HoldoutStaysSealed == CorpusSpec => SealedHoldoutKept
<1>1. ASSUME CorpusInv, [CorpusNext]_corpusVars
      PROVE  HoldoutMembers
  <2>1. SUFFICES ASSUME NEW class \in Classes,
                        Holdout(manifest, class) # {}, NEW id \in DOMAIN manifest \cap DOMAIN manifest',
                        manifest[id].class = class
                 PROVE  (manifest[id].split = "holdout") = (manifest'[id].split = "holdout")
    BY DEF HoldoutMembers
  <2>2. CASE manifest' = manifest
    BY <2>2
  <2>3. CASE /\ cmd.step = "write" /\ DOMAIN manifest' \subseteq DOMAIN cmd.recs
             /\ \A z \in DOMAIN manifest' : manifest'[z] = cmd.recs[z]
    <3>1. id \in DOMAIN manifest /\ id \in DOMAIN cmd.recs /\ manifest'[id] = cmd.recs[id]
      BY <2>1, <2>3
    <3>2. (manifest[id].split = "holdout") = (cmd.recs[id].split = "holdout")
      BY <1>1, <2>1, <2>3, <3>1, MembersKept
    <3> QED BY <3>1, <3>2
  <2> QED BY <1>1, <2>1, <2>2, <2>3, ManifestMoves
<1>2. ASSUME CorpusInv, SealWrite
      PROVE  HoldoutCheck'
  <2>1. /\ lock' = Sealed /\ UNCHANGED <<manifest, collection>>
        /\ \A id \in HoldoutIds : Honest(id)
    BY <1>2 DEF SealWrite, Running, CorpusInv, Sealing
  <2>2. \A id \in HoldoutIds : id \in DOMAIN manifest /\ manifest[id].split = "holdout"
    BY DEF HoldoutIds, Holdout, Cell
  <2>3. HoldoutIds' = HoldoutIds
    BY <2>1 DEF HoldoutIds
  <2>4. DOMAIN lock' = HoldoutIds /\ \A id \in HoldoutIds : lock'[id] = manifest[id].sha
    BY <2>1 DEF Sealed
  <2> QED BY <2>1, <2>2, <2>3, <2>4 DEF HoldoutCheck, Honest
<1>3. CorpusInv /\ [CorpusNext]_corpusVars => [HoldoutMembers /\ (SealWrite => HoldoutCheck')]_corpusVars
  BY <1>1, <1>2
<1> QED BY <1>3, CorpusInductive, PTL DEF CorpusSpec, SealedHoldoutKept

-----------------------------------------------------------------------------
(* An id names a job, or the one fragment it is assigned to or a moved one;  *)
(* and a command that walks its list has recorded what it has passed.        *)
JobIds == {Jobs[n].id : n \in DOMAIN Jobs}
NamedFor(id, k) == k \in incoming /\ (id = AssignId(k) \/ k \in moved)
Placed(m) ==
  \A id \in DOMAIN m :
    /\ m[id].class = "human" => NamedFor(id, m[id].text)
    /\ m[id].class = "llm" => id \in JobIds
Taken(id, k) == manifest[id].text = k \/ (id = AssignId(k) /\ manifest[id].text \in moved)
IngestedSoFar ==
  cmd.name = "ingest" =>
    \A k \in incoming \ cmd.todo : Fragments[k].kept =>
      \E id \in DOMAIN manifest : Taken(id, k)
GeneratedSoFar ==
  cmd.name = "generate" =>
    \A n \in DOMAIN Jobs \ cmd.todo : Jobs[n].model \in cmd.models => Jobs[n].id \in cmd.known
ResumeInv == Placed(manifest) /\ IngestedSoFar /\ GeneratedSoFar

LEMMA RecsPlaced ==
  ASSUME CorpusInv, Placed(manifest), cmd.step = "write"
  PROVE  Placed(cmd.recs)
<1>1. cmd.name \in Names \ {"idle", "seal"} /\ IsManifest(manifest)
  BY IdleIs DEF CorpusInv, CorpusType, Sealing
<1>2. CASE cmd.name = "ingest"
  <2>1. PICK k \in Due : ~IngestSkips(k) /\ Ingested(k)
    BY <1>2 DEF CorpusInv, Ingesting
  <2>2. k \in incoming /\ cmd.ids[k] = AssignId(k) /\ NamedFor(AssignId(k), k)
    BY <1>2 DEF CorpusInv, Ingesting, Due, NamedFor
  <2> DEFINE r == Record("human", k, Content(k, "clean"))
             x == AssignId(k)
  <2>3. cmd.recs = With(manifest, x, r) /\ r.class = "human" /\ r.text = k
    BY <2>1, <2>2 DEF Ingested, Record
  <2> HIDE DEF r, x
  <2>4. DOMAIN cmd.recs = DOMAIN manifest \cup {x} /\ cmd.recs[x] = r
        /\ \A z \in DOMAIN manifest : z # x => cmd.recs[z] = manifest[z]
    BY <2>3 DEF With
  <2> QED BY <2>2, <2>3, <2>4 DEF Placed, x
<1>3. CASE cmd.name = "generate"
  <2>0. PICK n \in Due : \E content : Generated(Jobs[n].id, content)
    BY <1>3 DEF CorpusInv, Generating
  <2>1. PICK content : Generated(Jobs[n].id, content)
    BY <2>0
  <2> DEFINE r == Record("llm", 0, content)
             x == Jobs[n].id
  <2>2. x \in JobIds /\ cmd.recs = With(manifest, x, r) /\ r.class = "llm"
    BY <1>3, <2>1 DEF CorpusInv, Generating, Generated, JobIds, Due, Record
  <2> HIDE DEF r, x
  <2>3. DOMAIN cmd.recs = DOMAIN manifest \cup {x} /\ cmd.recs[x] = r
        /\ \A z \in DOMAIN manifest : z # x => cmd.recs[z] = manifest[z]
    BY <2>2 DEF With
  <2> QED BY <2>2, <2>3 DEF Placed
<1>4. CASE cmd.name = "remove"
  BY <1>4 DEF CorpusInv, Removing, Without, Restrict, Placed
<1>5. CASE cmd.name = "fix-entities"
  BY <1>5 DEF CorpusInv, Decoding, Placed
<1>6. CASE cmd.name = "split"
  <2>1. DOMAIN cmd.recs = DOMAIN manifest
        /\ \A id \in DOMAIN manifest : cmd.recs[id].class = manifest[id].class /\ cmd.recs[id].text = manifest[id].text
    BY <1>1, <1>6 DEF CorpusInv, Splitting, Assigned, IsManifest, IsRecord
  <2> QED BY <2>1 DEF Placed
<1> QED BY <1>1, <1>2, <1>3, <1>4, <1>5, <1>6 DEF Names

(* A fragment keeps its id as others are collected, or has moved. *)
LEMMA IdsAreKept ==
  ASSUME [CorpusNext]_corpusVars, NEW id, NEW k, NamedFor(id, k)
  PROVE  NamedFor(id, k)'
<1>1. CASE UNCHANGED <<incoming, moved>>
  BY <1>1 DEF NamedFor, AssignId, IdAmong
<1>2. CASE Collect
  BY <1>2 DEF Collect, NamedFor, AssignId, IdAmong
<1>3. Collect \/ UNCHANGED <<incoming, moved>>
  BY DEF CorpusNext, StartIngest, IngestOne, IngestRecord, StartGenerate, GenerateOne, GenerateRecord,
     ServerFails, StartRemove, RemoveOne, RemoveRecords, StartFixEntities, FixOne, FixRecords, FixWrite,
     StartSplit, SplitWrite, StartSeal, SealWrite, Finish, Crash, WriteManifest, corpusVars
<1> QED BY <1>1, <1>2, <1>3

LEMMA PlacedKept ==
  ASSUME CorpusInv, [CorpusNext]_corpusVars, Placed(manifest)
  PROVE  Placed(manifest)'
<1>1. CASE manifest' = manifest
  BY <1>1, IdsAreKept DEF Placed
<1>2. CASE /\ cmd.step = "write" /\ DOMAIN manifest' \subseteq DOMAIN cmd.recs
           /\ \A z \in DOMAIN manifest' : manifest'[z] = cmd.recs[z]
  <2>1. Placed(cmd.recs)
    BY <1>2, RecsPlaced
  <2> QED BY <1>2, <2>1, IdsAreKept DEF Placed
<1> QED BY <1>1, <1>2, ManifestMoves

(* What is due is one position. *)
LEMMA OneIsDue ==
  ASSUME cmd.todo \subseteq Int, NEW k \in Due, NEW n \in cmd.todo, n \notin Rest
  PROVE  n = k
<1>1. n \in Due /\ n <= k /\ k <= n /\ n \in Int /\ k \in Int
  BY DEF Due, Rest
<1> QED BY <1>1

(* A command that runs after a step has just begun, or has taken one of its own. *)
LEMMA RunsOn ==
  ASSUME CorpusInv, [CorpusNext]_corpusVars, cmd'.name \in {"ingest", "generate"}
  PROVE  \/ UNCHANGED corpusVars
         \/ cmd'.name = "ingest" /\ (StartIngest \/ IngestOne \/ IngestRecord)
         \/ cmd'.name = "generate" /\ (StartGenerate \/ GenerateOne \/ GenerateRecord)
<1>1. Shaped(cmd)
  BY DEF CorpusInv, CorpusType
<1>2. ~(Collect \/ ServerFails \/ Finish \/ Crash \/ SealWrite)
  BY IdleIs DEF Collect, ServerFails, Finish, Crash, SealWrite
<1>3. ~(RemoveRecords \/ FixWrite \/ SplitWrite)
  BY IdleIs DEF RemoveRecords, FixWrite, SplitWrite, WriteManifest
<1>4. ~StartRemove
  <2>1. ASSUME NEW ids, cmd' = [Started("remove", Listed(ids)) EXCEPT
                                  !.recs = Without(manifest, ids), !.changed = ids]
        PROVE  FALSE
    <3>1. cmd'.name = "remove"
      BY <2>1 DEF Started
    <3> QED BY <3>1
  <2> QED BY <2>1 DEF StartRemove
<1>5. ~(StartFixEntities \/ StartSplit \/ StartSeal)
  <2>1. ~StartFixEntities
    BY DEF StartFixEntities, Started
  <2>2. StartSplit => cmd'.name = "split"
    BY DEF StartSplit, Started
  <2>3. StartSeal => cmd'.name = "seal"
    BY DEF StartSeal, Started
  <2> QED BY <2>1, <2>2, <2>3
<1>6. ~(RemoveOne \/ FixRecords)
  BY <1>1, IdleIs DEF RemoveOne, FixRecords, Running, Shaped
<1>7. ~FixOne
  BY <1>1, IdleIs DEF FixOne, Running, Shaped
<1>8. StartIngest => cmd'.name = "ingest"
  BY DEF StartIngest, Started
<1>9. StartGenerate => cmd'.name = "generate"
  <2>1. ASSUME NEW available, cmd' = [Started("generate", DOMAIN Jobs) EXCEPT !.models = available]
        PROVE  cmd'.name = "generate"
    BY <2>1 DEF Started
  <2> QED BY <2>1 DEF StartGenerate
<1>10. (IngestOne \/ IngestRecord) => cmd'.name = "ingest"
  BY <1>1 DEF IngestOne, IngestRecord, WriteManifest, Running, Shaped
<1>11. (GenerateOne \/ GenerateRecord) => cmd'.name = "generate"
  BY <1>1 DEF GenerateOne, GenerateRecord, WriteManifest, Running, Shaped
<1> QED BY <1>2, <1>3, <1>4, <1>5, <1>6, <1>7, <1>8, <1>9, <1>10, <1>11 DEF CorpusNext

LEMMA IngestedKept ==
  ASSUME CorpusInv, ResumeInv, [CorpusNext]_corpusVars
  PROVE  IngestedSoFar'
<1>1. SUFFICES ASSUME cmd'.name = "ingest", NEW k \in incoming' \ cmd'.todo, Fragments[k].kept
               PROVE  \E id \in DOMAIN manifest' : Taken(id, k)'
  BY DEF IngestedSoFar
<1>2. CASE StartIngest
  BY <1>1, <1>2, StartedIs DEF StartIngest, Started
<1>3. CASE IngestOne
  <2>1. /\ Shaped(cmd) /\ cmd.name = "ingest" /\ IsManifest(manifest) /\ Placed(manifest)
        /\ UNCHANGED <<incoming, manifest, moved>> /\ cmd.todo \subseteq incoming /\ incoming \subseteq DOMAIN Fragments
        /\ cmd.ids = [j \in incoming |-> AssignId(j)] /\ cmd.known \subseteq DOMAIN manifest
    BY <1>3 DEF IngestOne, Running, CorpusInv, CorpusType, ResumeInv, Ingesting
  <2>2. CASE k \notin cmd.todo
    BY <1>1, <2>1, <2>2 DEF ResumeInv, IngestedSoFar, Taken, AssignId, IdAmong
  <2>3. CASE k \in cmd.todo
    <3>1. PICK j \in Due :
            \/ IngestSkips(j) /\ cmd' = [cmd EXCEPT !.todo = Rest]
            \/ \E recs : cmd' = [cmd EXCEPT !.recs = recs, !.step = "write"]
      BY <1>3 DEF IngestOne
    <3>2. cmd' = [cmd EXCEPT !.todo = Rest] /\ IngestSkips(j)
      BY <1>1, <2>1, <2>3, <3>1 DEF Shaped
    <3>3. cmd'.todo = Rest
      BY <2>1, <3>2 DEF Shaped
    <3>4. cmd.todo \subseteq Int
      BY <2>1, CorpusAssumption
    <3>5. k = j
      BY <1>1, <2>3, <3>3, <3>4, OneIsDue
    <3>6. AssignId(k) \in DOMAIN manifest /\ k \in incoming
      BY <1>1, <2>1, <2>3, <3>2, <3>5 DEF IngestSkips
    <3>7. manifest[AssignId(k)].class # "llm"
      <4>1. AssignId(k) \notin JobIds
        BY <2>1, <3>6, CorpusAssumption DEF AssignId, IdAmong, JobIds
      <4> QED BY <2>1, <3>6, <4>1 DEF Placed
    <3>8. manifest[AssignId(k)].class = "human"
      BY <2>1, <3>6, <3>7 DEF IsManifest, IsRecord, Classes
    <3>9. NamedFor(AssignId(k), manifest[AssignId(k)].text)
      BY <2>1, <3>6, <3>8 DEF Placed
    <3>10. Taken(AssignId(k), k)
      BY <2>1, <3>6, <3>9, IdsDiffer DEF NamedFor, Taken
    <3> QED BY <2>1, <3>6, <3>10 DEF Taken, AssignId, IdAmong
  <2> QED BY <2>2, <2>3
<1>4. CASE IngestRecord
  <2>1. /\ Shaped(cmd) /\ cmd.name = "ingest" /\ cmd.step = "write" /\ IsManifest(manifest)
        /\ UNCHANGED <<incoming, moved>> /\ cmd.todo \subseteq incoming /\ incoming \subseteq DOMAIN Fragments
        /\ manifest' = cmd.recs /\ cmd' = [cmd EXCEPT !.step = "each", !.todo = Rest]
    BY <1>4 DEF IngestRecord, WriteManifest, Running, CorpusInv, CorpusType, Ingesting
  <2>2. PICK j \in Due : ~IngestSkips(j) /\ Ingested(j)
    BY <2>1 DEF CorpusInv, Ingesting
  <2> DEFINE x == cmd.ids[j]
             r == Record("human", j, Content(j, "clean"))
  <2>3. manifest' = With(manifest, x, r) /\ r.text = j
    BY <2>1, <2>2 DEF Ingested, Record
  <2>4. x \notin DOMAIN manifest
    BY <2>1, <2>2, IngestsAFreshId
  <2> HIDE DEF x, r
  <2>5. /\ x \in DOMAIN manifest' /\ manifest'[x] = r
        /\ \A z \in DOMAIN manifest : z \in DOMAIN manifest' /\ manifest'[z] = manifest[z]
    BY <2>3, <2>4 DEF With
  <2>6. cmd'.todo = Rest
    BY <2>1 DEF Shaped
  <2>7. CASE k \in cmd.todo
    <3>1. cmd.todo \subseteq Int
      BY <2>1, CorpusAssumption
    <3>2. k = j
      BY <1>1, <2>6, <2>7, <3>1, OneIsDue
    <3> QED BY <2>3, <2>5, <3>2 DEF Taken
  <2>8. CASE k \notin cmd.todo
    BY <1>1, <2>1, <2>5, <2>8 DEF ResumeInv, IngestedSoFar, Taken, AssignId, IdAmong
  <2> QED BY <2>7, <2>8
<1>5. CASE UNCHANGED corpusVars
  BY <1>1, <1>5 DEF corpusVars, ResumeInv, IngestedSoFar, Taken, AssignId, IdAmong
<1> QED BY <1>1, <1>2, <1>3, <1>4, <1>5, RunsOn

LEMMA GeneratedKept ==
  ASSUME CorpusInv, ResumeInv, [CorpusNext]_corpusVars
  PROVE  GeneratedSoFar'
<1>1. SUFFICES ASSUME cmd'.name = "generate", NEW k \in DOMAIN Jobs \ cmd'.todo, Jobs[k].model \in cmd'.models
               PROVE  Jobs[k].id \in cmd'.known
  BY DEF GeneratedSoFar
<1>2. CASE StartGenerate
  <2>1. PICK available : cmd' = [Started("generate", DOMAIN Jobs) EXCEPT !.models = available]
    BY <1>2 DEF StartGenerate
  <2>2. cmd'.todo = DOMAIN Jobs
    BY <2>1 DEF Started
  <2> QED BY <1>1, <2>2
<1>3. CASE GenerateOne
  <2>1. Shaped(cmd) /\ cmd.name = "generate" /\ cmd.todo \subseteq DOMAIN Jobs
    BY <1>3 DEF GenerateOne, Running, CorpusInv, CorpusType, Generating
  <2>2. PICK j \in Due :
          \/ GenerateSkips(Jobs[j]) /\ cmd' = [cmd EXCEPT !.todo = Rest]
          \/ \E recs : cmd' = [cmd EXCEPT !.recs = recs, !.known = @ \cup {Jobs[j].id}, !.step = "write"]
    BY <1>3 DEF GenerateOne
  <2>3. CASE GenerateSkips(Jobs[j]) /\ cmd' = [cmd EXCEPT !.todo = Rest]
    <3>1. cmd'.todo = Rest /\ cmd'.known = cmd.known /\ cmd'.models = cmd.models
      BY <2>1, <2>3 DEF Shaped
    <3>2. CASE k \in cmd.todo
      <4>1. cmd.todo \subseteq Int
        BY <2>1, CorpusAssumption
      <4>2. k = j
        BY <1>1, <3>1, <3>2, <4>1, OneIsDue
      <4> QED BY <1>1, <2>3, <3>1, <4>2 DEF GenerateSkips
    <3>3. CASE k \notin cmd.todo
      BY <1>1, <2>1, <3>1, <3>3 DEF ResumeInv, GeneratedSoFar
    <3> QED BY <3>2, <3>3
  <2>4. ASSUME NEW recs, cmd' = [cmd EXCEPT !.recs = recs, !.known = @ \cup {Jobs[j].id}, !.step = "write"]
        PROVE  Jobs[k].id \in cmd'.known
    <3>1. cmd'.todo = cmd.todo /\ cmd.known \subseteq cmd'.known /\ cmd'.models = cmd.models
      BY <2>1, <2>4 DEF Shaped
    <3> QED BY <1>1, <2>1, <3>1 DEF ResumeInv, GeneratedSoFar
  <2> QED BY <2>2, <2>3, <2>4
<1>4. CASE GenerateRecord
  <2>1. /\ Shaped(cmd) /\ cmd.name = "generate" /\ cmd.step = "write" /\ cmd.todo \subseteq DOMAIN Jobs
        /\ cmd' = [cmd EXCEPT !.step = "each", !.todo = Rest] /\ cmd.known = DOMAIN cmd.recs
    BY <1>4 DEF GenerateRecord, WriteManifest, Running, CorpusInv, CorpusType, Generating
  <2>2. cmd'.todo = Rest /\ cmd'.known = cmd.known /\ cmd'.models = cmd.models
    BY <2>1 DEF Shaped
  <2>c. PICK j \in Due : \E content : Generated(Jobs[j].id, content)
    BY <2>1 DEF CorpusInv, Generating
  <2>3. PICK content : Generated(Jobs[j].id, content)
    BY <2>c
  <2>4. Jobs[j].id \in cmd.known
    BY <2>1, <2>3 DEF Generated, With
  <2>5. CASE k \in cmd.todo
    <3>1. cmd.todo \subseteq Int
      BY <2>1, CorpusAssumption
    <3>2. k = j
      BY <1>1, <2>2, <2>5, <3>1, OneIsDue
    <3> QED BY <2>2, <2>4, <3>2
  <2>6. CASE k \notin cmd.todo
    BY <1>1, <2>1, <2>2, <2>6 DEF ResumeInv, GeneratedSoFar
  <2> QED BY <2>5, <2>6
<1>5. CASE UNCHANGED corpusVars
  BY <1>1, <1>5 DEF corpusVars, ResumeInv, GeneratedSoFar
<1> QED BY <1>1, <1>2, <1>3, <1>4, <1>5, RunsOn

(* What a corpus tool that was cut short leaves, and what running it again   *)
(* does, for fragments collected in any order: around a fragment that moves, *)
(* a text may be recorded twice, or not at all.                              *)
THEOREM RunsAreMadeGood == CorpusSpec => []InterruptedRunsRecover
<1>1. ASSUME CorpusInit PROVE ResumeInv
  <2> DEFINE Ids == [k \in {k \in incoming : Fragments[k].kept} |-> AssignId(k)]
             Holder(id) == CHOOSE k \in DOMAIN Ids : Ids[k] = id
             Old(id) == Content(Holder(id), "entities")
  <2>1. manifest = [id \in Range(Ids) |-> Record("human", Holder(id), Old(id))]
    BY <1>1 DEF CorpusInit
  <2>2. \A id \in Range(Ids) : Holder(id) \in incoming /\ AssignId(Holder(id)) = id
    BY DEF Range
  <2> HIDE DEF Ids, Holder, Old
  <2>3. Placed(manifest)
    BY <2>1, <2>2 DEF Placed, NamedFor, Record
  <2> QED BY <1>1, <2>3, IdleIs DEF ResumeInv, CorpusInit, IngestedSoFar, GeneratedSoFar
<1>2. ASSUME CorpusInv, ResumeInv, [CorpusNext]_corpusVars PROVE ResumeInv'
  BY <1>2, PlacedKept, IngestedKept, GeneratedKept DEF ResumeInv
<1>3. ASSUME CorpusInv, ResumeInv PROVE InterruptedRunsRecover
  <2>1. StaleOnlyWhenCut
    BY <1>3, IdleIs DEF CorpusInv, FilesMatch, StaleOnlyWhenCut, Unfinished
  <2>2. ASSUME NEW a \in Cell(manifest, "human"), NEW b \in Cell(manifest, "human"),
               manifest[a].text = manifest[b].text
        PROVE  a = b \/ manifest[a].text \in moved
    BY <1>3, <2>2 DEF ResumeInv, Placed, NamedFor, Cell
  <2>3. ASSUME Running("ingest", "each"), cmd.todo = {}, NEW k \in incoming, Fragments[k].kept
        PROVE  \E id \in DOMAIN manifest : Taken(id, k)
    BY <1>3, <2>3 DEF ResumeInv, IngestedSoFar, Running
  <2>4. ASSUME Running("generate", "each"), cmd.todo = {}, NEW job \in Range(Jobs), job.model \in cmd.models
        PROVE  job.id \in DOMAIN manifest
    <3>1. PICK n \in DOMAIN Jobs : job = Jobs[n]
      BY DEF Range
    <3>2. job.id \in cmd.known
      BY <1>3, <2>4, <3>1 DEF ResumeInv, GeneratedSoFar, Running
    <3> QED BY <1>3, <2>4, <3>2 DEF CorpusInv, Generating, Running
  <2> QED BY <2>1, <2>2, <2>3, <2>4 DEF InterruptedRunsRecover, WorkIsResumed, Taken
<1>4. CorpusInv /\ CorpusInv' /\ ResumeInv /\ [CorpusNext]_corpusVars => ResumeInv'
  BY <1>2
<1> QED BY <1>1, <1>3, <1>4, CorpusInductive, PTL DEF CorpusSpec

-----------------------------------------------------------------------------
(***************************************************************************)
(* The plans of generate and generate-paired.                              *)
(***************************************************************************)
(* Every set of naturals has a least number, and so induction holds. *)
LEMMA LeastNat ==
  ASSUME NEW T, T \subseteq Nat, T # {}
  PROVE  \E x \in T : \A y \in T : x <= y
<1> DEFINE R == OpToRel(<, Nat)
<1>1. IsWellFoundedOn(R, Nat)
  BY NatLessThanWellFounded
<1> HIDE DEF R
<1>2. PICK x \in T : \A y \in T : ~ (<<y, x>> \in R)
  BY <1>1, WFMin
<1>3. \A y \in T : ~(y < x)
  BY <1>2 DEF OpToRel, R
<1> QED BY <1>2, <1>3

LEMMA NatInduct ==
  ASSUME NEW T, 0 \in T, \A n \in Nat : n \in T => n + 1 \in T
  PROVE  Nat \subseteq T
<1> DEFINE U == Nat \ T
<1>1. SUFFICES ASSUME U # {} PROVE FALSE
  OBVIOUS
<1>2. PICK x \in U : \A y \in U : x <= y
  <2> HIDE DEF U
  <2>1. U \subseteq Nat
    BY DEF U
  <2> QED BY <1>1, <2>1, LeastNat
<1>3. x # 0 /\ x \in Nat /\ x \notin T
  BY <1>2
<1>4. x - 1 \in Nat
  BY <1>3
<1>5. x - 1 \in T
  BY <1>2, <1>4
<1>6. (x - 1) + 1 \in T
  BY <1>4, <1>5
<1> QED BY <1>3, <1>6

-----------------------------------------------------------------------------
(***************************************************************************)
(* Quotients and remainders, and how often a remainder occurs.             *)
(***************************************************************************)
LEMMA Division ==
  ASSUME NEW e \in Nat, e >= 1, NEW k \in Nat
  PROVE  /\ k \div e \in Nat /\ k % e \in 0 .. e - 1
         /\ k = e * (k \div e) + (k % e)
  OBVIOUS

LEMMA DivisionUnique ==
  ASSUME NEW e \in Nat, e >= 1, NEW q \in Nat, NEW r \in 0 .. e - 1
  PROVE  (e * q + r) % e = r /\ (e * q + r) \div e = q
  OBVIOUS

LEMMA TimesGrows ==
  ASSUME NEW e \in Nat, NEW a \in Nat, NEW b \in Nat, a <= b
  PROVE  e * a \in Nat /\ e * b \in Nat /\ e * a <= e * b
<1>1. e * b = e * a + e * (b - a)
  OBVIOUS
<1>2. b - a \in Nat
  OBVIOUS
<1>3. e * (b - a) \in Nat /\ e * a \in Nat /\ e * b \in Nat
  BY <1>2
<1> QED BY <1>1, <1>3

LEMMA Rows ==
  ASSUME NEW e \in Nat, e >= 1, NEW p \in Nat, NEW n \in Nat, n <= p * e, NEW k \in Nat, k < n
  PROVE  k \div e \in 0 .. p - 1
<1> DEFINE q == k \div e
           y == e * q
           r == k % e
           z == e * p
<1>1. q \in Nat /\ k = y + r /\ r \in 0 .. e - 1
  BY Division
<1>2. SUFFICES ASSUME p <= q PROVE FALSE
  BY <1>1
<1>3. z \in Nat /\ y \in Nat /\ z <= y
  <2> HIDE DEF q
  <2> QED BY <1>1, <1>2, TimesGrows
<1>4. p * e = z
  OBVIOUS
<1>5. n <= z
  BY <1>4
<1> HIDE DEF y, r, z
<1> QED BY <1>1, <1>3, <1>5

\* q of the numbers below n leave the remainder r.
Occurs(q, e, r, n) == q \in Nat /\ e * q + r >= n /\ (q = 0 \/ e * (q - 1) + r < n)

Leaving(e, r, n) == {k \in 1 .. n : (k - 1) % e = r}

LEMMA ResidueCount ==
  ASSUME NEW e \in Nat, e >= 1, NEW r \in 0 .. e - 1, NEW n \in Nat
  PROVE  IsFiniteSet(Leaving(e, r, n)) /\ Occurs(Cardinality(Leaving(e, r, n)), e, r, n)
<1> DEFINE T == {q \in Nat : e * q + r >= n}
           A == Leaving(e, r, n)
<1>1. n \in T
  <2>1. n * 1 <= n * e
    BY TimesGrows
  <2> QED BY <2>1
<1>2. PICK q \in T : \A y \in T : q <= y
  <2> HIDE DEF T
  <2>1. T \subseteq Nat
    BY DEF T
  <2> QED BY <1>1, <2>1, LeastNat
<1>3. q \in Nat /\ e * q + r >= n
  OBVIOUS
<1>4. q = 0 \/ e * (q - 1) + r < n
  <2>1. SUFFICES ASSUME q # 0, ~(e * (q - 1) + r < n) PROVE FALSE
    OBVIOUS
  <2>2. q - 1 \in Nat
    BY <1>3, <2>1
  <2>3. e * (q - 1) \in Nat
    BY <2>2
  <2>4. q - 1 \in T
    BY <2>1, <2>2, <2>3
  <2> QED BY <1>2, <1>3, <2>4
<1> HIDE DEF T
<1> DEFINE f == [j \in 0 .. q - 1 |-> (e * j + r) + 1]
<1>5. ASSUME NEW j \in 0 .. q - 1
      PROVE  f[j] \in A /\ j \in Nat /\ (f[j] - 1) \div e = j
  <2>1. j \in Nat /\ q - 1 \in Nat /\ j <= q - 1
    BY <1>3
  <2>2. e * j \in Nat /\ e * (q - 1) \in Nat /\ e * j <= e * (q - 1)
    BY <2>1, TimesGrows
  <2> DEFINE p == e * j
             l == e * (q - 1)
  <2>3. l + r < n
    BY <1>4, <2>1
  <2>4. p \in Nat /\ l \in Nat /\ p <= l
    BY <2>2
  <2>5. (p + r) % e = r /\ (p + r) \div e = j
    BY <2>1, DivisionUnique
  <2>6. f[j] = (p + r) + 1
    OBVIOUS
  <2> HIDE DEF p, l, f
  <2>7. f[j] \in 1 .. n /\ f[j] - 1 = p + r
    BY <2>3, <2>4, <2>6
  <2> QED BY <2>1, <2>5, <2>7 DEF Leaving
<1>6. ASSUME NEW k \in A PROVE \E j \in 0 .. q - 1 : f[j] = k
  <2> DEFINE j == (k - 1) \div e
             p == e * j
             t == e * q
  <2>1. k \in 1 .. n /\ k - 1 \in Nat /\ (k - 1) % e = r
    BY DEF Leaving
  <2>2. j \in Nat /\ k - 1 = p + ((k - 1) % e)
    BY <2>1, Division
  <2>3. k - 1 = p + r
    BY <2>1, <2>2
  <2>4. j < q
    <3>1. SUFFICES ASSUME q <= j PROVE FALSE
      BY <1>3, <2>2
    <3>2. t \in Nat /\ p \in Nat /\ t <= p
      BY <1>3, <2>2, <3>1, TimesGrows
    <3>3. t + r >= n
      BY <1>3
    <3> HIDE DEF t, p, j
    <3> QED BY <2>1, <2>3, <3>2, <3>3
  <2>5. p \in Nat
    BY <2>2
  <2>6. f[j] = (p + r) + 1
    BY <1>3, <2>2, <2>4
  <2> HIDE DEF j, p, f
  <2>7. j \in 0 .. q - 1 /\ f[j] = k
    BY <1>3, <2>1, <2>2, <2>3, <2>4, <2>5, <2>6
  <2> QED BY <2>7
<1>7. f \in Bijection(0 .. q - 1, A)
  <2>1. f \in [0 .. q - 1 -> A]
    BY <1>5
  <2> HIDE DEF f, A
  <2>2. \A a, b \in 0 .. q - 1 : f[a] = f[b] => a = b
    BY <1>5
  <2> QED BY <1>6, <2>1, <2>2 DEF Bijection, Injection, Surjection, IsInjective
<1>8. IsFiniteSet(0 .. q - 1) /\ Cardinality(0 .. q - 1) = q
  <2>1. Cardinality(0 .. q - 1) = IF 0 > q - 1 THEN 0 ELSE (q - 1) - 0 + 1
    BY <1>3, FS_Interval
  <2> QED BY <1>3, <2>1, FS_Interval
<1>9. IsFiniteSet(A) /\ Cardinality(A) = q
  <2> HIDE DEF f, A
  <2> QED BY <1>7, <1>8, FS_Bijection DEF ExistsBijection
<1> QED BY <1>3, <1>4, <1>9 DEF Occurs

\* A share of the numbers, as low_every and style_every count them.
LEMMA ShareCounts ==
  ASSUME NEW a \in Nat, NEW d \in Nat, 0 < a, a <= d, NEW n \in Nat, NEW q
  PROVE  LET e == d \div a
             h == (d + a - 1) \div a
         IN  /\ e \in Nat /\ e >= 1 /\ h \in Nat /\ h >= 1
             /\ Occurs(q, e, 0, n) => q * d >= n * a
             /\ Occurs(q, h, h - 1, n) => q * d <= n * a
<1> DEFINE e == d \div a
           h == (d + a - 1) \div a
<1>1. e \in Nat /\ d = a * e + (d % a) /\ d % a \in 0 .. a - 1
  BY Division
<1>2. h \in Nat /\ d + a - 1 = a * h + ((d + a - 1) % a) /\ (d + a - 1) % a \in 0 .. a - 1
  BY Division
<1>3. a * e <= d /\ a * e > d - a /\ a * h >= d
  <2> DEFINE x == d % a
             y == (d + a - 1) % a
             u == a * e
             v == a * h
  <2>1. u \in Nat /\ v \in Nat
    BY <1>1, <1>2
  <2>2. d = u + x /\ x \in 0 .. a - 1 /\ d + a - 1 = v + y /\ y \in 0 .. a - 1
    BY <1>1, <1>2
  <2> HIDE DEF x, y, u, v
  <2>3. u <= d /\ u > d - a /\ v >= d
    BY <2>1, <2>2
  <2> QED BY <2>3 DEF u, v
<1>4. e >= 1 /\ h >= 1
  <2>1. e # 0
    BY <1>1, <1>3
  <2>2. h # 0
    BY <1>2, <1>3
  <2> QED BY <1>1, <1>2, <2>1, <2>2
<1> HIDE DEF e, h
<1>5. ASSUME Occurs(q, e, 0, n) PROVE q * d >= n * a
  <2>1. q \in Nat /\ e * q >= n
    BY <1>1, <1>5 DEF Occurs
  <2>2. q * (a * e) <= q * d
    <3>1. a * e \in Nat
      BY <1>1
    <3> QED BY <1>3, <2>1, <3>1, TimesGrows
  <2>3. a * n <= a * (e * q)
    <3>1. e * q \in Nat
      BY <1>1, <2>1
    <3> QED BY <2>1, <3>1, TimesGrows
  <2>4. q * (a * e) = a * (e * q) /\ a * n = n * a
    BY <1>1, <2>1
  <2>5. a * n \in Nat /\ a * (e * q) \in Nat /\ q * d \in Nat
    BY <1>1, <2>1
  <2> QED BY <2>2, <2>3, <2>4, <2>5
<1>6. ASSUME Occurs(q, h, h - 1, n) PROVE q * d <= n * a
  <2>1. q \in Nat /\ (q = 0 \/ h * (q - 1) + (h - 1) < n)
    BY <1>6 DEF Occurs
  <2>2. h * q <= n
    <3>1. CASE q = 0
      BY <1>2, <3>1
    <3>2. CASE q # 0
      <4>1. h * (q - 1) = h * q - h
        BY <1>2, <2>1
      <4>2. h * q \in Nat
        BY <1>2, <2>1
      <4> QED BY <1>2, <2>1, <3>2, <4>1, <4>2
    <3> QED BY <3>1, <3>2
  <2>3. q * d <= q * (a * h)
    <3>1. a * h \in Nat
      BY <1>2
    <3> QED BY <1>3, <2>1, <3>1, TimesGrows
  <2>4. a * (h * q) <= a * n
    <3>1. h * q \in Nat
      BY <1>2, <2>1
    <3> QED BY <2>2, <3>1, TimesGrows
  <2>5. q * (a * h) = a * (h * q) /\ a * n = n * a
    BY <1>2, <2>1
  <2>6. a * n \in Nat /\ a * (h * q) \in Nat /\ q * d \in Nat
    BY <1>2, <2>1
  <2> QED BY <2>3, <2>4, <2>5, <2>6
<1> QED BY <1>1, <1>2, <1>4, <1>5, <1>6 DEF e, h

\* Any two remainders occur equally often but for one.
LEMMA EvenCounts ==
  ASSUME NEW e \in Nat, e >= 1, NEW r \in 0 .. e - 1, NEW s \in 0 .. e - 1, NEW n \in Nat,
         NEW p, Occurs(p, e, r, n), NEW q, Occurs(q, e, s, n)
  PROVE  p <= q + 1
<1>1. p \in Nat /\ q \in Nat /\ e * q + s >= n /\ (p = 0 \/ e * (p - 1) + r < n)
  BY DEF Occurs
<1>2. SUFFICES ASSUME p > q + 1 PROVE FALSE
  BY <1>1
<1>3. p - 1 \in Nat /\ q + 1 \in Nat /\ q + 1 <= p - 1
  BY <1>1, <1>2
<1>4. e * (q + 1) \in Nat /\ e * (p - 1) \in Nat /\ e * (q + 1) <= e * (p - 1)
  BY <1>3, TimesGrows
<1>5. e * (q + 1) = e * q + e /\ e * q \in Nat
  BY <1>1
<1> DEFINE u == e * q
           v == e * (p - 1)
<1>6. u + e <= v /\ u + s >= n /\ v + r < n /\ u \in Nat /\ v \in Nat
  BY <1>1, <1>2, <1>4, <1>5
<1> HIDE DEF u, v
<1> QED BY <1>6

-----------------------------------------------------------------------------
(***************************************************************************)
(* One sequence after the other.                                           *)
(***************************************************************************)
Flattens(seqs, n, f) ==
  f = [i \in 1 .. n |-> IF i = 1 THEN seqs[i] ELSE f[i - 1] \o seqs[i]]

LEMMA FlattenIs ==
  ASSUME NEW seqs, Len(seqs) # 0
  PROVE  FlattenSeq(seqs) = (CHOOSE f : Flattens(seqs, Len(seqs), f))[Len(seqs)]
  BY DEF FlattenSeq, Flattens

LEMMA FlattensExists ==
  ASSUME NEW seqs, NEW n \in Nat
  PROVE  \E f : Flattens(seqs, n, f)
<1> DEFINE T == {m \in Nat : \E f : Flattens(seqs, m, f)}
<1>1. 0 \in T
  <2>1. Flattens(seqs, 0, [i \in 1 .. 0 |-> 0])
    BY DEF Flattens
  <2> QED BY <2>1
<1>2. ASSUME NEW m \in Nat, m \in T PROVE m + 1 \in T
  <2>1. PICK f : Flattens(seqs, m, f)
    BY <1>2
  <2> DEFINE x == IF m + 1 = 1 THEN seqs[m + 1] ELSE f[m] \o seqs[m + 1]
             h == [i \in 1 .. m + 1 |-> IF i = m + 1 THEN x ELSE f[i]]
  <2>2. ASSUME NEW i \in 1 .. m + 1
        PROVE  h[i] = IF i = 1 THEN seqs[i] ELSE h[i - 1] \o seqs[i]
    <3>1. CASE i = m + 1
      <4>1. h[i] = x
        BY <3>1
      <4>2. i # 1 => i - 1 \in 1 .. m + 1 /\ i - 1 # m + 1 /\ i - 1 = m
        BY <3>1
      <4>3. i # 1 => h[i - 1] = f[m]
        BY <4>2
      <4> QED BY <3>1, <4>1, <4>3
    <3>2. CASE i # m + 1
      <4>1. i \in 1 .. m
        BY <3>2
      <4>2. f[i] = IF i = 1 THEN seqs[i] ELSE f[i - 1] \o seqs[i]
        BY <2>1, <4>1 DEF Flattens
      <4>3. h[i] = f[i] /\ (i # 1 => h[i - 1] = f[i - 1])
        BY <3>2, <4>1
      <4> QED BY <4>2, <4>3
    <3> QED BY <3>1, <3>2
  <2>3. h = [i \in 1 .. m + 1 |-> h[i]]
    OBVIOUS
  <2> HIDE DEF h
  <2>4. Flattens(seqs, m + 1, h)
    BY <2>2, <2>3 DEF Flattens
  <2> QED BY <2>4
<1> HIDE DEF T
<1>3. Nat \subseteq T
  BY <1>1, <1>2, NatInduct
<1> QED BY <1>3 DEF T

\* Where the n first of the sequences stand, one after the other.
Laid(flat, seqs, n, off) ==
  /\ off \in [0 .. n -> Nat] /\ off[0] = 0 /\ Len(flat) = off[n]
  /\ \A g \in 1 .. n : off[g] = off[g - 1] + Len(seqs[g]) /\ off[g] <= off[n]
  /\ \A g \in 1 .. n : \A k \in 1 .. Len(seqs[g]) : flat[off[g - 1] + k] = seqs[g][k]
  /\ \A i \in 1 .. off[n] : \E g \in 1 .. n : \E k \in 1 .. Len(seqs[g]) : i = off[g - 1] + k

LEMMA LaidOne ==
  ASSUME NEW S, NEW n \in Nat, NEW seqs, \A g \in 1 .. n + 1 : seqs[g] \in Seq(S),
         NEW flat \in Seq(S), NEW off, Laid(flat, seqs, n, off)
  PROVE  \E h : Laid(flat \o seqs[n + 1], seqs, n + 1, h)
<1> DEFINE new == seqs[n + 1]
           both == flat \o new
           a == Len(flat)
           b == Len(new)
           h == [i \in 0 .. n + 1 |-> IF i = n + 1 THEN off[n] + b ELSE off[i]]
<1>1. new \in Seq(S) /\ a \in Nat /\ b \in Nat
  OBVIOUS
<1>2. /\ off \in [0 .. n -> Nat] /\ off[0] = 0 /\ a = off[n]
      /\ \A g \in 1 .. n : off[g] = off[g - 1] + Len(seqs[g]) /\ off[g] <= off[n]
      /\ \A g \in 1 .. n : \A k \in 1 .. Len(seqs[g]) : flat[off[g - 1] + k] = seqs[g][k]
      /\ \A i \in 1 .. off[n] : \E g \in 1 .. n : \E k \in 1 .. Len(seqs[g]) : i = off[g - 1] + k
  BY DEF Laid
<1>3. /\ Len(both) = a + b
      /\ \A i \in 1 .. a : both[i] = flat[i]
      /\ \A k \in 1 .. b : both[a + k] = new[k]
  BY <1>1
<1>4. h \in [0 .. n + 1 -> Nat] /\ h[0] = 0 /\ h[n + 1] = a + b /\ \A i \in 0 .. n : h[i] = off[i]
  BY <1>1, <1>2
<1>5. \A g \in 1 .. n : Len(seqs[g]) \in Nat /\ g - 1 \in 0 .. n /\ g \in 0 .. n
  OBVIOUS
<1>6. (n + 1) - 1 = n /\ n \in 0 .. n /\ n + 1 \in 1 .. n + 1
  OBVIOUS
<1> HIDE DEF both, h, a, b
<1>7. ASSUME NEW g \in 1 .. n + 1
      PROVE  h[g] = h[g - 1] + Len(seqs[g]) /\ h[g] <= h[n + 1]
  <2>1. CASE g = n + 1
    <3>1. h[g - 1] = a /\ Len(seqs[g]) = b
      BY <1>2, <1>4, <1>6, <2>1 DEF b
    <3> QED BY <1>1, <1>4, <2>1, <3>1
  <2>2. CASE g # n + 1
    <3>1. g \in 1 .. n
      BY <2>2
    <3>2. h[g] = off[g] /\ h[g - 1] = off[g - 1] /\ off[g] \in Nat
      BY <1>2, <1>4, <1>5, <3>1
    <3>3. off[g] <= a + b
      <4>1. off[g] <= a
        BY <1>2, <3>1
      <4> QED BY <1>1, <3>2, <4>1
    <3> QED BY <1>2, <1>4, <3>1, <3>2, <3>3
  <2> QED BY <2>1, <2>2
<1>8. ASSUME NEW g \in 1 .. n + 1, NEW k \in 1 .. Len(seqs[g])
      PROVE  both[h[g - 1] + k] = seqs[g][k]
  <2>1. CASE g = n + 1
    <3>1. h[g - 1] = a /\ seqs[g] = new /\ k \in 1 .. b
      BY <1>2, <1>4, <1>6, <2>1 DEF b
    <3> QED BY <1>3, <3>1
  <2>2. CASE g # n + 1
    <3>1. g \in 1 .. n
      BY <2>2
    <3>2. h[g - 1] = off[g - 1] /\ off[g - 1] \in Nat
      BY <1>2, <1>4, <1>5, <3>1
    <3>3. off[g] = off[g - 1] + Len(seqs[g]) /\ off[g] <= a /\ Len(seqs[g]) \in Nat
      BY <1>2, <1>5, <3>1
    <3>4. off[g - 1] + k \in 1 .. a
      <4> DEFINE l == Len(seqs[g])
                 o == off[g - 1]
      <4>1. l \in Nat /\ o \in Nat /\ o + l <= a /\ k \in 1 .. l
        BY <3>2, <3>3
      <4> HIDE DEF l, o
      <4>2. o + k \in 1 .. a
        BY <1>1, <4>1
      <4> QED BY <4>2 DEF o
    <3> QED BY <1>2, <1>3, <3>1, <3>2, <3>4
  <2> QED BY <2>1, <2>2
<1>9. ASSUME NEW i \in 1 .. h[n + 1]
      PROVE  \E g \in 1 .. n + 1 : \E k \in 1 .. Len(seqs[g]) : i = h[g - 1] + k
  <2>1. i \in 1 .. a + b
    BY <1>4
  <2>2. CASE i <= a
    <3>1. i \in 1 .. off[n]
      BY <1>1, <1>2, <2>1, <2>2
    <3>2. PICK g \in 1 .. n : \E k \in 1 .. Len(seqs[g]) : i = off[g - 1] + k
      BY <1>2, <3>1
    <3>3. g \in 1 .. n + 1 /\ h[g - 1] = off[g - 1]
      BY <1>4, <1>5
    <3> QED BY <3>2, <3>3
  <2>3. CASE i > a
    <3>1. i - a \in 1 .. b /\ i = a + (i - a)
      BY <1>1, <2>1, <2>3
    <3>2. h[(n + 1) - 1] = a /\ i - a \in 1 .. Len(seqs[n + 1])
      BY <1>2, <1>4, <1>6, <3>1 DEF b
    <3> QED BY <1>6, <3>1, <3>2
  <2> QED BY <1>1, <2>1, <2>2, <2>3
<1>10. Len(both) = h[n + 1]
  BY <1>3, <1>4
<1>11. Laid(both, seqs, n + 1, h)
  BY <1>4, <1>7, <1>8, <1>9, <1>10 DEF Laid
<1> QED BY <1>11 DEF both

LEMMA FlattenLaid ==
  ASSUME NEW S, NEW n \in Nat, NEW seqs \in Seq(Seq(S)), Len(seqs) = n
  PROVE  /\ FlattenSeq(seqs) \in Seq(S)
         /\ \E off : Laid(FlattenSeq(seqs), seqs, n, off)
<1>1. \A g \in 1 .. n : seqs[g] \in Seq(S)
  OBVIOUS
<1>2. CASE n = 0
  <2>1. FlattenSeq(seqs) = seqs /\ seqs = << >>
    BY <1>2 DEF FlattenSeq
  <2> DEFINE off == [i \in 0 .. 0 |-> 0]
  <2>2. Laid(<< >>, seqs, 0, off)
    BY DEF Laid
  <2> HIDE DEF off
  <2>3. << >> \in Seq(S)
    OBVIOUS
  <2> QED BY <1>2, <2>1, <2>2, <2>3
<1>3. CASE n # 0
  <2> DEFINE f == CHOOSE h : Flattens(seqs, n, h)
             Done(m) == \E flat \in Seq(S) : \E off :
                          Laid(flat, seqs, m, off) /\ (m # 0 => flat = f[m])
             T == {m \in Nat : m <= n => Done(m)}
  <2>1. Flattens(seqs, n, f)
    BY FlattensExists
  <2>2. FlattenSeq(seqs) = f[n]
    BY <1>3, FlattenIs
  <2> HIDE DEF f
  <2>3. \A i \in 1 .. n : f[i] = IF i = 1 THEN seqs[i] ELSE f[i - 1] \o seqs[i]
    BY <2>1 DEF Flattens
  <2>4. 0 \in T
    <3> DEFINE off == [i \in 0 .. 0 |-> 0]
    <3>1. Laid(<< >>, seqs, 0, off)
      BY DEF Laid
    <3> HIDE DEF off
    <3>2. << >> \in Seq(S)
      OBVIOUS
    <3> QED BY <3>1, <3>2
  <2>5. ASSUME NEW m \in Nat, m \in T PROVE m + 1 \in T
    <3>1. SUFFICES ASSUME m + 1 <= n PROVE Done(m + 1)
      OBVIOUS
    <3>1a. PICK flat \in Seq(S) : \E off : Laid(flat, seqs, m, off) /\ (m # 0 => flat = f[m])
      BY <2>5, <3>1
    <3>2. PICK off : Laid(flat, seqs, m, off) /\ (m # 0 => flat = f[m])
      BY <3>1a
    <3> DEFINE new == seqs[m + 1]
    <3>3. new \in Seq(S) /\ m + 1 \in 1 .. n /\ (m + 1) - 1 = m /\ m + 1 # 0
      BY <1>1, <3>1
    <3>4. \E h : Laid(flat \o new, seqs, m + 1, h)
      <4>1. \A g \in 1 .. m + 1 : seqs[g] \in Seq(S)
        BY <1>1, <3>1
      <4> QED BY <3>2, <4>1, LaidOne
    <3>5. f[m + 1] = flat \o new
      <4>1. CASE m = 0
        <5>1. Len(flat) = 0
          BY <3>2, <4>1 DEF Laid
        <5>2. flat = << >>
          BY <5>1
        <5>3. f[m + 1] = new
          BY <2>3, <3>3, <4>1
        <5> HIDE DEF new
        <5>4. << >> \o new = new
          BY <3>3
        <5> QED BY <5>2, <5>3, <5>4
      <4>2. CASE m # 0
        <5>1. m + 1 # 1
          BY <4>2
        <5>2. f[m + 1] = f[m] \o new
          BY <2>3, <3>3, <5>1
        <5> QED BY <3>2, <4>2, <5>2
      <4> QED BY <4>1, <4>2
    <3>6. flat \o new \in Seq(S)
      <4> HIDE DEF new
      <4> QED BY <3>3
    <3> HIDE DEF new
    <3> QED BY <3>3, <3>4, <3>5, <3>6
  <2> HIDE DEF T
  <2>6. Nat \subseteq T
    BY <2>4, <2>5, NatInduct
  <2>7. Done(n)
    BY <2>6 DEF T
  <2> QED BY <1>3, <2>2, <2>7
<1> QED BY <1>2, <1>3

-----------------------------------------------------------------------------
(***************************************************************************)
(* A plan is cut from the jobs of its genres, one genre after the other.   *)
(***************************************************************************)
LEMMA ListIs ==
  ASSUME NEW s, s \in Seq(ToSet(s))
  PROVE  Len(s) \in Nat /\ DOMAIN s = 1 .. Len(s) /\ \A i \in DOMAIN s : s[i] \in ToSet(s)
  BY DEF ToSet

LEMMA ForGenreIs ==
  ASSUME NEW genre \in ToSet(Genres) \cup {NoFilter}
  PROVE  LET gs == ForGenre(genre)
         IN  /\ Len(gs) \in Nat /\ DOMAIN gs = 1 .. Len(gs)
             /\ \A i \in DOMAIN gs : gs[i] \in ToSet(Genres)
             /\ \A i, j \in DOMAIN gs : gs[i] = gs[j] => i = j
<1>1. CASE genre = NoFilter
  <2>1. ForGenre(genre) = Genres
    BY <1>1 DEF ForGenre
  <2>2. Genres \in Seq(ToSet(Genres)) /\ IsInjective(Genres)
    BY PlansAssumption
  <2> QED BY <2>1, <2>2, ListIs DEF IsInjective
<1>2. CASE genre # NoFilter
  <2>1. ForGenre(genre) = <<genre>>
    BY <1>2 DEF ForGenre
  <2>2. Len(<<genre>>) = 1 /\ DOMAIN <<genre>> = 1 .. 1 /\ <<genre>>[1] = genre
    OBVIOUS
  <2>3. \A i \in 1 .. 1 : i = 1
    OBVIOUS
  <2>4. genre \in ToSet(Genres)
    BY <1>2
  <2> HIDE DEF ForGenre
  <2> QED BY <2>1, <2>2, <2>3, <2>4
<1> QED BY <1>1, <1>2

\* How the plan begins, as far as it goes.
Begins(plan, flat) ==
  Len(plan) \in Nat /\ Len(plan) <= Len(flat) /\ DOMAIN plan = 1 .. Len(plan)
  /\ \A i \in DOMAIN plan : plan[i] = flat[i]

LEMMA LimitedBegins ==
  ASSUME NEW S, NEW flat \in Seq(S), NEW limit \in Limits \cup {NoFilter}
  PROVE  Begins(Limited(flat, limit), flat) /\ (limit = NoFilter => Limited(flat, limit) = flat)
<1>1. Len(flat) \in Nat /\ DOMAIN flat = 1 .. Len(flat)
  OBVIOUS
<1>2. CASE limit = NoFilter \/ limit >= Len(flat)
  BY <1>1, <1>2 DEF Limited, Begins
<1>3. CASE ~(limit = NoFilter \/ limit >= Len(flat))
  <2>1. limit \in Nat /\ limit < Len(flat) /\ limit # NoFilter
    BY <1>1, <1>3, PlansAssumption
  <2>2. Limited(flat, limit) = SubSeq(flat, 1, limit)
    BY <1>3 DEF Limited
  <2>3. /\ Len(SubSeq(flat, 1, limit)) = limit /\ DOMAIN SubSeq(flat, 1, limit) = 1 .. limit
        /\ \A i \in 1 .. limit : SubSeq(flat, 1, limit)[i] = flat[i]
    BY <1>1, <2>1
  <2> DEFINE p == SubSeq(flat, 1, limit)
             l == Len(p)
  <2>4. l = limit /\ DOMAIN p = 1 .. l /\ \A i \in DOMAIN p : p[i] = flat[i]
    BY <2>3
  <2> HIDE DEF p
  <2>5. l \in Nat /\ l <= Len(flat)
    BY <1>1, <2>1, <2>4
  <2>6. Begins(p, flat)
    BY <2>4, <2>5 DEF Begins
  <2> QED BY <2>1, <2>2, <2>6 DEF p
<1> QED BY <1>2, <1>3

\* The jobs of a genre stand together.
IsBlock(plan, genre, o, n) ==
  o \in Nat /\ n \in Nat /\ {i \in DOMAIN plan : plan[i].genre = genre} = o + 1 .. o + n

LEMMA NoBlock ==
  ASSUME NEW plan, NEW genre, \A i \in DOMAIN plan : plan[i].genre # genre
  PROVE  IsBlock(plan, genre, 0, 0)
<1>1. 0 + 1 .. 0 + 0 = {}
  OBVIOUS
<1> QED BY <1>1 DEF IsBlock

OfGenres(seqs, gs) == \A g \in DOMAIN gs : \A k \in 1 .. Len(seqs[g]) : seqs[g][k].genre = gs[g]

\* The part of a genre's jobs that is in the plan.
Planned(plan, flat, genre, s) ==
  \E o \in Nat, n \in Nat :
    /\ n <= Len(s) /\ IsBlock(plan, genre, o, n)
    /\ \A k \in 1 .. n : plan[o + k] = s[k]
    /\ plan = flat => n = Len(s)

LEMMA BlockOfGenre ==
  ASSUME NEW gs, NEW G \in Nat, DOMAIN gs = 1 .. G, \A i, j \in DOMAIN gs : gs[i] = gs[j] => i = j,
         NEW seqs, \A g \in 1 .. G : Len(seqs[g]) \in Nat, OfGenres(seqs, gs),
         NEW flat, NEW off, Laid(flat, seqs, G, off), NEW plan, Begins(plan, flat), NEW g \in 1 .. G
  PROVE  Planned(plan, flat, gs[g], seqs[g])
<1> DEFINE l == Len(plan)
           o == off[g - 1]
           w == Len(seqs[g])
           n == IF l <= o THEN 0 ELSE IF l - o < w THEN l - o ELSE w
           B == {i \in DOMAIN plan : plan[i].genre = gs[g]}
<1>1. /\ off \in [0 .. G -> Nat] /\ Len(flat) = off[G]
      /\ \A h \in 1 .. G : off[h] = off[h - 1] + Len(seqs[h]) /\ off[h] <= off[G]
      /\ \A h \in 1 .. G : \A k \in 1 .. Len(seqs[h]) : flat[off[h - 1] + k] = seqs[h][k]
      /\ \A i \in 1 .. off[G] : \E h \in 1 .. G : \E k \in 1 .. Len(seqs[h]) : i = off[h - 1] + k
  BY DEF Laid
<1>2. l \in Nat /\ l <= off[G] /\ DOMAIN plan = 1 .. l /\ \A i \in DOMAIN plan : plan[i] = flat[i]
  BY <1>1 DEF Begins
<1>3. g - 1 \in 0 .. G /\ g \in 0 .. G /\ G \in 0 .. G
  OBVIOUS
<1>4. o \in Nat /\ w \in Nat /\ off[G] \in Nat /\ o + w <= off[G]
  BY <1>1, <1>3
<1> HIDE DEF l, o, w
<1>5. n \in Nat /\ n <= w /\ o + n <= off[G] /\ (n # 0 => o + n <= l)
  BY <1>2, <1>4
<1>6. l = off[G] => n = w
  BY <1>4
<1>7. \A i \in 1 .. l : i > o /\ i <= o + w => i <= o + n
  BY <1>2, <1>4
<1> HIDE DEF n
<1>8. ASSUME NEW k \in 1 .. n
      PROVE  o + k \in DOMAIN plan /\ plan[o + k] = seqs[g][k] /\ plan[o + k].genre = gs[g]
  <2>1. k \in 1 .. w /\ o + k \in 1 .. l
    BY <1>2, <1>4, <1>5
  <2>2. plan[o + k] = seqs[g][k]
    BY <1>1, <1>2, <2>1 DEF o, w
  <2> QED BY <1>2, <2>1, <2>2 DEF OfGenres, w
<1>9. ASSUME NEW i \in DOMAIN plan, plan[i].genre = gs[g] PROVE i \in o + 1 .. o + n
  <2>1. i \in 1 .. l /\ i \in 1 .. off[G]
    BY <1>2, <1>4
  <2>2. PICK h \in 1 .. G : \E k \in 1 .. Len(seqs[h]) : i = off[h - 1] + k
    BY <1>1, <2>1
  <2>3. PICK k \in 1 .. Len(seqs[h]) : i = off[h - 1] + k
    BY <2>2
  <2>4. plan[i] = seqs[h][k]
    BY <1>1, <1>2, <2>3
  <2>5. gs[h] = gs[g]
    BY <1>9, <2>4 DEF OfGenres
  <2>6. h = g
    BY <2>5
  <2>7. i = o + k /\ k \in 1 .. w
    BY <2>3, <2>6 DEF o, w
  <2>8. i > o /\ i <= o + w
    BY <1>4, <2>7
  <2> QED BY <1>4, <1>5, <1>7, <2>1, <2>8
<1>10. B = o + 1 .. o + n
  <2>1. ASSUME NEW i \in o + 1 .. o + n PROVE i \in B
    <3>1. i - o \in 1 .. n /\ i = o + (i - o)
      BY <1>4, <1>5
    <3> QED BY <1>8, <3>1
  <2>2. ASSUME NEW i \in B PROVE i \in o + 1 .. o + n
    BY <1>9
  <2> HIDE DEF B
  <2> QED BY <2>1, <2>2
<1>11. IsBlock(plan, gs[g], o, n)
  BY <1>4, <1>5, <1>10 DEF IsBlock
<1>12. plan = flat => n = w
  BY <1>1, <1>6 DEF l
<1> QED BY <1>4, <1>5, <1>8, <1>11, <1>12 DEF Planned, w

\* Every job of the plan is of one of the genres.
InGenres(plan) ==
  /\ Len(plan) \in Nat /\ DOMAIN plan = 1 .. Len(plan)
  /\ \A i \in DOMAIN plan : plan[i].genre \in ToSet(Genres)

LEMMA ListedPlan ==
  ASSUME NEW gs, NEW G \in Nat, DOMAIN gs = 1 .. G, \A g \in DOMAIN gs : gs[g] \in ToSet(Genres),
         NEW seqs, OfGenres(seqs, gs), NEW flat, NEW off, Laid(flat, seqs, G, off),
         NEW plan, Begins(plan, flat)
  PROVE  InGenres(plan)
<1>1. Len(plan) \in Nat /\ DOMAIN plan = 1 .. Len(plan)
  BY DEF Begins
<1>2. ASSUME NEW i \in DOMAIN plan PROVE plan[i].genre \in ToSet(Genres)
  <2>1. i \in 1 .. Len(flat) /\ plan[i] = flat[i]
    <3>1. /\ Len(plan) \in Nat /\ Len(plan) <= Len(flat) /\ DOMAIN plan = 1 .. Len(plan)
          /\ plan[i] = flat[i]
      BY DEF Begins
    <3>2. off[G] \in Nat /\ Len(flat) = off[G]
      BY DEF Laid
    <3> QED BY <3>1, <3>2
  <2>2. PICK g \in 1 .. G : \E k \in 1 .. Len(seqs[g]) : i = off[g - 1] + k
    BY <2>1 DEF Laid
  <2>3. PICK k \in 1 .. Len(seqs[g]) : i = off[g - 1] + k
    BY <2>2
  <2>4. plan[i] = seqs[g][k]
    BY <2>1, <2>3 DEF Laid
  <2> QED BY <2>4 DEF OfGenres
<1> QED BY <1>1, <1>2 DEF InGenres

\* A genre the plan is not about has no jobs in it.
LEMMA NoBlockOfGenre ==
  ASSUME NEW gs, NEW G \in Nat, DOMAIN gs = 1 .. G, NEW seqs, OfGenres(seqs, gs),
         NEW flat, NEW off, Laid(flat, seqs, G, off), NEW plan, Begins(plan, flat),
         NEW genre, \A g \in 1 .. G : gs[g] # genre
  PROVE  IsBlock(plan, genre, 0, 0)
<1> SUFFICES ASSUME NEW i \in DOMAIN plan PROVE plan[i].genre # genre
  BY NoBlock
<1>1. i \in 1 .. Len(flat) /\ plan[i] = flat[i]
  <2>1. /\ Len(plan) \in Nat /\ Len(plan) <= Len(flat) /\ DOMAIN plan = 1 .. Len(plan)
        /\ plan[i] = flat[i]
    BY DEF Begins
  <2>2. off[G] \in Nat /\ Len(flat) = off[G]
    BY DEF Laid
  <2> QED BY <2>1, <2>2
<1>2. PICK g \in 1 .. G : \E k \in 1 .. Len(seqs[g]) : i = off[g - 1] + k
  BY <1>1 DEF Laid
<1>3. PICK k \in 1 .. Len(seqs[g]) : i = off[g - 1] + k
  BY <1>2
<1>4. plan[i] = seqs[g][k]
  BY <1>1, <1>3 DEF Laid
<1> QED BY <1>4 DEF OfGenres

\* The jobs of S are those at the places A of a genre's block.
Places(genre, o, n, A, S) ==
  /\ A \subseteq 1 .. n
  /\ \A i \in DOMAIN jobs : jobs[i] \in S <=> (jobs[i].genre = genre /\ i - o \in A)

LEMMA CountInBlock ==
  ASSUME NEW genre, NEW o, NEW n, IsBlock(jobs, genre, o, n),
         NEW A, NEW S, Places(genre, o, n, A, S)
  PROVE  IsFiniteSet(A) /\ Count(S) = Cardinality(A)
<1> DEFINE f == [k \in A |-> o + k]
           C == {i \in DOMAIN jobs : jobs[i] \in S}
<1>1. o \in Nat /\ n \in Nat /\ {i \in DOMAIN jobs : jobs[i].genre = genre} = o + 1 .. o + n
  BY DEF IsBlock
<1> USE DEF Places
<1>2. IsFiniteSet(A)
  <2>1. IsFiniteSet(1 .. n)
    BY <1>1, FS_Interval
  <2> QED BY <2>1, FS_Subset
<1>3. ASSUME NEW k \in A PROVE f[k] \in C
  <2>1. o + k \in o + 1 .. o + n /\ (o + k) - o = k
    BY <1>1
  <2>2. o + k \in DOMAIN jobs /\ jobs[o + k].genre = genre
    BY <1>1, <2>1
  <2>3. jobs[o + k] \in S
    BY <2>1, <2>2
  <2> QED BY <2>2, <2>3
<1>4. ASSUME NEW i \in C PROVE \E k \in A : f[k] = i
  <2>1. i - o \in A /\ i \in o + 1 .. o + n
    BY <1>1
  <2>2. o + (i - o) = i
    BY <1>1, <2>1
  <2> QED BY <2>1, <2>2
<1>5. ASSUME NEW a \in A, NEW b \in A, f[a] = f[b] PROVE a = b
  BY <1>1, <1>5
<1>6. f \in Bijection(A, C)
  <2>1. f \in [A -> C]
    BY <1>3
  <2> HIDE DEF f, C
  <2> QED BY <1>4, <1>5, <2>1 DEF Bijection, Injection, Surjection, IsInjective
<1> HIDE DEF f
<1>7. Cardinality(C) = Cardinality(A)
  <2> HIDE DEF C
  <2> QED BY <1>2, <1>6, FS_Bijection DEF ExistsBijection
<1> QED BY <1>2, <1>7 DEF Count

-----------------------------------------------------------------------------
(***************************************************************************)
(* The plan of generate.                                                   *)
(***************************************************************************)
IsConfig(c) ==
  /\ c.genre \in ToSet(Genres) \cup {NoFilter} /\ c.model \in ToSet(Models) \cup {NoFilter}
  /\ c.limit \in Limits \cup {NoFilter} /\ c.target \in Targets
  /\ c.low \in Shares /\ c.style \in Shares

ModelsOf(c) == IF c.model = NoFilter THEN Models ELSE <<c.model>>

LEMMA ModelsAre ==
  ASSUME NEW c, IsConfig(c)
  PROVE  /\ Len(ModelsOf(c)) \in Nat /\ Len(ModelsOf(c)) >= 1
         /\ DOMAIN ModelsOf(c) = 1 .. Len(ModelsOf(c))
         /\ \A i, j \in DOMAIN ModelsOf(c) : ModelsOf(c)[i] = ModelsOf(c)[j] => i = j
<1>1. CASE c.model = NoFilter
  <2>1. ModelsOf(c) = Models
    BY <1>1 DEF ModelsOf
  <2>2. Models \in Seq(ToSet(Models)) /\ IsInjective(Models) /\ Models # << >>
    BY PlansAssumption
  <2>3. Len(Models) \in Nat /\ DOMAIN Models = 1 .. Len(Models)
    BY <2>2, ListIs
  <2>4. Len(Models) # 0
    BY <2>2
  <2> QED BY <2>1, <2>2, <2>3, <2>4 DEF IsInjective
<1>2. CASE c.model # NoFilter
  <2> DEFINE m == c.model
  <2>1. ModelsOf(c) = <<m>>
    BY <1>2 DEF ModelsOf
  <2> HIDE DEF m
  <2>2. Len(<<m>>) = 1 /\ DOMAIN <<m>> = 1 .. 1 /\ 1 \in Nat /\ 1 >= 1
    OBVIOUS
  <2>3. \A i \in 1 .. 1 : i = 1
    OBVIOUS
  <2> QED BY <2>1, <2>2, <2>3
<1> QED BY <1>1, <1>2

LEMMA PromptsAre ==
  ASSUME NEW genre \in ToSet(Genres)
  PROVE  /\ Len(Prompts[genre]) \in Nat /\ DOMAIN Prompts[genre] = 1 .. Len(Prompts[genre])
         /\ \A i, j \in DOMAIN Prompts[genre] : Prompts[genre][i] = Prompts[genre][j] => i = j
<1>1. Prompts[genre] \in Seq(ToSet(Prompts[genre])) /\ IsInjective(Prompts[genre])
  BY PlansAssumption
<1> QED BY <1>1, ListIs DEF IsInjective

JobBlock(c, genre, o, n) ==
  /\ IsBlock(jobs, genre, o, n)
  /\ n <= Len(Prompts[genre]) * Len(ModelsOf(c))
  /\ \A k \in 1 .. n : jobs[o + k] = Job(genre, ModelsOf(c), c, k - 1)

LEMMA GenreJobsAre ==
  ASSUME NEW c, IsConfig(c), NEW genre \in ToSet(Genres), NEW S,
         \A k \in Nat : Job(genre, ModelsOf(c), c, k) \in S
  PROVE  LET s == PlanGenreJobs(genre, ModelsOf(c), c)
         IN  /\ s \in Seq(S) /\ Len(s) <= Len(Prompts[genre]) * Len(ModelsOf(c))
             /\ \A k \in 1 .. Len(s) : s[k] = Job(genre, ModelsOf(c), c, k - 1)
<1> DEFINE ms == ModelsOf(c)
           p == Len(Prompts[genre])
           m == Len(ms)
           all == p * m
           target == IF c.target < all THEN c.target ELSE all
           J == [k \in 1 .. target |-> Job(genre, ms, c, k - 1)]
<1>1. PlanGenreJobs(genre, ms, c) = J
  BY DEF PlanGenreJobs
<1>2. c.target \in Nat /\ p \in Nat /\ m \in Nat
  BY PlansAssumption, PromptsAre, ModelsAre DEF IsConfig
<1> HIDE DEF p, m
<1>3. all \in Nat
  BY <1>2
<1> HIDE DEF all
<1>4. target \in Nat /\ target <= all
  BY <1>2, <1>3
<1> HIDE DEF target, ms
<1>5. \A k \in 1 .. target : J[k] \in S
  <2>1. \A k \in 1 .. target : k - 1 \in Nat
    BY <1>4
  <2> QED BY <2>1 DEF ms
<1>6. J \in Seq(S) /\ Len(J) = target
  BY <1>4, <1>5
<1>7. \A k \in 1 .. target : J[k] = Job(genre, ms, c, k - 1)
  OBVIOUS
<1> HIDE DEF J
<1> QED BY <1>1, <1>4, <1>6, <1>7 DEF all, p, m, ms

LEMMA JobGenre ==
  ASSUME NEW genre, NEW ms, NEW c, NEW k
  PROVE  Job(genre, ms, c, k).genre = genre
  BY DEF Job

\* What is known of the plan: in every genre, its jobs are a block.
LEMMA JobBlocks ==
  ASSUME NEW c, IsConfig(c), jobs = BuildPlan(c)
  PROVE  InGenres(jobs) /\ \A genre \in ToSet(Genres) : \E o, n : JobBlock(c, genre, o, n)
<1> DEFINE ms == ModelsOf(c)
           gs == ForGenre(c.genre)
           G == Len(gs)
           S == {Job(g, ms, c, k) : g \in ToSet(Genres), k \in Nat}
           seqs == [g \in DOMAIN gs |-> PlanGenreJobs(gs[g], ms, c)]
           flat == FlattenSeq(seqs)
<1>1. jobs = Limited(flat, c.limit)
  BY DEF BuildPlan, ModelsOf
<1>2. /\ G \in Nat /\ DOMAIN gs = 1 .. G /\ \A g \in DOMAIN gs : gs[g] \in ToSet(Genres)
      /\ \A i, j \in DOMAIN gs : gs[i] = gs[j] => i = j
  BY ForGenreIs DEF IsConfig
<1> HIDE DEF gs, ms
<1>3. ASSUME NEW g \in 1 .. G
      PROVE  /\ seqs[g] \in Seq(S) /\ Len(seqs[g]) \in Nat
             /\ Len(seqs[g]) <= Len(Prompts[gs[g]]) * Len(ms)
             /\ \A k \in 1 .. Len(seqs[g]) : seqs[g][k] = Job(gs[g], ms, c, k - 1)
  <2> DEFINE x == gs[g]
             s == PlanGenreJobs(x, ms, c)
  <2>1. seqs[g] = s /\ x \in ToSet(Genres)
    BY <1>2
  <2>2. \A k \in Nat : Job(x, ms, c, k) \in S
    BY <2>1
  <2> HIDE DEF S, seqs, x
  <2>3. /\ s \in Seq(S) /\ Len(s) <= Len(Prompts[x]) * Len(ms)
        /\ \A k \in 1 .. Len(s) : s[k] = Job(x, ms, c, k - 1)
    BY <2>1, <2>2, GenreJobsAre DEF ms
  <2> HIDE DEF s
  <2>4. Len(s) \in Nat
    BY <2>3
  <2> DEFINE Good(y) == /\ y \in Seq(S) /\ Len(y) \in Nat
                        /\ Len(y) <= Len(Prompts[x]) * Len(ms)
                        /\ \A k \in 1 .. Len(y) : y[k] = Job(x, ms, c, k - 1)
  <2>5. Good(s)
    BY <2>3, <2>4
  <2> HIDE DEF Good
  <2>6. Good(seqs[g])
    BY <2>1, <2>5
  <2> QED BY <2>6 DEF Good, x
<1>4. seqs \in Seq(Seq(S)) /\ Len(seqs) = G
  <2>1. DOMAIN seqs = 1 .. G /\ seqs = [g \in 1 .. G |-> seqs[g]]
    BY <1>2
  <2> HIDE DEF S, seqs, G
  <2>2. \A g \in 1 .. G : seqs[g] \in Seq(S)
    BY <1>3
  <2> QED BY <1>2, <2>1, <2>2
<1>5. flat \in Seq(S) /\ \E off : Laid(flat, seqs, G, off)
  <2> HIDE DEF S, seqs
  <2> QED BY <1>2, <1>4, FlattenLaid
<1> HIDE DEF flat
<1>6. PICK off : Laid(flat, seqs, G, off)
  <2> HIDE DEF S, seqs, G
  <2> QED BY <1>5
<1>7. Begins(jobs, flat)
  <2>1. c.limit \in Limits \cup {NoFilter}
    BY DEF IsConfig
  <2> HIDE DEF S
  <2> QED BY <1>1, <1>5, <2>1, LimitedBegins
<1>8. OfGenres(seqs, gs)
  <2> SUFFICES ASSUME NEW g \in DOMAIN gs, NEW k \in 1 .. Len(seqs[g]) PROVE seqs[g][k].genre = gs[g]
    BY DEF OfGenres
  <2> HIDE DEF S, seqs
  <2>1. g \in 1 .. G
    BY <1>2
  <2>2. seqs[g][k] = Job(gs[g], ms, c, k - 1)
    BY <1>3, <2>1
  <2> QED BY <2>2, JobGenre
<1> HIDE DEF S, seqs, G
<1>0. InGenres(jobs)
  BY <1>2, <1>6, <1>7, <1>8, ListedPlan
<1> SUFFICES ASSUME NEW genre \in ToSet(Genres) PROVE \E o, n : JobBlock(c, genre, o, n)
  BY <1>0
<1>9. CASE \E g \in 1 .. G : gs[g] = genre
  <2>1. PICK g \in 1 .. G : gs[g] = genre
    BY <1>9
  <2>2. Planned(jobs, flat, genre, seqs[g])
    <3>1. \A h \in 1 .. G : Len(seqs[h]) \in Nat
      BY <1>3
    <3>2. Planned(jobs, flat, gs[g], seqs[g])
      BY <1>2, <1>6, <1>7, <1>8, <3>1, BlockOfGenre
    <3> QED BY <2>1, <3>2
  <2>3. PICK o \in Nat, n \in Nat :
          /\ n <= Len(seqs[g]) /\ IsBlock(jobs, genre, o, n)
          /\ \A k \in 1 .. n : jobs[o + k] = seqs[g][k]
    BY <2>2 DEF Planned
  <2>4. Len(seqs[g]) \in Nat /\ Len(seqs[g]) <= Len(Prompts[genre]) * Len(ms)
    <3>1. Len(seqs[g]) \in Nat /\ Len(seqs[g]) <= Len(Prompts[gs[g]]) * Len(ms)
      BY <1>3
    <3> QED BY <2>1, <3>1
  <2>5. n <= Len(Prompts[genre]) * Len(ms)
    <3> DEFINE x == Len(seqs[g])
               p == Len(Prompts[genre])
               m == Len(ms)
               y == p * m
    <3>1. p \in Nat /\ m \in Nat
      BY PromptsAre, ModelsAre DEF ms
    <3> HIDE DEF p, m
    <3>2. y \in Nat
      BY <3>1
    <3>3. x \in Nat /\ x <= y /\ n <= x
      BY <2>3, <2>4 DEF p, m
    <3> HIDE DEF x, y
    <3>4. n <= y
      BY <3>2, <3>3
    <3> QED BY <3>4 DEF y, p, m
  <2>6. \A k \in 1 .. n : jobs[o + k] = Job(genre, ms, c, k - 1)
    <3> TAKE k \in 1 .. n
    <3>1. k \in 1 .. Len(seqs[g])
      BY <2>3, <2>4
    <3> QED BY <1>3, <2>1, <2>3, <3>1
  <2> QED BY <2>3, <2>5, <2>6 DEF JobBlock, ms
<1>10. CASE \A g \in 1 .. G : gs[g] # genre
  <2>1. IsBlock(jobs, genre, 0, 0)
    BY <1>2, <1>6, <1>7, <1>8, <1>10, NoBlockOfGenre
  <2>2. 0 <= Len(Prompts[genre]) * Len(ms)
    <3>1. Len(Prompts[genre]) \in Nat /\ Len(ms) \in Nat
      BY PromptsAre, ModelsAre DEF ms
    <3> QED BY <3>1
  <2>3. 1 .. 0 = {}
    OBVIOUS
  <2> QED BY <2>1, <2>2, <2>3 DEF JobBlock, ms
<1> QED BY <1>9, <1>10

LEMMA BlockCount ==
  ASSUME NEW genre, NEW o, NEW n, IsBlock(jobs, genre, o, n), NEW e \in Nat, e >= 1,
         NEW r \in 0 .. e - 1, NEW S, \A j \in S : j.genre = genre,
         \A k \in 1 .. n : jobs[o + k] \in S <=> (k - 1) % e = r
  PROVE  Occurs(Count(S), e, r, n)
<1> DEFINE A == Leaving(e, r, n)
<1>1. o \in Nat /\ n \in Nat /\ {i \in DOMAIN jobs : jobs[i].genre = genre} = o + 1 .. o + n
  BY DEF IsBlock
<1>2. A \subseteq 1 .. n
  BY DEF Leaving
<1>3. ASSUME NEW i \in DOMAIN jobs
      PROVE  jobs[i] \in S <=> jobs[i].genre = genre /\ i - o \in A
  <2>1. jobs[i].genre = genre => i - o \in 1 .. n /\ o + (i - o) = i
    BY <1>1
  <2>2. i - o \in 1 .. n => (i - o \in A <=> ((i - o) - 1) % e = r)
    BY DEF Leaving
  <2>3. jobs[i].genre = genre => (jobs[i] \in S <=> i - o \in A)
    BY <2>1, <2>2
  <2> QED BY <2>3
<1> HIDE DEF A
<1>4. \A i \in DOMAIN jobs : jobs[i] \in S <=> (jobs[i].genre = genre /\ i - o \in A)
  BY <1>3
<1>5. Count(S) = Cardinality(A)
  <2>1. Places(genre, o, n, A, S)
    BY <1>2, <1>4 DEF Places
  <2> QED BY <2>1, CountInBlock
<1> QED BY <1>1, <1>5, ResidueCount DEF A

\* Every so many jobs, from the first on or up to the last of them.
LEMMA SharesAre ==
  ASSUME NEW s \in Shares
  PROVE  /\ s[1] \in Nat /\ s[2] \in Nat /\ 0 < s[1] /\ s[1] <= s[2]
         /\ LowEvery(s) \in Nat /\ LowEvery(s) >= 1 /\ StyleEvery(s) \in Nat /\ StyleEvery(s) >= 1
         /\ \A q : \A n \in Nat : Occurs(q, LowEvery(s), 0, n) => q * s[2] >= n * s[1]
         /\ \A q : \A n \in Nat : Occurs(q, StyleEvery(s), StyleEvery(s) - 1, n) => q * s[2] <= n * s[1]
<1> DEFINE a == s[1]
           d == s[2]
<1>1. a \in Nat /\ d \in Nat /\ 0 < a /\ a <= d
  BY PlansAssumption
<1>2. LowEvery(s) = d \div a /\ StyleEvery(s) = (d + a - 1) \div a
  BY DEF LowEvery, StyleEvery
<1> HIDE DEF a, d
<1> DEFINE e == d \div a
           h == (d + a - 1) \div a
<1>3. ASSUME NEW n \in Nat, NEW q
      PROVE  /\ e \in Nat /\ e >= 1 /\ h \in Nat /\ h >= 1
             /\ Occurs(q, e, 0, n) => q * d >= n * a
             /\ Occurs(q, h, h - 1, n) => q * d <= n * a
  BY <1>1, ShareCounts
<1> HIDE DEF e, h
<1>4. LowEvery(s) = e /\ StyleEvery(s) = h
  BY <1>2 DEF e, h
<1>5. e \in Nat /\ e >= 1 /\ h \in Nat /\ h >= 1
  BY <1>3
<1>6. /\ \A q : \A n \in Nat : Occurs(q, e, 0, n) => q * d >= n * a
      /\ \A q : \A n \in Nat : Occurs(q, h, h - 1, n) => q * d <= n * a
  BY <1>3
<1> QED BY <1>1, <1>4, <1>5, <1>6 DEF a, d

LEMMA JobIs ==
  ASSUME NEW genre, NEW ms, NEW c, NEW k
  PROVE  /\ Job(genre, ms, c, k).genre = genre
         /\ Job(genre, ms, c, k).model = ms[(k % Len(ms)) + 1]
         /\ Job(genre, ms, c, k).prompt
              = Prompts[genre][((k \div Len(ms)) % Len(Prompts[genre])) + 1]
         /\ Job(genre, ms, c, k).low = (k % LowEvery(c.low) = 0)
         /\ Job(genre, ms, c, k).style = (k % StyleEvery(c.style) = StyleEvery(c.style) - 1)
         /\ Job(genre, ms, c, k).id[1] = Job(genre, ms, c, k).model
         /\ Job(genre, ms, c, k).id[2] = Job(genre, ms, c, k).prompt
  BY DEF Job

\* The jobs of a genre are counted by every share.
LEMMA SharesHold ==
  ASSUME IsConfig(config), jobs = BuildPlan(config)
  PROVE  SharesKept
<1> SUFFICES ASSUME NEW genre \in ToSet(Genres)
             PROVE  LET of == {j \in ToSet(jobs) : j.genre = genre}
                        PerModel(m) == Count({j \in of : j.model = m})
                    IN  /\ Count({j \in of : j.low}) * config.low[2] >= Count(of) * config.low[1]
                        /\ Count({j \in of : j.style}) * config.style[2]
                             <= Count(of) * config.style[1]
                        /\ config.model = NoFilter =>
                             \A m, w \in ToSet(Models) : PerModel(m) <= PerModel(w) + 1
  BY DEF SharesKept
<1> DEFINE of == {j \in ToSet(jobs) : j.genre = genre}
           lows == {j \in of : j.low}
           styled == {j \in of : j.style}
           ByModel(m) == {j \in of : j.model = m}
           ms == ModelsOf(config)
           M == Len(ms)
           e == LowEvery(config.low)
           h == StyleEvery(config.style)
<1>1. PICK o, n : JobBlock(config, genre, o, n)
  BY JobBlocks
<1>2. IsBlock(jobs, genre, o, n) /\ \A k \in 1 .. n : jobs[o + k] = Job(genre, ms, config, k - 1)
  BY <1>1 DEF JobBlock
<1>3. o \in Nat /\ n \in Nat /\ {i \in DOMAIN jobs : jobs[i].genre = genre} = o + 1 .. o + n
  BY <1>2 DEF IsBlock
<1>4. ASSUME NEW k \in 1 .. n
      PROVE  /\ jobs[o + k] \in of /\ jobs[o + k].model = ms[((k - 1) % M) + 1]
             /\ jobs[o + k].low = ((k - 1) % e = 0)
             /\ jobs[o + k].style = ((k - 1) % h = h - 1)
  <2>1. o + k \in o + 1 .. o + n
    BY <1>3
  <2>2. o + k \in DOMAIN jobs
    BY <1>3, <2>1
  <2>3. jobs[o + k] = Job(genre, ms, config, k - 1)
    BY <1>2
  <2> DEFINE Good(y) == /\ y.genre = genre /\ y.model = ms[((k - 1) % M) + 1]
                        /\ y.low = ((k - 1) % e = 0) /\ y.style = ((k - 1) % h = h - 1)
  <2>4. Good(Job(genre, ms, config, k - 1))
    BY JobIs
  <2> HIDE DEF Good
  <2>5. Good(jobs[o + k])
    BY <2>3, <2>4
  <2>6. jobs[o + k] \in ToSet(jobs)
    BY <2>2 DEF ToSet
  <2> QED BY <2>5, <2>6 DEF Good
<1>5. /\ e \in Nat /\ e >= 1 /\ h \in Nat /\ h >= 1
      /\ \A q : \A k \in Nat : Occurs(q, e, 0, k) => q * config.low[2] >= k * config.low[1]
      /\ \A q : \A k \in Nat :
           Occurs(q, h, h - 1, k) => q * config.style[2] <= k * config.style[1]
  <2>1. config.low \in Shares /\ config.style \in Shares
    BY DEF IsConfig
  <2> QED BY <2>1, SharesAre
<1>6. /\ M \in Nat /\ M >= 1 /\ DOMAIN ms = 1 .. M
      /\ \A i, j \in DOMAIN ms : ms[i] = ms[j] => i = j
  BY ModelsAre
<1> HIDE DEF e, h, M, ms
<1>7. \A j \in of : j.genre = genre
  OBVIOUS
<1>8. Count(of) = n
  <2>1. \A k \in 1 .. n : jobs[o + k] \in of <=> (k - 1) % 1 = 0
    BY <1>3, <1>4
  <2> HIDE DEF of
  <2>2. Occurs(Count(of), 1, 0, n)
    <3>1. 1 \in Nat /\ 1 >= 1 /\ 0 \in 0 .. 1 - 1
      OBVIOUS
    <3> QED BY <1>2, <1>7, <2>1, <3>1, BlockCount
  <2> QED BY <1>3, <2>2 DEF Occurs
<1>9. Occurs(Count(lows), e, 0, n)
  <2>1. \A j \in lows : j.genre = genre
    BY <1>7
  <2>2. \A k \in 1 .. n : jobs[o + k] \in lows <=> (k - 1) % e = 0
    <3> HIDE DEF of
    <3> QED BY <1>4
  <2>3. 0 \in 0 .. e - 1
    BY <1>5
  <2> HIDE DEF lows
  <2> QED BY <1>2, <1>5, <2>1, <2>2, <2>3, BlockCount
<1>10. Occurs(Count(styled), h, h - 1, n)
  <2>1. \A j \in styled : j.genre = genre
    BY <1>7
  <2>2. \A k \in 1 .. n : jobs[o + k] \in styled <=> (k - 1) % h = h - 1
    <3> HIDE DEF of
    <3> QED BY <1>4
  <2>3. h - 1 \in 0 .. h - 1
    BY <1>5
  <2> HIDE DEF styled
  <2> QED BY <1>2, <1>5, <2>1, <2>2, <2>3, BlockCount
<1>11. ASSUME NEW r \in 0 .. M - 1
       PROVE  Occurs(Count(ByModel(ms[r + 1])), M, r, n)
  <2> DEFINE S == ByModel(ms[r + 1])
  <2>1. \A j \in S : j.genre = genre
    BY <1>7
  <2>2. ASSUME NEW k \in 1 .. n
        PROVE  jobs[o + k] \in S <=> (k - 1) % M = r
    <3> HIDE DEF of
    <3>1. jobs[o + k] \in S <=> ms[((k - 1) % M) + 1] = ms[r + 1]
      BY <1>4
    <3> DEFINE x == (k - 1) % M
    <3>2. x \in 0 .. M - 1
      BY <1>3, <1>6
    <3> HIDE DEF x
    <3>3. ms[x + 1] = ms[r + 1] <=> x = r
      <4>1. x + 1 \in 1 .. M /\ r + 1 \in 1 .. M
        BY <1>6, <3>2
      <4>2. x + 1 = r + 1 => x = r
        BY <3>2
      <4> QED BY <1>6, <4>1, <4>2
    <3> QED BY <3>1, <3>3 DEF x
  <2> HIDE DEF S
  <2>3. Occurs(Count(S), M, r, n)
    BY <1>2, <1>6, <2>1, <2>2, BlockCount
  <2> QED BY <2>3 DEF S
<1>12. ASSUME config.model = NoFilter, NEW m \in ToSet(Models), NEW w \in ToSet(Models)
       PROVE  Count(ByModel(m)) <= Count(ByModel(w)) + 1
  <2>1. ms = Models
    BY <1>12 DEF ms, ModelsOf
  <2>2. \A y \in ToSet(Models) : \E r \in 0 .. M - 1 : ms[r + 1] = y
    <3> TAKE y \in ToSet(Models)
    <3>1. PICK i \in DOMAIN ms : ms[i] = y
      BY <2>1 DEF ToSet
    <3>2. i - 1 \in 0 .. M - 1 /\ (i - 1) + 1 = i
      BY <1>6
    <3> QED BY <3>1, <3>2
  <2>3. PICK r \in 0 .. M - 1 : ms[r + 1] = m
    BY <2>2
  <2>4. PICK s \in 0 .. M - 1 : ms[s + 1] = w
    BY <2>2
  <2>5. Occurs(Count(ByModel(m)), M, r, n) /\ Occurs(Count(ByModel(w)), M, s, n)
    <3> HIDE DEF ByModel
    <3> QED BY <1>11, <2>3, <2>4
  <2> DEFINE x == Count(ByModel(m))
             y == Count(ByModel(w))
  <2>6. Occurs(x, M, r, n) /\ Occurs(y, M, s, n)
    BY <2>5
  <2> HIDE DEF x, y
  <2>7. x <= y + 1
    BY <1>3, <1>6, <2>6, EvenCounts
  <2> QED BY <2>7 DEF x, y
<1>13. Count(lows) * config.low[2] >= Count(of) * config.low[1]
  <2> HIDE DEF lows, of
  <2> QED BY <1>3, <1>5, <1>8, <1>9
<1>14. Count(styled) * config.style[2] <= Count(of) * config.style[1]
  <2> HIDE DEF styled, of
  <2> QED BY <1>3, <1>5, <1>8, <1>10
<1> HIDE DEF e, h, M, ms
<1> QED BY <1>12, <1>13, <1>14

\* How many things a list without repetitions names.
NamesOnce(names, l, N) ==
  /\ \A i \in 1 .. l : names[i] \in N
  /\ \A y \in N : \E i \in 1 .. l : names[i] = y
  /\ \A i, j \in 1 .. l : names[i] = names[j] => i = j

LEMMA ManyNames ==
  ASSUME NEW l \in Nat, NEW names, NEW N, NamesOnce(names, l, N)
  PROVE  Cardinality(N) = l
<1> DEFINE f == [i \in 1 .. l |-> names[i]]
<1>1. f \in [1 .. l -> N] /\ \A y \in N : \E i \in 1 .. l : f[i] = y
  BY DEF NamesOnce
<1>2. \A i, j \in 1 .. l : f[i] = f[j] => i = j
  BY DEF NamesOnce
<1> HIDE DEF f
<1>3. f \in Bijection(1 .. l, N)
  BY <1>1, <1>2 DEF Bijection, Injection, Surjection, IsInjective
<1>4. IsFiniteSet(1 .. l) /\ Cardinality(1 .. l) = l
  <2>1. Cardinality(1 .. l) = IF 1 > l THEN 0 ELSE l - 1 + 1
    BY FS_Interval
  <2> QED BY <2>1, FS_Interval
<1> QED BY <1>3, <1>4, FS_Bijection DEF ExistsBijection

\* No two jobs have the same document.
LEMMA DistinctJobs ==
  ASSUME IsConfig(config), jobs = BuildPlan(config)
  PROVE  Cardinality({j.id : j \in ToSet(jobs)}) = Len(jobs)
<1> DEFINE ms == ModelsOf(config)
           M == Len(ms)
           l == Len(jobs)
           names == [i \in 1 .. l |-> jobs[i].id]
<1>1. /\ l \in Nat /\ DOMAIN jobs = 1 .. l
      /\ \A i \in DOMAIN jobs : jobs[i].genre \in ToSet(Genres)
      /\ \A genre \in ToSet(Genres) : \E o, n : JobBlock(config, genre, o, n)
  BY JobBlocks DEF InGenres
<1>2. /\ M \in Nat /\ M >= 1 /\ DOMAIN ms = 1 .. M
      /\ \A i, j \in DOMAIN ms : ms[i] = ms[j] => i = j
  BY ModelsAre
<1> HIDE DEF l
<1>3. \A genre \in ToSet(Genres) : \E o, n : 
        /\ o \in Nat /\ n \in Nat /\ n <= Len(Prompts[genre]) * M
        /\ {i \in DOMAIN jobs : jobs[i].genre = genre} = o + 1 .. o + n
        /\ \A k \in 1 .. n : jobs[o + k] = Job(genre, ms, config, k - 1)
  BY <1>1 DEF JobBlock, IsBlock
<1> HIDE DEF M, ms
\* Where the job of a number stands in the matrix.
<1> DEFINE At(i, k, genre, p) ==
             /\ k \in Nat /\ k \div M \in 0 .. p - 1
             /\ jobs[i].model = ms[(k % M) + 1] /\ jobs[i].prompt = Prompts[genre][(k \div M) + 1]
             /\ jobs[i].id[1] = jobs[i].model /\ jobs[i].id[2] = jobs[i].prompt
<1>4. ASSUME NEW genre \in ToSet(Genres)
      PROVE  \E o \in Nat : \A i \in DOMAIN jobs :
               jobs[i].genre = genre => i > o /\ At(i, (i - o) - 1, genre, Len(Prompts[genre]))
  <2> DEFINE p == Len(Prompts[genre])
             x == p * M
  <2>1. p \in Nat
    BY PromptsAre
  <2>2. PICK o, n :
          /\ o \in Nat /\ n \in Nat /\ n <= p * M
          /\ {i \in DOMAIN jobs : jobs[i].genre = genre} = o + 1 .. o + n
          /\ \A k \in 1 .. n : jobs[o + k] = Job(genre, ms, config, k - 1)
    BY <1>3
  <2> HIDE DEF p
  <2>3. ASSUME NEW i \in DOMAIN jobs, jobs[i].genre = genre
        PROVE  i > o /\ At(i, (i - o) - 1, genre, p)
    <3> DEFINE k == (i - o) - 1
               q == k \div M
    <3>1. i \in o + 1 .. o + n
      BY <2>2, <2>3
    <3>2. k \in Nat /\ k < n /\ i - o \in 1 .. n /\ o + (i - o) = i /\ i > o
      BY <2>2, <3>1
    <3>3. jobs[i] = Job(genre, ms, config, k)
      BY <2>2, <3>2
    <3> HIDE DEF k
    <3>4. q \in 0 .. p - 1
      BY <1>2, <2>1, <2>2, <3>2, Rows
    <3> HIDE DEF q
    <3>5. q % p = q
      BY <2>1, <3>4
    <3> DEFINE Good(j) == /\ j.model = ms[(k % M) + 1] /\ j.prompt = Prompts[genre][(q % p) + 1]
                          /\ j.id[1] = j.model /\ j.id[2] = j.prompt
    <3>6. Good(Job(genre, ms, config, k))
      BY JobIs DEF M, q, p
    <3> HIDE DEF Good
    <3>7. Good(jobs[i])
      BY <3>3, <3>6
    <3>8. jobs[i].prompt = Prompts[genre][q + 1]
      BY <3>5, <3>7 DEF Good
    <3> QED BY <3>2, <3>4, <3>7, <3>8 DEF Good, q, k
  <2> HIDE DEF At
  <2> QED BY <2>2, <2>3 DEF p
<1>5. ASSUME NEW i \in DOMAIN jobs, NEW j \in DOMAIN jobs, jobs[i].id = jobs[j].id
      PROVE  i = j
  <2> DEFINE g == jobs[i].genre
             h == jobs[j].genre
  <2>1. g \in ToSet(Genres) /\ h \in ToSet(Genres)
    BY <1>1
  <2>2. ASSUME NEW a \in DOMAIN jobs
        PROVE  /\ jobs[a].prompt \in ToSet(Prompts[jobs[a].genre])
               /\ jobs[a].id[1] = jobs[a].model /\ jobs[a].id[2] = jobs[a].prompt
    <3> DEFINE x == jobs[a].genre
               p == Len(Prompts[x])
    <3>1. x \in ToSet(Genres)
      BY <1>1
    <3>2. PICK o \in Nat : At(a, (a - o) - 1, x, p)
      <4> HIDE DEF At
      <4> QED BY <1>4, <3>1
    <3> DEFINE q == ((a - o) - 1) \div M
    <3>3. q \in 0 .. p - 1 /\ jobs[a].prompt = Prompts[x][q + 1]
      BY <3>2
    <3>4. p \in Nat /\ DOMAIN Prompts[x] = 1 .. p
      BY <3>1, PromptsAre
    <3>5. q + 1 \in DOMAIN Prompts[x]
      <4> HIDE DEF p, q
      <4> QED BY <3>3, <3>4
    <3>6. jobs[a].prompt \in ToSet(Prompts[x])
      <4> HIDE DEF p, q
      <4> QED BY <3>3, <3>5 DEF ToSet
    <3> QED BY <3>2, <3>6
  <2>3. jobs[i].model = jobs[j].model /\ jobs[i].prompt = jobs[j].prompt
    BY <1>5, <2>2
  <2>4. g = h
    <3>1. jobs[i].prompt \in ToSet(Prompts[g]) \cap ToSet(Prompts[h])
      BY <2>2, <2>3
    <3> HIDE DEF g, h
    <3> QED BY <2>1, <3>1, PlansAssumption
  <2> DEFINE p == Len(Prompts[g])
  <2>5. PICK o \in Nat : i > o /\ At(i, (i - o) - 1, g, p) /\ j > o /\ At(j, (j - o) - 1, g, p)
    <3>1. PICK o \in Nat : \A a \in DOMAIN jobs :
               jobs[a].genre = g => a > o /\ At(a, (a - o) - 1, g, p)
      <4> HIDE DEF At
      <4> QED BY <1>4, <2>1
    <3> HIDE DEF At
    <3> QED BY <2>4, <3>1
  <2> DEFINE a == (i - o) - 1
             b == (j - o) - 1
             u == a \div M
             v == b \div M
             r == a % M
             s == b % M
  <2>6. /\ a \in Nat /\ b \in Nat /\ u \in 0 .. p - 1 /\ v \in 0 .. p - 1
        /\ jobs[i].model = ms[r + 1] /\ jobs[j].model = ms[s + 1]
        /\ jobs[i].prompt = Prompts[g][u + 1] /\ jobs[j].prompt = Prompts[g][v + 1]
    BY <2>5
  <2>7. /\ u \in Nat /\ r \in 0 .. M - 1 /\ a = M * u + r
        /\ v \in Nat /\ s \in 0 .. M - 1 /\ b = M * v + s
    <3> HIDE DEF a, b
    <3> QED BY <1>2, <2>6, Division
  <2>8. a = b => i = j
    BY <1>1, <2>5
  <2> HIDE DEF u, v, r, s, a, b
  <2>9. r = s
    <3>1. r + 1 \in 1 .. M /\ s + 1 \in 1 .. M
      BY <1>2, <2>7
    <3>2. r + 1 = s + 1
      BY <1>2, <2>3, <2>6, <3>1
    <3> QED BY <2>7, <3>2
  <2>10. u = v
    <3>1. p \in Nat /\ DOMAIN Prompts[g] = 1 .. p
          /\ \A x, y \in DOMAIN Prompts[g] : Prompts[g][x] = Prompts[g][y] => x = y
      BY <2>1, PromptsAre
    <3> HIDE DEF p, g
    <3>2. u + 1 \in 1 .. p /\ v + 1 \in 1 .. p
      BY <2>6, <3>1
    <3>3. u + 1 = v + 1
      BY <2>3, <2>6, <3>1, <3>2
    <3> QED BY <2>7, <3>3
  <2> QED BY <2>7, <2>8, <2>9, <2>10
<1> DEFINE N == {j.id : j \in ToSet(jobs)}
<1>6. NamesOnce(names, l, N)
  <2>1. \A i \in 1 .. l : names[i] \in N
    BY <1>1 DEF ToSet
  <2>2. \A y \in N : \E i \in 1 .. l : names[i] = y
    BY <1>1 DEF ToSet
  <2>3. \A i, j \in 1 .. l : names[i] = names[j] => i = j
    BY <1>1, <1>5
  <2> HIDE DEF names, N
  <2> QED BY <2>1, <2>2, <2>3 DEF NamesOnce
<1> HIDE DEF names, N
<1>7. Cardinality(N) = l
  BY <1>1, <1>6, ManyNames
<1> QED BY <1>7 DEF l, N

-----------------------------------------------------------------------------
(***************************************************************************)
(* The plan of generate-paired.                                            *)
(***************************************************************************)
IsPairedConfig(c) ==
  /\ c.genre \in ToSet(Genres) \cup {NoFilter} /\ c.side \in ToSet(Sides) \cup {NoFilter}
  /\ c.limit \in Limits \cup {NoFilter} /\ c.prompts \in PairedTargets
  /\ \A g \in ToSet(ForGenre(c.genre)) : Len(Prompts[g]) >= c.prompts

SidesOf(c) == IF c.side = NoFilter THEN Sides ELSE <<c.side>>

LEMMA SidesAre ==
  ASSUME NEW c
  PROVE  /\ Len(SidesOf(c)) \in Nat /\ Len(SidesOf(c)) >= 1
         /\ c.side = NoFilter => Len(SidesOf(c)) = 2
         /\ DOMAIN SidesOf(c) = 1 .. Len(SidesOf(c))
         /\ \A i, j \in DOMAIN SidesOf(c) : SidesOf(c)[i] = SidesOf(c)[j] => i = j
<1>1. CASE c.side = NoFilter
  <2>1. SidesOf(c) = <<"stock", "antislop">>
    BY <1>1 DEF SidesOf, Sides
  <2>2. Len(<<"stock", "antislop">>) = 2 /\ DOMAIN <<"stock", "antislop">> = 1 .. 2
    OBVIOUS
  <2>3. \A i, j \in 1 .. 2 : <<"stock", "antislop">>[i] = <<"stock", "antislop">>[j] => i = j
    OBVIOUS
  <2> QED BY <2>1, <2>2, <2>3
<1>2. CASE c.side # NoFilter
  <2> DEFINE m == c.side
  <2>1. SidesOf(c) = <<m>>
    BY <1>2 DEF SidesOf
  <2> HIDE DEF m
  <2>2. Len(<<m>>) = 1 /\ DOMAIN <<m>> = 1 .. 1 /\ 1 \in Nat /\ 1 >= 1
    OBVIOUS
  <2>3. \A i \in 1 .. 1 : i = 1
    OBVIOUS
  <2> QED BY <1>2, <2>1, <2>2, <2>3
<1> QED BY <1>1, <1>2

PairAt(c, genre, k) ==
  PairedJob(genre, Prompts[genre][(k \div Len(SidesOf(c))) + 1],
            SidesOf(c)[(k % Len(SidesOf(c))) + 1])

PairsOf(c, genre) ==
  [i \in 1 .. c.prompts * Len(SidesOf(c)) |-> PairAt(c, genre, i - 1)]

LEMMA PairIs ==
  ASSUME NEW c, NEW genre, NEW k
  PROVE  /\ PairAt(c, genre, k).genre = genre
         /\ PairAt(c, genre, k).side = SidesOf(c)[(k % Len(SidesOf(c))) + 1]
         /\ PairAt(c, genre, k).prompt = Prompts[genre][(k \div Len(SidesOf(c))) + 1]
         /\ PairAt(c, genre, k).id
              = <<genre, PairAt(c, genre, k).prompt, <<genre, PairAt(c, genre, k).prompt>>>>
  BY DEF PairAt, PairedJob

PairBlock(c, genre, o, n) ==
  /\ IsBlock(jobs, genre, o, n)
  /\ \A k \in 1 .. n : jobs[o + k] = PairAt(c, genre, k - 1)
  /\ n <= c.prompts * Len(SidesOf(c))
  /\ n # 0 => genre \in ToSet(ForGenre(c.genre))
  /\ c.limit = NoFilter /\ genre \in ToSet(ForGenre(c.genre)) => n = c.prompts * Len(SidesOf(c))

LEMMA PairsOfAre ==
  ASSUME NEW c, IsPairedConfig(c), NEW genre, NEW S, \A k \in Nat : PairAt(c, genre, k) \in S
  PROVE  /\ c.prompts \in Nat /\ c.prompts * Len(SidesOf(c)) \in Nat
         /\ PairsOf(c, genre) \in Seq(S)
         /\ Len(PairsOf(c, genre)) = c.prompts * Len(SidesOf(c))
         /\ \A k \in 1 .. Len(PairsOf(c, genre)) : PairsOf(c, genre)[k] = PairAt(c, genre, k - 1)
<1> DEFINE w == c.prompts * Len(SidesOf(c))
           s == [i \in 1 .. w |-> PairAt(c, genre, i - 1)]
<1>1. c.prompts \in Nat /\ Len(SidesOf(c)) \in Nat
  BY PlansAssumption, SidesAre DEF IsPairedConfig
<1>2. w \in Nat
  <2> DEFINE a == c.prompts
             b == Len(SidesOf(c))
  <2>1. a \in Nat /\ b \in Nat
    BY <1>1
  <2> HIDE DEF a, b
  <2>2. a * b \in Nat
    BY <2>1
  <2> QED BY <2>2 DEF a, b
<1>3. PairsOf(c, genre) = s
  BY DEF PairsOf
<1> HIDE DEF w
<1>4. \A k \in 1 .. w : k - 1 \in Nat
  BY <1>2
<1>5. s \in Seq(S) /\ Len(s) = w /\ \A k \in 1 .. w : s[k] = PairAt(c, genre, k - 1)
  BY <1>2, <1>4
<1> HIDE DEF s
<1> QED BY <1>1, <1>2, <1>3, <1>5 DEF w

EvenlyLong(seqs, G, w) == \A g \in 1 .. G : Len(seqs[g]) = 2 * w

SidesMeet(plan, i, seqs, G, w) ==
  \E g \in 1 .. G : \E k \in 2 .. 2 * w :
    /\ k % 2 = 0 /\ i - 1 \in DOMAIN plan
    /\ plan[i] = seqs[g][k] /\ plan[i - 1] = seqs[g][k - 1]

\* The two sides of a prompt follow each other.
LEMMA Together ==
  ASSUME NEW G \in Nat, NEW seqs, NEW flat, NEW off, Laid(flat, seqs, G, off),
         NEW w \in Nat, EvenlyLong(seqs, G, w),
         NEW plan, Begins(plan, flat), NEW i \in DOMAIN plan, i % 2 = 0
  PROVE  SidesMeet(plan, i, seqs, G, w)
<1>1. /\ off \in [0 .. G -> Nat] /\ off[0] = 0 /\ Len(flat) = off[G]
      /\ \A g \in 1 .. G : off[g] = off[g - 1] + Len(seqs[g]) /\ off[g] <= off[G]
      /\ \A g \in 1 .. G : \A k \in 1 .. Len(seqs[g]) : flat[off[g - 1] + k] = seqs[g][k]
      /\ \A j \in 1 .. off[G] : \E g \in 1 .. G : \E k \in 1 .. Len(seqs[g]) : j = off[g - 1] + k
  BY DEF Laid
<1>2. /\ Len(plan) \in Nat /\ Len(plan) <= Len(flat) /\ DOMAIN plan = 1 .. Len(plan)
      /\ \A j \in DOMAIN plan : plan[j] = flat[j]
  BY DEF Begins
<1>3. \A m \in 0 .. G : off[m] \in Nat /\ off[m] % 2 = 0
  <2> DEFINE T == {m \in Nat : m <= G => off[m] \in Nat /\ off[m] % 2 = 0}
  <2>1. 0 \in T
    BY <1>1
  <2>2. ASSUME NEW m \in Nat, m \in T PROVE m + 1 \in T
    <3>1. SUFFICES ASSUME m + 1 <= G PROVE off[m + 1] \in Nat /\ off[m + 1] % 2 = 0
      OBVIOUS
    <3>2. m + 1 \in 1 .. G /\ (m + 1) - 1 = m /\ m <= G
      BY <3>1
    <3>3. off[m + 1] = off[m] + 2 * w
      BY <1>1, <3>2 DEF EvenlyLong
    <3>4. off[m] \in Nat /\ off[m] % 2 = 0
      BY <2>2, <3>2
    <3> QED BY <3>3, <3>4
  <2> HIDE DEF T
  <2>3. Nat \subseteq T
    BY <2>1, <2>2, NatInduct
  <2> QED BY <2>3 DEF T
<1>4. i \in 1 .. off[G]
  <2>1. off[G] \in Nat
    BY <1>3
  <2> QED BY <1>1, <1>2, <2>1
<1>5. PICK g \in 1 .. G : \E k \in 1 .. Len(seqs[g]) : i = off[g - 1] + k
  BY <1>1, <1>4
<1>6. PICK k \in 1 .. Len(seqs[g]) : i = off[g - 1] + k
  BY <1>5
<1> DEFINE o == off[g - 1]
<1>7. o \in Nat /\ o % 2 = 0 /\ k \in 1 .. 2 * w /\ i = o + k
  <2>1. g - 1 \in 0 .. G
    OBVIOUS
  <2> QED BY <1>3, <1>6, <2>1 DEF EvenlyLong
<1>8. \A j \in 1 .. 2 * w : flat[o + j] = seqs[g][j]
  BY <1>1 DEF EvenlyLong
<1> HIDE DEF o
<1>9. k % 2 = 0 /\ k \in 2 .. 2 * w /\ k - 1 \in 1 .. 2 * w /\ i - 1 = o + (k - 1)
  BY <1>7
<1>10. i - 1 \in DOMAIN plan
  <2> DEFINE l == Len(plan)
  <2>1. l \in Nat /\ DOMAIN plan = 1 .. l
    BY <1>2
  <2> HIDE DEF l
  <2>2. i \in 1 .. l /\ i >= 2
    BY <1>7, <1>9, <2>1
  <2> QED BY <2>1, <2>2
<1> QED BY <1>2, <1>7, <1>8, <1>9, <1>10 DEF SidesMeet

LEMMA PairBlocks ==
  ASSUME NEW c, IsPairedConfig(c), jobs = BuildPairedPlan(c)
  PROVE  /\ InGenres(jobs)
         /\ \A genre \in ToSet(Genres) : \E o, n : PairBlock(c, genre, o, n)
         /\ c.side = NoFilter => \A i \in DOMAIN jobs : i % 2 = 0 => jobs[i].id = jobs[i - 1].id
<1> DEFINE gs == ForGenre(c.genre)
           G == Len(gs)
           w == c.prompts * Len(SidesOf(c))
           S == {PairAt(c, g, k) : g \in ToSet(Genres), k \in Nat}
           seqs == [g \in DOMAIN gs |-> PairsOf(c, gs[g])]
           flat == FlattenSeq(seqs)
<1>1. jobs = Limited(flat, c.limit)
  BY DEF BuildPairedPlan, SidesOf, PairsOf, PairAt
<1>2. /\ G \in Nat /\ DOMAIN gs = 1 .. G /\ \A g \in DOMAIN gs : gs[g] \in ToSet(Genres)
      /\ \A i, j \in DOMAIN gs : gs[i] = gs[j] => i = j
  BY ForGenreIs DEF IsPairedConfig
<1>3. ToSet(gs) = {gs[g] : g \in 1 .. G}
  BY <1>2 DEF ToSet
<1> HIDE DEF gs
<1>4. ASSUME NEW g \in 1 .. G
      PROVE  /\ seqs[g] \in Seq(S) /\ Len(seqs[g]) \in Nat /\ Len(seqs[g]) = w
             /\ \A k \in 1 .. w : seqs[g][k] = PairAt(c, gs[g], k - 1)
  <2> DEFINE x == gs[g]
             s == PairsOf(c, x)
  <2>1. seqs[g] = s /\ x \in ToSet(Genres)
    BY <1>2
  <2>2. \A k \in Nat : PairAt(c, x, k) \in S
    BY <2>1
  <2> HIDE DEF S, seqs, x
  <2>3. /\ s \in Seq(S) /\ Len(s) = w /\ w \in Nat
        /\ \A k \in 1 .. Len(s) : s[k] = PairAt(c, x, k - 1)
    BY <2>1, <2>2, PairsOfAre
  <2> HIDE DEF s, w
  <2> DEFINE Good(y) == /\ y \in Seq(S) /\ Len(y) \in Nat /\ Len(y) = w
                        /\ \A k \in 1 .. w : y[k] = PairAt(c, x, k - 1)
  <2>4. Good(s)
    BY <2>3
  <2> HIDE DEF Good
  <2>5. Good(seqs[g])
    BY <2>1, <2>4
  <2> QED BY <2>5 DEF Good, x
<1>5. seqs \in Seq(Seq(S)) /\ Len(seqs) = G
  <2>1. DOMAIN seqs = 1 .. G /\ seqs = [g \in 1 .. G |-> seqs[g]]
    BY <1>2
  <2> HIDE DEF S, seqs, G
  <2>2. \A g \in 1 .. G : seqs[g] \in Seq(S)
    BY <1>4
  <2> QED BY <1>2, <2>1, <2>2
<1>6. flat \in Seq(S) /\ \E off : Laid(flat, seqs, G, off)
  <2> HIDE DEF S, seqs
  <2> QED BY <1>2, <1>5, FlattenLaid
<1> HIDE DEF flat
<1>7. PICK off : Laid(flat, seqs, G, off)
  <2> HIDE DEF S, seqs, G
  <2> QED BY <1>6
<1>8. Begins(jobs, flat) /\ (c.limit = NoFilter => jobs = flat)
  <2>1. c.limit \in Limits \cup {NoFilter}
    BY DEF IsPairedConfig
  <2> HIDE DEF S
  <2> QED BY <1>1, <1>6, <2>1, LimitedBegins
<1>9. OfGenres(seqs, gs)
  <2> SUFFICES ASSUME NEW g \in DOMAIN gs, NEW k \in 1 .. Len(seqs[g]) PROVE seqs[g][k].genre = gs[g]
    BY DEF OfGenres
  <2> HIDE DEF S, seqs, w
  <2>1. g \in 1 .. G /\ k \in 1 .. w
    <3>1. g \in 1 .. G
      BY <1>2
    <3> QED BY <1>4, <3>1
  <2>2. seqs[g][k] = PairAt(c, gs[g], k - 1)
    BY <1>4, <2>1
  <2> QED BY <2>2, PairIs
<1> HIDE DEF S, seqs, G, w
<1>10. InGenres(jobs)
  BY <1>2, <1>7, <1>8, <1>9, ListedPlan
<1>11. ASSUME NEW genre \in ToSet(Genres) PROVE \E o, n : PairBlock(c, genre, o, n)
  <2>1. CASE \E g \in 1 .. G : gs[g] = genre
    <3>1. PICK g \in 1 .. G : gs[g] = genre
      BY <2>1
    <3>2. Planned(jobs, flat, genre, seqs[g])
      <4>1. \A h \in 1 .. G : Len(seqs[h]) \in Nat
        BY <1>4
      <4>2. Planned(jobs, flat, gs[g], seqs[g])
        BY <1>2, <1>7, <1>8, <1>9, <4>1, BlockOfGenre
      <4> QED BY <3>1, <4>2
    <3>3. PICK o \in Nat, n \in Nat :
            /\ n <= Len(seqs[g]) /\ IsBlock(jobs, genre, o, n)
            /\ \A k \in 1 .. n : jobs[o + k] = seqs[g][k]
            /\ jobs = flat => n = Len(seqs[g])
      BY <3>2 DEF Planned
    <3>4. Len(seqs[g]) = w /\ w \in Nat
      BY <1>4
    <3>5. n <= w /\ (jobs = flat => n = w)
      BY <3>3, <3>4
    <3>6. \A k \in 1 .. n : jobs[o + k] = PairAt(c, genre, k - 1)
      <4> TAKE k \in 1 .. n
      <4>1. k \in 1 .. w
        BY <3>4, <3>5
      <4>2. seqs[g][k] = PairAt(c, gs[g], k - 1)
        BY <1>4, <4>1
      <4> QED BY <3>1, <3>3, <4>2
    <3>7. genre \in ToSet(gs)
      BY <1>3, <3>1
    <3> QED BY <1>8, <3>3, <3>5, <3>6, <3>7 DEF PairBlock, w, gs
  <2>2. CASE \A g \in 1 .. G : gs[g] # genre
    <3>1. IsBlock(jobs, genre, 0, 0)
      BY <1>2, <1>7, <1>8, <1>9, <2>2, NoBlockOfGenre
    <3>2. 0 <= w
      <4> \A k \in Nat : PairAt(c, genre, k) \in {PairAt(c, genre, i) : i \in Nat}
        OBVIOUS
      <4>1. w \in Nat
        BY PairsOfAre DEF w
      <4> QED BY <4>1
    <3>3. 1 .. 0 = {}
      OBVIOUS
    <3>4. genre \notin ToSet(gs)
      BY <1>3, <2>2
    <3> QED BY <3>1, <3>2, <3>3, <3>4 DEF PairBlock, w, gs
  <2> QED BY <2>1, <2>2
<1>12. ASSUME c.side = NoFilter, NEW i \in DOMAIN jobs, i % 2 = 0
       PROVE  jobs[i].id = jobs[i - 1].id
  <2> DEFINE p == c.prompts
             L == Len(SidesOf(c))
  <2>1. p \in Nat /\ L = 2
    BY <1>12, SidesAre, PlansAssumption DEF IsPairedConfig
  <2>2. w = p * L
    BY DEF w
  <2> HIDE DEF p
  <2>3. w = 2 * p
    <3> HIDE DEF L
    <3> QED BY <2>1, <2>2
  <2>4. EvenlyLong(seqs, G, p)
    BY <1>4, <2>3 DEF EvenlyLong
  <2>5. PICK g \in 1 .. G : \E k \in 2 .. 2 * p :
           /\ k % 2 = 0 /\ i - 1 \in DOMAIN jobs
           /\ jobs[i] = seqs[g][k] /\ jobs[i - 1] = seqs[g][k - 1]
    <3>1. Begins(jobs, flat)
      BY <1>8
    <3>2. SidesMeet(jobs, i, seqs, G, p)
      <4> HIDE DEF L
      <4> QED BY <1>2, <1>7, <1>12, <2>1, <2>4, <3>1, Together
    <3> QED BY <3>2 DEF SidesMeet
  <2>6. PICK k \in 2 .. 2 * p :
           k % 2 = 0 /\ jobs[i] = seqs[g][k] /\ jobs[i - 1] = seqs[g][k - 1]
    BY <2>5
  <2>7. k - 1 \in 1 .. w /\ k \in 1 .. w /\ (k - 1) \div 2 = (k - 2) \div 2 /\ (k - 1) - 1 = k - 2
    BY <2>1, <2>3, <2>6
  <2>8. jobs[i] = PairAt(c, gs[g], k - 1) /\ jobs[i - 1] = PairAt(c, gs[g], k - 2)
    BY <1>4, <2>6, <2>7
  <2> DEFINE u == k - 1
             v == k - 2
             x == PairAt(c, gs[g], u)
             y == PairAt(c, gs[g], v)
  <2>9. u \div 2 = v \div 2 /\ jobs[i] = x /\ jobs[i - 1] = y
    BY <2>7, <2>8
  <2> HIDE DEF u, v
  <2>10. x.prompt = y.prompt
    <3>1. Len(SidesOf(c)) = 2
      BY <2>1
    <3>2. /\ x.prompt = Prompts[gs[g]][(u \div Len(SidesOf(c))) + 1]
          /\ y.prompt = Prompts[gs[g]][(v \div Len(SidesOf(c))) + 1]
      BY PairIs
    <3> HIDE DEF x, y
    <3> QED BY <2>9, <3>1, <3>2
  <2>11. /\ x.id = <<gs[g], x.prompt, <<gs[g], x.prompt>>>>
         /\ y.id = <<gs[g], y.prompt, <<gs[g], y.prompt>>>>
    BY PairIs
  <2> HIDE DEF x, y
  <2> QED BY <2>9, <2>10, <2>11
<1> QED BY <1>10, <1>11, <1>12

LEMMA PairsHold ==
  ASSUME IsPairedConfig(config), jobs = BuildPairedPlan(config)
  PROVE  PairsKept
<1> SUFFICES ASSUME config.side = NoFilter
             PROVE  /\ \A i \in DOMAIN jobs : i % 2 = 0 => jobs[i].id = jobs[i - 1].id
                    /\ config.limit = NoFilter =>
                         \A g \in ToSet(ForGenre(config.genre)) :
                           Count({j \in ToSet(jobs) : j.genre = g}) = 2 * config.prompts
  BY DEF PairsKept
<1>1. \A i \in DOMAIN jobs : i % 2 = 0 => jobs[i].id = jobs[i - 1].id
  BY PairBlocks
<1>2. ASSUME config.limit = NoFilter, NEW g \in ToSet(ForGenre(config.genre))
      PROVE  Count({j \in ToSet(jobs) : j.genre = g}) = 2 * config.prompts
  <2> DEFINE of == {j \in ToSet(jobs) : j.genre = g}
             p == config.prompts
             L == Len(SidesOf(config))
             n == p * L
  <2>1. g \in ToSet(Genres)
    <3>1. \A i \in DOMAIN ForGenre(config.genre) : ForGenre(config.genre)[i] \in ToSet(Genres)
      BY ForGenreIs DEF IsPairedConfig
    <3>2. PICK i \in DOMAIN ForGenre(config.genre) : ForGenre(config.genre)[i] = g
      BY <1>2 DEF ToSet
    <3> QED BY <3>1, <3>2
  <2>2. PICK o, m : PairBlock(config, g, o, m)
    BY <2>1, PairBlocks
  <2>3. m = n
    BY <1>2, <2>2 DEF PairBlock
  <2>4. p \in Nat /\ L = 2
    BY SidesAre, PlansAssumption DEF IsPairedConfig
  <2> HIDE DEF p, L
  <2>5. n = 2 * p /\ n \in Nat
    BY <2>4
  <2> HIDE DEF n
  <2>6. IsBlock(jobs, g, o, n)
    BY <2>2, <2>3 DEF PairBlock
  <2>7. o \in Nat /\ {i \in DOMAIN jobs : jobs[i].genre = g} = o + 1 .. o + n
    BY <2>6 DEF IsBlock
  <2>8. ASSUME NEW k \in 1 .. n PROVE jobs[o + k] \in of /\ (k - 1) % 1 = 0
    <3>1. o + k \in o + 1 .. o + n
      BY <2>5, <2>7
    <3>2. o + k \in DOMAIN jobs /\ jobs[o + k].genre = g
      BY <2>7, <3>1
    <3>3. jobs[o + k] \in ToSet(jobs)
      BY <3>2 DEF ToSet
    <3> QED BY <2>5, <3>2, <3>3
  <2>9. \A j \in of : j.genre = g
    OBVIOUS
  <2> HIDE DEF of
  <2>10. Occurs(Count(of), 1, 0, n)
    <3>1. 1 \in Nat /\ 1 >= 1 /\ 0 \in 0 .. 1 - 1
      OBVIOUS
    <3> QED BY <2>6, <2>8, <2>9, <3>1, BlockCount
  <2>11. Count(of) = n
    BY <2>5, <2>10 DEF Occurs
  <2> QED BY <2>5, <2>11 DEF of, p
<1> QED BY <1>1, <1>2

LEMMA DistinctPairs ==
  ASSUME IsPairedConfig(config), jobs = BuildPairedPlan(config)
  PROVE  Cardinality({<<j.id, j.side>> : j \in ToSet(jobs)}) = Len(jobs)
<1> DEFINE ss == SidesOf(config)
           L == Len(ss)
           p == config.prompts
           l == Len(jobs)
           N == {<<j.id, j.side>> : j \in ToSet(jobs)}
           names == [i \in 1 .. l |-> <<jobs[i].id, jobs[i].side>>]
<1>1. /\ l \in Nat /\ DOMAIN jobs = 1 .. l
      /\ \A i \in DOMAIN jobs : jobs[i].genre \in ToSet(Genres)
      /\ \A genre \in ToSet(Genres) : \E o, n : PairBlock(config, genre, o, n)
  BY PairBlocks DEF InGenres
<1>2. /\ L \in Nat /\ L >= 1 /\ DOMAIN ss = 1 .. L
      /\ \A i, j \in DOMAIN ss : ss[i] = ss[j] => i = j
  BY SidesAre
<1>3. p \in Nat
  BY PlansAssumption DEF IsPairedConfig
<1> HIDE DEF l, L, p, ss, names, N
\* Where the job of a number stands in the matrix.
<1> DEFINE At(i, k, genre) ==
             /\ k \in Nat /\ k \div L \in 0 .. Len(Prompts[genre]) - 1
             /\ jobs[i].side = ss[(k % L) + 1] /\ jobs[i].prompt = Prompts[genre][(k \div L) + 1]
             /\ jobs[i].id = <<genre, jobs[i].prompt, <<genre, jobs[i].prompt>>>>
<1>4. ASSUME NEW genre \in ToSet(Genres)
      PROVE  \E o \in Nat : \A i \in DOMAIN jobs :
               jobs[i].genre = genre => i > o /\ At(i, (i - o) - 1, genre)
  <2>1. PICK o, n : PairBlock(config, genre, o, n)
    BY <1>1
  <2>2. /\ o \in Nat /\ n \in Nat /\ n <= p * L
        /\ {i \in DOMAIN jobs : jobs[i].genre = genre} = o + 1 .. o + n
        /\ \A k \in 1 .. n : jobs[o + k] = PairAt(config, genre, k - 1)
        /\ n # 0 => genre \in ToSet(ForGenre(config.genre))
    BY <2>1 DEF PairBlock, IsBlock, p, L, ss
  <2>3. ASSUME NEW i \in DOMAIN jobs, jobs[i].genre = genre
        PROVE  i > o /\ At(i, (i - o) - 1, genre)
    <3> DEFINE k == (i - o) - 1
               q == k \div L
               r == k % L
               w == Len(Prompts[genre])
    <3>1. i \in o + 1 .. o + n
      BY <2>2, <2>3
    <3>2. k \in Nat /\ k < n /\ i - o \in 1 .. n /\ o + (i - o) = i /\ i > o
      BY <2>2, <3>1
    <3>3. jobs[i] = PairAt(config, genre, k)
      BY <2>2, <3>2
    <3>4. w \in Nat /\ w >= p
      <4>1. genre \in ToSet(ForGenre(config.genre))
        BY <2>2, <3>2
      <4>2. w >= p
        BY <4>1 DEF IsPairedConfig, p
      <4> QED BY <4>2, PromptsAre
    <3> HIDE DEF k, w
    <3>5. q \in 0 .. p - 1
      BY <1>2, <1>3, <2>2, <3>2, Rows
    <3> HIDE DEF q, r
    <3>6. q \in 0 .. w - 1
      BY <1>3, <3>4, <3>5
    <3> DEFINE Good(j) == /\ j.side = ss[r + 1] /\ j.prompt = Prompts[genre][q + 1]
                          /\ j.id = <<genre, j.prompt, <<genre, j.prompt>>>>
    <3>7. Good(PairAt(config, genre, k))
      BY PairIs DEF L, ss, q, r
    <3> HIDE DEF Good
    <3>8. Good(jobs[i])
      BY <3>3, <3>7
    <3> QED BY <3>2, <3>6, <3>8 DEF Good, q, r, k, w
  <2> HIDE DEF At
  <2> QED BY <2>2, <2>3
<1>5. ASSUME NEW i \in DOMAIN jobs, NEW j \in DOMAIN jobs,
             jobs[i].id = jobs[j].id, jobs[i].side = jobs[j].side
      PROVE  i = j
  <2> DEFINE g == jobs[i].genre
             h == jobs[j].genre
  <2>1. g \in ToSet(Genres) /\ h \in ToSet(Genres)
    BY <1>1
  <2>2. ASSUME NEW a \in DOMAIN jobs
        PROVE  jobs[a].id = <<jobs[a].genre, jobs[a].prompt, <<jobs[a].genre, jobs[a].prompt>>>>
    <3> DEFINE x == jobs[a].genre
    <3>1. x \in ToSet(Genres)
      BY <1>1
    <3>2. PICK o \in Nat : At(a, (a - o) - 1, x)
      <4> HIDE DEF At
      <4> QED BY <1>4, <3>1
    <3> QED BY <3>2
  <2>3. g = h /\ jobs[i].prompt = jobs[j].prompt
    BY <1>5, <2>2
  <2>4. PICK o \in Nat : i > o /\ At(i, (i - o) - 1, g) /\ j > o /\ At(j, (j - o) - 1, g)
    <3>1. PICK o \in Nat : \A a \in DOMAIN jobs :
               jobs[a].genre = g => a > o /\ At(a, (a - o) - 1, g)
      <4> HIDE DEF At
      <4> QED BY <1>4, <2>1
    <3> HIDE DEF At
    <3> QED BY <2>3, <3>1
  <2> DEFINE a == (i - o) - 1
             b == (j - o) - 1
             u == a \div L
             v == b \div L
             r == a % L
             s == b % L
             w == Len(Prompts[g])
  <2>5. /\ a \in Nat /\ b \in Nat /\ u \in 0 .. w - 1 /\ v \in 0 .. w - 1
        /\ jobs[i].side = ss[r + 1] /\ jobs[j].side = ss[s + 1]
        /\ jobs[i].prompt = Prompts[g][u + 1] /\ jobs[j].prompt = Prompts[g][v + 1]
    BY <2>4
  <2>6. /\ u \in Nat /\ r \in 0 .. L - 1 /\ a = L * u + r
        /\ v \in Nat /\ s \in 0 .. L - 1 /\ b = L * v + s
    <3> HIDE DEF a, b
    <3> QED BY <1>2, <2>5, Division
  <2>7. a = b => i = j
    BY <1>1, <2>4
  <2> HIDE DEF u, v, r, s, a, b
  <2>8. r = s
    <3>1. r + 1 \in 1 .. L /\ s + 1 \in 1 .. L
      BY <1>2, <2>6
    <3>2. r + 1 = s + 1
      BY <1>2, <1>5, <2>5, <3>1
    <3> QED BY <2>6, <3>2
  <2>9. u = v
    <3>1. w \in Nat /\ DOMAIN Prompts[g] = 1 .. w
          /\ \A x, y \in DOMAIN Prompts[g] : Prompts[g][x] = Prompts[g][y] => x = y
      BY <2>1, PromptsAre
    <3> HIDE DEF w, g
    <3>2. u + 1 \in 1 .. w /\ v + 1 \in 1 .. w
      BY <2>5, <3>1
    <3>3. Prompts[g][u + 1] = Prompts[g][v + 1]
      BY <2>3, <2>5
    <3>4. u + 1 = v + 1
      BY <3>1, <3>2, <3>3
    <3> QED BY <2>6, <3>4
  <2> QED BY <2>6, <2>7, <2>8, <2>9
<1>6. NamesOnce(names, l, N)
  <2>1. \A i \in 1 .. l : names[i] = <<jobs[i].id, jobs[i].side>>
    BY DEF names
  <2>2. \A i \in 1 .. l : names[i] \in N
    BY <1>1, <2>1 DEF ToSet, N
  <2>3. \A y \in N : \E i \in 1 .. l : names[i] = y
    BY <1>1, <2>1 DEF ToSet, N
  <2>4. \A i, j \in 1 .. l : names[i] = names[j] => i = j
    BY <1>1, <1>5, <2>1
  <2> QED BY <2>2, <2>3, <2>4 DEF NamesOnce
<1>7. Cardinality(N) = l
  BY <1>1, <1>6, ManyNames
<1> QED BY <1>7 DEF l, N

-----------------------------------------------------------------------------
PlanInv ==
  /\ planned \in {"nothing", "jobs", "pairs"}
  /\ planned = "jobs" => IsConfig(config) /\ jobs = BuildPlan(config)
  /\ planned = "pairs" => IsPairedConfig(config) /\ jobs = BuildPairedPlan(config)

LEMMA PlanSteps ==
  ASSUME PlanInv, [PlanNext]_planVars
  PROVE  PlanInv'
<1>1. CASE Plan
  <2>1. IsConfig(config')
    <3>1. PICK genre \in ToSet(Genres) \cup {NoFilter}, model \in ToSet(Models) \cup {NoFilter},
               limit \in Limits \cup {NoFilter}, target \in Targets, low \in Shares, style \in Shares :
            config' = [genre |-> genre, model |-> model, limit |-> limit, target |-> target,
                       low |-> low, style |-> style]
      BY <1>1 DEF Plan
    <3> QED BY <3>1 DEF IsConfig
  <2>2. planned' = "jobs" /\ jobs' = BuildPlan(config')
    BY <1>1 DEF Plan
  <2> QED BY <2>1, <2>2 DEF PlanInv
<1>2. CASE PlanPairs
  <2>1. IsPairedConfig(config')
    <3>1. PICK genre \in ToSet(Genres) \cup {NoFilter}, side \in ToSet(Sides) \cup {NoFilter},
               limit \in Limits \cup {NoFilter}, prompts \in PairedTargets :
            /\ \A g \in ToSet(ForGenre(genre)) : Len(Prompts[g]) >= prompts
            /\ config' = [genre |-> genre, side |-> side, limit |-> limit, prompts |-> prompts]
      BY <1>2 DEF PlanPairs
    <3> QED BY <3>1 DEF IsPairedConfig
  <2>2. planned' = "pairs" /\ jobs' = BuildPairedPlan(config')
    BY <1>2 DEF PlanPairs
  <2> QED BY <2>1, <2>2 DEF PlanInv
<1>3. CASE UNCHANGED planVars
  <2>1. planned' = planned /\ jobs' = jobs /\ config' = config
    BY <1>3 DEF planVars
  <2> QED BY <2>1 DEF PlanInv
<1> QED BY <1>1, <1>2, <1>3 DEF PlanNext

(***************************************************************************)
(* The plans of generate and generate-paired keep the shares of their      *)
(* configuration (genconfig.rs:73-76,107-110) for any number of genres,    *)
(* models, prompts and jobs, any share, any filter and any limit, and give *)
(* no two completions one document: every LowEvery-th and every            *)
(* StyleEvery-th place of a genre's block of jobs is counted.              *)
(***************************************************************************)
THEOREM PlansKeepTheirShares == PlanSpec => []PlanKeepsItsShares
<1>1. PlanInit => PlanInv
  BY DEF PlanInit, PlanInv
<1>2. PlanInv /\ [PlanNext]_planVars => PlanInv'
  BY PlanSteps
<1>3. PlanInv => PlanKeepsItsShares
  <2> SUFFICES ASSUME PlanInv PROVE PlanKeepsItsShares
    OBVIOUS
  <2>1. planned = "jobs" =>
          SharesKept /\ Cardinality({j.id : j \in ToSet(jobs)}) = Len(jobs)
    BY SharesHold, DistinctJobs DEF PlanInv
  <2>2. planned = "pairs" =>
          PairsKept /\ Cardinality({<<j.id, j.side>> : j \in ToSet(jobs)}) = Len(jobs)
    BY PairsHold, DistinctPairs DEF PlanInv
  <2> QED BY <2>1, <2>2 DEF PlanKeepsItsShares
<1> QED BY <1>1, <1>2, <1>3, PTL DEF PlanSpec
=============================================================================
