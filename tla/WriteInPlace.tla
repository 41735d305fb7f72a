----------------------------- MODULE WriteInPlace -----------------------------
(* friction fix --in-place: each run reads the document, then writes the     *)
(* fixed text to <name>.partial beside it, syncs that file and renames it    *)
(* over the document.  A step may fail, a run may be killed, and the machine *)
(* may lose power.  A text is an array of blocks; a fixed one carries the    *)
(* name of its run in every block, and so does the file that run creates.    *)
EXTENDS Naturals

CONSTANTS
  Runs,        \* runs of fix --in-place on one document
  Blocks,      \* blocks of a text
  MaxCrashes,  \* bound on losses of power
  Overlap,     \* may a run start writing while another one writes?
  Original,    \* the document before the first run
  Nothing      \* a block, or a file, that is not there

ASSUME SystemAssumption ==
  /\ Blocks \in Nat \ {0} /\ MaxCrashes \in Nat /\ Overlap \in BOOLEAN
  /\ Original \notin Runs /\ Nothing \notin Runs \cup {Original}

VARIABLES
  dir,      \* the files behind the document and its .partial
  durable,  \* the directories a loss of power may fall back to
  data,     \* the text of each file, as processes see it
  disk,     \* the text of each file on the disk
  step, file, pos, source,  \* of each run: next step, open file, block, text read
  crashes

vars == <<dir, durable, data, disk, step, file, pos, source, crashes>>

Files == Runs \cup {Original}
Texts == [1 .. Blocks -> Files \cup {Nothing}]
TextOf(v) == [b \in 1 .. Blocks |-> v]
Empty == TextOf(Nothing)
Whole == {TextOf(v) : v \in Files}
Writing == {"write", "sync", "rename"}
Steps == {"open", "read", "create", "done", "stopped"} \cup Writing

TypeOK ==
  /\ dir \in [path : Files, partial : Files \cup {Nothing}]
  /\ durable \subseteq [path : Files, partial : Files \cup {Nothing}]
  /\ data \in [Files -> Texts] /\ disk \in [Files -> Texts]
  /\ step \in [Runs -> Steps] /\ file \in [Runs -> Files]
  /\ pos \in [Runs -> 1 .. Blocks] /\ source \in [Runs -> Texts]
  /\ crashes \in 0 .. MaxCrashes

Init ==
  /\ dir = [path |-> Original, partial |-> Nothing]
  /\ durable = {dir}
  /\ data = [f \in Files |-> IF f = Original THEN TextOf(Original) ELSE Empty]
  /\ disk = data
  /\ step = [r \in Runs |-> "open"]
  /\ file = [r \in Runs |-> Original]
  /\ pos = [r \in Runs |-> 1]
  /\ source = [r \in Runs |-> Empty]
  /\ crashes = 0

-----------------------------------------------------------------------------
(* read_input opens the document and reads it block by block. *)
Open(r) ==
  /\ step[r] = "open"
  /\ step' = [step EXCEPT ![r] = "read"]
  /\ file' = [file EXCEPT ![r] = dir.path]
  /\ UNCHANGED <<dir, durable, data, disk, pos, source, crashes>>

(* The next block, or the next step after the last one. *)
Advance(r, next) ==
  IF pos[r] < Blocks
  THEN pos' = [pos EXCEPT ![r] = @ + 1] /\ UNCHANGED step
  ELSE pos' = [pos EXCEPT ![r] = 1] /\ step' = [step EXCEPT ![r] = next]

Read(r) ==
  /\ step[r] = "read"
  /\ source' = [source EXCEPT ![r][pos[r]] = data[file[r]][pos[r]]]
  /\ Advance(r, "create")
  /\ UNCHANGED <<dir, durable, data, disk, file, crashes>>

(* File::create takes the .partial that is there, emptied, or makes one. *)
Partial(r) == IF dir.partial = Nothing THEN r ELSE dir.partial

Create(r) ==
  /\ step[r] = "create"
  /\ Overlap \/ \A q \in Runs : step[q] \notin Writing
  /\ dir' = [dir EXCEPT !.partial = Partial(r)]
  /\ durable' = durable \cup {dir'}
  /\ file' = [file EXCEPT ![r] = Partial(r)]
  /\ data' = [data EXCEPT ![Partial(r)] = Empty]
  /\ step' = [step EXCEPT ![r] = "write"]
  /\ UNCHANGED <<disk, pos, source, crashes>>

WriteAll(r) ==
  /\ step[r] = "write"
  /\ data' = [data EXCEPT ![file[r]][pos[r]] = r]
  /\ Advance(r, "sync")
  /\ UNCHANGED <<dir, durable, disk, file, source, crashes>>

\* Mutant of SyncAll: the file is closed without sync_all.
CloseOnly(r) ==
  /\ step[r] = "sync"
  /\ step' = [step EXCEPT ![r] = "rename"]
  /\ UNCHANGED <<dir, durable, data, disk, file, pos, source, crashes>>

SyncAll(r) ==
  /\ step[r] = "sync"
  /\ disk' = [disk EXCEPT ![file[r]] = data[file[r]]]
  /\ step' = [step EXCEPT ![r] = "rename"]
  /\ UNCHANGED <<dir, durable, data, file, pos, source, crashes>>

Rename(r) ==
  /\ step[r] = "rename" /\ dir.partial # Nothing
  /\ dir' = [path |-> dir.partial, partial |-> Nothing]
  /\ durable' = durable \cup {dir'}
  /\ step' = [step EXCEPT ![r] = "done"]
  /\ UNCHANGED <<data, disk, file, pos, source, crashes>>

(* Any step may return an error, and a run may be killed: .partial stays. *)
Stop(r) ==
  /\ step[r] \notin {"done", "stopped"}
  /\ step' = [step EXCEPT ![r] = "stopped"]
  /\ UNCHANGED <<dir, durable, data, disk, file, pos, source, crashes>>

(* Of what was not synced, the disk may hold any part. *)
LosePower ==
  /\ crashes < MaxCrashes
  /\ crashes' = crashes + 1
  /\ \E d \in durable : dir' = d /\ durable' = {d}
  /\ \E lost \in SUBSET {x \in Files \X (1 .. Blocks) : data[x[1]][x[2]] # disk[x[1]][x[2]]} :
       data' = [f \in Files |-> [b \in 1 .. Blocks |->
                  IF <<f, b>> \in lost THEN disk[f][b] ELSE data[f][b]]]
  /\ disk' = data'
  /\ step' = [r \in Runs |-> IF step[r] \in {"open", "done"} THEN step[r] ELSE "stopped"]
  /\ UNCHANGED <<file, pos, source>>

Next ==
  \/ \E r \in Runs : \/ Open(r) \/ Read(r) \/ Create(r) \/ WriteAll(r)
                     \/ SyncAll(r) \/ Rename(r) \/ Stop(r)
  \/ LosePower

Spec == Init /\ [][Next]_vars

-----------------------------------------------------------------------------
(* write_in_place: a run that fails, is killed, or loses power at any point  *)
(* leaves the document with the whole of its old or the whole of its new     *)
(* text, and a run that reads it while another one writes has read one whole *)
(* version.                                                                  *)
DocumentIsWhole ==
  /\ data[dir.path] \in Whole
  /\ \A r \in Runs : step[r] \in {"create", "done"} \cup Writing => source[r] \in Whole
=============================================================================
