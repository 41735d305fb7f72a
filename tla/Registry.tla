------------------------------- MODULE Registry -------------------------------
(* friction-packs' registry under friction fix: one LazyLock per pack.       *)
(* PackSet::warm has detached threads force the packs while the main thread  *)
(* runs the engine, which touches them too; then the four scans of the       *)
(* output run as nested rayon joins on the pool's workers.  A lock is        *)
(* "unforced", held by the thread that runs its closure, or "built"; whoever *)
(* comes meanwhile waits.                                                    *)
EXTENDS Naturals, Sequences, SequencesExt

CONSTANT Workers  \* threads of the rayon pool

VARIABLES
  lock,    \* per pack
  touch,   \* per thread: the packs still to touch in what it runs
  within,  \* per thread: the closures it is in, innermost first
  begun,   \* scans begun
  phase    \* "start", "engine", "scan" or "done"

vars == <<lock, touch, within, begun, phase>>

(* PackSet::warm: the packs of each thread. *)
Warm == [gates |-> <<"ATTESTATION">>,
         scans |-> <<"HUMAN_EVIDENCE", "JARGON", "JARGON_ATTEST">>,
         rest |-> <<"INVENTORY", "REGISTER", "FRAME", "DMS", "MACHINE_EVIDENCE">>]
Warmers == DOMAIN Warm

(* What Engine::for_lang and the passes touch. *)
Engine == <<"INVENTORY", "ATTESTATION", "REGISTER", "FRAME_INDEX", "FRAME">>

(* rayon::join(dms, || join(frames, || join(jargon, overuse))): to begin a *)
(* scan offers the next one to the pool.                                   *)
Scans == << <<"DMS">>, << >>, <<"JARGON", "JARGON_ATTEST">>, <<"HUMAN_EVIDENCE">> >>

Threads == Warmers \cup {"main"} \cup Workers
Packs == {"POOLED_ATTEST"} \cup ToSet(Engine) \cup UNION {ToSet(Warm[i]) : i \in Warmers}

Init ==
  /\ lock = [p \in Packs |-> "unforced"]
  /\ touch = [t \in Threads |-> << >>]
  /\ within = [t \in Threads |-> << >>]
  /\ begun = 0
  /\ phase = "start"

(* The packs a pack's closure forces itself. *)
\* Mutant of Needs: the pooled evidence reaches back for its attestation.
NeedsEachOther(p) ==
  CASE p = "ATTESTATION" -> {"POOLED_ATTEST"}
    [] p = "POOLED_ATTEST" -> {"ATTESTATION"}
    [] p = "FRAME_INDEX" -> {"FRAME"}
    [] OTHER -> {}

Needs(p) ==
  CASE p = "ATTESTATION" -> {"POOLED_ATTEST"}
    [] p = "FRAME_INDEX" -> {"FRAME"}
    [] OTHER -> {}

-----------------------------------------------------------------------------
(* run_inner warms the packs, then builds the engine. *)
Start ==
  /\ phase = "start" /\ phase' = "engine"
  /\ touch' = [t \in Threads |-> IF t \in Warmers THEN Warm[t]
                                 ELSE IF t = "main" THEN Engine ELSE << >>]
  /\ UNCHANGED <<lock, within, begun>>

(* The packs a thread is waiting to have built. *)
Goals(t) ==
  IF within[t] # << >> THEN {p \in Needs(Head(within[t])) : lock[p] # "built"}
  ELSE IF touch[t] # << >> THEN {Head(touch[t])} ELSE {}

(* LazyLock::force: the first to come runs the closure. *)
Force(t) ==
  \E p \in Goals(t) :
    /\ lock[p] = "unforced"
    /\ lock' = [lock EXCEPT ![p] = t]
    /\ within' = [within EXCEPT ![t] = <<p>> \o @]
    /\ UNCHANGED <<touch, begun, phase>>

Build(t) ==
  /\ within[t] # << >> /\ Goals(t) = {}
  /\ lock' = [lock EXCEPT ![Head(within[t])] = "built"]
  /\ within' = [within EXCEPT ![t] = Tail(@)]
  /\ UNCHANGED <<touch, begun, phase>>

Use(t) ==
  /\ within[t] = << >> /\ touch[t] # << >> /\ lock[Head(touch[t])] = "built"
  /\ touch' = [touch EXCEPT ![t] = Tail(@)]
  /\ UNCHANGED <<lock, within, begun, phase>>

(* A worker that has nothing to do takes the scan on offer. *)
Take(w) ==
  /\ phase = "scan" /\ touch[w] = << >> /\ begun < Len(Scans)
  /\ begun' = begun + 1
  /\ touch' = [touch EXCEPT ![w] = Scans[begun + 1]]
  /\ UNCHANGED <<lock, within, phase>>

(* The main thread waits for the engine, and then for the whole scan. *)
Continue ==
  /\ \/ phase = "engine" /\ touch["main"] = << >> /\ phase' = "scan"
     \/ phase = "scan" /\ begun = Len(Scans) /\ phase' = "done"
        /\ \A w \in Workers : touch[w] = << >>
  /\ UNCHANGED <<lock, touch, within, begun>>

Thread(t) == Force(t) \/ Build(t) \/ Use(t) \/ (t \in Workers /\ Take(t))

Next == Start \/ Continue \/ \E t \in Threads : Thread(t)

Spec ==
  /\ Init /\ [][Next]_vars
  /\ WF_vars(Start \/ Continue) /\ \A t \in Threads : WF_vars(Thread(t))

-----------------------------------------------------------------------------
(* PackSet::warm: whatever thread comes first to a pack, and whichever it    *)
(* forces inside another, nobody waits for a lock that is never released:    *)
(* given that every thread goes on running, friction fix gets through.       *)
EveryTouchReturns == <>(phase = "done")
=============================================================================
