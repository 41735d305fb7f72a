------------------------------ MODULE Weights ------------------------------
(***************************************************************************)
(* From training to scoring (friction-nlp: dep_perceptron.rs,              *)
(* tag_perceptron.rs, weights_bin.rs).  The averaged perceptron both       *)
(* trainers share in shape keeps one weight per feature and class, updates *)
(* them when the best allowed class is not the gold one, and computes the  *)
(* average over the iterations lazily, from the iteration at which each    *)
(* weight last changed.  finish() writes the averages that are not zero as *)
(* sparse rows; the packer puts the rows' features into an open-addressed  *)
(* table, and inference scores through it.                                 *)
(*                                                                         *)
(* The tagger allows every class, the parser masks the actions its         *)
(* configuration forbids.  Weights are the integers they are before the    *)
(* final division.  Classes are numbered in the order both backends sort   *)
(* them in, features in the order the packer places them in, and a hash is *)
(* any number.                                                             *)
(***************************************************************************)
EXTENDS Integers, FiniteSetsExt, Functions, SequencesExt

CONSTANTS Features,       \* what the examples are made of
          NumClasses,
          MaxIterations,  \* bound: examples trained on
          Keys,           \* what is looked up: features, and others never seen
          HashValues,     \* values the hash takes
          ClassOrders,    \* orders a file may list its classes in
          NoKey           \* an empty slot

Classes == 1 .. NumClasses

ASSUME FeaturesAssumption == IsFiniteSet(Features) /\ Features \subseteq Keys /\ Keys \subseteq Nat
ASSUME HashAssumption == HashValues \subseteq Nat /\ NoKey \notin Keys
ASSUME ClassOrdersAssumption ==
  \A order \in ClassOrders :
    /\ order \in [Classes -> Classes]
    /\ \A i, j \in Classes : order[i] = order[j] => i = j
    /\ \A c \in Classes : \E i \in Classes : order[i] = c

VARIABLES
  weights,     \* the live weights
  totals,      \* weight * iterations held, up to the last change
  timestamps,  \* the iteration of the last change
  iterations,
  summed,      \* history: the weights every iteration scored with, summed naively
  training,    \* finish() has not been called
  classes,     \* the order the file lists its classes in
  rows,        \* the file: by feature, the weight at a class's position
  hash,        \* the hash of each key
  pending,     \* the features still to be placed
  slots        \* the table: a key or NoKey, from slot 1

trainVars == <<weights, totals, timestamps, iterations, summed>>
tableVars == <<training, classes, rows, hash, pending, slots>>

Cells == Features \X Classes
Zero == [cell \in Cells |-> 0]

Score(features, class) == MapThenSumSet(LAMBDA f : weights[f, class], features)

(* The first of the best: a strictly better score replaces the pick. *)
BestAllowed(features, allowed) ==
  CHOOSE c \in allowed : \A d \in allowed :
    \/ Score(features, c) > Score(features, d)
    \/ Score(features, c) = Score(features, d) /\ c <= d

\* Mutant of Held: the iteration of the update is left out.
HeldBefore(cell, now) == now - timestamps[cell] - 1
Held(cell, now) == now - timestamps[cell]
Delta(class, gold, guess) ==
  (IF class = gold THEN 1 ELSE 0) - (IF class = guess THEN 1 ELSE 0)

(* bump() of every active feature, up for the gold class, down for the guess. *)
Bump(features, gold, guess, now) ==
  LET changed == features \X {gold, guess}
  IN /\ totals' = [cell \in Cells |-> IF cell \in changed
                     THEN totals[cell] + Held(cell, now) * weights[cell] ELSE totals[cell]]
     /\ timestamps' = [cell \in Cells |-> IF cell \in changed THEN now ELSE timestamps[cell]]
     /\ weights' = [cell \in Cells |-> IF cell \in changed
                     THEN weights[cell] + Delta(cell[2], gold, guess) ELSE weights[cell]]

TrainOne(features, gold, allowed) ==
  /\ training
  /\ iterations < MaxIterations
  /\ iterations' = iterations + 1
  /\ summed' = [cell \in Cells |-> summed[cell] + weights[cell]]
  /\ LET guess == BestAllowed(features, allowed)
     IN IF guess = gold THEN UNCHANGED <<weights, totals, timestamps>>
        ELSE Bump(features, gold, guess, iterations + 1)
  /\ UNCHANGED tableVars

(* The average of a cell at finish(), before the division by iterations. *)
Averaged(cell) == totals[cell] + Held(cell, iterations) * weights[cell]

(* hash_table_capacity: doubled until the load is under 0.7, which takes at *)
(* most count rounds.                                                       *)
Doubled(count, capacity) == IF count * 10 > capacity * 7 THEN 2 * capacity ELSE capacity
Capacity(count) == FoldLeft(LAMBDA c, i : Doubled(count, c), 1, [i \in 1 .. count |-> i])

(* finish(), and the table build_view_payload starts from: a weight whose    *)
(* average is zero is not written, nor is a feature left without any.        *)
Finish(order, hashes) ==
  LET written == {f \in Features : \E c \in Classes : Averaged(<<f, c>>) # 0}
  IN  /\ training
      /\ training' = FALSE
      /\ classes' = order
      /\ rows' = [f \in written |->
                    [i \in {i \in Classes : Averaged(<<f, order[i]>>) # 0} |->
                       Averaged(<<f, order[i]>>)]]
      /\ hash' = hashes
      /\ pending' = written
      /\ slots' = [i \in 1 .. Capacity(Cardinality(written)) |-> NoKey]
      /\ UNCHANGED trainVars

(* The i-th slot looked at for a key, wrapping at the end of the table. *)
Probe(key, i) == ((hash[key] + i) % Len(slots)) + 1

(* build_open_table: the next feature goes into the first empty slot of its *)
(* probe sequence.                                                          *)
Place ==
  /\ pending # {}
  /\ LET key == Min(pending)
     IN  /\ \E i \in 0 .. Len(slots) - 1 :
              /\ slots[Probe(key, i)] = NoKey
              /\ \A j \in 0 .. i - 1 : slots[Probe(key, j)] # NoKey
              /\ slots' = [slots EXCEPT ![Probe(key, i)] = key]
         /\ pending' = pending \ {key}
  /\ UNCHANGED <<trainVars, training, classes, rows, hash>>

(* HashView::get: up to the key, the first empty slot, or once around. *)
Get(key) ==
  LET stops == {i \in 0 .. Len(slots) - 1 : slots[Probe(key, i)] \in {key, NoKey}}
  IN IF stops = {} THEN NoKey ELSE slots[Probe(key, Min(stops))]

(* What a row adds to the score of a class: the classes of a file differ, so *)
(* there is one entry for it at most.                                        *)
RowScore(row, class) ==
  LET positions == {i \in DOMAIN row : classes[i] = class}
  IN  IF positions = {} THEN 0 ELSE row[CHOOSE i \in positions : TRUE]

(* The backend built from the audited file, and the view over the slots. *)
OwnedScore(key, class) == IF key \in DOMAIN rows THEN RowScore(rows[key], class) ELSE 0
ViewScore(key, class) == IF Get(key) = NoKey THEN 0 ELSE RowScore(rows[Get(key)], class)

WeightsInit ==
  /\ weights = Zero /\ totals = Zero /\ timestamps = Zero /\ iterations = 0 /\ summed = Zero
  /\ training = TRUE /\ classes = << >> /\ rows = << >> /\ hash = << >>
  /\ pending = {} /\ slots = << >>

WeightsNext ==
  \/ \E features \in SUBSET Features \ {{}}, gold \in Classes :
       \E allowed \in {S \in SUBSET Classes : gold \in S} : TrainOne(features, gold, allowed)
  \/ \E order \in ClassOrders, hashes \in [Keys -> HashValues] : Finish(order, hashes)
  \/ Place

WeightsSpec == WeightsInit /\ [][WeightsNext]_<<trainVars, tableVars>>

-----------------------------------------------------------------------------
(* Whenever training stops, the lazily computed average of every weight is   *)
(* the naive one: the sum of the weights the iterations really scored with.  *)
LazyAverageIsTheAverage == \A cell \in Cells : Averaged(cell) = summed[cell]

(* Placing a feature never goes around a full table for ever. *)
PlacingEnds == pending # {} => \E p \in DOMAIN slots : slots[p] = NoKey

(* Once packed, both backends score every key by those sums, the keys        *)
(* training never saw or left at zero included, however the hashes collide   *)
(* and wrap and whatever order the file lists its classes in.                *)
Ideal(key, class) == IF key \in Features THEN summed[<<key, class>>] ELSE 0
BackendsScoreTheAverage ==
  ~training /\ pending = {} =>
    \A key \in Keys, class \in Classes :
      OwnedScore(key, class) = Ideal(key, class) /\ ViewScore(key, class) = Ideal(key, class)

TrainedWeightsScore == LazyAverageIsTheAverage /\ PlacingEnds /\ BackendsScoreTheAverage
=============================================================================
