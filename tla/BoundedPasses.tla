---------------------------- MODULE BoundedPasses ----------------------------
(***************************************************************************)
(* What edit_document (friction-edit/src/document.rs) promises, said       *)
(* without its caches and without its walk from sentence to sentence: a    *)
(* pass generates the edits of every sentence of the text afresh, in       *)
(* document order, one pivot budget running through them; at most          *)
(* MAX_PASSES passes are made, and one that changes nothing is the last;   *)
(* the restructure pass follows, once.  Then the result may be handed in   *)
(* again.                                                                  *)
(*                                                                         *)
(* How a text falls into sentences, what is decided for one of them and    *)
(* what becomes of the patches are parameters here.                        *)
(***************************************************************************)
EXTENDS Integers, Sequences, SequencesExt

CONSTANTS
  Documents,            \* the texts handed in
  Rates,                \* calibrated edits per thousand words, or Uncalibrated
  Sentences(_),         \* the sentences of a text, in order
  CasingOf(_, _),       \* a text's casing evidence, given its sentences
  FreshEdits(_, _, _, _), \* of a text, its casing, a sentence and a budget:
                        \* [patches, takes]
  Accepted(_, _),       \* the patches of a text accepted out of candidates
  Applied(_, _),        \* a text with patches applied
  AfterRestructure(_),  \* a text as the restructure pass leaves it
  Allowance(_, _)       \* the pivot budget for a text under a calibration

VARIABLES rate,    \* the calibration in the attestation pack
          text,    \* the document so far
          budget,  \* pivot budget left
          made     \* passes made by this call; MAX_PASSES + 1 once restructured

vars == <<rate, text, budget, made>>

MAX_PASSES == 2
Restructured == MAX_PASSES + 1

\* One sentence of a pass that walks over a text.
Visit(walk, sentence) ==
  LET edits == FreshEdits(walk.text, walk.casing, sentence, walk.budget)
  IN  [walk EXCEPT !.candidates = @ \o edits.patches, !.budget = @ - edits.takes]

\* A pass that has visited no sentence yet.
Entering(source, room) ==
  [text |-> source, casing |-> CasingOf(source, Sentences(source)), candidates |-> <<>>, budget |-> room]

\* The candidates of one pass over the sentences of a text.
PassFrom(source, room) == FoldLeft(Visit, Entering(source, room), Sentences(source))

Init ==
  /\ text \in Documents /\ rate \in Rates
  /\ budget = Allowance(text, rate)
  /\ made = 0

Accept(accepted) ==
  /\ text' = Applied(text, accepted)
  /\ made' = IF accepted = <<>> THEN MAX_PASSES ELSE made + 1

EndPass(pass) == Accept(Accepted(text, pass.candidates)) /\ budget' = pass.budget

\* One bounded pass: it changes nothing only as the last one.
Pass ==
  /\ made < MAX_PASSES
  /\ EndPass(PassFrom(text, budget))
  /\ UNCHANGED rate

RestructurePass ==
  /\ made = MAX_PASSES
  /\ text' = AfterRestructure(text)
  /\ made' = Restructured
  /\ UNCHANGED <<rate, budget>>

Again ==
  /\ made = Restructured
  /\ budget' = Allowance(text, rate)
  /\ made' = 0
  /\ UNCHANGED <<rate, text>>

Next == Pass \/ RestructurePass \/ Again

Spec == Init /\ [][Next]_vars
=============================================================================
