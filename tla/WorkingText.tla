---------------------------- MODULE WorkingText ----------------------------
(***************************************************************************)
(* What a sentence splicer promises (friction-edit/src/splice.rs, module   *)
(* documentation): the stages of the sentence pipeline see one working     *)
(* text, every accepted edit is a contiguous replacement in it, and the    *)
(* edit is recorded against the bytes of the ORIGINAL sentence it removed. *)
(* An edit is accepted exactly when the cells it removes are original and  *)
(* were neighbours in the original.                                        *)
(***************************************************************************)
EXTENDS Spans

CONSTANTS Source,        \* the sentence: a sequence of symbols
          Replacements   \* the texts an edit may put in, the empty one among them

VARIABLES cells, recorded

vars == <<cells, recorded>>

Init == cells = OriginalCells(Source) /\ recorded = {}

Replace(r, text) ==
  /\ CanEdit(cells, r)
  /\ cells' = Edited(cells, r, text)
  /\ LET removed == RemovedSpan(cells, r)
     IN  recorded' = recorded \cup
           {[start |-> removed.start, end |-> removed.end, text |-> text]}

\* A replacement of a text by itself is a stutter.
Next ==
  /\ vars' # vars
  /\ \E s \in 0..Len(cells) : \E e \in s..Len(cells) : \E text \in Replacements :
       Replace(Span(s, e), text)

Spec == Init /\ [][Next]_vars
=============================================================================
