-------------------------------- MODULE Prose --------------------------------
(***************************************************************************)
(* What parsing and segmenting a text gives the engine, as used by         *)
(* friction-edit/src/document.rs: the sentences of its prose units, in     *)
(* order, each with its place in its unit and block.                       *)
(*                                                                         *)
(* Break ends a block, Item opens an ordered list item (a block of its     *)
(* own), Code is an excluded construct that cuts one block's prose into    *)
(* units.  A sentence ends at a terminal mark before a space, or with its  *)
(* unit, and is trimmed of spaces; a quotation closes before the mark.     *)
(* Headings and tables (out of scope), bullet lists and nested blocks are  *)
(* left out.                                                               *)
(***************************************************************************)
EXTENDS Integers, Sequences, SequencesExt, FiniteSetsExt

Space == "_"
Quote == "\""
Terminal == {".", "?"}
Punctuation == Terminal \cup {",", Quote}

Break == "|"
Item == "1)"
Code == "<code>"
BlockStarts == {Break, Item}
Structure == BlockStarts \cup {Code}

NoSentence == -1

\* Some sequence, whatever its elements.
IsSequence(s) == s \in Seq(Range(s))

\* The last symbol of text[1..offset] that is not ignored, or Break.
LastBefore(text, offset, ignored) ==
  LET seen == {i \in 1..offset : text[i] \notin ignored}
  IN  IF seen = {} THEN Break ELSE text[Max(seen)]

IsProse(sym) == sym \notin Structure \cup {Space}

\* The offsets in a set, below n, in ascending order.
Counted(offsets, counted, k) == IF k \in offsets THEN Append(counted, k) ELSE counted
OffsetsBelow(n) == [k \in 1..n |-> k - 1]
InOrder(offsets, n) == FoldLeft(LAMBDA counted, k : Counted(offsets, counted, k), <<>>, OffsetsBelow(n))

\* The offsets sentences start at: Segmenter::segment on every prose unit.
IsStart(text, s) ==
  /\ s < Len(text) /\ IsProse(text[s + 1])
  /\ LET before == LastBefore(text, s, {Space})
     IN  before \in Structure \/ (before \in Terminal /\ text[s] = Space)

Starts(text) == {s \in 0..Len(text) : IsStart(text, s)}

\* The offset the unit around s ends at, its trailing spaces trimmed.
UnitEnd(text, s) ==
  Max({e \in s + 1 .. Len(text) : IsProse(text[e]) /\ \A i \in s + 1 .. e : text[i] \notin Structure})

SentenceEnd(text, s) ==
  Min({UnitEnd(text, s)} \cup
      {e \in s + 1 .. UnitEnd(text, s) : text[e] \in Terminal /\ (e = Len(text) \/ text[e + 1] = Space)})

\* Where the unit, and the block, around s begins.
UnitStart(text, s) == Max({0} \cup {i \in 1..s : text[i] \in Structure})
BlockStart(text, s) == Max({0} \cup {i \in 1..s : text[i] \in BlockStarts})

\* Mutant: every first sentence of a unit thought to be a new one.
AlwaysNew(text, s) == TRUE

\* ends_with_sentence_terminal_punctuation of the prose before the unit, if
\* that prose is of the same block: does the unit open a new sentence?
UnitStartsNewSentence(text, s) ==
  LastBefore(text, UnitStart(text, s), {Space, Code, Quote}) \in BlockStarts \cup Terminal

\* Mutant: no sentence thought to be all an item holds.
NeverSole(text, s) == FALSE

\* Is the sentence an ordered list item's whole prose (units_per_block,
\* ordered_list_items)?
SoleItemContent(text, s) ==
  LET opener == BlockStart(text, s)
  IN  /\ opener > 0 /\ text[opener] = Item
      /\ \A t \in Starts(text) : BlockStart(text, t) = opener => t = s

\* collect_positions_and_casing, for the sentence that starts at s.
Position(text, s) ==
  LET starts == Starts(text)
      unit   == {t \in starts : UnitStart(text, t) = UnitStart(text, s)}
      earlier == {t \in unit : t < s}
      later  == {t \in unit : t > s}
  IN  [start     |-> s,
       end       |-> SentenceEnd(text, s),
       prevEnd   |-> IF earlier = {} THEN NoSentence ELSE SentenceEnd(text, Max(earlier)),
       nextStart |-> IF later = {} THEN NoSentence ELSE Min(later),
       starts    |-> earlier # {} \/ UnitStartsNewSentence(text, s),
       sole      |-> SoleItemContent(text, s)]

Positions(text) ==
  LET starts == InOrder(Starts(text), Len(text))
  IN  [i \in DOMAIN starts |-> Position(text, starts[i])]

\* prose_word_count's word tokens
WordCount(text) == Cardinality({i \in DOMAIN text : IsProse(text[i]) /\ text[i] \notin Punctuation})

-----------------------------------------------------------------------------
(* The closed word lists of friction-match/src/frame.rs, shared by the       *)
(* channel that reports contrast frames and the operation that edits them.   *)
QuestionAuxiliaries == {"is", "are", "was", "were", "does", "do", "can", "could"}
DejustMarkers == {"just", "merely", "simply"}
DismissiveMarkers == DejustMarkers \cup {"only"}
MarkerFollowerGuard == {"as", "about", "now", "yet", "enough"}
=============================================================================
