------------------------------ MODULE PackCells ------------------------------
(* The derived binary packs of friction-packs (attestation.rs, dms_bin.rs,    *)
(* human_evidence.rs): what their writers and readers share.  A file is a     *)
(* sequence of cells, one for each integer and for each byte of text, so a    *)
(* cut falls between integers and damage replaces one.  A text is a sequence  *)
(* of letters.  A reader goes on from the position after the last cell read,  *)
(* or has Refused; a view that would index outside its slices panics.         *)
EXTENDS Integers, Sequences, FiniteSets, FiniteSetsExt, SequencesExt, Functions

CONSTANT NotUtf8 \* a byte of no text

Refused == -1
Outside == <<-1>> \* what a slice out of range stands for
Missing == -1 \* a lookup that finds nothing
Panic == -2   \* a lookup that indexes out of its slices

ByteLess(a, b) ==
  \E k \in 0 .. Len(a) :
    /\ k < Len(b)
    /\ SubSeq(a, 1, k) = SubSeq(b, 1, k)
    /\ k = Len(a) \/ a[k + 1] < b[k + 1]

InByteOrder(texts) == SetToSortSeq(texts, ByteLess)
InOrder(numbers) == SetToSortSeq(numbers, <)
PositionOf(seq, x) == SelectInSeq(seq, LAMBDA y : y = x)
StrictlyAscending(seq) == \A i \in 1 .. Len(seq) - 1 : seq[i] < seq[i + 1]
IsText(cells) == NotUtf8 \notin ToSet(cells)

\* Id of a text, counted from 0, the first when it is listed twice.
FirstId(texts, text) == PositionOf(texts, text) - 1

Compare(a, key) ==
  CASE a = Outside -> "panic"
    [] a # Outside /\ a = key -> "equal"
    [] OTHER -> IF ByteLess(a, key) THEN "less" ELSE "greater"

CompareNumbers(a, key) == IF a = key THEN "equal" ELSE IF a < key THEN "less" ELSE "greater"

\* The index, from 0, of the entry found, Missing, or Panic.
BinarySearch(order) ==
  LET find[lo, hi \in 0 .. Len(order)] ==
        LET mid == lo + (hi - lo) \div 2
            at == order[mid + 1]
        IN CASE lo >= hi -> Missing
             [] lo < hi /\ at = "less" -> find[mid + 1, hi]
             [] lo < hi /\ at = "greater" -> find[lo, mid]
             [] lo < hi /\ at = "equal" -> mid
             [] OTHER -> Panic
  IN find[0, Len(order)]

Finds(cells, number) ==
  BinarySearch([i \in DOMAIN cells |-> CompareNumbers(cells[i], number)]) # Missing

(* take: a reader at a position sees the next cell, if there is one, and is   *)
(* refused a read that ends after the file.                                  *)
Peek(file, at) == IF at + 1 \in DOMAIN file THEN file[at + 1] ELSE 0
Within(file, at, end) == at # Refused /\ end <= Len(file)

-----------------------------------------------------------------------------
(* A string table: a count, count + 1 offsets, the size of the pool and the  *)
(* pool.                                                                     *)
StringTable(texts) ==
  LET ends == [i \in 1 .. Len(texts) + 1 |-> Len(FlattenSeq(SubSeq(texts, 1, i - 1)))]
  IN <<Len(texts)>> \o ends \o <<Last(ends)>> \o FlattenSeq(texts)

NoTable == [at |-> Refused, count |-> 0, offsets |-> <<0>>, pool |-> << >>]

ReadStringTable(file, from) ==
  LET count == Peek(file, from)
      size == Peek(file, from + count + 2)
      end == from + count + 3 + size
  IN IF Within(file, from, end)
     THEN [at |-> end, count |-> count, offsets |-> SubSeq(file, from + 2, from + count + 2),
           pool |-> SubSeq(file, end - size + 1, end)]
     ELSE NoTable

\* The bytes of entry id, or Outside.
TextAt(table, id) ==
  IF id + 2 > Len(table.offsets) THEN Outside
  ELSE LET start == table.offsets[id + 1]
           end == table.offsets[id + 2]
       IN IF start <= end /\ end <= Len(table.pool) THEN SubSeq(table.pool, start + 1, end)
          ELSE Outside

(* A vocabulary: a string table, and the ids that resolve a text, in the      *)
(* order of their texts; of two ids with one text the first.                  *)
LookupIds(texts) ==
  LET distinct == InByteOrder(ToSet(texts))
  IN [i \in DOMAIN distinct |-> FirstId(texts, distinct[i])]

VocabCells(texts) ==
  StringTable(texts) \o <<Len(LookupIds(texts))>> \o LookupIds(texts)

IdIn(vocab, text) ==
  LET found == BinarySearch([i \in DOMAIN vocab.lookup |->
                               Compare(TextAt(vocab, vocab.lookup[i]), text)])
  IN IF found \in {Missing, Panic} THEN found ELSE vocab.lookup[found + 1]
=============================================================================
