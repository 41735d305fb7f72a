----------------------------- MODULE PassProofs -----------------------------
(***************************************************************************)
(* edit_document, for all texts, packs and calibrations.  Two results.     *)
(*                                                                         *)
(* 1. The bounded passes, with their generation cache and walked one       *)
(*    sentence at a time, are the whole passes of module BoundedPasses,    *)
(*    which know no cache (CachedPassesAreWholePasses).  A cache entry is  *)
(*    the outcome of some sentence, perhaps of an earlier text, with its   *)
(*    own place and its own budget.  Taken at another sentence with the    *)
(*    same key it must give what generating that sentence would give.  The *)
(*    text is the same, so the stages run alike but for their budgets, and *)
(*    Regime keeps of the budget all that three takes can tell             *)
(*    (SentenceProofs).  The place enters only through the separators of a *)
(*    ritual deletion, which the gaps of the key give back (WholeIsAlike), *)
(*    and through a shift.                                                 *)
(*                                                                         *)
(*    The inductive invariant PassInv adds to the types that every entry   *)
(*    of the cache is fresh in this sense (SoundCache) and that what a     *)
(*    pass has collected so far is what visiting its sentences afresh,     *)
(*    from the budget the pass began with, gives (Collecting).             *)
(*                                                                         *)
(* 2. Quoted text is left alone (QuotationsAreLeftAlone).  What the stages *)
(*    record is clear of it (SentenceProofs), and stays so when the        *)
(*    patches are replayed from the right and the first word is            *)
(*    recapitalized (SettledStaysSober).  Sentences do not overlap         *)
(*    (SentencesLieApart), so an edit of one takes no quotation of         *)
(*    another.  QuoteInv adds to PassInv that this holds of all a pass has *)
(*    collected so far.                                                    *)
(***************************************************************************)
EXTENDS EditDocument, SentenceProofs

-----------------------------------------------------------------------------
(***************************************************************************)
(* Two sentences with the same key, wherever they stand and however much   *)
(* budget is left.                                                         *)
(***************************************************************************)
LEMMA ShiftedPatch ==
  ASSUME NEW p, IsPatch(p), NEW by \in Int
  PROVE  Shift(p, by) = Patch(p.start + by, p.end + by, p.text, p.rule) /\ IsPatch(Shift(p, by))
<1>1. p = Patch(p.start, p.end, p.text, p.rule) /\ p.start \in Int /\ p.end \in Int /\ IsSequence(p.text)
  BY DEF IsPatch
<1>2. Shift(p, by) = Patch(p.start + by, p.end + by, p.text, p.rule)
  <2> DEFINE q == [p EXCEPT !.start = @ + by]
  <2>1. q = Patch(p.start + by, p.end, p.text, p.rule)
    BY <1>1 DEF Patch
  <2>2. Shift(p, by) = [q EXCEPT !.end = p.end + by]
    BY <1>1 DEF Shift, Patch
  <2> HIDE DEF q
  <2> QED BY <2>1, <2>2 DEF Patch
<1>3. IsPatch(Patch(p.start + by, p.end + by, p.text, p.rule))
  BY <1>1 DEF IsPatch, Patch
<1> QED BY <1>2, <1>3

LEMMA ShiftedPatches ==
  ASSUME NEW ps, IsPatches(ps), NEW by \in Int
  PROVE  IsPatches(ShiftAll(ps, by)) /\ DOMAIN ShiftAll(ps, by) = DOMAIN ps
<1> DEFINE n == Len(ps)
           moved == ShiftAll(ps, by)
<1>1. n \in Nat /\ DOMAIN ps = 1 .. n /\ \A k \in 1 .. n : IsPatch(ps[k])
  BY SequenceIs DEF IsPatches
<1> HIDE DEF n
<1>2. moved = [k \in 1 .. n |-> moved[k]] /\ \A k \in 1 .. n : moved[k] = Shift(ps[k], by)
  BY <1>1 DEF ShiftAll
<1> HIDE DEF moved
<1>3. IsSequence(moved) /\ DOMAIN moved = 1 .. n
  BY <1>1, <1>2, Listed
<1>4. \A k \in 1 .. n : IsPatch(moved[k])
  BY <1>1, <1>2, ShiftedPatch
<1> QED BY <1>1, <1>3, <1>4 DEF IsPatches, moved

LEMMA ShiftedBack ==
  ASSUME NEW ps, IsPatches(ps), NEW by \in Int
  PROVE  ShiftAll(ShiftAll(ps, by), -by) = ps
<1> DEFINE n == Len(ps)
           moved == ShiftAll(ps, by)
           back == ShiftAll(moved, -by)
<1>1. n \in Nat /\ DOMAIN ps = 1 .. n /\ ps = [k \in 1 .. n |-> ps[k]] /\ \A k \in 1 .. n : IsPatch(ps[k])
  BY SequenceIs DEF IsPatches
<1> HIDE DEF n
<1>2. DOMAIN moved = 1 .. n /\ \A k \in 1 .. n : moved[k] = Shift(ps[k], by)
  BY <1>1 DEF ShiftAll
<1> HIDE DEF moved
<1>3. back = [k \in 1 .. n |-> Shift(moved[k], -by)]
  BY <1>2 DEF ShiftAll
<1>4. ASSUME NEW k \in 1 .. n PROVE Shift(moved[k], -by) = ps[k]
  <2>1. IsPatch(ps[k]) /\ -by \in Int
    BY <1>1
  <2>2. /\ moved[k] = Patch(ps[k].start + by, ps[k].end + by, ps[k].text, ps[k].rule)
        /\ IsPatch(moved[k])
    BY <1>2, <2>1, ShiftedPatch
  <2>3. Shift(moved[k], -by) =
          Patch(moved[k].start + (-by), moved[k].end + (-by), moved[k].text, moved[k].rule)
    BY <2>1, <2>2, ShiftedPatch
  <2>4. /\ moved[k].start = ps[k].start + by /\ moved[k].end = ps[k].end + by
        /\ moved[k].text = ps[k].text /\ moved[k].rule = ps[k].rule
    BY <2>2 DEF Patch
  <2>5. moved[k].start + (-by) = ps[k].start /\ moved[k].end + (-by) = ps[k].end
    BY <2>1, <2>4 DEF IsPatch
  <2> QED BY <2>1, <2>3, <2>4, <2>5 DEF IsPatch
<1> HIDE DEF back
<1>5. back = [k \in 1 .. n |-> ps[k]]
  BY <1>3, <1>4
<1> QED BY <1>1, <1>5 DEF back, moved

\* A sentence as the walk finds it.
IsPosition(source, p) ==
  /\ p.start \in Nat /\ p.end \in Nat /\ p.start <= p.end /\ p.end <= Len(source)
  /\ p.prevEnd \in Int /\ p.nextStart \in Int

OutcomeOf(deleted, made, refused, noted, takes) ==
  [deleted |-> deleted, patches |-> made, declined |-> refused, held |-> noted, takes |-> takes]
IsOutcome(o) ==
  /\ o = OutcomeOf(o.deleted, o.patches, o.declined, o.held, o.takes)
  /\ IsPatches(o.patches) /\ o.takes \in 0 .. 3

LEMMA SliceIs ==
  ASSUME NEW source, IsSequence(source), NEW p, IsPosition(source, p)
  PROVE  IsSequence(Slice(source, p)) /\ Len(Slice(source, p)) = p.end - p.start
<1>1. source \in Seq(Range(source)) /\ p.start + 1 \in Nat /\ p.end \in Nat
  BY DEF IsSequence, IsPosition
<1>2. Len(SubSeq(source, p.start + 1, p.end)) = p.end - p.start
  BY <1>1 DEF IsPosition
<1>3. IsSequence(SubSeq(source, p.start + 1, p.end))
  <2>1. p.start + 1 \in Int /\ p.end \in Int /\ 1 <= p.start + 1 /\ p.end <= Len(source)
    BY DEF IsPosition
  <2> QED BY <2>1, PieceIs
<1> QED BY <1>2, <1>3 DEF Slice

-----------------------------------------------------------------------------
LEMMA MinOfTwo ==
  ASSUME NEW a \in Nat, NEW b \in Nat
  PROVE  Min({a, b}) = IF a <= b THEN a ELSE b
<1>1. CASE a <= b
  <2>1. \A x \in {a, b} : (\A y \in {a, b} : x <= y) <=> x = a
    BY <1>1
  <2> QED BY <1>1, <2>1 DEF Min
<1>2. CASE b < a
  <2>1. \A x \in {a, b} : (\A y \in {a, b} : x <= y) <=> x = b
    BY <1>2
  <2> QED BY <1>2, <2>1 DEF Min
<1> QED BY <1>1, <1>2

Reported(words) ==
  {[rule |-> FRAME, why |-> "report", start |-> m.start, end |-> m.end] :
     m \in OfKind(FrameMatches(words), {"report"})}
FirstHeld(words, p) ==
  IF RitualActs(words, p) THEN {} \cup HoldsOn(words, RITUAL, {"guarded"})
  ELSE Reported(words) \cup HoldsOn(words, RITUAL, RitualHold(words, p))
GoesWhole(words, p) ==
  RitualActs(words, p) /\ ~(RitualGuards(OfKind(FrameMatches(words), {"guard"})) # {})
WholePatch(p) == Patch(RitualRange(p).start, RitualRange(p).end, <<>>, RITUAL)
WholeHeld(words, p) == {Shift(h, p.start) : h \in Reported(words)}

LEMMA HeldIs ==
  ASSUME NEW words, NEW cells, NEW recorded, NEW noted, NEW room, NEW pivoted, NEW refused, NEW others
  PROVE  [WorkOf(words, cells, recorded, noted, room, pivoted, refused) EXCEPT !.held = others] =
           WorkOf(words, cells, recorded, others, room, pivoted, refused)
BY DEF WorkOf

Starting(words, room, held0) == [Work(words, room) EXCEPT !.held = held0]

LEMMA OpeningIs ==
  ASSUME NEW words, NEW room, NEW held0, NEW rule, NEW whys
  PROVE  HoldAll(Starting(words, room, held0), rule, whys) =
           Opened(words, room, held0 \cup HoldsOn(words, rule, whys))
<1> DEFINE no == FALSE
           OpenedWith(h) == WorkOf(words, OriginalCells(words), <<>>, h, room, no, 0)
<1>0. Work(words, room) = OpenedWith({}) /\ \A h : Opened(words, room, h) = OpenedWith(h)
  BY Zenon DEF Work, Opened, WorkOf
<1> HIDE DEF no
<1>6. \A h, h1 : [OpenedWith(h) EXCEPT !.held = h1] = OpenedWith(h1)
  BY HeldIs
<1> HIDE DEF OpenedWith
<1>1. Starting(words, room, held0) = Opened(words, room, held0)
  BY <1>0, <1>6 DEF Starting
<1>2. HoldAll(Opened(words, room, held0), rule, whys) =
        [Opened(words, room, held0) EXCEPT !.held = @ \cup HoldsOn(Opened(words, room, held0).text, rule, whys)]
  BY HoldIs
<1>3. Opened(words, room, held0).text = words /\ Opened(words, room, held0).held = held0
  BY DEF Opened, WorkOf
<1> DEFINE noted == held0 \cup HoldsOn(words, rule, whys)
<1>4. HoldAll(Opened(words, room, held0), rule, whys) = [Opened(words, room, held0) EXCEPT !.held = noted]
  BY <1>2, <1>3
<1> HIDE DEF noted
<1>5. [Opened(words, room, held0) EXCEPT !.held = noted] = Opened(words, room, noted)
  BY <1>0, <1>6
<1> QED BY <1>1, <1>4, <1>5 DEF noted

LEMMA GeneratedIs ==
  ASSUME NEW source, NEW p, NEW room
  PROVE  GenerateSentence(source, p, room) =
           IF GoesWhole(Slice(source, p), p)
           THEN OutcomeOf(TRUE, <<WholePatch(p)>>, 0, WholeHeld(Slice(source, p), p), 0)
           ELSE Finished(Stages(Opened(Slice(source, p), room, FirstHeld(Slice(source, p), p))), p.start, room)
<1> DEFINE words == Slice(source, p)
           ritual == RitualActs(words, p)
           guarded == RitualGuards(OfKind(FrameMatches(words), {"guard"})) # {}
           start == [Work(words, room) EXCEPT !.held = IF ritual THEN {} ELSE Reported(words)]
           noted == IF ritual THEN Hold(start, RITUAL, "guarded")
                    ELSE HoldAll(start, RITUAL, RitualHold(words, p))
<1>1. GenerateSentence(source, p, room) =
        IF ritual /\ ~guarded
        THEN [deleted |-> TRUE, patches |-> <<WholePatch(p)>>, declined |-> 0, takes |-> 0,
              held |-> WholeHeld(words, p)]
        ELSE Finished(Stages(noted), p.start, room)
  BY DEF GenerateSentence, Reported, WholePatch, WholeHeld, Stages
<1>2. noted = Opened(words, room, FirstHeld(words, p))
  <2> DEFINE held0 == IF ritual THEN {} ELSE Reported(words)
  <2>0. start = Starting(words, room, held0)
    BY DEF Starting
  <2> HIDE DEF held0, start, ritual
  <2>1. CASE ritual
    <3>1. noted = HoldAll(Starting(words, room, {}), RITUAL, {"guarded"})
      BY <2>0, <2>1 DEF Hold, held0
    <3>2. FirstHeld(words, p) = {} \cup HoldsOn(words, RITUAL, {"guarded"})
      BY <2>1 DEF FirstHeld, ritual
    <3>3. HoldAll(Starting(words, room, {}), RITUAL, {"guarded"}) =
            Opened(words, room, {} \cup HoldsOn(words, RITUAL, {"guarded"}))
      BY OpeningIs
    <3> QED BY <3>1, <3>2, <3>3
  <2>2. CASE ~ritual
    <3>1. noted = HoldAll(Starting(words, room, Reported(words)), RITUAL, RitualHold(words, p))
      BY <2>0, <2>2 DEF held0
    <3>2. FirstHeld(words, p) = Reported(words) \cup HoldsOn(words, RITUAL, RitualHold(words, p))
      BY <2>2 DEF FirstHeld, ritual
    <3>3. HoldAll(Starting(words, room, Reported(words)), RITUAL, RitualHold(words, p)) =
            Opened(words, room, Reported(words) \cup HoldsOn(words, RITUAL, RitualHold(words, p)))
      BY OpeningIs
    <3> QED BY <3>1, <3>2, <3>3
  <2> QED BY <2>1, <2>2
<1>3. [deleted |-> TRUE, patches |-> <<WholePatch(p)>>, declined |-> 0, takes |-> 0,
       held |-> WholeHeld(words, p)] = OutcomeOf(TRUE, <<WholePatch(p)>>, 0, WholeHeld(words, p), 0)
  BY DEF OutcomeOf
<1>4. GoesWhole(words, p) <=> ritual /\ ~guarded
  BY DEF GoesWhole
<1> HIDE DEF noted, ritual, guarded
<1> QED BY <1>1, <1>2, <1>3, <1>4

LEMMA FinishedIs ==
  ASSUME NEW s, IsWork(s), NEW at \in Int, NEW room \in Nat, NEW d \in 0 .. 3, s.budget = room - d
  PROVE  /\ IsOutcome(Finished(s, at, room)) /\ ~Finished(s, at, room).deleted
         /\ Finished(s, at, room).patches = ShiftAll(s.patches, at)
         /\ Finished(s, at, room).takes = d /\ d <= room
<1> DEFINE moved == ShiftAll(s.patches, at)
           heldThere == {Shift(h, at) : h \in s.held}
<1>1. Finished(s, at, room) = OutcomeOf(FALSE, moved, s.declined, heldThere, room - s.budget)
  BY DEF Finished, OutcomeOf
<1>2. room - s.budget = d /\ d <= room
  BY DEF IsWork
<1>3. IsPatches(moved)
  BY ShiftedPatches DEF IsWork
<1> HIDE DEF moved, heldThere
<1>4. IsOutcome(OutcomeOf(FALSE, moved, s.declined, heldThere, d))
  BY <1>3 DEF IsOutcome, OutcomeOf
<1> QED BY <1>1, <1>2, <1>4 DEF OutcomeOf, moved

-----------------------------------------------------------------------------
\* Two sentences the cache takes for the same: of texts `source' and `site',
\* at p and q, with `room' and `left' of the budget.
SameKey(source, p, room, site, q, left) ==
  /\ IsSequence(source) /\ IsPosition(source, p) /\ room \in Nat
  /\ IsSequence(site) /\ IsPosition(site, q) /\ left \in Nat
  /\ Key(source, p, room) = Key(site, q, left)

LEMMA KeyTells ==
  ASSUME NEW source, NEW p, NEW room, NEW site, NEW q, NEW left, SameKey(source, p, room, site, q, left)
  PROVE  /\ Slice(source, p) = Slice(site, q) /\ p.end - p.start = q.end - q.start
         /\ p.sole = q.sole /\ p.starts = q.starts
         /\ Gap(p.prevEnd, p.prevEnd, p.start) = Gap(q.prevEnd, q.prevEnd, q.start)
         /\ Gap(p.nextStart, p.end, p.nextStart) = Gap(q.nextStart, q.end, q.nextStart)
         /\ Room(room, left, 3)
<1>1. /\ Slice(source, p) = Slice(site, q) /\ p.sole = q.sole /\ p.starts = q.starts
      /\ Gap(p.prevEnd, p.prevEnd, p.start) = Gap(q.prevEnd, q.prevEnd, q.start)
      /\ Gap(p.nextStart, p.end, p.nextStart) = Gap(q.nextStart, q.end, q.nextStart)
      /\ Regime(room) = Regime(left)
  BY DEF SameKey, Key
<1>2. p.end - p.start = q.end - q.start
  BY <1>1, SliceIs DEF SameKey
<1>3. Room(room, left, 3)
  <2>1. room \in Nat /\ left \in Nat /\ 3 \in Nat
    BY DEF SameKey
  <2>2. Regime(room) = (IF room <= 3 THEN room ELSE 3) /\ Regime(left) = IF left <= 3 THEN left ELSE 3
    BY <2>1, MinOfTwo DEF Regime
  <2>3. (IF room <= 3 THEN room ELSE 3) = (IF left <= 3 THEN left ELSE 3)
    BY <1>1, <2>2
  <2> QED BY <2>1, <2>3 DEF Room
<1> QED BY <1>1, <1>2, <1>3

LEMMA GapTells ==
  ASSUME NEW a \in Int, NEW b \in Int, NEW x, NEW y, NEW u, NEW v,
         x \in Int, y \in Int, u \in Int, v \in Int, Gap(a, x, y) = Gap(b, u, v)
  PROVE  (a = NoSentence <=> b = NoSentence) /\ (a # NoSentence => y - x = v - u)
<1>1. (a = NoSentence <=> b = NoSentence)
  BY DEF Gap
<1>2. ASSUME a # NoSentence PROVE y - x = v - u
  <2>1. {y - x} = {v - u}
    BY <1>1, <1>2 DEF Gap
  <2> QED BY <2>1
<1> QED BY <1>1, <1>2

LEMMA WholeIsAlike ==
  ASSUME NEW source, NEW p, NEW room, NEW site, NEW q, NEW left, SameKey(source, p, room, site, q, left)
  PROVE  /\ RitualRange(q).start = RitualRange(p).start + (q.start - p.start)
         /\ RitualRange(q).end = RitualRange(p).end + (q.start - p.start)
         /\ RitualRange(p).start \in Int /\ RitualRange(p).end \in Int
<1>1. /\ p.start \in Int /\ p.end \in Int /\ p.prevEnd \in Int /\ p.nextStart \in Int
      /\ q.start \in Int /\ q.end \in Int /\ q.prevEnd \in Int /\ q.nextStart \in Int
  BY DEF SameKey, IsPosition
<1>2. p.end - p.start = q.end - q.start
  BY KeyTells
<1>3. /\ p.prevEnd = NoSentence <=> q.prevEnd = NoSentence
      /\ p.prevEnd # NoSentence => p.start - p.prevEnd = q.start - q.prevEnd
  <2>1. Gap(p.prevEnd, p.prevEnd, p.start) = Gap(q.prevEnd, q.prevEnd, q.start)
    BY KeyTells
  <2> QED BY <1>1, <2>1, GapTells
<1>4. /\ p.nextStart = NoSentence <=> q.nextStart = NoSentence
      /\ p.nextStart # NoSentence => p.nextStart - p.end = q.nextStart - q.end
  <2>1. Gap(p.nextStart, p.end, p.nextStart) = Gap(q.nextStart, q.end, q.nextStart)
    BY KeyTells
  <2> QED BY <1>1, <2>1, GapTells
<1> QED BY <1>1, <1>2, <1>3, <1>4 DEF RitualRange, Span

Singly(a, b, words, rule) == <<Patch(a, b, words, rule)>>

LEMMA OneShifted ==
  ASSUME NEW a \in Int, NEW b \in Int, NEW c, NEW d, NEW by \in Int, c = a + by, d = b + by,
         NEW words, IsSequence(words), NEW rule
  PROVE  ShiftAll(Singly(a, b, words, rule), by) = Singly(c, d, words, rule)
<1> DEFINE one == Patch(a, b, words, rule)
           other == Patch(c, d, words, rule)
<1>1. IsPatch(one)
  BY DEF IsPatch, Patch
<1>2. one.start = a /\ one.end = b /\ one.text = words /\ one.rule = rule
  BY DEF Patch
<1> HIDE DEF one
<1>3. Shift(one, by) = other
  BY <1>1, <1>2, ShiftedPatch
<1> HIDE DEF other
<1>4. ShiftAll(<<one>>, by) = <<other>>
  <2>1. DOMAIN <<one>> = 1 .. 1 /\ <<one>>[1] = one
    OBVIOUS
  <2>2. ShiftAll(<<one>>, by) = [k \in 1 .. 1 |-> other]
    BY <1>3, <2>1 DEF ShiftAll
  <2>3. [k \in 1 .. 1 |-> other] = <<other>>
    OBVIOUS
  <2> QED BY <2>2, <2>3
<1> QED BY <1>4 DEF one, other, Singly

LEMMA OnePatch ==
  ASSUME NEW a \in Int, NEW b \in Int, NEW words, IsSequence(words), NEW rule
  PROVE  IsPatches(Singly(a, b, words, rule))
<1> DEFINE one == Patch(a, b, words, rule)
<1>1. IsPatch(one)
  BY DEF IsPatch, Patch
<1> HIDE DEF one
<1>2. IsPatches(<<one>>)
  BY <1>1, OneIs DEF IsPatches
<1> QED BY <1>2 DEF one, Singly

\* What a kept outcome becomes at another sentence with the same key is what
\* generating that sentence would give.
SameEdits(o, p, u, q) ==
  /\ IsOutcome(o) /\ IsOutcome(u) /\ (o.deleted <=> u.deleted) /\ o.takes = u.takes
  /\ ShiftAll(ShiftAll(o.patches, -p.start), q.start) = u.patches

LEMMA SameWhole ==
  ASSUME NEW source, NEW p, NEW room, NEW site, NEW q, NEW left, SameKey(source, p, room, site, q, left),
         NEW noted, NEW notedThere
  PROVE  SameEdits(OutcomeOf(TRUE, <<WholePatch(p)>>, 0, noted, 0), p,
                   OutcomeOf(TRUE, <<WholePatch(q)>>, 0, notedThere, 0), q)
<1> DEFINE a == RitualRange(p).start
           b == RitualRange(p).end
           c == RitualRange(q).start
           d == RitualRange(q).end
           by == -p.start
           x == a + by
           y == b + by
           none == <<>>
           here == Singly(a, b, none, RITUAL)
           kept == Singly(x, y, none, RITUAL)
           there == Singly(c, d, none, RITUAL)
<1>1. p.start \in Int /\ q.start \in Int /\ by \in Int
  BY DEF SameKey, IsPosition
<1>2. a \in Int /\ b \in Int /\ c = a + (q.start - p.start) /\ d = b + (q.start - p.start)
  BY WholeIsAlike
<1> HIDE DEF a, b, c, d
<1>3. x \in Int /\ y \in Int /\ c = x + q.start /\ d = y + q.start /\ c \in Int /\ d \in Int
  BY <1>1, <1>2
<1>4. IsSequence(none) /\ x = a + by /\ y = b + by
  BY EmptyIs
<1> HIDE DEF x, y, none, by
<1>5. ShiftAll(here, by) = kept
  BY <1>1, <1>2, <1>4, OneShifted
<1>6. ShiftAll(kept, q.start) = there
  <2> DEFINE at == q.start
  <2>1. x \in Int /\ y \in Int /\ at \in Int /\ c = x + at /\ d = y + at /\ IsSequence(none)
    BY <1>1, <1>3, <1>4
  <2> HIDE DEF at
  <2>2. ShiftAll(Singly(x, y, none, RITUAL), at) = Singly(c, d, none, RITUAL)
    BY <2>1, OneShifted
  <2> QED BY <2>2 DEF at
<1>7. IsPatches(here) /\ IsPatches(there)
  BY <1>2, <1>3, <1>4, OnePatch
<1>8. here = <<WholePatch(p)>> /\ there = <<WholePatch(q)>>
  BY DEF Singly, WholePatch, a, b, c, d, none
<1> HIDE DEF here, there, kept
<1>9. SameEdits(OutcomeOf(TRUE, here, 0, noted, 0), p, OutcomeOf(TRUE, there, 0, notedThere, 0), q)
  BY <1>5, <1>6, <1>7 DEF SameEdits, IsOutcome, OutcomeOf, by
<1> QED BY <1>8, <1>9

LEMMA SameStages ==
  ASSUME NEW source, NEW p, NEW room, NEW site, NEW q, NEW left, SameKey(source, p, room, site, q, left),
         NEW noted
  PROVE  /\ SameEdits(Finished(Stages(Opened(Slice(source, p), room, noted)), p.start, room), p,
                      Finished(Stages(Opened(Slice(site, q), left, noted)), q.start, left), q)
         /\ Finished(Stages(Opened(Slice(site, q), left, noted)), q.start, left).takes <= left
<1> DEFINE words == Slice(source, p)
           s == Opened(words, room, noted)
           t == Opened(words, left, noted)
           a == Stages(s)
           b == Stages(t)
<1>1. /\ IsSequence(words) /\ Slice(site, q) = words /\ room \in Nat /\ left \in Nat
      /\ p.start \in Int /\ q.start \in Int /\ Room(room, left, 3)
  <2>1. /\ IsSequence(source) /\ IsPosition(source, p) /\ room \in Nat /\ left \in Nat
        /\ p.start \in Int /\ q.start \in Int
    BY DEF SameKey, IsPosition
  <2>2. IsSequence(words)
    BY <2>1, SliceIs
  <2> QED BY <2>1, <2>2, KeyTells
<1> HIDE DEF words
<1>2. Alike(s, t) /\ s.budget = room /\ t.budget = left
  BY <1>1, OpenedAlike
<1> HIDE DEF s, t
<1>3. Took(s, t, a, b, 3)
  BY <1>1, <1>2, StagesTake
<1> HIDE DEF a, b
<1>4. /\ IsWork(a) /\ IsWork(b) /\ a.patches = b.patches
  BY <1>3 DEF Took, Alike
<1>5. PICK d \in 0 .. 3 : a.budget = room - d /\ b.budget = left - d
  BY <1>2, <1>3 DEF Took
<1> DEFINE o == Finished(a, p.start, room)
           u == Finished(b, q.start, left)
<1>6. IsOutcome(o) /\ ~o.deleted /\ o.patches = ShiftAll(a.patches, p.start) /\ o.takes = d
  BY <1>1, <1>4, <1>5, FinishedIs
<1>7. IsOutcome(u) /\ ~u.deleted /\ u.patches = ShiftAll(b.patches, q.start) /\ u.takes = d /\ d <= left
  BY <1>1, <1>4, <1>5, FinishedIs
<1> HIDE DEF o, u
<1>8. ShiftAll(o.patches, -p.start) = a.patches
  BY <1>1, <1>4, <1>6, ShiftedBack DEF IsWork
<1>9. SameEdits(o, p, u, q) /\ u.takes <= left
  BY <1>4, <1>6, <1>7, <1>8 DEF SameEdits
<1> QED BY <1>1, <1>9 DEF o, u, a, b, s, t, words

LEMMA SameOutcome ==
  ASSUME NEW source, NEW p, NEW room, NEW site, NEW q, NEW left, SameKey(source, p, room, site, q, left)
  PROVE  /\ SameEdits(GenerateSentence(source, p, room), p, GenerateSentence(site, q, left), q)
         /\ GenerateSentence(site, q, left).takes <= left
<1> DEFINE words == Slice(source, p)
           o == GenerateSentence(source, p, room)
           u == GenerateSentence(site, q, left)
<1>1. Slice(site, q) = words /\ p.sole = q.sole /\ left \in Nat
  BY KeyTells DEF SameKey
<1>2. RitualHold(words, q) = RitualHold(words, p)
  BY <1>1 DEF RitualHold
<1> HIDE DEF words
<1>3. (GoesWhole(words, q) <=> GoesWhole(words, p)) /\ FirstHeld(words, q) = FirstHeld(words, p)
  BY <1>2 DEF GoesWhole, FirstHeld, RitualActs
<1>4. CASE GoesWhole(words, p)
  <2>1. /\ o = OutcomeOf(TRUE, <<WholePatch(p)>>, 0, WholeHeld(words, p), 0)
        /\ u = OutcomeOf(TRUE, <<WholePatch(q)>>, 0, WholeHeld(words, q), 0)
    BY <1>1, <1>3, <1>4, GeneratedIs DEF words
  <2>2. SameEdits(o, p, u, q)
    BY <2>1, SameWhole
  <2>3. u.takes = 0
    BY <2>1 DEF OutcomeOf
  <2> QED BY <1>1, <2>2, <2>3
<1>5. CASE ~GoesWhole(words, p)
  <2>1. /\ o = Finished(Stages(Opened(Slice(source, p), room, FirstHeld(words, p))), p.start, room)
        /\ u = Finished(Stages(Opened(Slice(site, q), left, FirstHeld(words, p))), q.start, left)
    BY <1>1, <1>3, <1>5, GeneratedIs DEF words
  <2> QED BY <2>1, SameStages
<1> QED BY <1>4, <1>5

-----------------------------------------------------------------------------
(***************************************************************************)
(* A hit and a miss, settled.                                              *)
(***************************************************************************)
LEMMA SamePair == ASSUME NEW source, IsSequence(source), NEW p, IsPosition(source, p), NEW room \in Nat
                  PROVE SameKey(source, p, room, source, p, room)
BY DEF SameKey

LEMMA GeneratedOutcome ==
  ASSUME NEW source, IsSequence(source), NEW p, IsPosition(source, p), NEW room \in Nat
  PROVE  /\ IsOutcome(GenerateSentence(source, p, room))
         /\ GenerateSentence(source, p, room).takes <= room
BY SamePair, SameOutcome DEF SameEdits

LEMMA HitIsFresh ==
  ASSUME NEW source, NEW p, NEW room, NEW site, NEW q, NEW left, SameKey(source, p, room, site, q, left),
         NEW hit, hit = Rebase(FromOutcome(GenerateSentence(source, p, room), p), q, left),
         NEW u, u = GenerateSentence(site, q, left)
  PROVE  /\ IsOutcome(hit) /\ IsOutcome(u) /\ (hit.deleted <=> u.deleted)
         /\ hit.patches = u.patches /\ hit.takes = u.takes /\ u.takes <= left
<1> DEFINE o == GenerateSentence(source, p, room)
           kept == FromOutcome(o, p)
           held1 == {[rule |-> n.rule, why |-> n.why, start |-> q.start, end |-> q.end] : n \in kept.notes}
           back == ShiftAll(o.patches, -p.start)
           moved == ShiftAll(back, q.start)
           took == Min({o.takes, 3})
           takes == Min({took, left})
<1>1. SameEdits(o, p, u, q) /\ u.takes <= left /\ left \in Nat
  BY SameOutcome DEF SameKey
<1> HIDE DEF o
<1>2. kept.deleted = o.deleted /\ kept.patches = back /\ kept.takes = took
  BY DEF FromOutcome
<1> HIDE DEF kept, back
<1>3. hit = OutcomeOf(kept.deleted, moved, 0, held1, takes)
  BY <1>2 DEF Rebase, OutcomeOf, kept, o
<1> HIDE DEF held1, moved, takes
<1>4. hit.deleted = o.deleted /\ hit.patches = moved /\ hit.takes = takes
      /\ hit = OutcomeOf(hit.deleted, hit.patches, hit.declined, hit.held, hit.takes)
  BY <1>2, <1>3 DEF OutcomeOf
<1>5. takes = o.takes /\ o.takes \in 0 .. 3
  <2>1. o.takes \in 0 .. 3 /\ o.takes <= left
    BY <1>1 DEF SameEdits, IsOutcome
  <2>2. o.takes \in Nat /\ 3 \in Nat /\ o.takes <= 3
    BY <2>1
  <2>3. took = o.takes
    BY <2>2, MinOfTwo
  <2> HIDE DEF took
  <2>4. Min({took, left}) = o.takes
    BY <1>1, <2>1, <2>2, <2>3, MinOfTwo
  <2> QED BY <2>1, <2>4 DEF takes
<1>6. moved = u.patches /\ IsOutcome(u) /\ o.takes = u.takes /\ (o.deleted <=> u.deleted) /\ IsPatches(u.patches)
  BY <1>1 DEF SameEdits, IsOutcome, moved, back
<1>7. IsOutcome(hit)
  BY <1>4, <1>5, <1>6 DEF IsOutcome
<1> QED BY <1>1, <1>4, <1>5, <1>6, <1>7

\* The patches of a kept sentence once recapitalization has been over them.
SettledPatches(source, p, made, evidence) ==
  ShiftAll(Recapitalized(SplicedAll(Work(Slice(source, p), 0), ShiftAll(SpliceOrder(made), -p.start)),
                         evidence).patches,
           p.start)

LEMMA SettledIs ==
  ASSUME NEW source, NEW p, NEW evidence, NEW o, IsOutcome(o)
  PROVE  /\ Settled(source, p, o, evidence).takes = o.takes
         /\ Settled(source, p, o, evidence).patches =
              IF o.deleted \/ ~p.starts THEN o.patches ELSE SettledPatches(source, p, o.patches, evidence)
<1> DEFINE made == SettledPatches(source, p, o.patches, evidence)
<1>1. WithCapital(source, p, o, evidence) = [o EXCEPT !.patches = made]
  BY DEF WithCapital, SettledPatches
<1> HIDE DEF made
<1>2. o = OutcomeOf(o.deleted, o.patches, o.declined, o.held, o.takes)
  BY DEF IsOutcome
<1>3. [o EXCEPT !.patches = made].patches = made /\ [o EXCEPT !.patches = made].takes = o.takes
  BY <1>2 DEF OutcomeOf
<1>4. CASE o.deleted \/ ~p.starts
  BY <1>4 DEF Settled
<1>5. CASE ~(o.deleted \/ ~p.starts)
  BY <1>1, <1>3, <1>5 DEF Settled, made
<1> QED BY <1>4, <1>5

LEMMA SettledAlike ==
  ASSUME NEW source, NEW p, NEW evidence, NEW o, IsOutcome(o), NEW u, IsOutcome(u),
         o.deleted <=> u.deleted, o.patches = u.patches, o.takes = u.takes
  PROVE  /\ Settled(source, p, o, evidence).takes = Settled(source, p, u, evidence).takes
         /\ Settled(source, p, o, evidence).patches = Settled(source, p, u, evidence).patches
BY SettledIs

-----------------------------------------------------------------------------
(***************************************************************************)
(* What the orders, resolve and apply make of sequences of patches.        *)
(***************************************************************************)
OrderStep(nothing, sorted, p) == SortInto(sorted, p, LaterStart)
ValidStep(source, sorted, p) == SortValid(source, sorted, p)
DisjointStep(nothing, kept, p) == KeepDisjoint(kept, p)
ReplaceStep(nothing, text0, p) == ReplaceRange(text0, p)
Splicewise == INSTANCE FoldFacts WITH Op <- OrderStep
Validating == INSTANCE FoldFacts WITH Op <- ValidStep
Resolving == INSTANCE FoldFacts WITH Op <- DisjointStep
Replacing == INSTANCE FoldFacts WITH Op <- ReplaceStep

LEMMA PatchesInduct ==
  Splicewise!Inductive /\ Validating!Inductive /\ Resolving!Inductive /\ Replacing!Inductive
BY NatInduct DEF Splicewise!Inductive, Validating!Inductive, Resolving!Inductive, Replacing!Inductive

LEMMA SpliceOrderIsAFold ==
  ASSUME NEW ps
  PROVE  SpliceOrder(ps) = Splicewise!Folded(0, <<>>, ps)
BY DEF SpliceOrder, Splicewise!Folded, OrderStep, FoldLeft, MapThenFoldSet, Max
LEMMA OrderedIsAFold ==
  ASSUME NEW source, NEW ps
  PROVE  Ordered(source, ps) = Validating!Folded(source, <<>>, ps)
BY DEF Ordered, Validating!Folded, ValidStep, FoldLeft, MapThenFoldSet, Max
LEMMA ResolveIsAFold ==
  ASSUME NEW source, NEW ps
  PROVE  Resolve(source, ps) = Resolving!Folded(0, <<>>, Ordered(source, ps))
BY DEF Resolve, Resolving!Folded, DisjointStep, FoldLeft, MapThenFoldSet, Max
LEMMA ApplyIsAFold ==
  ASSUME NEW source, NEW ps
  PROVE  ApplyPatches(source, ps) = Replacing!Folded(0, source, SpliceOrder(ps))
BY DEF ApplyPatches, Replacing!Folded, ReplaceStep, FoldLeft, MapThenFoldSet, Max

LEMMA SpliceOrderIs ==
  ASSUME NEW S, NEW ps \in Seq(S)
  PROVE  SpliceOrder(ps) \in Seq(S)
<1> DEFINE n == Len(ps)
           I == [k \in 0 .. n |-> Seq(S)]
<1>1. n \in Nat /\ DOMAIN ps = 1 .. n /\ \A k \in 1 .. n : ps[k] \in S
  OBVIOUS
<1> HIDE DEF n
<1>2. ASSUME NEW k \in 1 .. n, NEW sorted \in Seq(S)
      PROVE  OrderStep(0, sorted, ps[k]) \in Seq(S)
  <2> DEFINE J == {i \in DOMAIN sorted : ~LaterStart(ps[k], sorted[i])}
  <2>1. OrderStep(0, sorted, ps[k]) = InsertAt(sorted, Max({0} \cup J) + 1, ps[k])
    BY DEF OrderStep, SortInto
  <2>2. J \subseteq DOMAIN sorted /\ ps[k] \in S
    BY <1>1
  <2> HIDE DEF J
  <2> QED BY <2>1, <2>2, InsertedIs
<1>3. <<>> \in Seq(S)
  OBVIOUS
<1>4. Splicewise!IsPassedOn(0, <<>>, n, ps, I)
  BY <1>1, <1>2, <1>3 DEF Splicewise!IsPassedOn
<1>5. Splicewise!Folded(0, <<>>, ps) \in I[n]
  <2> HIDE DEF I
  <2> QED BY <1>1, <1>4, Splicewise!FoldInvariant, PatchesInduct
<1>6. I[n] = Seq(S)
  BY <1>1
<1> QED BY <1>5, <1>6, SpliceOrderIsAFold

LEMMA OrderedIs ==
  ASSUME NEW source, NEW S, NEW ps \in Seq(S)
  PROVE  Ordered(source, ps) \in Seq(S)
<1> DEFINE n == Len(ps)
           I == [k \in 0 .. n |-> Seq(S)]
<1>1. n \in Nat /\ DOMAIN ps = 1 .. n /\ \A k \in 1 .. n : ps[k] \in S
  OBVIOUS
<1> HIDE DEF n
<1>2. ASSUME NEW k \in 1 .. n, NEW sorted \in Seq(S)
      PROVE  ValidStep(source, sorted, ps[k]) \in Seq(S)
  <2> DEFINE J == {i \in DOMAIN sorted : ~ResolveBefore(ps[k], sorted[i])}
  <2>1. ValidStep(source, sorted, ps[k]) \in {sorted, InsertAt(sorted, Max({0} \cup J) + 1, ps[k])}
    BY DEF ValidStep, SortValid, SortInto
  <2>2. J \subseteq DOMAIN sorted /\ ps[k] \in S
    BY <1>1
  <2> HIDE DEF J
  <2> QED BY <2>1, <2>2, InsertedIs
<1>3. <<>> \in Seq(S)
  OBVIOUS
<1>4. Validating!IsPassedOn(source, <<>>, n, ps, I)
  BY <1>1, <1>2, <1>3 DEF Validating!IsPassedOn
<1>5. Validating!Folded(source, <<>>, ps) \in I[n]
  <2> HIDE DEF I
  <2> QED BY <1>1, <1>4, Validating!FoldInvariant, PatchesInduct
<1>6. I[n] = Seq(S)
  BY <1>1
<1> QED BY <1>5, <1>6, OrderedIsAFold

LEMMA ResolveIs ==
  ASSUME NEW source, NEW S, NEW candidates0 \in Seq(S)
  PROVE  Resolve(source, candidates0) \in Seq(S)
<1> DEFINE ps == Ordered(source, candidates0)
           n == Len(ps)
           I == [k \in 0 .. n |-> Seq(S)]
<1>0. ps \in Seq(S)
  BY OrderedIs
<1> HIDE DEF ps
<1>1. n \in Nat /\ DOMAIN ps = 1 .. n /\ \A k \in 1 .. n : ps[k] \in S
  BY <1>0
<1> HIDE DEF n
<1>2. ASSUME NEW k \in 1 .. n, NEW kept \in Seq(S)
      PROVE  DisjointStep(0, kept, ps[k]) \in Seq(S)
  <2>1. DisjointStep(0, kept, ps[k]) \in {kept, Append(kept, ps[k])}
    BY DEF DisjointStep, KeepDisjoint
  <2> QED BY <1>1, <2>1
<1>3. <<>> \in Seq(S)
  OBVIOUS
<1>4. Resolving!IsPassedOn(0, <<>>, n, ps, I)
  BY <1>1, <1>2, <1>3 DEF Resolving!IsPassedOn
<1>5. Resolving!Folded(0, <<>>, ps) \in I[n]
  <2> HIDE DEF I
  <2> QED BY <1>1, <1>4, Resolving!FoldInvariant, PatchesInduct
<1>6. I[n] = Seq(S)
  BY <1>1
<1> QED BY <1>5, <1>6, ResolveIsAFold DEF ps

\* Patches among patches are patches.
LEMMA PatchesAmong ==
  ASSUME NEW ps, IsPatches(ps), NEW qs \in Seq(Range(ps))
  PROVE  IsPatches(qs)
<1>1. \A p \in Range(ps) : IsPatch(p)
  BY DEF IsPatches, Range
<1>2. IsSequence(qs) /\ \A k \in DOMAIN qs : qs[k] \in Range(ps)
  BY SequenceOf
<1> QED BY <1>1, <1>2 DEF IsPatches

LEMMA ResolvedArePatches ==
  ASSUME NEW source, NEW ps, IsPatches(ps)
  PROVE  IsPatches(Resolve(source, ps)) /\ IsPatches(SpliceOrder(ps))
<1>1. ps \in Seq(Range(ps))
  BY DEF IsPatches, IsSequence
<1>2. Resolve(source, ps) \in Seq(Range(ps)) /\ SpliceOrder(ps) \in Seq(Range(ps))
  BY <1>1, ResolveIs, SpliceOrderIs
<1> QED BY <1>2, PatchesAmong

LEMMA AnyPieceIs ==
  ASSUME NEW s, IsSequence(s), NEW a \in Int, NEW b \in Int
  PROVE  IsSequence(SubSeq(s, a, b))
<1>1. SubSeq(s, a, b) = [k \in 1 .. (b - a) + 1 |-> s[(a + k) - 1]]
  BY DEF IsSequence
<1>2. CASE b - a + 1 \in Nat
  BY <1>1, <1>2, Listed
<1>3. CASE b - a + 1 \notin Nat
  <2>1. 1 .. (b - a) + 1 = 1 .. 0
    BY <1>3
  <2> QED BY <1>1, <2>1, Listed
<1> QED BY <1>2, <1>3

LEMMA ReplacedIs ==
  ASSUME NEW s, IsSequence(s), NEW p, IsPatch(p)
  PROVE  IsSequence(ReplaceRange(s, p))
<1>1. p.start \in Int /\ p.end + 1 \in Int /\ IsSequence(p.text) /\ Len(s) \in Int
  BY SequenceIs DEF IsPatch
<1>2. IsSequence(SubSeq(s, 1, p.start)) /\ IsSequence(SubSeq(s, p.end + 1, Len(s)))
  BY <1>1, AnyPieceIs
<1>3. IsSequence(SubSeq(s, 1, p.start) \o p.text)
  BY <1>1, <1>2, JoinedIs
<1> QED BY <1>2, <1>3, JoinedIs DEF ReplaceRange

LEMMA AppliedIs ==
  ASSUME NEW source, IsSequence(source), NEW ps, IsPatches(ps)
  PROVE  IsSequence(ApplyPatches(source, ps))
<1> DEFINE qs == SpliceOrder(ps)
           n == Len(qs)
<1>1. IsPatches(qs)
  BY ResolvedArePatches
<1> HIDE DEF qs
<1>2. n \in Nat /\ DOMAIN qs = 1 .. n /\ \A k \in 1 .. n : IsPatch(qs[k])
  BY <1>1, SequenceIs DEF IsPatches
<1> HIDE DEF n
<1>3. PICK g : Replacing!IsTrace(0, source, n, qs, g) /\ Replacing!Folded(0, source, qs) = g[n]
  BY <1>2, Replacing!FoldHasTrace, PatchesInduct
<1> DEFINE T == {k \in Nat : k <= n => IsSequence(g[k])}
<1>4. 0 \in T
  BY <1>3 DEF Replacing!IsTrace
<1>5. ASSUME NEW k \in Nat, k \in T PROVE k + 1 \in T
  <2>1. SUFFICES ASSUME k + 1 <= n PROVE IsSequence(g[k + 1])
    OBVIOUS
  <2>2. k + 1 \in 1 .. n /\ (k + 1) - 1 = k /\ IsSequence(g[k])
    BY <1>2, <1>5, <2>1
  <2>3. g[k + 1] = ReplaceRange(g[k], qs[k + 1])
    BY <1>3, <2>2 DEF Replacing!IsTrace, ReplaceStep
  <2> QED BY <1>2, <2>2, <2>3, ReplacedIs
<1> HIDE DEF T
<1>6. Nat \subseteq T
  BY <1>4, <1>5, NatInduct
<1>7. IsSequence(g[n])
  BY <1>2, <1>6 DEF T
<1> QED BY <1>3, <1>7, ApplyIsAFold DEF qs

-----------------------------------------------------------------------------
(***************************************************************************)
(* What a pass collects are patches, and a text stays a text.              *)
(***************************************************************************)
LEMMA FreshWork ==
  ASSUME NEW text0, IsSequence(text0)
  PROVE  Alike(Work(text0, 0), Work(text0, 0))
<1>1. Work(text0, 0) = Opened(text0, 0, {})
  BY Zenon DEF Work, Opened, WorkOf
<1>2. 0 \in Nat
  OBVIOUS
<1>3. Alike(Opened(text0, 0, {}), Opened(text0, 0, {}))
  BY <1>2, OpenedAlike
<1> QED BY <1>1, <1>3

LEMMA RecapitalizedKeeps ==
  ASSUME NEW s, IsWork(s), NEW evidence
  PROVE  IsWork(Recapitalized(s, evidence))
<1> DEFINE put == <<Capital[s.cells[1].sym]>>
           r == Span(0, 1)
<1>1. Recapitalized(s, evidence) \in {s, Spliced(s, r, put, RECAPITALIZE)}
  BY DEF Recapitalized
<1>2. IsSequence(put)
  BY OneIs
<1> HIDE DEF put, r
<1>3. Alike(s, s)
  BY DEF Alike
<1>4. Kept(s, s, Spliced(s, r, put, RECAPITALIZE), Spliced(s, r, put, RECAPITALIZE))
  BY <1>2, <1>3, SplicedKeeps
<1>5. IsWork(Spliced(s, r, put, RECAPITALIZE))
  BY <1>4 DEF Kept, Alike
<1> QED BY <1>1, <1>5

LEMMA SettledArePatches ==
  ASSUME NEW source, IsSequence(source), NEW p, IsPosition(source, p), NEW made, IsPatches(made), NEW evidence
  PROVE  IsPatches(SettledPatches(source, p, made, evidence))
<1> DEFINE s == Work(Slice(source, p), 0)
           edits == ShiftAll(SpliceOrder(made), -p.start)
           replayed == SplicedAll(s, edits)
           done == Recapitalized(replayed, evidence)
<1>1. p.start \in Int /\ -p.start \in Int
  BY DEF IsPosition
<1>2. Alike(s, s)
  BY SliceIs, FreshWork
<1> HIDE DEF s
<1>3. IsPatches(edits)
  <2>1. IsPatches(SpliceOrder(made))
    BY ResolvedArePatches
  <2> QED BY <1>1, <2>1, ShiftedPatches
<1> HIDE DEF edits
<1>4. IsSequence(edits) /\ \A k \in DOMAIN edits : IsSequence(edits[k].text)
  BY <1>3 DEF IsPatches, IsPatch
<1>5. Kept(s, s, replayed, replayed)
  BY <1>2, <1>4, SplicesKeep
<1>6. IsWork(replayed)
  BY <1>5 DEF Kept, Alike
<1> HIDE DEF replayed
<1>7. IsWork(done)
  BY <1>6, RecapitalizedKeeps
<1> HIDE DEF done
<1>8. IsPatches(done.patches)
  BY <1>7 DEF IsWork
<1>9. IsPatches(ShiftAll(done.patches, p.start))
  BY <1>1, <1>8, ShiftedPatches
<1> QED BY <1>9 DEF SettledPatches, done, replayed, edits, s

LEMMA SettledTyped ==
  ASSUME NEW source, IsSequence(source), NEW p, IsPosition(source, p), NEW o, IsOutcome(o), NEW evidence
  PROVE  /\ IsPatches(Settled(source, p, o, evidence).patches)
         /\ Settled(source, p, o, evidence).takes = o.takes
<1>1. IsPatches(o.patches)
  BY DEF IsOutcome
<1>2. IsPatches(SettledPatches(source, p, o.patches, evidence))
  BY <1>1, SettledArePatches
<1> QED BY <1>1, <1>2, SettledIs

LEMMA PatchesJoined ==
  ASSUME NEW ps, IsPatches(ps), NEW qs, IsPatches(qs)
  PROVE  IsPatches(ps \o qs)
BY JoinedIs DEF IsPatches

-----------------------------------------------------------------------------
(***************************************************************************)
(* The sentences of a text.                                                *)
(***************************************************************************)
LEMMA StartsAre ==
  ASSUME NEW source, IsSequence(source), NEW s \in Starts(source)
  PROVE  s \in Nat /\ s + 1 \in 1 .. Len(source) /\ IsProse(source[s + 1]) /\ Len(source) \in Nat
<1>1. Len(source) \in Nat
  BY SequenceIs
<1> QED BY <1>1 DEF Starts, IsStart

LEMMA UnitEndIs ==
  ASSUME NEW source, IsSequence(source), NEW s \in Starts(source)
  PROVE  /\ UnitEnd(source, s) \in s + 1 .. Len(source)
         /\ \A i \in s + 1 .. UnitEnd(source, s) : source[i] \notin Structure
<1> DEFINE n == Len(source)
           Ends == {e \in s + 1 .. n : IsProse(source[e]) /\ \A i \in s + 1 .. e : source[i] \notin Structure}
<1>1. s \in Nat /\ s + 1 \in 1 .. n /\ IsProse(source[s + 1]) /\ n \in Nat
  BY StartsAre
<1> HIDE DEF n
<1>2. s + 1 \in Ends
  <2>1. source[s + 1] \notin Structure
    BY <1>1 DEF IsProse
  <2>2. \A i \in s + 1 .. s + 1 : i = s + 1
    BY <1>1
  <2> QED BY <1>1, <2>1, <2>2
<1>3. Ends \subseteq s + 1 .. n /\ Ends \subseteq 0 .. n
  BY <1>1
<1>4. UnitEnd(source, s) = Max(Ends)
  BY DEF UnitEnd, n
<1> HIDE DEF Ends
<1>5. Max(Ends) \in Ends
  BY <1>1, <1>2, <1>3, MaxIsWithin
<1>6. \A i \in s + 1 .. Max(Ends) : source[i] \notin Structure
  BY <1>5 DEF Ends
<1> QED BY <1>3, <1>4, <1>5, <1>6 DEF n

LEMMA SentenceEndIs ==
  ASSUME NEW source, IsSequence(source), NEW s \in Starts(source)
  PROVE  SentenceEnd(source, s) \in s + 1 .. Len(source)
<1> DEFINE last == UnitEnd(source, s)
           Marks == {e \in s + 1 .. last : source[e] \in Terminal /\ (e = Len(source) \/ source[e + 1] = Space)}
           Ends == {last} \cup Marks
<1>1. s \in Nat /\ last \in s + 1 .. Len(source) /\ Len(source) \in Nat
  BY StartsAre, UnitEndIs
<1>2. SentenceEnd(source, s) = Min(Ends)
  BY DEF SentenceEnd
<1> HIDE DEF last
<1>3. Ends \subseteq s + 1 .. Len(source) /\ Ends \subseteq Nat /\ Ends # {}
  BY <1>1
<1> HIDE DEF Ends
<1>4. Min(Ends) \in Ends
  BY <1>3, MinIs
<1> QED BY <1>2, <1>3, <1>4

LEMMA PositionIs ==
  ASSUME NEW source, IsSequence(source), NEW s \in Starts(source)
  PROVE  IsPosition(source, Position(source, s))
<1> DEFINE starts == Starts(source)
           unit == {t \in starts : UnitStart(source, t) = UnitStart(source, s)}
           earlier == {t \in unit : t < s}
           later == {t \in unit : t > s}
           before == IF earlier = {} THEN NoSentence ELSE SentenceEnd(source, Max(earlier))
           after == IF later = {} THEN NoSentence ELSE Min(later)
<1>1. s \in Nat /\ SentenceEnd(source, s) \in s + 1 .. Len(source) /\ Len(source) \in Nat
  BY StartsAre, SentenceEndIs
<1>2. before \in Int
  <2>1. CASE earlier = {}
    BY <2>1 DEF NoSentence
  <2>2. CASE earlier # {}
    <3>1. earlier \subseteq 0 .. Len(source) /\ earlier \subseteq starts
      BY DEF Starts
    <3> HIDE DEF earlier
    <3>2. Max(earlier) \in starts
      BY <1>1, <2>2, <3>1, MaxIsWithin
    <3>3. SentenceEnd(source, Max(earlier)) \in Max(earlier) + 1 .. Len(source)
      BY <3>2, SentenceEndIs
    <3>4. Max(earlier) \in Nat
      BY <3>2, StartsAre
    <3> QED BY <1>1, <2>2, <3>3, <3>4
  <2> QED BY <2>1, <2>2
<1>3. after \in Int
  <2>1. CASE later = {}
    BY <2>1 DEF NoSentence
  <2>2. CASE later # {}
    <3>1. later \subseteq Nat
      BY StartsAre
    <3> HIDE DEF later
    <3>2. Min(later) \in Nat
      BY <2>2, <3>1, MinIs
    <3> QED BY <2>2, <3>2
  <2> QED BY <2>1, <2>2
<1>4. /\ Position(source, s).start = s /\ Position(source, s).end = SentenceEnd(source, s)
      /\ Position(source, s).prevEnd = before /\ Position(source, s).nextStart = after
  BY DEF Position
<1> HIDE DEF before, after
<1> QED BY <1>1, <1>2, <1>3, <1>4 DEF IsPosition

LEMMA PositionsAre ==
  ASSUME NEW source, IsSequence(source)
  PROVE  /\ IsSequence(Positions(source))
         /\ \A k \in DOMAIN Positions(source) : IsPosition(source, Positions(source)[k])
<1> DEFINE starts == InOrder(Starts(source), Len(source))
           n == Len(starts)
           ps == Positions(source)
<1>1. Len(source) \in Nat
  BY SequenceIs
<1>2. starts \in Seq(Starts(source) \cap 0 .. Len(source) - 1)
  BY <1>1, InOrderIs
<1>3. ps = [k \in DOMAIN starts |-> Position(source, starts[k])]
  BY DEF Positions
<1> HIDE DEF starts, ps
<1>4. n \in Nat /\ DOMAIN starts = 1 .. n /\ \A k \in 1 .. n : starts[k] \in Starts(source)
  BY <1>2
<1> HIDE DEF n
<1>5. ps = [k \in 1 .. n |-> ps[k]] /\ \A k \in 1 .. n : ps[k] = Position(source, starts[k])
  BY <1>3, <1>4
<1>6. IsSequence(ps) /\ DOMAIN ps = 1 .. n
  BY <1>4, <1>5, Listed
<1>7. \A k \in 1 .. n : IsPosition(source, ps[k])
  BY <1>4, <1>5, PositionIs
<1> QED BY <1>6, <1>7 DEF ps

-----------------------------------------------------------------------------
(***************************************************************************)
(* The restructure pass, and the budget of a document.                     *)
(***************************************************************************)
LEMMA HitsAreWithin ==
  ASSUME NEW source, IsSequence(source), NEW p, IsPosition(source, p), NEW passing
  PROVE  HitsIn(Slice(source, p), p, passing) \subseteq Places(Transducers, source)
<1> DEFINE sentence == Slice(source, p)
           hits == {h \in TransducerHits(sentence) : IsClause(sentence, p) /\ Passes(sentence, h) = passing}
<1>1. /\ IsSequence(sentence) /\ Len(sentence) = p.end - p.start
      /\ p.start \in Nat /\ p.end \in Nat /\ p.end <= Len(source) /\ Len(source) \in Nat
  BY SliceIs, SequenceIs DEF IsPosition
<1>2. HitsIn(sentence, p, passing) = {Shift(h, p.start) : h \in hits}
  BY DEF HitsIn
<1> HIDE DEF sentence
<1>3. ASSUME NEW h \in hits PROVE Shift(h, p.start) \in Places(Transducers, source)
  <2>1. h \in TransducerHits(sentence)
    OBVIOUS
  <2> HIDE DEF hits
  <2>2. PICK k \in DOMAIN Transducers : \E at \in Matches(sentence, Transducers[k].pattern) :
           h = [rule |-> k, start |-> at, end |-> at + Len(Transducers[k].pattern)]
    BY <2>1 DEF TransducerHits
  <2>3. IsSequence(Transducers[k].pattern)
    BY TransducersAssumption
  <2> DEFINE m == Len(Transducers[k].pattern)
  <2>4. m \in Nat /\ Matches(sentence, Transducers[k].pattern) \subseteq 0 .. Len(sentence)
    BY <1>1, <2>3, SequenceIs, MatchesAreWithin
  <2>5. PICK at \in 0 .. Len(sentence) : h = [rule |-> k, start |-> at, end |-> at + m]
    BY <2>2, <2>4
  <2> HIDE DEF m
  <2> DEFINE there == at + p.start
             by == p.start
             moved == [h EXCEPT !.start = @ + by]
  <2>6. there \in 0 .. Len(source) /\ (at + m) + by = there + m
    BY <1>1, <2>4, <2>5
  <2> HIDE DEF by
  <2>7. Shift(h, by) = [rule |-> k, start |-> there, end |-> there + m]
    <3>1. moved = [rule |-> k, start |-> at + by, end |-> at + m]
      BY <2>5
    <3>2. Shift(h, by) = [moved EXCEPT !.end = (at + m) + by]
      BY <2>5 DEF Shift
    <3> HIDE DEF moved
    <3> QED BY <2>6, <3>1, <3>2 DEF by
  <2> DEFINE At(j) == {[rule |-> j, start |-> to, end |-> to + Len(Transducers[j].pattern)] : to \in 0 .. Len(source)}
  <2>8. Shift(h, by) \in At(k)
    BY <2>6, <2>7 DEF m
  <2>9. Places(Transducers, source) = UNION {At(j) : j \in DOMAIN Transducers}
    BY DEF Places
  <2> HIDE DEF At
  <2> QED BY <2>2, <2>8, <2>9 DEF by
<1> HIDE DEF hits
<1> QED BY <1>2, <1>3 DEF sentence

LEMMA RestructureHitsAre ==
  ASSUME NEW source, IsSequence(source), NEW passing
  PROVE  /\ IsFiniteSet(RestructureHits(source, passing))
         /\ RestructureHits(source, passing) \subseteq Places(Transducers, source)
<1> DEFINE In(p) == HitsIn(Slice(source, p), p, passing)
<1>1. \A p \in Range(Positions(source)) : IsPosition(source, p)
  BY PositionsAre DEF Range
<1>2. \A p \in Range(Positions(source)) : In(p) \subseteq Places(Transducers, source)
  BY <1>1, HitsAreWithin
<1>3. RestructureHits(source, passing) = UNION {In(p) : p \in Range(Positions(source))}
  BY DEF RestructureHits
<1> HIDE DEF In
<1>4. RestructureHits(source, passing) \subseteq Places(Transducers, source)
  BY <1>2, <1>3
<1>5. IsFiniteSet(Places(Transducers, source))
  BY PlacesAreFinite, TransducersAssumption
<1> QED BY <1>4, <1>5, FS_Subset

HitPatch(h) == Patch(h.start, h.end, Transducers[h.rule].text, RESTRUCTURE)

LEMMA CandidatesArePatches ==
  ASSUME NEW source, IsSequence(source)
  PROVE  IsPatches(RestructureCandidates(source))
<1> DEFINE H == RestructureHits(source, TRUE)
           f == [h \in H |-> HitPatch(h)]
           P == {HitPatch(h) : h \in H}
<1>1. RestructureCandidates(source) = SetToSeq(P)
  BY DEF RestructureCandidates, HitPatch
<1>2. IsFiniteSet(H) /\ H \subseteq Places(Transducers, source)
  BY RestructureHitsAre
<1> HIDE DEF H
<1>3. f \in Surjection(H, P)
  BY DEF Surjection
<1>4. IsFiniteSet(P)
  <2> HIDE DEF f, P
  <2> QED BY <1>2, <1>3, FS_Surjection
<1>5. ASSUME NEW h \in H PROVE IsPatch(HitPatch(h))
  <2>1. h \in Places(Transducers, source)
    BY <1>2
  <2>2. PICK k \in DOMAIN Transducers, at \in 0 .. Len(source) :
           h = [rule |-> k, start |-> at, end |-> at + Len(Transducers[k].pattern)]
    BY <2>1 DEF Places
  <2>3. IsSequence(Transducers[k].pattern) /\ IsSequence(Transducers[k].text)
    BY TransducersAssumption
  <2>4. h.start \in Int /\ h.end \in Int /\ h.rule = k
    BY <2>2, <2>3, SequenceIs
  <2> QED BY <2>3, <2>4 DEF HitPatch, IsPatch, Patch
<1>6. \A p \in P : IsPatch(p)
  BY <1>5
<1> HIDE DEF P
<1>7. SetToSeq(P) \in Seq(P)
  BY <1>4, SetAsSequence
<1>8. IsSequence(SetToSeq(P)) /\ \A k \in DOMAIN SetToSeq(P) : SetToSeq(P)[k] \in P
  BY <1>7, SequenceOf
<1> QED BY <1>1, <1>6, <1>8 DEF IsPatches

LEMMA RestructuredIs ==
  ASSUME NEW source, IsSequence(source)
  PROVE  IsSequence(ApplyPatches(source, RestructureReport(source).patches))
<1>1. RestructureReport(source).patches = Resolve(source, RestructureCandidates(source))
  BY DEF RestructureReport, PassReport
<1>2. IsPatches(Resolve(source, RestructureCandidates(source)))
  BY CandidatesArePatches, ResolvedArePatches
<1> QED BY <1>1, <1>2, AppliedIs

LEMMA AllowanceIs ==
  ASSUME NEW source, IsSequence(source), NEW calibration \in Rates
  PROVE  ForDocument(WordCount(source), calibration) \in Nat
<1> DEFINE words == {i \in DOMAIN source : IsProse(source[i]) /\ source[i] \notin Punctuation}
           n == Cardinality(words)
           made == calibration * n
<1>1. IsFiniteSet(DOMAIN source)
  <2>1. DOMAIN source = 1 .. Len(source) /\ Len(source) \in Int /\ 1 \in Int
    BY SequenceIs
  <2> QED BY <2>1, FS_Interval
<1>2. n \in Nat
  BY <1>1, FS_Subset, FS_CardinalityType
<1>3. WordCount(source) = n
  BY DEF WordCount
<1> HIDE DEF n
<1>4. CASE calibration = Uncalibrated
  BY <1>4, PackAssumption DEF ForDocument
<1>5. CASE calibration # Uncalibrated
  <2>1. calibration \in Nat
    BY <1>5, DocumentsAssumption
  <2>2. made \in Nat
    BY <1>2, <2>1
  <2> HIDE DEF made
  <2>3. (made + 999) \div 1000 \in Nat
    BY <2>2
  <2> QED BY <1>3, <1>5, <2>3 DEF ForDocument, made
<1> QED BY <1>4, <1>5

-----------------------------------------------------------------------------
(***************************************************************************)
(* The walk of a pass: what it has collected is what generating every      *)
(* sentence visited so far afresh gives.                                   *)
(***************************************************************************)
VisitStep(nothing, walked, sentence) == Promised!Visit(walked, sentence)
Walking == INSTANCE FoldFacts WITH Op <- VisitStep

LEMMA WalkingInducts ==
  Walking!Inductive
BY NatInduct DEF Walking!Inductive

LEMMA PassIsAFold ==
  ASSUME NEW source, NEW room
  PROVE  Promised!PassFrom(source, room) =
           Walking!Folded(0, Promised!Entering(source, room), Positions(source))
BY DEF Promised!PassFrom, Promised!Visit, Promised!Entering, Walking!Folded, VisitStep, Promised!FoldLeft, Promised!MapThenFoldSet, Promised!Max, Max

WalkOf(source, evidence, made, room) ==
  [text |-> source, casing |-> evidence, candidates |-> made, budget |-> room]

\* The walk after n sentences of a text entered with `room' of the budget.
Walked(source, room, n, walked) ==
  \E g : Walking!IsTrace(0, Promised!Entering(source, room), n, Positions(source), g) /\ g[n] = walked

LEMMA WalkStarts ==
  ASSUME NEW source, NEW room
  PROVE  Walked(source, room, 0, WalkOf(source, Casing(source, Positions(source)), <<>>, room))
<1> DEFINE begin == WalkOf(source, Casing(source, Positions(source)), <<>>, room)
           g == [k \in {0} |-> begin]
<1>1. Promised!Entering(source, room) = begin
  BY DEF Promised!Entering, WalkOf
<1> HIDE DEF begin
<1>2. g[0] = begin /\ 1 .. 0 = {}
  OBVIOUS
<1> HIDE DEF g
<1>3. Walking!IsTrace(0, begin, 0, Positions(source), g)
  BY <1>2 DEF Walking!IsTrace
<1> QED BY <1>1, <1>2, <1>3 DEF Walked, begin

LEMMA WalkGoesOn ==
  ASSUME NEW source, NEW room, NEW n \in Nat, NEW walked, Walked(source, room, n, walked)
  PROVE  Walked(source, room, n + 1, Promised!Visit(walked, Positions(source)[n + 1]))
<1> DEFINE begin == Promised!Entering(source, room)
           ps == Positions(source)
           on == Promised!Visit(walked, ps[n + 1])
<1>1. PICK g : Walking!IsTrace(0, begin, n, ps, g) /\ g[n] = walked
  BY DEF Walked
<1> DEFINE h == [k \in 0 .. n + 1 |-> IF k <= n THEN g[k] ELSE on]
<1> HIDE DEF begin, ps, on
<1>2. h[0] = g[0] /\ h[n + 1] = on /\ \A k \in 0 .. n : h[k] = g[k]
  BY Z3
<1> HIDE DEF h
<1>3. ASSUME NEW k \in 1 .. n + 1 PROVE h[k] = VisitStep(0, h[k - 1], ps[k])
  <2>1. CASE k \in 1 .. n
    <3>1. k \in 0 .. n /\ k - 1 \in 0 .. n
      BY <2>1
    <3>2. g[k] = VisitStep(0, g[k - 1], ps[k])
      BY <1>1, <2>1 DEF Walking!IsTrace
    <3> QED BY <1>2, <3>1, <3>2
  <2>2. CASE k = n + 1
    <3>1. k - 1 = n /\ n \in 0 .. n
      BY <2>2
    <3>2. h[k - 1] = walked
      BY <1>1, <1>2, <3>1
    <3> QED BY <1>2, <2>2, <3>2 DEF VisitStep, on
  <2> QED BY <2>1, <2>2
<1>4. Walking!IsTrace(0, begin, n + 1, ps, h)
  BY <1>1, <1>2, <1>3 DEF Walking!IsTrace
<1> QED BY <1>2, <1>4 DEF Walked, begin, ps, on

LEMMA WalkEnds ==
  ASSUME NEW source, IsSequence(source), NEW room, NEW walked, Walked(source, room, Len(Positions(source)), walked)
  PROVE  Promised!PassFrom(source, room) = walked
<1> DEFINE begin == Promised!Entering(source, room)
           ps == Positions(source)
           n == Len(ps)
<1>1. n \in Nat /\ DOMAIN ps = 1 .. n
  BY PositionsAre, SequenceIs
<1>2. PICK g : Walking!IsTrace(0, begin, n, ps, g) /\ g[n] = walked
  BY DEF Walked
<1>3. Promised!PassFrom(source, room) = Walking!Folded(0, begin, ps)
  BY PassIsAFold
<1> HIDE DEF begin, ps, n
<1> QED BY <1>1, <1>2, <1>3, Walking!FoldUnique, WalkingInducts

LEMMA VisitIs ==
  ASSUME NEW source, NEW evidence, NEW made, NEW room, NEW p, NEW edits,
         edits = FreshEdits(source, evidence, p, room)
  PROVE  Promised!Visit(WalkOf(source, evidence, made, room), p) =
           WalkOf(source, evidence, made \o edits.patches, room - edits.takes)
<1> DEFINE w == WalkOf(source, evidence, made, room)
           more == made \o edits.patches
           less == room - edits.takes
           v == [w EXCEPT !.candidates = more]
<1>1. w.text = source /\ w.casing = evidence /\ w.candidates = made /\ w.budget = room
  BY DEF WalkOf
<1>2. Promised!Visit(w, p) = [w EXCEPT !.candidates = more, !.budget = less]
  BY <1>1 DEF Promised!Visit
<1> HIDE DEF more, less
<1>3. v = WalkOf(source, evidence, more, room)
  BY DEF WalkOf
<1>4. [w EXCEPT !.candidates = more, !.budget = less] = [v EXCEPT !.budget = less]
  BY DEF WalkOf
<1> HIDE DEF v, w
<1>5. [v EXCEPT !.budget = less] = WalkOf(source, evidence, more, less)
  BY <1>3 DEF WalkOf
<1> QED BY <1>2, <1>4, <1>5 DEF w, more, less

-----------------------------------------------------------------------------
(***************************************************************************)
(* One sentence: what the walk collects, from the cache or anew.           *)
(***************************************************************************)
\* An outcome that gives a sentence the edits generating it would.
AsGood(o, u) ==
  IsOutcome(o) /\ IsOutcome(u) /\ (o.deleted <=> u.deleted) /\ o.patches = u.patches /\ o.takes = u.takes

LEMMA CollectedIs ==
  ASSUME NEW source, IsSequence(source), NEW p, IsPosition(source, p), NEW room \in Nat,
         NEW o, AsGood(o, GenerateSentence(source, p, room)),
         NEW evidence, NEW made, IsPatches(made), NEW settled, settled = Settled(source, p, o, evidence)
  PROVE  /\ Promised!Visit(WalkOf(source, evidence, made, room), p) =
              WalkOf(source, evidence, made \o settled.patches, room - settled.takes)
         /\ IsPatches(made \o settled.patches) /\ room - settled.takes \in Nat
<1> DEFINE u == GenerateSentence(source, p, room)
           edits == FreshEdits(source, evidence, p, room)
<1>1. IsOutcome(o) /\ IsOutcome(u) /\ (o.deleted <=> u.deleted) /\ o.patches = u.patches /\ o.takes = u.takes
  BY DEF AsGood
<1>2. u.takes <= room
  BY GeneratedOutcome
<1>3. edits = Settled(source, p, u, evidence)
  BY DEF FreshEdits
<1> HIDE DEF u, edits
<1>4. edits.takes = settled.takes /\ edits.patches = settled.patches
  BY <1>1, <1>3, SettledAlike
<1>5. Promised!Visit(WalkOf(source, evidence, made, room), p) =
        WalkOf(source, evidence, made \o edits.patches, room - edits.takes)
  BY VisitIs DEF edits
<1>6. IsPatches(settled.patches) /\ settled.takes = o.takes
  BY <1>1, SettledTyped
<1>7. IsPatches(made \o settled.patches)
  BY <1>6, PatchesJoined
<1>8. room - settled.takes \in Nat
  BY <1>1, <1>2, <1>6 DEF IsOutcome
<1> QED BY <1>4, <1>5, <1>7, <1>8

\* What the cache holds under a key: the outcome of generating some sentence,
\* of this text or an earlier one, that has this key.
KeptFresh(key, kept) ==
  \E source, p, room :
    /\ IsSequence(source) /\ IsPosition(source, p) /\ room \in Nat
    /\ Key(source, p, room) = key
    /\ kept = FromOutcome(GenerateSentence(source, p, room), p)

LEMMA HitIsAsGood ==
  ASSUME NEW site, IsSequence(site), NEW q, IsPosition(site, q), NEW left \in Nat,
         NEW kept, KeptFresh(Key(site, q, left), kept)
  PROVE  AsGood(Rebase(kept, q, left), GenerateSentence(site, q, left))
<1>1. PICK source, p, room :
        /\ IsSequence(source) /\ IsPosition(source, p) /\ room \in Nat
        /\ Key(source, p, room) = Key(site, q, left)
        /\ kept = FromOutcome(GenerateSentence(source, p, room), p)
  BY DEF KeptFresh
<1>2. SameKey(source, p, room, site, q, left)
  BY <1>1 DEF SameKey
<1> QED BY <1>1, <1>2, HitIsFresh DEF AsGood

LEMMA MissIsAsGood ==
  ASSUME NEW source, IsSequence(source), NEW p, IsPosition(source, p), NEW room \in Nat
  PROVE  AsGood(GenerateSentence(source, p, room), GenerateSentence(source, p, room))
BY GeneratedOutcome DEF AsGood

-----------------------------------------------------------------------------
(***************************************************************************)
(* The inductive invariant.                                                *)
(***************************************************************************)
SoundCache == \A key \in DOMAIN cache : KeptFresh(key, cache[key])

Collecting ==
  phase = "edit" =>
    /\ positions = Positions(text) /\ casing = Casing(text, positions)
    /\ next \in 1 .. Len(positions) + 1
    /\ Walked(text, entry, next - 1, WalkOf(text, casing, candidates, budget))

Typed ==
  /\ rate \in Rates /\ IsSequence(text) /\ budget \in Nat /\ entry \in Nat
  /\ IsPatches(candidates) /\ IsSequence(passes)
  /\ phase \in {"segment", "edit", "restructure", "done"}

PassInv ==
  /\ Typed /\ Collecting /\ SoundCache
  /\ phase \in {"segment", "edit"} => Len(passes) < MAX_PASSES
  /\ phase = "segment" => entry = budget

LEMMA NoneArePatches == IsPatches(<<>>)
BY EmptyIs DEF IsPatches

LEMMA InitPassInv == Init => PassInv
<1> SUFFICES ASSUME Init PROVE PassInv
  OBVIOUS
<1>1. /\ text \in Documents /\ rate \in Rates /\ text = given /\ phase = "segment"
      /\ candidates = <<>> /\ passes = <<>> /\ cache = <<>>
      /\ budget = ForDocument(WordCount(text), rate) /\ entry = budget
  BY DEF Init, Idle
<1>2. IsSequence(text)
  BY <1>1, DocumentsAssumption
<1>3. budget \in Nat
  BY <1>1, <1>2, AllowanceIs
<1>4. IsPatches(candidates) /\ IsSequence(passes) /\ Len(passes) = 0
  BY <1>1, NoneArePatches, EmptyIs
<1>5. SoundCache
  BY <1>1, EmptyIs DEF SoundCache
<1> QED BY <1>1, <1>2, <1>3, <1>4, <1>5 DEF PassInv, Typed, Collecting, MAX_PASSES

\* A step that collects an outcome as good as a fresh one.
LEMMA CollectKeeps ==
  ASSUME PassInv, Editing, NEW o, AsGood(o, GenerateSentence(text, Here, budget)), Collect(o)
  PROVE  Typed' /\ Collecting' /\ Len(passes') < MAX_PASSES /\ phase' = "edit"
<1>1. /\ phase = "edit" /\ positions = Positions(text) /\ casing = Casing(text, positions)
      /\ next \in 1 .. Len(positions) + 1 /\ next <= Len(positions)
      /\ Walked(text, entry, next - 1, WalkOf(text, casing, candidates, budget))
  BY DEF PassInv, Collecting, Editing
<1>2. IsSequence(text) /\ budget \in Nat /\ IsPatches(candidates)
  BY DEF PassInv, Typed
<1>3. Len(positions) \in Nat /\ DOMAIN positions = 1 .. Len(positions)
  BY <1>1, <1>2, PositionsAre, SequenceIs
<1>4. next \in DOMAIN positions /\ next - 1 \in Nat /\ (next - 1) + 1 = next
  BY <1>1, <1>3
<1>5. IsPosition(text, Here)
  BY <1>1, <1>2, <1>4, PositionsAre DEF Here
<1>6. PICK settled : /\ settled = Settled(text, Here, o, casing)
                     /\ candidates' = candidates \o settled.patches
                     /\ budget' = budget - settled.takes
  BY DEF Collect
<1>7. /\ next' = next + 1
      /\ UNCHANGED <<rate, text, phase, positions, casing, entry, passes>>
  BY DEF Collect, report
<1>8. /\ Promised!Visit(WalkOf(text, casing, candidates, budget), Here) =
           WalkOf(text, casing, candidates', budget')
      /\ IsPatches(candidates') /\ budget' \in Nat
  BY <1>2, <1>5, <1>6, CollectedIs
<1>9. Walked(text, entry, next, WalkOf(text, casing, candidates', budget'))
  <2>1. Here = Positions(text)[(next - 1) + 1]
    BY <1>1, <1>4 DEF Here
  <2> QED BY <1>1, <1>4, <1>8, <2>1, WalkGoesOn
<1>10. Typed'
  BY <1>7, <1>8 DEF PassInv, Typed
<1>11. Collecting'
  <2>1. next' \in 1 .. Len(positions) + 1 /\ next' - 1 = next
    BY <1>1, <1>3, <1>7
  <2>2. Walked(text', entry', next' - 1, WalkOf(text', casing', candidates', budget'))
    BY <1>7, <1>9, <2>1
  <2> QED BY <1>1, <1>7, <2>1, <2>2 DEF Collecting
<1> QED BY <1>1, <1>7, <1>10, <1>11 DEF PassInv

LEMMA HitKeeps ==
  ASSUME PassInv, EditHit
  PROVE  PassInv'
<1>1. PICK key : /\ key = Key(text, Here, budget) /\ key \in DOMAIN cache
                 /\ Collect(Rebase(cache[key], Here, budget))
  BY DEF EditHit
<1>2. Editing /\ cache' = cache
  BY DEF EditHit
<1>3. IsSequence(text) /\ budget \in Nat /\ IsPosition(text, Here)
  <2>1. /\ positions = Positions(text) /\ next \in 1 .. Len(positions) + 1 /\ next <= Len(positions)
        /\ IsSequence(text) /\ budget \in Nat
    BY <1>2 DEF PassInv, Typed, Collecting, Editing
  <2>2. next \in DOMAIN positions
    BY <2>1, PositionsAre, SequenceIs
  <2> QED BY <2>1, <2>2, PositionsAre DEF Here
<1>4. KeptFresh(key, cache[key])
  BY <1>1 DEF PassInv, SoundCache
<1>5. AsGood(Rebase(cache[key], Here, budget), GenerateSentence(text, Here, budget))
  BY <1>1, <1>3, <1>4, HitIsAsGood
<1>6. Typed' /\ Collecting' /\ Len(passes') < MAX_PASSES /\ phase' = "edit"
  BY <1>1, <1>2, <1>5, CollectKeeps
<1>7. SoundCache'
  BY <1>2 DEF PassInv, SoundCache
<1> QED BY <1>6, <1>7 DEF PassInv

LEMMA Extended ==
  ASSUME NEW f, NEW key, NEW kept, NEW g, g = WithEntry(f, key, kept), NEW x \in DOMAIN g
  PROVE  \/ x = key /\ g[x] = kept
         \/ x \in DOMAIN f /\ g[x] = f[x]
<1>1. g = [y \in DOMAIN f \cup {key} |-> IF y = key THEN kept ELSE f[y]]
  BY DEF WithEntry
<1> QED BY <1>1

LEMMA MissKeeps ==
  ASSUME PassInv, EditMiss
  PROVE  PassInv'
<1>1. PICK key : key = Key(text, Here, budget) /\ Record(key, GenerateSentence(text, Here, budget))
  BY DEF EditMiss
<1> DEFINE o == GenerateSentence(text, Here, budget)
           kept == FromOutcome(o, Here)
<1>2. Editing /\ Collect(o) /\ cache' = WithEntry(cache, key, kept)
  BY <1>1 DEF EditMiss, Record
<1>3. IsSequence(text) /\ budget \in Nat /\ IsPosition(text, Here)
  <2>1. /\ positions = Positions(text) /\ next \in 1 .. Len(positions) + 1 /\ next <= Len(positions)
        /\ IsSequence(text) /\ budget \in Nat
    BY <1>2 DEF PassInv, Typed, Collecting, Editing
  <2>2. next \in DOMAIN positions
    BY <2>1, PositionsAre, SequenceIs
  <2> QED BY <2>1, <2>2, PositionsAre DEF Here
<1>4. AsGood(o, GenerateSentence(text, Here, budget))
  BY <1>3, MissIsAsGood
<1>5. Typed' /\ Collecting' /\ Len(passes') < MAX_PASSES /\ phase' = "edit"
  BY <1>2, <1>4, CollectKeeps
<1>6. KeptFresh(key, kept)
  BY <1>1, <1>3 DEF KeptFresh
<1>7. SoundCache'
  <2> HIDE DEF kept
  <2>1. \A other \in DOMAIN cache' : \/ other = key /\ cache'[other] = kept
                                     \/ other \in DOMAIN cache /\ cache'[other] = cache[other]
    BY <1>2, Extended
  <2>2. \A other \in DOMAIN cache : KeptFresh(other, cache[other])
    BY DEF PassInv, SoundCache
  <2> QED BY <1>6, <2>1, <2>2 DEF SoundCache
<1> QED BY <1>5, <1>7 DEF PassInv

LEMMA SegmentKeeps ==
  ASSUME PassInv, Segment
  PROVE  PassInv'
<1>1. /\ positions' = Positions(text) /\ casing' = Casing(text, positions') /\ next' = 1
      /\ candidates' = <<>> /\ phase' = "edit" /\ phase = "segment"
      /\ UNCHANGED <<rate, text, budget, entry, cache, passes>>
  BY DEF Segment, report
<1>2. IsSequence(text) /\ entry = budget /\ Len(passes) < MAX_PASSES
  BY <1>1 DEF PassInv, Typed
<1>3. Typed'
  BY <1>1, NoneArePatches DEF PassInv, Typed
<1>4. Collecting'
  <2>1. IsSequence(Positions(text)) /\ Len(Positions(text)) \in Nat
    BY <1>2, PositionsAre, SequenceIs
  <2>2. next' \in 1 .. Len(positions') + 1 /\ next' - 1 = 0
    BY <1>1, <2>1
  <2>3. Walked(text, entry, 0, WalkOf(text, Casing(text, Positions(text)), <<>>, budget))
    BY <1>2, WalkStarts
  <2>4. Walked(text', entry', next' - 1, WalkOf(text', casing', candidates', budget'))
    BY <1>1, <2>2, <2>3
  <2> QED BY <1>1, <2>2, <2>4 DEF Collecting
<1>5. SoundCache'
  BY <1>1 DEF PassInv, SoundCache
<1> QED BY <1>1, <1>2, <1>3, <1>4, <1>5 DEF PassInv

\* What a pass leaves, and what it makes of the count of passes.
LEMMA PassEnds ==
  ASSUME PassInv, EndPass
  PROVE  /\ \E accepted :
              /\ accepted = Resolve(text, candidates) /\ IsPatches(accepted)
              /\ text' = ApplyPatches(text, accepted) /\ IsSequence(text')
              /\ phase' = AfterPass(accepted, Len(passes'))
         /\ IsSequence(passes') /\ Len(passes') = Len(passes) + 1 /\ Len(passes) \in 0 .. 1
         /\ Promised!PassFrom(text, entry) = WalkOf(text, casing, candidates, budget)
         /\ phase = "edit"
         /\ entry' = budget /\ UNCHANGED <<rate, budget, candidates, cache>>
<1>1. PICK pass : /\ pass = PassReport(text, candidates, held)
                  /\ passes' = Append(passes, pass) /\ text' = ApplyPatches(text, pass.patches)
                  /\ phase' = AfterPass(pass.patches, Len(passes'))
  BY DEF EndPass
<1>2. /\ phase = "edit" /\ next > Len(positions)
      /\ entry' = budget /\ UNCHANGED <<rate, budget, candidates, cache>>
  BY DEF EndPass, walk
<1>3. /\ IsSequence(text) /\ IsPatches(candidates) /\ IsSequence(passes) /\ Len(passes) < MAX_PASSES
      /\ positions = Positions(text) /\ next \in 1 .. Len(positions) + 1
      /\ Walked(text, entry, next - 1, WalkOf(text, casing, candidates, budget))
  BY <1>2 DEF PassInv, Typed, Collecting
<1> DEFINE accepted == pass.patches
<1>4. accepted = Resolve(text, candidates)
  BY <1>1 DEF PassReport
<1> HIDE DEF accepted
<1>5. IsPatches(accepted)
  BY <1>3, <1>4, ResolvedArePatches
<1>6. IsSequence(text')
  BY <1>1, <1>3, <1>5, AppliedIs DEF accepted
<1>7. IsSequence(passes') /\ Len(passes') = Len(passes) + 1 /\ Len(passes) \in 0 .. 1
  <2>1. Len(passes) \in Nat
    BY <1>3, SequenceIs
  <2>2. Len(passes) < 2
    BY <1>3 DEF MAX_PASSES
  <2>3. Len(passes) \in 0 .. 1
    <3> DEFINE n == Len(passes)
    <3>1. n \in Nat /\ n < 2
      BY <2>1, <2>2
    <3> HIDE DEF n
    <3>2. n \in 0 .. 1
      BY <3>1
    <3> QED BY <3>2 DEF n
  <2> QED BY <1>1, <1>3, <2>3, AppendedIs
<1>8. Promised!PassFrom(text, entry) = WalkOf(text, casing, candidates, budget)
  <2>1. Len(positions) \in Nat
    BY <1>3, PositionsAre, SequenceIs
  <2>2. next - 1 = Len(Positions(text))
    BY <1>2, <1>3, <2>1
  <2> QED BY <1>3, <2>2, WalkEnds
<1>9. text' = ApplyPatches(text, accepted) /\ phase' = AfterPass(accepted, Len(passes'))
  BY <1>1 DEF accepted
<1> QED BY <1>2, <1>4, <1>5, <1>6, <1>7, <1>8, <1>9

LEMMA EndPassKeeps ==
  ASSUME PassInv, EndPass
  PROVE  PassInv'
<1>1. PICK accepted : /\ text' = ApplyPatches(text, accepted) /\ IsSequence(text')
                      /\ phase' = AfterPass(accepted, Len(passes'))
  BY PassEnds
<1>2. /\ IsSequence(passes') /\ Len(passes') = Len(passes) + 1 /\ Len(passes) \in 0 .. 1
      /\ entry' = budget /\ UNCHANGED <<rate, budget, candidates, cache>>
  BY PassEnds
<1>3. phase' \in {"restructure", "segment"} /\ (phase' = "segment" => Len(passes') # MAX_PASSES)
  BY <1>1 DEF AfterPass
<1>4. Typed'
  BY <1>1, <1>2, <1>3 DEF PassInv, Typed
<1>5. Collecting' /\ SoundCache'
  BY <1>2, <1>3 DEF PassInv, Collecting, SoundCache
<1>6. phase' \in {"segment", "edit"} => Len(passes') < MAX_PASSES
  <2>1. SUFFICES ASSUME phase' = "segment" PROVE Len(passes') < MAX_PASSES
    BY <1>3
  <2> DEFINE n == Len(passes)
             m == Len(passes')
  <2>2. n \in 0 .. 1 /\ m = n + 1
    BY <1>2
  <2>3. m # 2
    BY <1>3, <2>1 DEF MAX_PASSES
  <2> HIDE DEF n, m
  <2>4. m < 2
    BY <2>2, <2>3
  <2> QED BY <2>4 DEF MAX_PASSES, m
<1> QED BY <1>2, <1>4, <1>5, <1>6 DEF PassInv

LEMMA RestructureKeeps ==
  ASSUME PassInv, RestructurePass
  PROVE  PassInv' /\ text' = AfterRestructure(text)
<1>1. PICK pass : pass = RestructureReport(text) /\ EndRestructure(pass)
  BY DEF RestructurePass
<1>2. /\ text' = ApplyPatches(text, pass.patches) /\ phase' = "done"
      /\ UNCHANGED <<rate, budget, entry, cache, candidates>>
  BY <1>1 DEF EndRestructure, RestructurePass, walk
<1>3. IsSequence(text) /\ IsSequence(passes)
  BY DEF PassInv, Typed
<1>4. IsSequence(text')
  BY <1>1, <1>2, <1>3, RestructuredIs
<1> DEFINE before == [passes EXCEPT ![Len(passes)].held = Retained(@, pass.patches)]
           n == Len(passes)
<1>5. IsSequence(before)
  <2>1. n \in Nat /\ DOMAIN passes = 1 .. n
    BY <1>3, SequenceIs
  <2>2. DOMAIN before = 1 .. n /\ before = [k \in DOMAIN before |-> before[k]]
    BY <2>1
  <2> HIDE DEF before, n
  <2> QED BY <2>1, <2>2, Listed
<1>6. passes' = Append(before, pass)
  BY <1>1 DEF EndRestructure
<1>7. IsSequence(passes')
  BY <1>5, <1>6, AppendedIs
<1>8. Typed'
  BY <1>2, <1>4, <1>7 DEF PassInv, Typed
<1>9. Collecting' /\ SoundCache'
  BY <1>2 DEF PassInv, Collecting, SoundCache
<1>10. text' = AfterRestructure(text)
  BY <1>1, <1>2 DEF AfterRestructure
<1> QED BY <1>2, <1>8, <1>9, <1>10 DEF PassInv

LEMMA FixAgainKeeps ==
  ASSUME PassInv, FixAgain
  PROVE  PassInv'
<1>1. /\ phase' = "segment" /\ candidates' = <<>> /\ passes' = <<>> /\ cache' = <<>>
      /\ budget' = ForDocument(WordCount(text), rate) /\ entry' = budget'
      /\ UNCHANGED <<rate, text>>
  BY DEF FixAgain
<1>2. IsSequence(text) /\ rate \in Rates
  BY DEF PassInv, Typed
<1>3. budget' \in Nat
  BY <1>1, <1>2, AllowanceIs
<1>4. IsPatches(candidates') /\ IsSequence(passes') /\ Len(passes') = 0
  BY <1>1, NoneArePatches, EmptyIs
<1>5. Typed'
  BY <1>1, <1>2, <1>3, <1>4 DEF Typed
<1>6. Collecting' /\ SoundCache'
  BY <1>1, EmptyIs DEF Collecting, SoundCache
<1> QED BY <1>1, <1>4, <1>5, <1>6 DEF PassInv, MAX_PASSES

LEMMA StepKeepsPassInv == PassInv /\ [Next]_vars => PassInv'
<1> SUFFICES ASSUME PassInv, [Next]_vars PROVE PassInv'
  OBVIOUS
<1>1. CASE UNCHANGED vars
  BY <1>1 DEF vars, walk, report, PassInv, Typed, Collecting, SoundCache
<1> QED
  BY <1>1, SegmentKeeps, HitKeeps, MissKeeps, EndPassKeeps, RestructureKeeps, FixAgainKeeps DEF Next

-----------------------------------------------------------------------------
(***************************************************************************)
(* The refinement.                                                         *)
(***************************************************************************)
LEMMA InitPromised == Init => Promised!Init
<1> SUFFICES ASSUME Init PROVE Promised!Init
  OBVIOUS
<1>1. /\ text \in Documents /\ rate \in Rates /\ text = given /\ phase = "segment" /\ passes = <<>>
      /\ budget = ForDocument(WordCount(text), rate) /\ entry = budget
  BY DEF Init
<1>2. PassesMade = 0
  BY <1>1, EmptyIs DEF PassesMade
<1>3. entry = Allowance(text, rate)
  BY <1>1 DEF Allowance
<1> QED BY <1>1, <1>2, <1>3 DEF Promised!Init

\* Between the ends of two passes the document, the budget at the last end and
\* the passes made stand still.
LEMMA WalkStutters ==
  ASSUME Segment \/ EditHit \/ EditMiss
  PROVE  UNCHANGED Promised!vars
<1>1. /\ UNCHANGED <<rate, text, entry, passes>>
      /\ phase \in {"segment", "edit"} /\ phase' = "edit"
  <2>1. CASE Segment
    BY <2>1 DEF Segment, report
  <2>2. CASE EditHit
    BY <2>2 DEF EditHit, Editing, Collect, report
  <2>3. CASE EditMiss
    BY <2>3 DEF EditMiss, Editing, Record, Collect, report
  <2> QED BY <2>1, <2>2, <2>3
<1>2. PassesMade' = PassesMade
  BY <1>1 DEF PassesMade
<1> QED BY <1>1, <1>2 DEF Promised!vars

LEMMA EndPassPromised ==
  ASSUME PassInv, EndPass
  PROVE  Promised!Pass
<1>1. PICK accepted : /\ accepted = Resolve(text, candidates)
                      /\ text' = ApplyPatches(text, accepted)
                      /\ phase' = AfterPass(accepted, Len(passes'))
  BY PassEnds
<1>2. /\ Len(passes') = Len(passes) + 1 /\ Len(passes) \in 0 .. 1
      /\ Promised!PassFrom(text, entry) = WalkOf(text, casing, candidates, budget)
      /\ phase = "edit" /\ entry' = budget /\ rate' = rate
  BY PassEnds
<1> DEFINE pass == WalkOf(text, casing, candidates, budget)
<1>3. pass.candidates = candidates /\ pass.budget = budget
  BY DEF WalkOf
<1> HIDE DEF pass
<1>4. PassesMade = Len(passes)
  BY <1>2 DEF PassesMade
<1>5. PassesMade' = IF accepted = <<>> THEN Promised!MAX_PASSES ELSE PassesMade + 1
  <2>1. phase' = IF accepted = <<>> \/ Len(passes') = 2 THEN "restructure" ELSE "segment"
    BY <1>1 DEF AfterPass, MAX_PASSES
  <2>2. PassesMade' = IF phase' = "done" THEN 3 ELSE IF phase' = "restructure" THEN 2 ELSE Len(passes')
    BY DEF PassesMade, MAX_PASSES
  <2> QED BY <1>2, <1>4, <2>1, <2>2 DEF Promised!MAX_PASSES
<1>6. Promised!EndPass(pass)
  BY <1>1, <1>2, <1>3, <1>5 DEF Promised!EndPass, Promised!Accept
<1>7. PassesMade < Promised!MAX_PASSES
  BY <1>2, <1>4 DEF Promised!MAX_PASSES
<1> QED BY <1>2, <1>6, <1>7 DEF Promised!Pass, pass

LEMMA RestructurePromised ==
  ASSUME PassInv, RestructurePass
  PROVE  Promised!RestructurePass
<1>1. text' = AfterRestructure(text)
  BY RestructureKeeps
<1>2. phase = "restructure" /\ phase' = "done" /\ UNCHANGED <<rate, entry>>
  BY DEF RestructurePass, EndRestructure
<1>3. PassesMade = MAX_PASSES /\ PassesMade' = MAX_PASSES + 1
  BY <1>2 DEF PassesMade
<1> QED
  BY <1>1, <1>2, <1>3 DEF Promised!RestructurePass, Promised!Restructured, Promised!MAX_PASSES, MAX_PASSES

LEMMA FixAgainPromised ==
  ASSUME FixAgain
  PROVE  Promised!Again
<1>1. /\ phase = "done" /\ phase' = "segment" /\ passes' = <<>>
      /\ entry' = Allowance(text, rate) /\ UNCHANGED <<rate, text>>
  BY DEF FixAgain, Allowance
<1>2. PassesMade = MAX_PASSES + 1 /\ PassesMade' = 0
  BY <1>1, EmptyIs DEF PassesMade
<1> QED BY <1>1, <1>2 DEF Promised!Again, Promised!Restructured, Promised!MAX_PASSES, MAX_PASSES

LEMMA StepPromised == PassInv /\ [Next]_vars => [Promised!Next]_Promised!vars
<1> SUFFICES ASSUME PassInv, [Next]_vars PROVE [Promised!Next]_Promised!vars
  OBVIOUS
<1>1. CASE UNCHANGED vars
  BY <1>1 DEF vars, report, Promised!vars, PassesMade
<1>2. CASE Segment \/ EditHit \/ EditMiss
  BY <1>2, WalkStutters
<1>3. CASE EndPass
  BY <1>3, EndPassPromised DEF Promised!Next
<1>4. CASE RestructurePass
  BY <1>4, RestructurePromised DEF Promised!Next
<1>5. CASE FixAgain
  BY <1>5, FixAgainPromised DEF Promised!Next
<1> QED BY <1>1, <1>2, <1>3, <1>4, <1>5 DEF Next

\* The inductive invariant holds of every reachable state: in particular every
\* entry of the generation cache is the outcome of generating some sentence
\* that has its key (GeneratedOutcome::from_outcome).
THEOREM CacheIsSound == Spec => []PassInv
BY InitPassInv, StepKeepsPassInv, PTL DEF Spec

\* edit_document's walk, with a cache that lives through both passes and a
\* budget that a hit charges again, makes the very texts that whole passes
\* without a cache make, and takes the same budget: sharing an outcome between
\* equal sentences is never seen from outside (GenerationKey, Rebase).
THEOREM CachedPassesAreWholePasses == Spec => ImplementsBoundedPasses
<1>1. Spec => []PassInv
  BY CacheIsSound
<1>2. Spec => Promised!Init /\ [][Promised!Next]_Promised!vars
  BY <1>1, InitPromised, StepPromised, PTL DEF Spec
<1> QED BY <1>2 DEF ImplementsBoundedPasses, Promised!Spec

-----------------------------------------------------------------------------
(***************************************************************************)
(* The replay of a sentence's patches, from the right, and its capital.    *)
(***************************************************************************)
\* Clear patches of different places.
Sober(words, ps) ==
  /\ IsPatches(ps) /\ \A k \in DOMAIN ps : IsClear(words, ps[k])
  /\ \A k, l \in DOMAIN ps : l # k => ps[l].start # ps[k].start

LEMMA QuietIsSober ==
  ASSUME NEW words, NEW s, Quiet(words, s)
  PROVE  Sober(words, s.patches)
BY DEF Quiet, Clear, Sober, IsWork

\* Nothing but x and the elements of a sequence.
Among(t, s, x) == \A k \in DOMAIN t : t[k] = x \/ \E i \in DOMAIN s : t[k] = s[i]

LEMMA InsertedClimbs ==
  ASSUME NEW M, NEW key \in [M -> Int], NEW sorted \in Seq(M), ClimbsBy(key, sorted), NEW x \in M,
         \A i \in DOMAIN sorted : key[sorted[i]] # key[x],
         NEW J, J \subseteq DOMAIN sorted,
         \A i \in J : key[sorted[i]] <= key[x],
         \A i \in DOMAIN sorted : i \notin J => key[x] <= key[sorted[i]]
  PROVE  /\ ClimbsBy(key, InsertAt(sorted, Max({0} \cup J) + 1, x))
         /\ Among(InsertAt(sorted, Max({0} \cup J) + 1, x), sorted, x)
<1> DEFINE n == Len(sorted)
           m == Max({0} \cup J)
           t == InsertAt(sorted, m + 1, x)
<1>1. n \in Nat /\ DOMAIN sorted = 1 .. n /\ IsSequence(sorted) /\ \A i \in DOMAIN sorted : sorted[i] \in M
  BY SequenceOf
<1>2. m \in 0 .. n
  <2> DEFINE K == {0} \cup J
  <2>1. K \subseteq 0 .. n /\ K # {}
    BY <1>1
  <2> HIDE DEF K, n
  <2>2. Max(K) \in K
    BY <1>1, <2>1, MaxIsWithin
  <2> QED BY <2>1, <2>2 DEF K
<1>3. Rises(key, t)
  <2>1. \A i \in DOMAIN sorted : key[sorted[i]] \in Int
    BY <1>1
  <2>2. Rises(key, sorted)
    BY <2>1 DEF Rises, ClimbsBy
  <2> QED BY <2>2, InsertedRises
<1> HIDE DEF m
<1>4. /\ DOMAIN t = 1 .. n + 1
      /\ \A k \in DOMAIN t : \/ k <= m /\ k \in DOMAIN sorted /\ t[k] = sorted[k]
                             \/ k = m + 1 /\ t[k] = x
                             \/ k > m + 1 /\ k - 1 \in DOMAIN sorted /\ t[k] = sorted[k - 1]
  BY <1>1, <1>2, InsertedAt
<1> HIDE DEF t, n
<1>5. ASSUME NEW i \in DOMAIN sorted, NEW j \in DOMAIN sorted, i # j PROVE key[sorted[i]] # key[sorted[j]]
  <2>1. i \in Int /\ j \in Int /\ key[sorted[i]] \in Int /\ key[sorted[j]] \in Int
    BY <1>1
  <2>2. i < j \/ j < i
    BY <1>5, <2>1
  <2>3. key[sorted[i]] < key[sorted[j]] \/ key[sorted[j]] < key[sorted[i]]
    BY <2>2 DEF ClimbsBy
  <2> QED BY <2>1, <2>3
<1>6. ASSUME NEW i \in DOMAIN t, NEW j \in DOMAIN t, i < j PROVE key[t[i]] # key[t[j]]
  <2>0. i \in Int /\ j \in Int /\ m \in Int
    BY <1>1, <1>2, <1>4
  <2>1. CASE i <= m /\ i \in DOMAIN sorted /\ t[i] = sorted[i]
    <3>1. CASE j <= m /\ j \in DOMAIN sorted /\ t[j] = sorted[j]
      <4>1. i # j
        BY <1>6, <2>0
      <4> QED BY <1>5, <2>1, <3>1, <4>1
    <3>2. CASE j = m + 1 /\ t[j] = x
      BY <2>1, <3>2
    <3>3. CASE j > m + 1 /\ j - 1 \in DOMAIN sorted /\ t[j] = sorted[j - 1]
      <4>1. i # j - 1
        BY <2>0, <2>1, <3>3
      <4> QED BY <1>5, <2>1, <3>3, <4>1
    <3> QED BY <1>4, <3>1, <3>2, <3>3
  <2>2. CASE i = m + 1 /\ t[i] = x
    <3>1. j > m + 1
      BY <1>6, <2>2
    <3>2. j - 1 \in DOMAIN sorted /\ t[j] = sorted[j - 1]
      BY <1>4, <2>0, <3>1
    <3> QED BY <2>2, <3>2
  <2>3. CASE i > m + 1 /\ i - 1 \in DOMAIN sorted /\ t[i] = sorted[i - 1]
    <3>1. j > m + 1
      BY <1>6, <2>0, <2>3
    <3>2. j - 1 \in DOMAIN sorted /\ t[j] = sorted[j - 1] /\ i - 1 # j - 1
      BY <1>4, <1>6, <2>0, <3>1
    <3> QED BY <1>5, <2>3, <3>2
  <2> QED BY <1>4, <2>1, <2>2, <2>3
<1>7. Among(t, sorted, x)
  BY <1>4 DEF Among
<1>8. \A k \in DOMAIN t : key[t[k]] \in Int
  BY <1>1, <1>7 DEF Among
<1>9. ClimbsBy(key, t)
  <2>1. \A i, j \in DOMAIN t : i < j => key[t[i]] <= key[t[j]] /\ key[t[i]] # key[t[j]]
    BY <1>3, <1>6 DEF Rises
  <2>2. \A i, j \in DOMAIN t : i < j => key[t[i]] < key[t[j]]
    BY <1>8, <2>1
  <2> QED BY <2>2 DEF ClimbsBy
<1> QED BY <1>7, <1>9 DEF t, m

LEMMA SpliceOrderFalls ==
  ASSUME NEW ps, IsPatches(ps), \A k, l \in DOMAIN ps : l # k => ps[l].start # ps[k].start
  PROVE  LET qs == SpliceOrder(ps)
         IN  /\ IsSequence(qs) /\ \A k \in DOMAIN qs : \E j \in DOMAIN ps : qs[k] = ps[j]
             /\ \A k, l \in DOMAIN qs : k < l => qs[l].start < qs[k].start
<1> DEFINE n == Len(ps)
           M == Range(ps)
           key == [p \in M |-> -p.start]
           R(k) == {t \in Seq(M) : ClimbsBy(key, t) /\ \A i \in DOMAIN t : \E j \in 1 .. k : t[i] = ps[j]}
           I == [k \in 0 .. n |-> R(k)]
<1>1. n \in Nat /\ DOMAIN ps = 1 .. n /\ \A k \in 1 .. n : ps[k] \in M
  BY SequenceIs DEF IsPatches, Range
<1>2. \A p \in M : p.start \in Int
  BY DEF IsPatches, IsPatch, Range
<1> HIDE DEF n, M
<1>3. key \in [M -> Int] /\ \A p \in M : key[p] = -p.start
  BY <1>2
<1> HIDE DEF key
<1>4. ASSUME NEW k \in 1 .. n, NEW sorted \in R(k - 1) PROVE OrderStep(0, sorted, ps[k]) \in R(k)
  <2> DEFINE x == ps[k]
             J == {i \in DOMAIN sorted : ~LaterStart(x, sorted[i])}
             t == InsertAt(sorted, Max({0} \cup J) + 1, x)
  <2>1. x \in M /\ sorted \in Seq(M) /\ ClimbsBy(key, sorted) /\ k \in Int
    BY <1>1
  <2>2. \A i \in DOMAIN sorted : \E j \in 1 .. k - 1 : sorted[i] = ps[j]
    OBVIOUS
  <2>3. \A i \in DOMAIN sorted : sorted[i] \in M /\ sorted[i].start \in Int /\ x.start \in Int
    BY <1>2, <2>1
  <2>4. \A i \in DOMAIN sorted : key[sorted[i]] # key[x]
    <3>1. ASSUME NEW i \in DOMAIN sorted PROVE key[sorted[i]] # key[x]
      <4>1. PICK j \in 1 .. k - 1 : sorted[i] = ps[j]
        BY <2>2
      <4>2. j \in DOMAIN ps /\ k \in DOMAIN ps /\ j # k
        BY <1>1
      <4>3. sorted[i].start # x.start
        BY <4>1, <4>2
      <4> HIDE DEF x
      <4> QED BY <1>3, <2>1, <2>3, <4>3
    <3> QED BY <3>1
  <2>5. OrderStep(0, sorted, x) = t
    BY DEF OrderStep, SortInto
  <2>6. J \subseteq DOMAIN sorted
    OBVIOUS
  <2> HIDE DEF x
  <2>7. \A i \in J : key[sorted[i]] <= key[x]
    BY <1>3, <2>1, <2>3 DEF LaterStart
  <2>8. \A i \in DOMAIN sorted : i \notin J => key[x] <= key[sorted[i]]
    BY <1>3, <2>1, <2>3 DEF LaterStart
  <2> HIDE DEF J
  <2>9. t \in Seq(M)
    BY <2>1, <2>6, InsertedIs
  <2>10. ClimbsBy(key, t) /\ Among(t, sorted, x)
    <3>1. key \in [M -> Int]
      BY <1>3
    <3>2. x \in M /\ sorted \in Seq(M) /\ ClimbsBy(key, sorted)
      BY <2>1
    <3> QED BY ONLY <3>1, <3>2, <2>4, <2>6, <2>7, <2>8, InsertedClimbs
  <2> HIDE DEF t
  <2>11. \A i \in DOMAIN t : \E j \in 1 .. k : t[i] = ps[j]
    <3>1. ASSUME NEW i \in DOMAIN t PROVE \E j \in 1 .. k : t[i] = ps[j]
      <4>1. CASE t[i] = x
        <5>1. k \in 1 .. k
          BY <2>1
        <5> QED BY <4>1, <5>1 DEF x
      <4>2. CASE \E j \in DOMAIN sorted : t[i] = sorted[j]
        <5>1. PICK l \in DOMAIN sorted : t[i] = sorted[l]
          BY <4>2
        <5>2. PICK j \in 1 .. k - 1 : sorted[l] = ps[j]
          BY <2>2
        <5>3. j \in 1 .. k
          BY <2>1
        <5> QED BY <5>1, <5>2, <5>3
      <4> QED BY <2>10, <4>1, <4>2 DEF Among
    <3> QED BY <3>1
  <2> QED BY <2>5, <2>9, <2>10, <2>11 DEF x
<1>5. <<>> \in R(0)
  BY DEF ClimbsBy
<1> HIDE DEF R
<1>6. Splicewise!IsPassedOn(0, <<>>, n, ps, I)
  BY <1>1, <1>4, <1>5 DEF Splicewise!IsPassedOn
<1>7. I[n] = R(n)
  BY <1>1
<1> HIDE DEF I
<1>8. Splicewise!Folded(0, <<>>, ps) \in I[n]
  BY <1>1, <1>6, Splicewise!FoldInvariant, PatchesInduct
<1> DEFINE qs == SpliceOrder(ps)
<1>9. qs \in R(n)
  BY <1>7, <1>8, SpliceOrderIsAFold
<1> HIDE DEF qs
<1>10. qs \in Seq(M) /\ ClimbsBy(key, qs) /\ \A i \in DOMAIN qs : \E j \in 1 .. n : qs[i] = ps[j]
  BY <1>9 DEF R
<1>11. IsSequence(qs) /\ \A k \in DOMAIN qs : qs[k] \in M
  BY <1>10, SequenceOf
<1>12. ASSUME NEW k \in DOMAIN qs, NEW l \in DOMAIN qs, k < l PROVE qs[l].start < qs[k].start
  <2>1. key[qs[k]] < key[qs[l]]
    BY <1>10, <1>12 DEF ClimbsBy
  <2>2. qs[k] \in M /\ qs[l] \in M
    BY <1>11
  <2> QED BY <1>2, <1>3, <2>1, <2>2
<1> QED BY <1>1, <1>10, <1>11, <1>12 DEF qs

LEMMA ClearIsUnquoted ==
  ASSUME NEW words, NEW p, IsClear(words, p), p.start \in Int, p.end \in Int, Len(words) \in Nat
  PROVE  ~InQuotedSpan(words, p) /\ p.start \in Nat /\ p.start < Len(words)
<1> DEFINE s == p.start
           t == p.end
           n == Len(words)
<1>1. 0 <= s /\ s < t /\ t <= n /\ s \in Int /\ t \in Int /\ n \in Nat
      /\ \A o \in s .. t - 1 : o \notin Sheltered(words)
  BY DEF IsClear
<1>2. \A o \in s .. t - 1 : words[o + 1] # Quote /\ QuotesBefore(words, o) % 2 # 1
  <2>1. ASSUME NEW o \in s .. t - 1 PROVE words[o + 1] # Quote /\ QuotesBefore(words, o) % 2 # 1
    <3>1. o \notin Sheltered(words)
      BY <1>1
    <3> HIDE DEF s, t
    <3>2. o \in 0 .. n - 1
      BY <1>1
    <3> QED BY <3>1, <3>2 DEF Sheltered, n
  <2> QED BY <2>1
<1> HIDE DEF s, t, n
<1>3. \A i \in s + 1 .. t : words[i] # Quote
  <2>1. ASSUME NEW i \in s + 1 .. t PROVE words[i] # Quote
    <3>1. i - 1 \in s .. t - 1 /\ (i - 1) + 1 = i
      BY <1>1
    <3> QED BY <1>2, <3>1
  <2> QED BY <2>1
<1>4. QuotesBefore(words, s) % 2 # 1
  <2>1. s \in s .. t - 1
    BY <1>1
  <2> QED BY <1>2, <2>1
<1>5. s \in Nat /\ s < n
  BY <1>1
<1> QED BY <1>3, <1>4, <1>5 DEF InQuotedSpan, s, t, n

LEMMA QuietCapital ==
  ASSUME NEW words, IsSequence(words), NEW s, Quiet(words, s), NEW evidence
  PROVE  Quiet(words, Recapitalized(s, evidence))
<1> DEFINE first == s.cells[1]
           new == <<Capital[first.sym]>>
           r == Span(0, 1)
<1>1. Recapitalized(s, evidence) = s
      \/ (first.sym \in DOMAIN Capital /\ Recapitalized(s, evidence) = Spliced(s, r, new, RECAPITALIZE))
  BY DEF Recapitalized
<1>2. CASE Recapitalized(s, evidence) = s
  BY <1>2
<1>3. CASE first.sym \in DOMAIN Capital /\ Recapitalized(s, evidence) = Spliced(s, r, new, RECAPITALIZE)
  <2>1. first.sym # Quote /\ Capital[first.sym] # Quote
    BY <1>3, QuoteAssumption DEF IsWord, Punctuation
  <2>2. IsSequence(new) /\ ~HasQuote(new)
    BY <2>1, OneIs DEF HasQuote
  <2>3. r.start = 0 /\ r.end = 1
    BY DEF Span
  <2> HIDE DEF new, r
  <2>4. ASSUME CanEdit(s.cells, r) PROVE ~InQuotedSpan(Symbols(s.cells), r)
    <3>1. Len(s.cells) \in Nat
      BY SequenceIs DEF Quiet, IsWork, IsCells
    <3>2. 1 \in 1 .. Len(s.cells)
      BY <2>3, <2>4, <3>1 DEF CanEdit
    <3>3. Symbols(s.cells)[1] = first.sym
      BY <3>2 DEF Symbols
    <3>4. QuotesBefore(Symbols(s.cells), 0) = 0
      <4>1. {i \in 1 .. 0 : Symbols(s.cells)[i] = Quote} = {}
        OBVIOUS
      <4> QED BY <4>1, FS_EmptySet DEF QuotesBefore
    <3>5. \A i \in 0 + 1 .. 1 : i = 1
      OBVIOUS
    <3> HIDE DEF first
    <3>6. \A i \in 0 + 1 .. 1 : Symbols(s.cells)[i] # Quote
      BY <2>1, <3>3, <3>5
    <3>7. 0 % 2 # 1
      OBVIOUS
    <3> QED BY <2>3, <3>4, <3>6, <3>7 DEF InQuotedSpan
  <2>5. Quiet(words, Spliced(s, r, new, RECAPITALIZE))
    BY <2>2, <2>4, QuietSplice
  <2> QED BY <1>3, <2>5
<1> QED BY <1>1, <1>2, <1>3

LEMMA ShiftedAt ==
  ASSUME NEW ps, IsPatches(ps), NEW by \in Int, NEW k \in DOMAIN ps
  PROVE  /\ ShiftAll(ps, by)[k] = Shift(ps[k], by)
         /\ ShiftAll(ps, by)[k] = Patch(ps[k].start + by, ps[k].end + by, ps[k].text, ps[k].rule)
         /\ ps[k].start \in Int /\ ps[k].end \in Int
<1>1. ShiftAll(ps, by)[k] = Shift(ps[k], by)
  BY DEF ShiftAll
<1>2. IsPatch(ps[k])
  BY DEF IsPatches
<1> QED BY <1>1, <1>2, ShiftedPatch DEF IsPatch

LEMMA QuietReplay ==
  ASSUME NEW words, IsSequence(words), NEW by \in Int, NEW made, IsPatches(made),
         Sober(words, ShiftAll(made, by))
  PROVE  Quiet(words, SplicedAll(Work(words, 0), ShiftAll(SpliceOrder(made), by)))
<1> DEFINE s == Work(words, 0)
           back == ShiftAll(made, by)
           order == SpliceOrder(made)
           edits == ShiftAll(order, by)
<1>1. Quiet(words, s) /\ Symbols(s.cells) = words /\ Len(s.cells) = Len(words) /\ Len(words) \in Nat
  <2>1. s = Opened(words, 0, {})
    BY Zenon DEF Work, Opened, WorkOf
  <2>2. 0 \in Nat
    OBVIOUS
  <2> HIDE DEF s
  <2> QED BY <2>1, <2>2, OpenedIsQuiet, SequenceIs
<1> HIDE DEF s
<1>2. DOMAIN back = DOMAIN made
  BY ShiftedPatches
<1>3. \A k \in DOMAIN made :
        /\ back[k] = Patch(made[k].start + by, made[k].end + by, made[k].text, made[k].rule)
        /\ made[k].start \in Int /\ made[k].end \in Int /\ IsClear(words, back[k])
  BY <1>2, ShiftedAt DEF Sober
<1>4. \A k, l \in DOMAIN made : l # k => made[l].start # made[k].start
  <2>1. ASSUME NEW k \in DOMAIN made, NEW l \in DOMAIN made, l # k, made[l].start = made[k].start PROVE FALSE
    <3>1. back[l].start # back[k].start
      <4>1. Sober(words, back) /\ k \in DOMAIN back /\ l \in DOMAIN back
        BY <1>2, <2>1
      <4> HIDE DEF back
      <4> QED BY <2>1, <4>1 DEF Sober
    <3> HIDE DEF back
    <3>2. back[l] = Patch(made[l].start + by, made[l].end + by, made[l].text, made[l].rule)
      BY <1>3
    <3>3. back[k] = Patch(made[k].start + by, made[k].end + by, made[k].text, made[k].rule)
      BY <1>3
    <3>4. back[l].start = made[l].start + by
      BY <3>2 DEF Patch
    <3>5. back[k].start = made[k].start + by
      BY <3>3 DEF Patch
    <3> QED BY <2>1, <3>1, <3>4, <3>5
  <2> QED BY <2>1
<1> HIDE DEF back
<1>5. /\ IsSequence(order) /\ \A k \in DOMAIN order : \E j \in DOMAIN made : order[k] = made[j]
      /\ \A k, l \in DOMAIN order : k < l => order[l].start < order[k].start
  BY <1>4, SpliceOrderFalls
<1> HIDE DEF order
<1>6. IsPatches(order)
  BY <1>5 DEF IsPatches
<1>7. IsPatches(edits) /\ DOMAIN edits = DOMAIN order
  BY <1>6, ShiftedPatches
<1>8. \A k \in DOMAIN order : /\ edits[k].start = order[k].start + by /\ order[k].start \in Int
                              /\ \E j \in DOMAIN made : edits[k] = back[j]
  <2>1. ASSUME NEW k \in DOMAIN order
        PROVE  /\ edits[k].start = order[k].start + by /\ order[k].start \in Int
               /\ \E j \in DOMAIN made : edits[k] = back[j]
    <3>1. edits[k] = Patch(order[k].start + by, order[k].end + by, order[k].text, order[k].rule)
          /\ order[k].start \in Int
      BY <1>6, ShiftedAt
    <3>2. PICK j \in DOMAIN made : order[k] = made[j]
      BY <1>5
    <3>3. edits[k] = back[j]
      BY <1>3, <3>1, <3>2
    <3> HIDE DEF edits
    <3> QED BY <3>1, <3>3 DEF Patch
  <2> QED BY <2>1
<1> HIDE DEF edits
<1>9. ASSUME NEW k \in DOMAIN edits
      PROVE  /\ IsSequence(edits[k].text) /\ ~HasQuote(edits[k].text)
             /\ ~InQuotedSpan(Symbols(s.cells), edits[k])
             /\ edits[k].start \in Nat /\ edits[k].start < Len(s.cells)
  <2>1. IsClear(words, edits[k])
    BY <1>3, <1>7, <1>8
  <2>2. IsPatch(edits[k])
    BY <1>7 DEF IsPatches
  <2>3. edits[k].start \in Int /\ edits[k].end \in Int /\ IsSequence(edits[k].text)
    BY <2>2 DEF IsPatch
  <2>4. ~InQuotedSpan(words, edits[k]) /\ edits[k].start \in Nat /\ edits[k].start < Len(words)
    BY <1>1, <2>1, <2>3, ClearIsUnquoted
  <2> QED BY <1>1, <2>1, <2>3, <2>4 DEF IsClear
<1>10. \A k, l \in DOMAIN edits : k < l => edits[l].start < edits[k].start
  <2>1. ASSUME NEW k \in DOMAIN edits, NEW l \in DOMAIN edits, k < l PROVE edits[l].start < edits[k].start
    <3>1. order[l].start < order[k].start /\ order[k].start \in Int /\ order[l].start \in Int
      BY <1>5, <1>7, <1>8, <2>1
    <3>2. edits[l].start = order[l].start + by /\ edits[k].start = order[k].start + by
      BY <1>7, <1>8
    <3> QED BY <3>1, <3>2
  <2> QED BY <2>1
<1>11. IsSequence(edits)
  BY <1>7 DEF IsPatches
<1>12. Quiet(words, SplicedAll(s, edits))
  BY <1>1, <1>9, <1>10, <1>11, SplicesStayQuiet
<1> QED BY <1>12 DEF s, edits, order

LEMMA SettledStaysSober ==
  ASSUME NEW source, IsSequence(source), NEW p, IsPosition(source, p), NEW made, IsPatches(made),
         Sober(Slice(source, p), ShiftAll(made, -p.start)), NEW evidence
  PROVE  Sober(Slice(source, p), ShiftAll(SettledPatches(source, p, made, evidence), -p.start))
<1> DEFINE words == Slice(source, p)
           by == -p.start
           replayed == SplicedAll(Work(words, 0), ShiftAll(SpliceOrder(made), by))
           done == Recapitalized(replayed, evidence)
<1>1. IsSequence(words) /\ by \in Int /\ p.start \in Int
  BY SliceIs DEF IsPosition
<1>2. SettledPatches(source, p, made, evidence) = ShiftAll(done.patches, p.start)
  BY DEF SettledPatches
<1>3. Sober(words, ShiftAll(made, by))
  OBVIOUS
<1> HIDE DEF words, by
<1>4. Quiet(words, replayed)
  BY <1>1, <1>3, QuietReplay
<1> HIDE DEF replayed
<1>5. Quiet(words, done)
  BY <1>1, <1>4, QuietCapital
<1> HIDE DEF done
<1>6. Sober(words, done.patches)
  BY <1>5, QuietIsSober
<1>7. ShiftAll(ShiftAll(done.patches, p.start), -p.start) = done.patches
  BY <1>1, <1>6, ShiftedBack DEF Sober
<1> QED BY <1>2, <1>6, <1>7 DEF words

LEMMA GeneratedIsSober ==
  ASSUME NEW source, IsSequence(source), NEW p, IsPosition(source, p), NEW room \in Nat,
         NEW o, o = GenerateSentence(source, p, room)
  PROVE  \/ o.deleted /\ o.patches = <<WholePatch(p)>>
         \/ ~o.deleted /\ Sober(Slice(source, p), ShiftAll(o.patches, -p.start))
<1> DEFINE words == Slice(source, p)
<1>1. CASE GoesWhole(words, p)
  <2>1. o = OutcomeOf(TRUE, <<WholePatch(p)>>, 0, WholeHeld(words, p), 0)
    BY <1>1, GeneratedIs
  <2> QED BY <2>1 DEF OutcomeOf
<1>2. CASE ~GoesWhole(words, p)
  <2> DEFINE s == Stages(Opened(words, room, FirstHeld(words, p)))
  <2>1. o = Finished(s, p.start, room)
    BY <1>2, GeneratedIs
  <2>2. IsSequence(words)
    BY SliceIs
  <2> HIDE DEF words
  <2>3. Quiet(words, Opened(words, room, FirstHeld(words, p)))
    BY <2>2, OpenedIsQuiet
  <2>4. Quiet(words, s)
    BY <2>2, <2>3, QuietStages
  <2> HIDE DEF s
  <2>5. ~o.deleted /\ o.patches = ShiftAll(s.patches, p.start)
    BY <2>1 DEF Finished
  <2>6. Sober(words, s.patches)
    BY <2>4, QuietIsSober
  <2>7. ShiftAll(ShiftAll(s.patches, p.start), -p.start) = s.patches
    <3>1. p.start \in Int
      BY DEF IsPosition
    <3> QED BY <2>6, <3>1, ShiftedBack DEF Sober
  <2> QED BY <2>5, <2>6, <2>7 DEF words
<1> QED BY <1>1, <1>2

-----------------------------------------------------------------------------
(***************************************************************************)
(* What quotes a sentence, in the coordinates of the document.             *)
(***************************************************************************)
LEMMA SliceAt ==
  ASSUME NEW source, IsSequence(source), NEW p, IsPosition(source, p), NEW i \in 1 .. p.end - p.start
  PROVE  Slice(source, p)[i] = source[p.start + i]
<1> DEFINE a == p.start
           b == p.end
<1>1. a \in Nat /\ b \in Nat /\ b <= Len(source) /\ Len(source) \in Nat /\ i \in 1 .. b - a
  BY SequenceIs DEF IsPosition
<1>3. Slice(source, p) = SubSeq(source, a + 1, b)
  BY DEF Slice
<1> HIDE DEF a, b
<1>2. SubSeq(source, a + 1, b) = [k \in 1 .. (IF a + 1 <= b THEN (b - (a + 1)) + 1 ELSE 0) |-> source[((a + 1) + k) - 1]]
  <2>1. source \in Seq(Range(source)) /\ a + 1 \in Int /\ b \in Int
    BY <1>1 DEF IsSequence
  <2> DEFINE c == a + 1
  <2> HIDE DEF c
  <2>2. SubSeq(source, c, b) = [k \in 1 .. (IF c <= b THEN (b - c) + 1 ELSE 0) |-> source[(c + k) - 1]]
    BY <2>1 DEF c
  <2> QED BY <2>2 DEF c
<1>4. a + 1 <= b /\ (b - (a + 1)) + 1 = b - a /\ ((a + 1) + i) - 1 = a + i
  BY <1>1
<1>5. i \in 1 .. (IF a + 1 <= b THEN (b - (a + 1)) + 1 ELSE 0)
  BY <1>1, <1>4
<1>6. SubSeq(source, a + 1, b)[i] = source[((a + 1) + i) - 1]
  BY <1>2, <1>5
<1> QED BY <1>3, <1>4, <1>6 DEF a, b

\* The marks of a sentence before one of its symbols, counted in the document.
LEMMA MarksInSentence ==
  ASSUME NEW source, IsSequence(source), NEW p, IsPosition(source, p), NEW k \in p.start + 1 .. p.end
  PROVE  QuotesBefore(Slice(source, p), (k - 1) - p.start)
           = Cardinality({j \in {i \in p.start + 1 .. p.end : source[i] = Quote} : j < k})
<1> DEFINE a == p.start
           b == p.end
           words == Slice(source, p)
           n == (k - 1) - a
           A == {i \in 1 .. n : words[i] = Quote}
           B == {j \in {i \in a + 1 .. b : source[i] = Quote} : j < k}
           f == [i \in A |-> a + i]
<1>1. a \in Nat /\ b \in Nat /\ k \in a + 1 .. b
  BY DEF IsPosition
<1>2. \A i \in 1 .. b - a : words[i] = source[a + i]
  BY SliceAt
<1> HIDE DEF a, b, words
<1>3. n \in Nat /\ n < b - a
  BY <1>1
<1>4. ASSUME NEW i \in A PROVE a + i \in B /\ i \in Int
  <2>1. i \in 1 .. n /\ words[i] = Quote
    OBVIOUS
  <2>2. i \in 1 .. b - a /\ a + i \in a + 1 .. b /\ a + i < k
    BY <1>1, <1>3, <2>1
  <2>3. source[a + i] = Quote
    BY <1>2, <2>1, <2>2
  <2> QED BY <2>2, <2>3
<1>5. ASSUME NEW j \in B PROVE \E i \in A : f[i] = j
  <2>1. j \in a + 1 .. b /\ source[j] = Quote /\ j < k
    OBVIOUS
  <2>2. j - a \in 1 .. n /\ j - a \in 1 .. b - a /\ a + (j - a) = j
    BY <1>1, <2>1
  <2>3. words[j - a] = Quote
    BY <1>2, <2>1, <2>2
  <2>4. j - a \in A
    BY <2>2, <2>3
  <2> QED BY <2>2, <2>4
<1>6. \A i, l \in A : f[i] = f[l] => i = l
  BY <1>1, <1>4
<1>7. f \in Bijection(A, B)
  <2>1. f \in [A -> B]
    BY <1>4
  <2> HIDE DEF A, B, f
  <2> QED BY <1>5, <1>6, <2>1 DEF Bijection, Injection, Surjection, IsInjective
<1>8. IsFiniteSet(A)
  BY <1>3, MarksAreFinite
<1>9. Cardinality(A) = Cardinality(B)
  <2> HIDE DEF A, B, f
  <2> QED BY <1>7, <1>8, FS_Bijection DEF ExistsBijection
<1> QED BY <1>9 DEF QuotesBefore, a, b, words

\* Every offset of a quotation is sheltered in its sentence: a quotation is
\* what lies from a mark with an even number before it to the next one.
LEMMA QuotationIsSheltered ==
  ASSUME NEW source, IsSequence(source), NEW p, IsPosition(source, p),
         NEW marks, marks = {i \in p.start + 1 .. p.end : source[i] = Quote},
         NEW k \in marks, Cardinality({j \in marks : j < k}) % 2 = 0,
         NEW m \in marks, m > k, \A j \in marks : j > k => m <= j,
         NEW o \in k - 1 .. m - 1
  PROVE  o - p.start \in Sheltered(Slice(source, p))
<1> DEFINE a == p.start
           b == p.end
           words == Slice(source, p)
           n == o - a
<1>1. a \in Nat /\ b \in Nat /\ k \in a + 1 .. b /\ m \in a + 1 .. b /\ o \in Int
  BY DEF IsPosition
<1>2. \A i \in 1 .. b - a : words[i] = source[a + i]
  BY SliceAt
<1>3. Len(words) = b - a
  BY SliceIs
<1>4. source[k] = Quote /\ source[m] = Quote
  OBVIOUS
<1>5. QuotesBefore(words, (k - 1) - a) % 2 = 0
  <2>1. k \in p.start + 1 .. p.end
    OBVIOUS
  <2> QED BY <2>1, MarksInSentence
<1>6. \A j \in a + 1 .. b : j > k /\ j < m => source[j] # Quote
  BY <1>1
<1> HIDE DEF a, b, words
<1>7. n \in 0 .. (b - a) - 1 /\ a + (n + 1) = o + 1 /\ n + 1 \in 1 .. b - a
  BY <1>1
<1>8. words[n + 1] = source[o + 1]
  BY <1>2, <1>7
<1>9. CASE o = k - 1
  <2>1. o + 1 = k
    BY <1>1, <1>9
  <2> QED BY <1>3, <1>4, <1>7, <1>8, <2>1 DEF Sheltered, a, words
<1>10. CASE o = m - 1
  <2>1. o + 1 = m
    BY <1>1, <1>10
  <2> QED BY <1>3, <1>4, <1>7, <1>8, <2>1 DEF Sheltered, a, words
<1>11. CASE o # k - 1 /\ o # m - 1
  <2> DEFINE c == (k - 1) - a
             d == k - a
             A == {i \in 1 .. c : words[i] = Quote}
  <2>1. c \in Nat /\ d = c + 1 /\ d \in Nat /\ d <= n /\ a + d = k /\ d \in 1 .. b - a /\ n \in Nat
    BY <1>1, <1>7, <1>11
  <2>2. words[d] = Quote
    BY <1>2, <1>4, <2>1
  <2>3. \A i \in d + 1 .. n : words[i] # Quote
    <3>1. ASSUME NEW i \in d + 1 .. n PROVE words[i] # Quote
      <4>1. i \in 1 .. b - a /\ a + i \in a + 1 .. b /\ a + i > k /\ a + i < m
        BY <1>1, <1>7, <1>11, <2>1
      <4> QED BY <1>2, <1>6, <4>1
    <3> QED BY <3>1
  <2>4. QuotesBefore(words, n) = QuotesBefore(words, d)
    BY <2>1, <2>3, NoMarkBetween
  <2> HIDE DEF c, d
  <2>5. {i \in 1 .. d : words[i] = Quote} = A \cup {d} /\ d \notin A
    BY <2>1, <2>2
  <2>6. IsFiniteSet(A) /\ QuotesBefore(words, c) = Cardinality(A) /\ QuotesBefore(words, c) \in Nat
    BY <2>1, MarksAreFinite DEF QuotesBefore
  <2> HIDE DEF A
  <2>7. Cardinality(A \cup {d}) = Cardinality(A) + 1
    BY <2>5, <2>6, FS_AddElement
  <2>8. QuotesBefore(words, d) = QuotesBefore(words, c) + 1
    BY <2>5, <2>6, <2>7 DEF QuotesBefore
  <2>9. (QuotesBefore(words, c) + 1) % 2 = 1
    <3> DEFINE q == QuotesBefore(words, c)
    <3>1. q \in Nat /\ q % 2 = 0
      BY <1>5, <2>6 DEF c
    <3> HIDE DEF q
    <3>2. (q + 1) % 2 = 1
      BY <3>1
    <3> QED BY <3>2 DEF q
  <2>10. QuotesBefore(words, n) % 2 = 1
    BY <2>4, <2>8, <2>9
  <2> QED BY <1>3, <1>7, <2>10 DEF Sheltered, a, words
<1> QED BY <1>9, <1>10, <1>11

\* An edit of a sentence that takes nothing quoted in it.
IsOutside(source, p, e) ==
  /\ e.start \in Int /\ e.end \in Int
  /\ p.start <= e.start /\ e.start < e.end /\ e.end <= p.end
  /\ \A o \in e.start .. e.end - 1 : o - p.start \notin Sheltered(Slice(source, p))

IsAside(source, p, e) == e.rule = RITUAL \/ IsOutside(source, p, e)

\* What is clear in the coordinates of the sentence is outside in the document's.
LEMMA ClearIsOutside ==
  ASSUME NEW source, IsSequence(source), NEW p, IsPosition(source, p), NEW e, e.start \in Int, e.end \in Int,
         NEW s, s = e.start - p.start, NEW t, t = e.end - p.start,
         0 <= s, s < t, t <= Len(Slice(source, p)), \A o \in s .. t - 1 : o \notin Sheltered(Slice(source, p))
  PROVE  IsOutside(source, p, e)
<1> DEFINE a == p.start
           b == p.end
           x == e.start
           y == e.end
           S == Sheltered(Slice(source, p))
<1>1. a \in Nat /\ b \in Nat /\ x \in Int /\ y \in Int /\ s = x - a /\ t = y - a
  BY DEF IsPosition
<1>2. Len(Slice(source, p)) = b - a
  BY SliceIs
<1>3. \A o \in s .. t - 1 : o \notin S
  OBVIOUS
<1>4. 0 <= s /\ s < t /\ t <= b - a
  BY <1>2
<1> HIDE DEF a, b, x, y, S
<1>5. a <= x /\ x < y /\ y <= b
  BY <1>1, <1>4
<1>6. \A o \in x .. y - 1 : o - a \in s .. t - 1
  BY <1>1
<1> QED BY <1>1, <1>3, <1>5, <1>6 DEF IsOutside, a, b, x, y, S

LEMMA SoberIsAside ==
  ASSUME NEW source, IsSequence(source), NEW p, IsPosition(source, p), NEW made, IsPatches(made),
         Sober(Slice(source, p), ShiftAll(made, -p.start)), NEW k \in DOMAIN made
  PROVE  IsAside(source, p, made[k])
<1> DEFINE words == Slice(source, p)
           by == -p.start
           back == ShiftAll(made, by)
           e == made[k]
<1>1. p.start \in Int /\ by \in Int
  BY DEF IsPosition
<1>2. DOMAIN back = DOMAIN made
  BY <1>1, ShiftedPatches
<1>3. back[k] = Patch(e.start + by, e.end + by, e.text, e.rule) /\ e.start \in Int /\ e.end \in Int
  BY <1>1, ShiftedAt
<1>4. Sober(words, back)
  OBVIOUS
<1> HIDE DEF back, by, e
<1>5. IsClear(words, back[k])
  BY <1>2, <1>4 DEF Sober
<1>6. back[k].start = e.start + by /\ back[k].end = e.end + by
  BY <1>3 DEF Patch
<1> DEFINE s == e.start - p.start
           t == e.end - p.start
<1>7. back[k].start = s /\ back[k].end = t
  BY <1>1, <1>3, <1>6 DEF by
<1> HIDE DEF s, t, words
<1>8. 0 <= s /\ s < t /\ t <= Len(words) /\ \A o \in s .. t - 1 : o \notin Sheltered(words)
  BY <1>5, <1>7 DEF IsClear
<1>9. IsOutside(source, p, e)
  BY <1>3, <1>8, ClearIsOutside DEF s, t, words
<1> QED BY <1>9 DEF IsAside, e

\* What is collected for a sentence, cached or new, takes nothing quoted in it.
LEMMA SettledIsAside ==
  ASSUME NEW source, IsSequence(source), NEW p, IsPosition(source, p), NEW room \in Nat,
         NEW o, AsGood(o, GenerateSentence(source, p, room)), NEW evidence,
         NEW edits, edits = Settled(source, p, o, evidence).patches, NEW k \in DOMAIN edits
  PROVE  IsAside(source, p, edits[k])
<1> DEFINE u == GenerateSentence(source, p, room)
<1>1. IsOutcome(o) /\ IsOutcome(u) /\ (o.deleted <=> u.deleted) /\ o.patches = u.patches
  BY DEF AsGood
<1>2. \/ u.deleted /\ u.patches = <<WholePatch(p)>>
      \/ ~u.deleted /\ Sober(Slice(source, p), ShiftAll(u.patches, -p.start))
  BY GeneratedIsSober
<1> HIDE DEF u
<1>3. edits = IF o.deleted \/ ~p.starts THEN o.patches ELSE SettledPatches(source, p, o.patches, evidence)
  BY <1>1, SettledIs
<1>4. IsPatches(o.patches)
  BY <1>1 DEF IsOutcome
<1>5. CASE o.deleted
  <2>1. edits = <<WholePatch(p)>>
    BY <1>1, <1>2, <1>3, <1>5
  <2>2. WholePatch(p).rule = RITUAL
    BY DEF WholePatch, Patch
  <2> HIDE DEF u
  <2>3. edits[k].rule = RITUAL
    BY <2>1, <2>2, OneIs
  <2> QED BY <2>3 DEF IsAside
<1>6. CASE ~o.deleted
  <2>1. Sober(Slice(source, p), ShiftAll(o.patches, -p.start))
    BY <1>1, <1>2, <1>6
  <2>2. CASE ~p.starts
    <3>1. edits = o.patches
      BY <1>3, <2>2
    <3> QED BY <1>4, <2>1, <3>1, SoberIsAside
  <2>3. CASE p.starts
    <3>1. edits = SettledPatches(source, p, o.patches, evidence)
      BY <1>3, <1>6, <2>3
    <3>2. Sober(Slice(source, p), ShiftAll(edits, -p.start))
      BY <1>4, <2>1, <3>1, SettledStaysSober
    <3>3. IsPatches(edits)
      BY <1>4, <3>1, SettledArePatches
    <3> QED BY <3>2, <3>3, SoberIsAside
  <2> QED BY <2>2, <2>3
<1> QED BY <1>5, <1>6

LEMMA UnquotedIsNotSheltered ==
  ASSUME NEW words, NEW r, r.start \in Nat, r.end \in Nat, ~InQuotedSpan(words, r), NEW o \in r.start .. r.end - 1
  PROVE  o \notin Sheltered(words)
<1> DEFINE s == r.start
           t == r.end
<1>1. s \in Nat /\ t \in Nat /\ o \in s .. t - 1
  OBVIOUS
<1>2. (\A i \in s + 1 .. t : words[i] # Quote) /\ QuotesBefore(words, s) % 2 # 1
  BY DEF InQuotedSpan
<1> HIDE DEF s, t
<1>3. o \in Nat /\ s <= o /\ o + 1 \in s + 1 .. t /\ \A i \in s + 1 .. o : i \in s + 1 .. t
  BY <1>1
<1>4. words[o + 1] # Quote /\ \A i \in s + 1 .. o : words[i] # Quote
  BY <1>2, <1>3
<1>5. QuotesBefore(words, o) = QuotesBefore(words, s)
  BY <1>1, <1>3, <1>4, NoMarkBetween
<1> QED BY <1>2, <1>4, <1>5 DEF Sheltered

\* What a transducer finds in a sentence outside of quotations.
LEMMA HitIsOutside ==
  ASSUME NEW source, IsSequence(source), NEW p, IsPosition(source, p),
         NEW h \in HitsIn(Slice(source, p), p, TRUE)
  PROVE  IsOutside(source, p, HitPatch(h))
<1> DEFINE words == Slice(source, p)
           by == p.start
           hits == {x \in TransducerHits(words) : IsClause(words, p) /\ Passes(words, x) = TRUE}
<1>1. IsSequence(words) /\ Len(words) \in Nat /\ by \in Nat
  BY SliceIs, SequenceIs DEF IsPosition
<1>2. HitsIn(words, p, TRUE) = {Shift(x, by) : x \in hits}
  BY DEF HitsIn
<1>3. PICK x \in hits : h = Shift(x, by)
  BY <1>2
<1>4. x \in TransducerHits(words) /\ ~InQuotedSpan(words, x)
  BY DEF Passes
<1> HIDE DEF hits, words, by
<1>5. PICK k \in DOMAIN Transducers : \E at \in Matches(words, Transducers[k].pattern) :
         x = [rule |-> k, start |-> at, end |-> at + Len(Transducers[k].pattern)]
  BY <1>4 DEF TransducerHits
<1> DEFINE pattern == Transducers[k].pattern
           m == Len(pattern)
           n == Len(words)
<1>6. IsSequence(pattern) /\ pattern # <<>>
  BY TransducersAssumption
<1>7. PICK at \in Matches(words, pattern) : x = [rule |-> k, start |-> at, end |-> at + m]
  BY <1>5
<1>8. at \in 0 .. n - m
  BY DEF Matches
<1> HIDE DEF pattern
<1>9. m \in Nat /\ m # 0 /\ n \in Nat
  BY <1>1, <1>6, SequenceIs, EmptyIs
<1> HIDE DEF m, n
<1>10. at \in Nat /\ at + m \in Nat /\ at < at + m /\ at + m <= n
  BY <1>8, <1>9
<1>11. x.start = at /\ x.end = at + m /\ x.rule = k
  BY <1>7
<1>12. \A o \in at .. (at + m) - 1 : o \notin Sheltered(words)
  BY <1>4, <1>10, <1>11, UnquotedIsNotSheltered
<1>13. h.start = at + by /\ h.end = (at + m) + by
  <2> DEFINE moved == [x EXCEPT !.start = @ + by]
  <2>1. moved = [rule |-> k, start |-> at + by, end |-> at + m]
    BY <1>7
  <2>2. h = [moved EXCEPT !.end = (at + m) + by]
    BY <1>3, <1>7 DEF Shift
  <2> HIDE DEF moved
  <2> QED BY <2>1, <2>2
<1> DEFINE e == HitPatch(h)
<1>14. e.start = at + by /\ e.end = (at + m) + by
  BY <1>13 DEF HitPatch, Patch
<1> HIDE DEF e
<1> DEFINE s == e.start - p.start
           t == e.end - p.start
<1>15. e.start \in Int /\ e.end \in Int /\ s = at /\ t = at + m
  BY <1>1, <1>9, <1>10, <1>14 DEF by
<1> HIDE DEF s, t
<1>16. 0 <= s /\ s < t /\ t <= Len(words) /\ \A o \in s .. t - 1 : o \notin Sheltered(words)
  BY <1>10, <1>12, <1>15 DEF n
<1> QED BY <1>15, <1>16, ClearIsOutside DEF s, t, words, e

LEMMA RestructureIsAside ==
  ASSUME NEW source, IsSequence(source), NEW edits, edits = RestructureReport(source).patches,
         NEW k \in DOMAIN edits
  PROVE  \E i \in DOMAIN Positions(source) : IsAside(source, Positions(source)[i], edits[k])
<1> DEFINE H == RestructureHits(source, TRUE)
           f == [h \in H |-> HitPatch(h)]
           P == {HitPatch(h) : h \in H}
<1>1. edits = Resolve(source, SetToSeq(P))
  BY DEF RestructureReport, PassReport, RestructureCandidates, HitPatch
<1>2. IsFiniteSet(H)
  BY RestructureHitsAre
<1>3. IsFiniteSet(P)
  <2>1. f \in Surjection(H, P)
    BY DEF Surjection
  <2> HIDE DEF f, P, H
  <2> QED BY <1>2, <2>1, FS_Surjection
<1>4. H = UNION {HitsIn(Slice(source, p), p, TRUE) : p \in Range(Positions(source))}
  BY DEF RestructureHits
<1> HIDE DEF H
<1>5. ASSUME NEW e \in P PROVE \E i \in DOMAIN Positions(source) : IsAside(source, Positions(source)[i], e)
  <2>1. PICK h \in H : e = HitPatch(h)
    OBVIOUS
  <2>2. PICK p \in Range(Positions(source)) : h \in HitsIn(Slice(source, p), p, TRUE)
    BY <1>4
  <2>3. PICK i \in DOMAIN Positions(source) : p = Positions(source)[i]
    BY <2>2 DEF Range
  <2>4. IsPosition(source, p)
    BY <2>3, PositionsAre
  <2>5. IsOutside(source, p, e)
    BY <2>1, <2>2, <2>4, HitIsOutside
  <2> QED BY <2>3, <2>5 DEF IsAside
<1> HIDE DEF P
<1>6. edits \in Seq(P)
  BY <1>1, <1>3, SetAsSequence, ResolveIs
<1>7. edits[k] \in P
  BY <1>6, SequenceOf
<1> QED BY <1>5, <1>7

-----------------------------------------------------------------------------
(***************************************************************************)
(* Sentences do not overlap.                                               *)
(***************************************************************************)
LEMMA SentenceEndIsLeast ==
  ASSUME NEW source, IsSequence(source), NEW s \in Starts(source)
  PROVE  /\ SentenceEnd(source, s) <= UnitEnd(source, s)
         /\ \A e \in s + 1 .. UnitEnd(source, s) :
              source[e] \in Terminal /\ source[e + 1] = Space => SentenceEnd(source, s) <= e
<1> DEFINE last == UnitEnd(source, s)
           Marks == {e \in s + 1 .. last : source[e] \in Terminal /\ (e = Len(source) \/ source[e + 1] = Space)}
           Ends == {last} \cup Marks
<1>1. s \in Nat /\ last \in s + 1 .. Len(source) /\ Len(source) \in Nat
  BY StartsAre, UnitEndIs
<1>2. SentenceEnd(source, s) = Min(Ends)
  BY DEF SentenceEnd
<1> HIDE DEF last
<1>3. Ends \subseteq Nat /\ Ends # {}
  BY <1>1
<1>4. last \in Ends /\ \A e \in s + 1 .. last : source[e] \in Terminal /\ source[e + 1] = Space => e \in Ends
  OBVIOUS
<1> HIDE DEF Ends
<1>5. \A e \in Ends : Min(Ends) <= e
  BY <1>3, MinIs
<1> QED BY <1>2, <1>4, <1>5 DEF last

LEMMA EndsBeforeNext ==
  ASSUME NEW source, IsSequence(source), NEW s \in Starts(source), NEW t \in Starts(source), s < t
  PROVE  SentenceEnd(source, s) <= t
<1> DEFINE n == Len(source)
           last == UnitEnd(source, s)
           end == SentenceEnd(source, s)
           seen == {i \in 1 .. t : source[i] \notin {Space}}
           j == Max(seen)
<1>1. s \in Nat /\ t \in Nat /\ n \in Nat /\ IsProse(source[s + 1]) /\ t + 1 \in 1 .. n
  BY StartsAre
<1>2. last \in s + 1 .. n /\ \A i \in s + 1 .. last : source[i] \notin Structure
  BY UnitEndIs
<1>3. end \in s + 1 .. n /\ end <= last
      /\ \A e \in s + 1 .. last : source[e] \in Terminal /\ source[e + 1] = Space => end <= e
  BY SentenceEndIs, SentenceEndIsLeast
<1>4. LastBefore(source, t, {Space}) = IF seen = {} THEN Break ELSE source[j]
  BY DEF LastBefore
<1>5. LastBefore(source, t, {Space}) \in Structure
      \/ (LastBefore(source, t, {Space}) \in Terminal /\ source[t] = Space)
  BY DEF Starts, IsStart
<1> HIDE DEF n, last, end
<1>6. s + 1 \in seen
  <2>1. source[s + 1] # Space
    BY <1>1 DEF IsProse
  <2>2. s + 1 \in 1 .. t
    BY <1>1
  <2> QED BY <2>1, <2>2
<1>7. seen \subseteq 0 .. t
  BY <1>1
<1>8. \A i \in seen : i \in 1 .. t /\ source[i] # Space
  OBVIOUS
<1>9. \A i \in 1 .. t : i \notin seen => source[i] = Space
  OBVIOUS
<1> HIDE DEF seen
<1>10. j \in seen /\ \A i \in seen : i <= j
  BY <1>1, <1>6, <1>7, MaxIsWithin
<1>11. LastBefore(source, t, {Space}) = source[j]
  BY <1>4, <1>6
<1> HIDE DEF j
<1>12. j \in 1 .. t /\ s + 1 <= j /\ source[j] # Space
  BY <1>6, <1>8, <1>10
<1>13. CASE source[j] \in Structure
  <2>1. ~(j \in s + 1 .. last)
    BY <1>2, <1>13
  <2>2. last < j
    BY <1>1, <1>2, <1>12, <2>1
  <2> QED BY <1>1, <1>2, <1>3, <1>12, <2>2 DEF end
<1>14. CASE source[j] \in Terminal /\ source[t] = Space
  <2>1. j # t
    BY <1>12, <1>14
  <2>2. j + 1 \in 1 .. t /\ ~(j + 1 <= j)
    BY <1>1, <1>12, <2>1
  <2>3. source[j + 1] = Space
    BY <1>9, <1>10, <2>2
  <2>4. CASE j <= last
    <3>1. j \in s + 1 .. last
      BY <1>1, <1>2, <1>12, <2>4
    <3>2. end <= j
      BY <1>3, <1>14, <2>3, <3>1
    <3> QED BY <1>1, <1>3, <1>12, <3>2 DEF end
  <2>5. CASE ~(j <= last)
    <3>1. end <= t
      BY <1>1, <1>2, <1>3, <1>12, <2>5
    <3> QED BY <3>1 DEF end
  <2> QED BY <2>4, <2>5
<1> QED BY <1>5, <1>11, <1>13, <1>14

\* Two sentences of a text are one and the same, or lie apart.
LEMMA SentencesLieApart ==
  ASSUME NEW source, IsSequence(source), NEW i \in DOMAIN Positions(source), NEW l \in DOMAIN Positions(source),
         NEW p, p = Positions(source)[i], NEW q, q = Positions(source)[l]
  PROVE  p = q \/ p.end <= q.start \/ q.end <= p.start
<1> DEFINE starts == InOrder(Starts(source), Len(source))
           s == starts[i]
           t == starts[l]
<1>1. Len(source) \in Nat
  BY SequenceIs
<1>2. starts \in Seq(Starts(source) \cap 0 .. Len(source) - 1)
  BY <1>1, InOrderIs
<1>3. Positions(source) = [k \in DOMAIN starts |-> Position(source, starts[k])]
  BY DEF Positions
<1> HIDE DEF starts
<1>4. i \in DOMAIN starts /\ l \in DOMAIN starts /\ p = Position(source, s) /\ q = Position(source, t)
  BY <1>3
<1>5. s \in Starts(source) /\ t \in Starts(source)
  BY <1>2, <1>4, SequenceOf
<1> HIDE DEF s, t
<1>6. /\ p.start = s /\ p.end = SentenceEnd(source, s)
      /\ q.start = t /\ q.end = SentenceEnd(source, t)
  BY <1>4 DEF Position
<1>7. s \in Nat /\ t \in Nat
  BY <1>5, StartsAre
<1>8. CASE s = t
  BY <1>4, <1>8
<1>9. CASE s < t
  <2>1. SentenceEnd(source, s) <= t
    BY <1>5, <1>9, EndsBeforeNext
  <2> QED BY <1>6, <2>1
<1>10. CASE t < s
  <2>1. SentenceEnd(source, t) <= s
    BY <1>5, <1>10, EndsBeforeNext
  <2> QED BY <1>6, <2>1
<1> QED BY <1>7, <1>8, <1>9, <1>10

\* The quotations of a sentence of any text (Quotations, for `current').
QuotationsOf(source, position) ==
  LET marks == {k \in position.start + 1 .. position.end : source[k] = Quote}
      odd   == {k \in marks : Cardinality({j \in marks : j < k}) % 2 = 0}
  IN  {Span(k - 1, Min({j \in marks : j > k})) : k \in {o \in odd : \E j \in marks : j > o}}

LEMMA QuotationIsKept ==
  ASSUME NEW source, IsSequence(source), NEW i \in DOMAIN Positions(source), NEW l \in DOMAIN Positions(source),
         NEW e, IsOutside(source, Positions(source)[i], e), NEW q \in QuotationsOf(source, Positions(source)[l])
  PROVE  ~RangesOverlap(e, q)
<1> DEFINE p == Positions(source)[i]
           u == Positions(source)[l]
           marks == {k \in u.start + 1 .. u.end : source[k] = Quote}
           odd == {k \in marks : Cardinality({j \in marks : j < k}) % 2 = 0}
<1>1. IsPosition(source, p) /\ IsPosition(source, u)
  BY PositionsAre
<1>2. p = u \/ p.end <= u.start \/ u.end <= p.start
  BY SentencesLieApart
<1>3. IsOutside(source, p, e) /\ q \in QuotationsOf(source, u)
  OBVIOUS
<1> HIDE DEF p, u
<1>4. PICK k \in {o \in odd : \E j \in marks : j > o} : q = Span(k - 1, Min({j \in marks : j > k}))
  BY <1>3 DEF QuotationsOf
<1> DEFINE later == {j \in marks : j > k}
           m == Min(later)
<1>5. k \in marks /\ Cardinality({j \in marks : j < k}) % 2 = 0 /\ later # {}
  OBVIOUS
<1>6. marks \subseteq u.start + 1 .. u.end /\ u.start \in Nat /\ u.end \in Nat
  BY <1>1 DEF IsPosition
<1>7. later \subseteq Nat
  BY <1>6
<1>8. m \in later /\ \A y \in later : m <= y
  <2> HIDE DEF later
  <2> QED BY <1>5, <1>7, MinIs
<1>9. m \in marks /\ m > k /\ \A j \in marks : j > k => m <= j
  BY <1>8
<1>10. q = Span(k - 1, m)
  BY <1>4
<1> HIDE DEF m, later
<1>11. \A o \in k - 1 .. m - 1 : o - u.start \in Sheltered(Slice(source, u))
  BY <1>1, <1>5, <1>9, QuotationIsSheltered
<1>12. k \in u.start + 1 .. u.end /\ m \in u.start + 1 .. u.end /\ k < m
  BY <1>5, <1>6, <1>9
<1>13. q.start = k - 1 /\ q.end = m
  BY <1>10 DEF Span
<1> HIDE DEF odd, marks
<1> DEFINE a == e.start
           b == e.end
           pa == p.start
           pb == p.end
           ua == u.start
           ub == u.end
<1>14. a \in Int /\ b \in Int /\ pa <= a /\ a < b /\ b <= pb
       /\ \A o \in a .. b - 1 : o - pa \notin Sheltered(Slice(source, p))
  BY <1>3 DEF IsOutside
<1>15. pa \in Nat /\ pb \in Nat /\ ua \in Nat /\ ub \in Nat
  BY <1>1 DEF IsPosition
<1>16. SUFFICES ASSUME RangesOverlap(e, q) PROVE FALSE
  OBVIOUS
<1>17. a < m /\ k - 1 < b
  <2>1. ~IsEmptySpan(e)
    BY <1>14 DEF IsEmptySpan
  <2>2. ~IsEmptySpan(q)
    BY <1>12, <1>13 DEF IsEmptySpan
  <2>3. e.start < q.end /\ q.start < e.end
    BY <1>16, <2>1, <2>2 DEF RangesOverlap
  <2> QED BY <1>13, <2>3
<1>18. CASE p = u
  <2> DEFINE o == IF a >= k - 1 THEN a ELSE k - 1
  <2>1. \A x \in k - 1 .. m - 1 : x \notin a .. b - 1
    BY <1>11, <1>14, <1>18
  <2> HIDE DEF a, b
  <2>2. o \in k - 1 .. m - 1 /\ o \in a .. b - 1
    BY <1>12, <1>14, <1>17
  <2> QED BY <2>1, <2>2
<1>19. CASE p.end <= u.start
  <2>1. pb <= ua /\ k \in ua + 1 .. ub
    BY <1>12, <1>19
  <2> HIDE DEF a, b, pa, pb, ua, ub
  <2> QED BY <1>14, <1>15, <1>17, <2>1
<1>20. CASE u.end <= p.start
  <2>1. ub <= pa /\ m \in ua + 1 .. ub
    BY <1>12, <1>20
  <2> HIDE DEF a, b, pa, pb, ua, ub
  <2> QED BY <1>14, <1>15, <1>17, <2>1
<1> QED BY <1>2, <1>18, <1>19, <1>20

-----------------------------------------------------------------------------
(***************************************************************************)
(* The walk collects nothing that takes a quotation.                       *)
(***************************************************************************)
SparesQuotations(source, edits) ==
  \A k \in DOMAIN edits : \E i \in DOMAIN Positions(source) : IsAside(source, Positions(source)[i], edits[k])

Spared == phase = "edit" => SparesQuotations(text, candidates)

QuoteInv == PassInv /\ Spared

LEMMA MoreSpared ==
  ASSUME NEW source, NEW made, IsSequence(made), NEW more, IsSequence(more),
         SparesQuotations(source, made), SparesQuotations(source, more)
  PROVE  SparesQuotations(source, made \o more)
<1>1. SUFFICES ASSUME NEW k \in DOMAIN (made \o more)
               PROVE  \E i \in DOMAIN Positions(source) : IsAside(source, Positions(source)[i], (made \o more)[k])
  BY DEF SparesQuotations
<1>2. (\E j \in DOMAIN made : (made \o more)[k] = made[j]) \/ (\E j \in DOMAIN more : (made \o more)[k] = more[j])
  BY JoinedIs
<1> QED BY <1>2 DEF SparesQuotations

LEMMA CollectSpares ==
  ASSUME PassInv, Spared, Editing, NEW o, AsGood(o, GenerateSentence(text, Here, budget)), Collect(o)
  PROVE  Spared'
<1>1. /\ phase = "edit" /\ positions = Positions(text)
      /\ next \in 1 .. Len(positions) + 1 /\ next <= Len(positions)
  BY DEF PassInv, Collecting, Editing
<1>2. IsSequence(text) /\ budget \in Nat /\ IsPatches(candidates)
  BY DEF PassInv, Typed
<1>3. next \in DOMAIN positions
  BY <1>1, <1>2, PositionsAre, SequenceIs
<1>4. IsPosition(text, Here) /\ Here = Positions(text)[next] /\ next \in DOMAIN Positions(text)
  BY <1>1, <1>2, <1>3, PositionsAre DEF Here
<1> DEFINE more == Settled(text, Here, o, casing).patches
<1>5. candidates' = candidates \o more /\ UNCHANGED <<text, phase>>
  BY DEF Collect
<1>6. IsPatches(more)
  BY <1>2, <1>4, SettledTyped DEF AsGood
<1>7. \A k \in DOMAIN more : IsAside(text, Here, more[k])
  BY <1>2, <1>4, SettledIsAside
<1> HIDE DEF more
<1>8. SparesQuotations(text, more)
  BY <1>4, <1>7 DEF SparesQuotations
<1>9. SparesQuotations(text, candidates)
  BY <1>1 DEF Spared
<1>10. SparesQuotations(text, candidates \o more)
  BY <1>2, <1>6, <1>8, <1>9, MoreSpared DEF IsPatches
<1> QED BY <1>5, <1>10 DEF Spared

LEMMA HereIs ==
  ASSUME PassInv, Editing
  PROVE  IsSequence(text) /\ budget \in Nat /\ IsPosition(text, Here)
<1>1. /\ positions = Positions(text) /\ next \in 1 .. Len(positions) + 1 /\ next <= Len(positions)
      /\ IsSequence(text) /\ budget \in Nat
  BY DEF PassInv, Typed, Collecting, Editing
<1>2. next \in DOMAIN positions
  BY <1>1, PositionsAre, SequenceIs
<1> QED BY <1>1, <1>2, PositionsAre DEF Here

LEMMA InitQuoteInv == Init => QuoteInv
BY InitPassInv DEF Init, QuoteInv, Spared

LEMMA StepKeepsQuoteInv == QuoteInv /\ [Next]_vars => QuoteInv'
<1> SUFFICES ASSUME QuoteInv, [Next]_vars PROVE QuoteInv'
  OBVIOUS
<1>1. PassInv /\ Spared
  BY DEF QuoteInv
<1>2. PassInv'
  BY <1>1, StepKeepsPassInv
<1>3. Spared'
  <2>1. CASE UNCHANGED vars
    BY <1>1, <2>1 DEF vars, walk, report, Spared
  <2>2. CASE Segment
    <3>1. candidates' = <<>>
      BY <2>2 DEF Segment
    <3>2. DOMAIN candidates' = {}
      BY <3>1, EmptyIs
    <3> QED BY <3>2 DEF Spared, SparesQuotations
  <2>3. CASE EditHit
    <3>1. PICK key : /\ key = Key(text, Here, budget) /\ key \in DOMAIN cache
                     /\ Collect(Rebase(cache[key], Here, budget))
      BY <2>3 DEF EditHit
    <3>2. Editing
      BY <2>3 DEF EditHit
    <3>3. KeptFresh(key, cache[key])
      BY <1>1, <3>1 DEF PassInv, SoundCache
    <3>4. IsSequence(text) /\ budget \in Nat /\ IsPosition(text, Here)
      BY <1>1, <3>2, HereIs
    <3>5. AsGood(Rebase(cache[key], Here, budget), GenerateSentence(text, Here, budget))
      BY <3>1, <3>3, <3>4, HitIsAsGood
    <3> QED BY <1>1, <3>1, <3>2, <3>5, CollectSpares
  <2>4. CASE EditMiss
    <3>1. Editing /\ Collect(GenerateSentence(text, Here, budget))
      BY <2>4 DEF EditMiss, Record
    <3>2. IsSequence(text) /\ budget \in Nat /\ IsPosition(text, Here)
      BY <1>1, <3>1, HereIs
    <3>3. AsGood(GenerateSentence(text, Here, budget), GenerateSentence(text, Here, budget))
      BY <3>2, MissIsAsGood
    <3> QED BY <1>1, <3>1, <3>3, CollectSpares
  <2>5. CASE EndPass
    <3>1. phase' # "edit"
      BY <2>5 DEF EndPass, AfterPass
    <3> QED BY <3>1 DEF Spared
  <2>6. CASE RestructurePass
    <3>1. phase' = "done"
      BY <2>6 DEF RestructurePass, EndRestructure
    <3> QED BY <3>1 DEF Spared
  <2>7. CASE FixAgain
    <3>1. phase' = "segment"
      BY <2>7 DEF FixAgain
    <3> QED BY <3>1 DEF Spared
  <2> QED BY <2>1, <2>2, <2>3, <2>4, <2>5, <2>6, <2>7 DEF Next
<1> QED BY <1>2, <1>3 DEF QuoteInv

LEMMA SparedKeepsQuotations ==
  ASSUME NEW source, IsSequence(source), NEW edits, SparesQuotations(source, edits),
         NEW e \in Range(edits), e.rule # RITUAL,
         NEW position \in Range(Positions(source)), NEW q \in QuotationsOf(source, position)
  PROVE  ~RangesOverlap(e, q)
<1>1. PICK k \in DOMAIN edits : e = edits[k]
  BY DEF Range
<1>2. PICK i \in DOMAIN Positions(source) : IsAside(source, Positions(source)[i], e)
  BY <1>1 DEF SparesQuotations
<1>3. PICK l \in DOMAIN Positions(source) : position = Positions(source)[l]
  BY DEF Range
<1>4. IsOutside(source, Positions(source)[i], e)
  BY <1>2 DEF IsAside
<1> QED BY <1>2, <1>3, <1>4, QuotationIsKept

LEMMA QuoteInvKeepsQuotations == QuoteInv => QuotedTextIsKept
<1> SUFFICES ASSUME QuoteInv, NEW p \in Range(Pending), p.rule # RITUAL,
                    NEW position \in Range(Positions(text)), NEW quotation \in Quotations(position)
             PROVE  ~RangesOverlap(p, quotation)
  BY DEF QuotedTextIsKept
<1>1. IsSequence(text) /\ Spared
  BY DEF QuoteInv, PassInv, Typed
<1>2. quotation \in QuotationsOf(text, position)
  BY DEF Quotations, QuotationsOf
<1>3. SparesQuotations(text, Pending)
  <2>1. CASE phase = "edit"
    BY <1>1, <2>1 DEF Pending, Spared
  <2>2. CASE phase = "restructure"
    <3>1. Pending = RestructureReport(text).patches
      BY <2>2 DEF Pending
    <3> QED BY <1>1, <3>1, RestructureIsAside DEF SparesQuotations
  <2>3. CASE phase # "edit" /\ phase # "restructure"
    <3>1. Pending = <<>>
      BY <2>3 DEF Pending
    <3>2. DOMAIN Pending = {}
      BY <3>1, EmptyIs
    <3> QED BY <3>2 DEF SparesQuotations
  <2> QED BY <2>1, <2>2, <2>3
<1> QED BY <1>1, <1>2, <1>3, SparedKeepsQuotations

\* Text quoted inside one sentence is left alone in every reachable state, by
\* every operation of both passes and of restructure but the deletion of the
\* whole sentence: the gate of each stage judges the sentence as earlier stages
\* left it (in_quoted_span), a widened deletion, a frame's two edits, a
\* replayed or a cached outcome and a recapitalization included.
THEOREM QuotationsAreLeftAlone == Spec => []QuotedTextIsKept
BY InitQuoteInv, StepKeepsQuoteInv, QuoteInvKeepsQuotations, PTL DEF Spec
=============================================================================
