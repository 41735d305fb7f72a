--------------------------- MODULE SentenceProofs ---------------------------
(***************************************************************************)
(* One sentence under the stages, for all texts, packs and budgets.        *)
(*                                                                         *)
(* Two runs that differ in their budget alone stay Alike, and take equally *)
(* often, as long as both have room for the takes still to come (Took): a  *)
(* sentence takes at most three times (StagesTake).                        *)
(*                                                                         *)
(* A stage leaves quoted text alone.  The gate it asks (in_quoted_span)    *)
(* counts the marks before a span in the working text, as earlier edits    *)
(* left it; what must not be taken are offsets of the original sentence    *)
(* (Sheltered).  Faithful ties the two: the cells still hold every         *)
(* sheltered symbol, in order, and no mark but the sentence's own, so as   *)
(* many marks stand before a cell as before its place in the sentence      *)
(* (SameMarksBefore).  Quiet adds that the patches recorded so far take no *)
(* sheltered symbol, and every stage keeps it (QuietStages), those that    *)
(* plan all their edits on one working text and make them from the right   *)
(* included (PlansStayQuiet).                                              *)
(***************************************************************************)
EXTENDS Sentence, FiniteSetTheorems, SequenceTheorems, WellFoundedInduction, NaturalsInduction, TLAPS

-----------------------------------------------------------------------------
(***************************************************************************)
(* Induction, for the folds.                                               *)
(***************************************************************************)
(* Every set of naturals has a least number, and so induction holds. *)
LEMMA LeastNat ==
  ASSUME NEW T, T \subseteq Nat, T # {}
  PROVE  \E x \in T : \A y \in T : x <= y
<1> DEFINE R == OpToRel(<, Nat)
<1>1. IsWellFoundedOn(R, Nat)
  BY NatLessThanWellFounded
<1> HIDE DEF R
<1>2. PICK x \in T : \A y \in T : ~ (<<y, x>> \in R)
  BY <1>1, WFMin
<1>3. \A y \in T : ~(y < x)
  BY <1>2 DEF OpToRel, R
<1> QED BY <1>2, <1>3

LEMMA NatInduct ==
  ASSUME NEW T, 0 \in T, \A n \in Nat : n \in T => n + 1 \in T
  PROVE  Nat \subseteq T
<1> DEFINE U == Nat \ T
<1>1. SUFFICES ASSUME U # {} PROVE FALSE
  OBVIOUS
<1>2. PICK x \in U : \A y \in U : x <= y
  <2> HIDE DEF U
  <2>1. U \subseteq Nat
    BY DEF U
  <2> QED BY <1>1, <2>1, LeastNat
<1>3. x # 0 /\ x \in Nat /\ x \notin T
  BY <1>2
<1>4. x - 1 \in Nat
  BY <1>3
<1>5. x - 1 \in T
  BY <1>2, <1>4
<1>6. (x - 1) + 1 \in T
  BY <1>4, <1>5
<1> QED BY <1>3, <1>6

-----------------------------------------------------------------------------
(***************************************************************************)
(* Sequences of anything, and the typed parts of a text's edits.           *)
(***************************************************************************)

LEMMA SequenceIs ==
  ASSUME NEW s, IsSequence(s)
  PROVE  Len(s) \in Nat /\ DOMAIN s = 1 .. Len(s) /\ s = [k \in 1 .. Len(s) |-> s[k]]
BY DEF IsSequence

LEMMA SequenceOf ==
  ASSUME NEW S, NEW s \in Seq(S)
  PROVE  IsSequence(s) /\ \A k \in DOMAIN s : s[k] \in S
<1>1. Len(s) \in Nat /\ s \in [1 .. Len(s) -> S]
  OBVIOUS
<1>2. s \in [1 .. Len(s) -> Range(s)]
  BY <1>1 DEF Range
<1> QED BY <1>1, <1>2 DEF IsSequence

LEMMA Listed ==
  ASSUME NEW n \in Nat, NEW s, s = [k \in 1 .. n |-> s[k]]
  PROVE  IsSequence(s) /\ Len(s) = n
<1>1. DOMAIN s = 1 .. n
  OBVIOUS
<1>2. s \in [1 .. n -> Range(s)]
  BY <1>1 DEF Range
<1> QED BY <1>2 DEF IsSequence

\* A set that holds the elements of two sequences.
LEMMA InBoth ==
  ASSUME NEW s, IsSequence(s), NEW t, IsSequence(t)
  PROVE  s \in Seq(Range(s) \cup Range(t)) /\ t \in Seq(Range(s) \cup Range(t))
BY DEF IsSequence

LEMMA JoinedIs ==
  ASSUME NEW s, IsSequence(s), NEW t, IsSequence(t)
  PROVE  /\ IsSequence(s \o t)
         /\ Len(s \o t) = Len(s) + Len(t)
         /\ \A k \in DOMAIN (s \o t) :
              \/ k \in DOMAIN s /\ (s \o t)[k] = s[k]
              \/ k - Len(s) \in DOMAIN t /\ (s \o t)[k] = t[k - Len(s)]
<1> DEFINE S == Range(s) \cup Range(t)
<1>1. s \in Seq(S) /\ t \in Seq(S)
  BY InBoth
<1> HIDE DEF S
<1>2. s \o t \in Seq(S)
  BY <1>1
<1>3. IsSequence(s \o t)
  BY <1>2, SequenceOf
<1>4. /\ Len(s \o t) = Len(s) + Len(t)
      /\ \A k \in 1 .. Len(s) + Len(t) :
           IF k <= Len(s) THEN k \in 1 .. Len(s) /\ (s \o t)[k] = s[k]
           ELSE k - Len(s) \in 1 .. Len(t) /\ (s \o t)[k] = t[k - Len(s)]
  BY <1>1
<1>5. DOMAIN s = 1 .. Len(s) /\ DOMAIN t = 1 .. Len(t) /\ DOMAIN (s \o t) = 1 .. Len(s) + Len(t)
  BY <1>3, <1>4, SequenceIs
<1> QED BY <1>3, <1>4, <1>5

LEMMA PieceIs ==
  ASSUME NEW s, IsSequence(s), NEW a \in Int, NEW b \in Int, 1 <= a, b <= Len(s)
  PROVE  /\ IsSequence(SubSeq(s, a, b))
         /\ \A k \in DOMAIN SubSeq(s, a, b) : \E j \in DOMAIN s : SubSeq(s, a, b)[k] = s[j]
<1>1. SubSeq(s, a, b) = [k \in 1 .. (IF a <= b THEN (b - a) + 1 ELSE 0) |-> s[(a + k) - 1]]
  BY DEF IsSequence
<1>2. SubSeq(s, a, b) \in Seq(Range(s))
  <2>1. \A k \in 1 .. (IF a <= b THEN (b - a) + 1 ELSE 0) : (a + k) - 1 \in DOMAIN s
    BY SequenceIs
  <2>2. \A k \in 1 .. (IF a <= b THEN (b - a) + 1 ELSE 0) : s[(a + k) - 1] \in Range(s)
    BY <2>1 DEF Range
  <2> QED BY <1>1, <2>2
<1>3. IsSequence(SubSeq(s, a, b)) /\ \A k \in DOMAIN SubSeq(s, a, b) : SubSeq(s, a, b)[k] \in Range(s)
  BY <1>2, SequenceOf
<1> QED BY <1>3 DEF Range

LEMMA OneIs == ASSUME NEW x PROVE IsSequence(<<x>>) /\ Len(<<x>>) = 1 /\ <<x>>[1] = x /\ DOMAIN <<x>> = {1}
<1>1. <<x>> \in Seq({x})
  OBVIOUS
<1>2. IsSequence(<<x>>)
  BY <1>1, SequenceOf
<1> QED BY <1>2, SequenceIs

LEMMA EmptyIs == IsSequence(<<>>) /\ Len(<<>>) = 0 /\ DOMAIN <<>> = {}
<1>1. <<>> \in Seq({})
  OBVIOUS
<1>2. IsSequence(<<>>)
  BY <1>1, SequenceOf
<1> QED BY <1>2, SequenceIs

LEMMA AppendedIs ==
  ASSUME NEW s, IsSequence(s), NEW x
  PROVE  /\ IsSequence(Append(s, x)) /\ Len(Append(s, x)) = Len(s) + 1
         /\ \A k \in DOMAIN Append(s, x) : \/ k \in DOMAIN s /\ Append(s, x)[k] = s[k]
                                           \/ Append(s, x)[k] = x
<1> DEFINE S == Range(s) \cup {x}
<1>1. s \in Seq(S)
  BY DEF IsSequence
<1>2. x \in S
  OBVIOUS
<1> HIDE DEF S
<1>3. Append(s, x) \in Seq(S)
  BY <1>1, <1>2
<1>4. IsSequence(Append(s, x))
  BY <1>3, SequenceOf
<1>5. /\ Len(Append(s, x)) = Len(s) + 1
      /\ \A k \in 1 .. Len(s) + 1 : IF k <= Len(s) THEN k \in 1 .. Len(s) /\ Append(s, x)[k] = s[k]
                                   ELSE Append(s, x)[k] = x
  BY <1>1, <1>2
<1>6. DOMAIN s = 1 .. Len(s) /\ DOMAIN Append(s, x) = 1 .. Len(s) + 1
  BY <1>4, <1>5, SequenceIs
<1> QED BY <1>4, <1>5, <1>6

-----------------------------------------------------------------------------
(***************************************************************************)
(* The state of a run of the stages, and runs that differ in their budget. *)
(***************************************************************************)

IsPatch(p) ==
  /\ p = Patch(p.start, p.end, p.text, p.rule)
  /\ p.start \in Int /\ p.end \in Int /\ IsSequence(p.text)
IsPatches(ps) == IsSequence(ps) /\ \A k \in DOMAIN ps : IsPatch(ps[k])
IsCells(w) == IsSequence(w) /\ \A k \in DOMAIN w : w[k].at \in Int

WorkOf(words, cells, recorded, noted, room, pivoted, refused) ==
  [text |-> words, cells |-> cells, patches |-> recorded, held |-> noted,
   budget |-> room, pivoted |-> pivoted, declined |-> refused]
IsWork(s) ==
  /\ s = WorkOf(s.text, s.cells, s.patches, s.held, s.budget, s.pivoted, s.declined)
  /\ IsCells(s.cells) /\ IsPatches(s.patches) /\ s.budget \in Nat

\* Two runs in the same state but for their budget.
Alike(s, t) ==
  /\ IsWork(s) /\ IsWork(t)
  /\ s.text = t.text /\ s.cells = t.cells /\ s.patches = t.patches /\ s.held = t.held
  /\ s.pivoted = t.pivoted /\ s.declined = t.declined

\* Two runs that a step has left alike, and whose budgets it has left alone.
Kept(s, t, a, b) == Alike(a, b) /\ a.budget = s.budget /\ b.budget = t.budget

LEMMA CellsJoined ==
  ASSUME NEW v, IsCells(v), NEW w, IsCells(w)
  PROVE  IsCells(v \o w)
BY JoinedIs DEF IsCells

LEMMA EditedIsCells ==
  ASSUME NEW w, IsCells(w), NEW r, CanEdit(w, r), NEW words, IsSequence(words)
  PROVE  /\ IsCells(Edited(w, r, words))
         /\ RemovedSpan(w, r).start \in Int /\ RemovedSpan(w, r).end \in Int
<1>1. /\ Len(w) \in Nat /\ DOMAIN w = 1 .. Len(w)
      /\ r.start \in 0 .. Len(w) - 1 /\ r.end \in r.start + 1 .. Len(w)
  BY SequenceIs DEF IsCells, CanEdit
<1>2. r.start \in Int /\ r.end \in Int /\ r.start + 1 \in DOMAIN w /\ r.end \in DOMAIN w
  BY <1>1
<1>3. IsCells(SubSeq(w, 1, r.start)) /\ IsCells(SubSeq(w, r.end + 1, Len(w)))
  <2>1. ASSUME NEW a \in Int, NEW b \in Int, 1 <= a, b <= Len(w)
        PROVE  IsCells(SubSeq(w, a, b))
    <3>1. /\ IsSequence(SubSeq(w, a, b))
          /\ \A k \in DOMAIN SubSeq(w, a, b) : \E j \in DOMAIN w : SubSeq(w, a, b)[k] = w[j]
      BY <2>1, PieceIs DEF IsCells
    <3> QED BY <3>1 DEF IsCells
  <2>2. r.start <= Len(w) /\ 1 <= r.end + 1 /\ r.end + 1 \in Int
    BY <1>1
  <2> QED BY <1>1, <1>2, <2>1, <2>2
<1>4. IsCells(ReplacementCells(words))
  <2>1. Len(words) \in Nat
    BY SequenceIs
  <2>2. ReplacementCells(words) = [k \in 1 .. Len(words) |-> ReplacementCells(words)[k]]
    BY DEF ReplacementCells
  <2>3. IsSequence(ReplacementCells(words)) /\ DOMAIN ReplacementCells(words) = 1 .. Len(words)
    BY <2>1, <2>2, Listed
  <2>4. \A k \in 1 .. Len(words) : ReplacementCells(words)[k].at = -1
    BY DEF ReplacementCells, Cell, NoOffset
  <2> QED BY <2>3, <2>4 DEF IsCells
<1>5. IsCells(Edited(w, r, words))
  <2>1. IsCells(SubSeq(w, 1, r.start) \o ReplacementCells(words))
    BY <1>3, <1>4, CellsJoined
  <2> QED BY <1>3, <2>1, CellsJoined DEF Edited
<1>6. w[r.start + 1].at \in Int /\ w[r.end].at \in Int
  BY <1>2 DEF IsCells
<1> QED BY <1>5, <1>6 DEF RemovedSpan, Span

LEMMA PatchRecorded ==
  ASSUME NEW ps, IsPatches(ps), NEW a \in Int, NEW b \in Int, NEW words, IsSequence(words), NEW rule
  PROVE  IsPatches(Append(ps, Patch(a, b, words, rule)))
<1>1. IsPatch(Patch(a, b, words, rule))
  BY DEF IsPatch, Patch
<1> QED BY <1>1, AppendedIs DEF IsPatches

\* An edit of the splicer does not look at the budget.
LEMMA SplicedKeeps ==
  ASSUME NEW s, NEW t, Alike(s, t), NEW r, NEW words, IsSequence(words), NEW rule
  PROVE  Kept(s, t, Spliced(s, r, words, rule), Spliced(t, r, words, rule))
<1> DEFINE cells == Edited(s.cells, r, words)
           removed == RemovedSpan(s.cells, r)
           recorded == Append(s.patches, Patch(removed.start, removed.end, words, rule))
           Edit(x) == WorkOf(x.text, cells, recorded, x.held, x.budget, x.pivoted, x.declined)
           Refuse(x) == WorkOf(x.text, x.cells, x.patches, x.held, x.budget, x.pivoted, x.declined + 1)
<1>1. CASE CanEdit(s.cells, r)
  <2>1. Spliced(s, r, words, rule) = Edit(s) /\ Spliced(t, r, words, rule) = Edit(t)
    <3>1. s = WorkOf(s.text, s.cells, s.patches, s.held, s.budget, s.pivoted, s.declined)
          /\ t = WorkOf(t.text, t.cells, t.patches, t.held, t.budget, t.pivoted, t.declined)
          /\ s.cells = t.cells /\ s.patches = t.patches
      BY DEF Alike, IsWork
    <3> QED BY <1>1, <3>1 DEF Spliced, WorkOf
  <2>2. IsCells(cells) /\ IsPatches(recorded)
    BY <1>1, EditedIsCells, PatchRecorded DEF Alike, IsWork
  <2> HIDE DEF cells, recorded
  <2> QED BY <2>1, <2>2 DEF Kept, Alike, IsWork, WorkOf
<1>2. CASE ~CanEdit(s.cells, r)
  <2>1. Spliced(s, r, words, rule) = Refuse(s) /\ Spliced(t, r, words, rule) = Refuse(t)
    <3>1. s = WorkOf(s.text, s.cells, s.patches, s.held, s.budget, s.pivoted, s.declined)
          /\ t = WorkOf(t.text, t.cells, t.patches, t.held, t.budget, t.pivoted, t.declined)
          /\ s.cells = t.cells /\ s.patches = t.patches
      BY DEF Alike, IsWork
    <3> QED BY <1>2, <3>1 DEF Spliced, WorkOf
  <2> QED BY <2>1 DEF Kept, Alike, IsWork, WorkOf
<1> QED BY <1>1, <1>2

\* Neither does a hold.
HoldsOn(words, rule, whys) ==
  {[rule |-> rule, why |-> why, start |-> 0, end |-> Len(words)] : why \in whys}

LEMMA HoldIs ==
  ASSUME NEW s, NEW rule, NEW whys
  PROVE  HoldAll(s, rule, whys) = [s EXCEPT !.held = @ \cup HoldsOn(s.text, rule, whys)]
BY DEF HoldAll, HoldsOn

LEMMA HoldKeeps ==
  ASSUME NEW s, NEW t, Alike(s, t), NEW rule, NEW whys
  PROVE  Kept(s, t, HoldAll(s, rule, whys), HoldAll(t, rule, whys))
<1> DEFINE noted == s.held \cup HoldsOn(s.text, rule, whys)
           Noted(x) == WorkOf(x.text, x.cells, x.patches, noted, x.budget, x.pivoted, x.declined)
<1>1. s = WorkOf(s.text, s.cells, s.patches, s.held, s.budget, s.pivoted, s.declined)
      /\ t = WorkOf(t.text, t.cells, t.patches, t.held, t.budget, t.pivoted, t.declined)
      /\ s.text = t.text /\ s.held = t.held
  BY DEF Alike, IsWork
<1>2. HoldAll(s, rule, whys) = Noted(s) /\ HoldAll(t, rule, whys) = Noted(t)
  BY <1>1, HoldIs DEF WorkOf
<1> HIDE DEF noted
<1> QED BY <1>1, <1>2 DEF Kept, Alike, IsWork, WorkOf

LEMMA KeptAgain ==
  ASSUME NEW s, NEW t, NEW a, NEW b, NEW c, NEW d, Kept(s, t, a, b), Kept(a, b, c, d)
  PROVE  Kept(s, t, c, d)
BY DEF Kept

-----------------------------------------------------------------------------
(***************************************************************************)
(* The stages as folds: two runs stay alike, step by step.                 *)
(***************************************************************************)
SpliceStep(nothing, s, p) == SplicedPatch(s, p)
SubstituteStep(nothing, s, pair) == Substituted(s, pair)
DeleteStep(nothing, s, span) == SpanDeleted(s, span)
PlanStep(nothing, s, plan) == FramePlanApplied(s, plan)
Splicing == INSTANCE FoldFacts WITH Op <- SpliceStep
Substituting == INSTANCE FoldFacts WITH Op <- SubstituteStep
Deleting == INSTANCE FoldFacts WITH Op <- DeleteStep
Planning == INSTANCE FoldFacts WITH Op <- PlanStep

LEMMA StagesInduct ==
  Splicing!Inductive /\ Substituting!Inductive /\ Deleting!Inductive /\ Planning!Inductive
BY NatInduct DEF Splicing!Inductive, Substituting!Inductive, Deleting!Inductive, Planning!Inductive

LEMMA SplicedAllIsAFold ==
  ASSUME NEW s, NEW edits
  PROVE  SplicedAll(s, edits) = Splicing!Folded(0, s, edits)
BY DEF SplicedAll, Splicing!Folded, SpliceStep, FoldLeft, MapThenFoldSet, Max
LEMMA SubstitutionIsAFold ==
  ASSUME NEW s
  PROVE  SubstitutionStage(s) = Substituting!Folded(0, s, Substitutions)
BY DEF SubstitutionStage, Substituting!Folded, SubstituteStep, FoldLeft, MapThenFoldSet, Max
LEMMA DeletionIsAFold ==
  ASSUME NEW s
  PROVE  DeletionStage(s) = Deleting!Folded(0, s, DeletionSpans)
BY DEF DeletionStage, Deleting!Folded, DeleteStep, FoldLeft, MapThenFoldSet, Max
LEMMA PlansIsAFold ==
  ASSUME NEW s, NEW plans
  PROVE  FramePlansApplied(s, plans) = Planning!Folded(0, s, plans)
BY DEF FramePlansApplied, Planning!Folded, PlanStep, FoldLeft, MapThenFoldSet, Max

LEMMA TracesStayAlike ==
  ASSUME NEW n \in Nat, NEW g, NEW h, Alike(g[0], h[0]),
         \A k \in 1 .. n : Alike(g[k - 1], h[k - 1]) => Kept(g[k - 1], h[k - 1], g[k], h[k])
  PROVE  Kept(g[0], h[0], g[n], h[n])
<1> DEFINE T == {k \in Nat : k <= n => Kept(g[0], h[0], g[k], h[k])}
<1>1. 0 \in T
  BY DEF Kept
<1>2. ASSUME NEW k \in Nat, k \in T PROVE k + 1 \in T
  <2>1. SUFFICES ASSUME k + 1 <= n PROVE Kept(g[0], h[0], g[k + 1], h[k + 1])
    OBVIOUS
  <2>2. k + 1 \in 1 .. n /\ (k + 1) - 1 = k /\ Kept(g[0], h[0], g[k], h[k])
    BY <1>2, <2>1
  <2>3. Kept(g[k], h[k], g[k + 1], h[k + 1])
    <3>1. Alike(g[k], h[k])
      BY <2>2 DEF Kept
    <3> QED BY <2>2, <3>1
  <2> QED BY <2>2, <2>3, KeptAgain
<1> HIDE DEF T
<1>3. Nat \subseteq T
  BY <1>1, <1>2, NatInduct
<1> QED BY <1>3 DEF T

LEMMA SplicesKeep ==
  ASSUME NEW s, NEW t, Alike(s, t), NEW edits, IsSequence(edits),
         \A k \in DOMAIN edits : IsSequence(edits[k].text)
  PROVE  Kept(s, t, SplicedAll(s, edits), SplicedAll(t, edits))
<1> DEFINE n == Len(edits)
<1>1. n \in Nat /\ DOMAIN edits = 1 .. n
  BY SequenceIs
<1> HIDE DEF n
<1>2. PICK g : Splicing!IsTrace(0, s, n, edits, g) /\ Splicing!Folded(0, s, edits) = g[n]
  BY <1>1, Splicing!FoldHasTrace, StagesInduct
<1>3. PICK h : Splicing!IsTrace(0, t, n, edits, h) /\ Splicing!Folded(0, t, edits) = h[n]
  BY <1>1, Splicing!FoldHasTrace, StagesInduct
<1>4. ASSUME NEW k \in 1 .. n, Alike(g[k - 1], h[k - 1]) PROVE Kept(g[k - 1], h[k - 1], g[k], h[k])
  <2>1. g[k] = SplicedPatch(g[k - 1], edits[k]) /\ h[k] = SplicedPatch(h[k - 1], edits[k])
    BY <1>2, <1>3 DEF Splicing!IsTrace, SpliceStep
  <2> QED BY <1>1, <1>4, <2>1, SplicedKeeps DEF SplicedPatch
<1>5. g[0] = s /\ h[0] = t
  BY <1>2, <1>3 DEF Splicing!IsTrace
<1>6. Kept(s, t, g[n], h[n])
  BY <1>1, <1>4, <1>5, TracesStayAlike
<1> QED BY <1>2, <1>3, <1>6, SplicedAllIsAFold

LEMMA PlanKeeps ==
  ASSUME NEW s, NEW t, Alike(s, t), NEW plan, IsSequence(plan.text)
  PROVE  Kept(s, t, FramePlanApplied(s, plan), FramePlanApplied(t, plan))
<1>1. s.cells = t.cells /\ Kept(s, t, s, t)
  BY DEF Alike, Kept
<1> QED BY <1>1, SplicedKeeps DEF FramePlanApplied

LEMMA PlansKeep ==
  ASSUME NEW s, NEW t, Alike(s, t), NEW plans, IsSequence(plans),
         \A k \in DOMAIN plans : IsSequence(plans[k].text)
  PROVE  Kept(s, t, FramePlansApplied(s, plans), FramePlansApplied(t, plans))
<1> DEFINE n == Len(plans)
<1>1. n \in Nat /\ DOMAIN plans = 1 .. n
  BY SequenceIs
<1> HIDE DEF n
<1>2. PICK g : Planning!IsTrace(0, s, n, plans, g) /\ Planning!Folded(0, s, plans) = g[n]
  BY <1>1, Planning!FoldHasTrace, StagesInduct
<1>3. PICK h : Planning!IsTrace(0, t, n, plans, h) /\ Planning!Folded(0, t, plans) = h[n]
  BY <1>1, Planning!FoldHasTrace, StagesInduct
<1>4. ASSUME NEW k \in 1 .. n, Alike(g[k - 1], h[k - 1]) PROVE Kept(g[k - 1], h[k - 1], g[k], h[k])
  <2>1. g[k] = FramePlanApplied(g[k - 1], plans[k]) /\ h[k] = FramePlanApplied(h[k - 1], plans[k])
    BY <1>2, <1>3 DEF Planning!IsTrace, PlanStep
  <2> QED BY <1>1, <1>4, <2>1, PlanKeeps
<1>5. g[0] = s /\ h[0] = t
  BY <1>2, <1>3 DEF Planning!IsTrace
<1>6. Kept(s, t, g[n], h[n])
  BY <1>1, <1>4, <1>5, TracesStayAlike
<1> QED BY <1>2, <1>3, <1>6, PlansIsAFold

-----------------------------------------------------------------------------
(***************************************************************************)
(* Ordering a finite set: the offsets of InOrder, and insertion sort.      *)
(***************************************************************************)
CountStep(offsets, counted, k) == Counted(offsets, counted, k)
Numbering == INSTANCE FoldFacts WITH Op <- CountStep

LEMMA NumberingInducts ==
  Numbering!Inductive
BY NatInduct DEF Numbering!Inductive

LEMMA InOrderIsAFold ==
  ASSUME NEW offsets, NEW n
  PROVE  InOrder(offsets, n) = Numbering!Folded(offsets, <<>>, OffsetsBelow(n))
BY DEF InOrder, Numbering!Folded, CountStep, FoldLeft, MapThenFoldSet, Max

LEMMA InOrderIs ==
  ASSUME NEW offsets, NEW n \in Nat
  PROVE  InOrder(offsets, n) \in Seq(offsets \cap 0 .. n - 1)
<1> DEFINE S == offsets \cap 0 .. n - 1
           numbers == OffsetsBelow(n)
           I == [k \in 0 .. n |-> Seq(S)]
<1>1. DOMAIN numbers = 1 .. n /\ \A k \in 1 .. n : numbers[k] \in 0 .. n - 1
  BY DEF OffsetsBelow
<1>2. ASSUME NEW k \in 1 .. n, NEW counted \in Seq(S)
      PROVE  CountStep(offsets, counted, numbers[k]) \in Seq(S)
  <2>1. CASE numbers[k] \in offsets
    <3>1. numbers[k] \in S
      BY <1>1, <2>1
    <3> HIDE DEF S, numbers
    <3>2. Append(counted, numbers[k]) \in Seq(S)
      BY <3>1
    <3> QED BY <2>1, <3>2 DEF CountStep, Counted
  <2>2. CASE numbers[k] \notin offsets
    BY <2>2 DEF CountStep, Counted
  <2> QED BY <2>1, <2>2
<1>3. <<>> \in Seq(S)
  OBVIOUS
<1> HIDE DEF S, numbers
<1>4. Numbering!IsPassedOn(offsets, <<>>, n, numbers, I)
  BY <1>2, <1>3 DEF Numbering!IsPassedOn
<1>5. Numbering!Folded(offsets, <<>>, numbers) \in I[n]
  <2> HIDE DEF I
  <2> QED BY <1>1, <1>4, Numbering!FoldInvariant, NumberingInducts
<1>6. Numbering!Folded(offsets, <<>>, numbers) = InOrder(offsets, n)
  BY InOrderIsAFold DEF numbers
<1>7. I[n] = Seq(S)
  OBVIOUS
<1> QED BY <1>5, <1>6, <1>7 DEF S

LEMMA MinIs ==
  ASSUME NEW S, S \subseteq Nat, S # {}
  PROVE  Min(S) \in S /\ \A y \in S : Min(S) <= y
<1>1. PICK x \in S : \A y \in S : x <= y
  BY LeastNat
<1> QED BY <1>1 DEF Min

LEMMA MaxIsWithin ==
  ASSUME NEW n \in Nat, NEW S, S \subseteq 0 .. n, S # {}
  PROVE  Max(S) \in S /\ \A y \in S : y <= Max(S)
<1> DEFINE T == {m \in Nat : m <= n /\ n - m \in S}
<1>1. T \subseteq Nat /\ T # {}
  <2>1. PICK x \in S : TRUE
    OBVIOUS
  <2>2. n - x \in Nat /\ n - x <= n /\ n - (n - x) = x
    BY <2>1
  <2> QED BY <2>1, <2>2
<1>2. PICK m \in T : \A y \in T : m <= y
  <2> HIDE DEF T
  <2> QED BY <1>1, LeastNat
<1>3. ASSUME NEW y \in S PROVE n - m >= y
  <2>1. n - y \in Nat /\ n - y <= n /\ n - (n - y) = y
    OBVIOUS
  <2>2. n - y \in T
    BY <2>1
  <2>3. m \in Nat /\ y \in Int
    OBVIOUS
  <2> HIDE DEF T
  <2>4. m <= n - y
    BY <1>2, <2>2
  <2> QED BY <2>3, <2>4
<1>4. n - m \in S
  BY <1>2
<1> QED BY <1>3, <1>4 DEF Max

LEMMA InsertedIs ==
  ASSUME NEW S, NEW sorted \in Seq(S), NEW x \in S, NEW J, J \subseteq DOMAIN sorted
  PROVE  InsertAt(sorted, Max({0} \cup J) + 1, x) \in Seq(S)
<1> DEFINE n == Len(sorted)
           m == Max({0} \cup J)
<1>1. n \in Nat /\ DOMAIN sorted = 1 .. n
  OBVIOUS
<1>2. m \in 0 .. n
  <2> DEFINE K == {0} \cup J
  <2>1. K \subseteq 0 .. n /\ K # {}
    BY <1>1
  <2> HIDE DEF K, n
  <2>2. Max(K) \in K
    BY <1>1, <2>1, MaxIsWithin
  <2> QED BY <2>1, <2>2 DEF K
<1> HIDE DEF m
<1>3. InsertAt(sorted, m + 1, x) = SubSeq(sorted, 1, m) \o <<x>> \o SubSeq(sorted, m + 1, n)
  <2>1. (m + 1) - 1 = m
    BY <1>1, <1>2
  <2>2. InsertAt(sorted, m + 1, x) = SubSeq(sorted, 1, (m + 1) - 1) \o <<x>> \o SubSeq(sorted, m + 1, Len(sorted))
    BY Zenon DEF InsertAt
  <2> QED BY <2>1, <2>2, Zenon
<1>4. SubSeq(sorted, 1, m) \in Seq(S) /\ SubSeq(sorted, m + 1, n) \in Seq(S)
  <2>1. SubSeq(sorted, 1, m) = [k \in 1 .. m |-> sorted[k]]
    BY <1>1, <1>2
  <2>2. SubSeq(sorted, m + 1, n) = [k \in 1 .. n - m |-> sorted[m + k]]
    BY <1>1, <1>2
  <2>3. m \in Nat /\ n - m \in Nat
    BY <1>1, <1>2
  <2>4. (\A k \in 1 .. m : sorted[k] \in S) /\ \A k \in 1 .. n - m : sorted[m + k] \in S
    BY <1>1, <1>2
  <2> HIDE DEF n
  <2>5. [k \in 1 .. m |-> sorted[k]] \in Seq(S)
    BY <2>3, <2>4
  <2>6. [k \in 1 .. n - m |-> sorted[m + k]] \in Seq(S)
    BY <2>3, <2>4
  <2> QED BY <2>1, <2>2, <2>5, <2>6
<1>5. <<x>> \in Seq(S)
  OBVIOUS
<1> HIDE DEF n
<1>6. SubSeq(sorted, 1, m) \o <<x>> \o SubSeq(sorted, m + 1, n) \in Seq(S)
  BY <1>4, <1>5
<1> QED BY <1>3, <1>6 DEF m

LEMMA SetAsSequence ==
  ASSUME NEW S, IsFiniteSet(S)
  PROVE  SetToSeq(S) \in Seq(S)
<1>1. PICK n \in Nat : ExistsBijection(1 .. n, S)
  BY FS_NatBijection
<1>2. Cardinality(S) = n
  BY <1>1, FS_CountingElements
<1>3. \E f \in [1 .. Cardinality(S) -> S] : IsInjective(f)
  BY <1>1, <1>2 DEF ExistsBijection, Bijection, Injection
<1>4. SetToSeq(S) \in [1 .. n -> S]
  BY <1>2, <1>3 DEF SetToSeq
<1> QED BY <1>4

LEMMA ReversedIs ==
  ASSUME NEW S, NEW s \in Seq(S)
  PROVE  Reverse(s) \in Seq(S)
<1>1. Len(s) \in Nat /\ \A k \in 1 .. Len(s) : s[Len(s) - k + 1] \in S
  OBVIOUS
<1> QED BY <1>1 DEF Reverse

-----------------------------------------------------------------------------
(***************************************************************************)
(* Stage by stage: what a stage plans depends on the cells and the         *)
(* sentence alone.                                                         *)
(***************************************************************************)
LEMMA SymbolsAre ==
  ASSUME NEW w, IsSequence(w)
  PROVE  IsSequence(Symbols(w)) /\ Len(Symbols(w)) = Len(w)
<1> DEFINE n == Len(w)
<1>1. n \in Nat
  BY SequenceIs
<1>2. Symbols(w) = [k \in 1 .. n |-> Symbols(w)[k]]
  BY DEF Symbols
<1> HIDE DEF n
<1>3. IsSequence(Symbols(w)) /\ Len(Symbols(w)) = n
  BY <1>1, <1>2, Listed
<1> QED BY <1>3 DEF n

LEMMA CapitalizedIs ==
  ASSUME NEW words, IsSequence(words)
  PROVE  IsSequence(Capitalized(words))
<1>1. CASE words = <<>>
  BY <1>1 DEF Capitalized
<1>2. CASE words # <<>>
  <2>1. Len(words) \in Nat /\ words \in Seq(Range(words)) /\ Tail(words) \in Seq(Range(words))
    BY <1>2 DEF IsSequence
  <2>2. IsSequence(Tail(words))
    BY <2>1, SequenceOf
  <2>3. IsSequence(<<Capital[words[1]]>> \o Tail(words))
    BY <2>2, OneIs, JoinedIs
  <2> QED BY <2>3 DEF Capitalized
<1> QED BY <1>1, <1>2

LEMMA SubstitutionEditsAre ==
  ASSUME NEW working, IsSequence(working), NEW pair, IsSequence(pair.text)
  PROVE  /\ IsSequence(SubstitutionEdits(working, pair))
         /\ \A k \in DOMAIN SubstitutionEdits(working, pair) : IsSequence(SubstitutionEdits(working, pair)[k].text)
<1> DEFINE n == Len(working)
           offsets == Matches(working, pair.pattern) \ QuotedMatches(working, pair)
           order == Reverse(InOrder(offsets, n))
           edits == [k \in DOMAIN order |-> Patch(order[k], order[k] + Len(pair.pattern),
                                                  SubstitutionText(working, pair, order[k]), SUB)]
<1>1. IsSequence(order)
  <2> DEFINE S == offsets \cap 0 .. n - 1
  <2>1. n \in Nat
    BY SequenceIs
  <2> HIDE DEF n, offsets
  <2>2. InOrder(offsets, n) \in Seq(S)
    BY <2>1, InOrderIs
  <2> HIDE DEF S
  <2> QED BY <2>2, ReversedIs, SequenceOf
<1>2. Len(order) \in Nat /\ DOMAIN order = 1 .. Len(order)
  <2> HIDE DEF order
  <2> QED BY <1>1, SequenceIs
<1>3. SubstitutionEdits(working, pair) = edits
  BY DEF SubstitutionEdits
<1> HIDE DEF order
<1>4. IsSequence(edits)
  <2>1. edits = [k \in 1 .. Len(order) |-> edits[k]]
    BY <1>2
  <2> HIDE DEF edits
  <2> QED BY <1>2, <2>1, Listed
<1>5. ASSUME NEW k \in DOMAIN edits PROVE IsSequence(edits[k].text)
  <2>1. edits[k].text = SubstitutionText(working, pair, order[k])
    BY DEF Patch
  <2> QED BY <2>1, CapitalizedIs DEF SubstitutionText
<1> HIDE DEF edits
<1> QED BY <1>3, <1>4, <1>5

LEMMA WorkingIs ==
  ASSUME NEW s, NEW t, Alike(s, t)
  PROVE  /\ IsSequence(Symbols(s.cells)) /\ s.cells = t.cells /\ s.text = t.text
         /\ s.held = t.held /\ s.pivoted = t.pivoted /\ Kept(s, t, s, t)
BY SymbolsAre DEF Alike, IsWork, IsCells, Kept

LEMMA SubstitutedKeeps ==
  ASSUME NEW s, NEW t, Alike(s, t), NEW pair, IsSequence(pair.text)
  PROVE  Kept(s, t, Substituted(s, pair), Substituted(t, pair))
<1> DEFINE working == Symbols(s.cells)
           edits == SubstitutionEdits(working, pair)
           Noted(x) == IF QuotedMatches(working, pair) = {} THEN x ELSE Hold(x, SUB, "quoted")
<1>1. IsSequence(working) /\ s.cells = t.cells /\ s.text = t.text /\ Kept(s, t, s, t)
  BY WorkingIs
<1>2. /\ Substituted(s, pair) =
           IF Matches(working, pair.pattern) = {} THEN s
           ELSE IF ~SubstitutionPasses(s.text, working, pair) THEN Hold(s, SUB, "clause")
           ELSE SplicedAll(Noted(s), edits)
      /\ Substituted(t, pair) =
           IF Matches(working, pair.pattern) = {} THEN t
           ELSE IF ~SubstitutionPasses(s.text, working, pair) THEN Hold(t, SUB, "clause")
           ELSE SplicedAll(Noted(t), edits)
  BY <1>1 DEF Substituted
<1>3. Kept(s, t, Hold(s, SUB, "clause"), Hold(t, SUB, "clause"))
  BY HoldKeeps DEF Hold
<1>4. Kept(s, t, Noted(s), Noted(t))
  BY <1>1, HoldKeeps DEF Hold
<1> HIDE DEF working, Noted
<1>5. Kept(s, t, SplicedAll(Noted(s), edits), SplicedAll(Noted(t), edits))
  <2>1. Alike(Noted(s), Noted(t))
    BY <1>4 DEF Kept
  <2>2. IsSequence(edits) /\ \A k \in DOMAIN edits : IsSequence(edits[k].text)
    BY <1>1, SubstitutionEditsAre
  <2> HIDE DEF edits
  <2>3. Kept(Noted(s), Noted(t), SplicedAll(Noted(s), edits), SplicedAll(Noted(t), edits))
    BY <2>1, <2>2, SplicesKeep
  <2> QED BY <1>4, <2>3, KeptAgain
<1> HIDE DEF edits
<1> QED BY <1>1, <1>2, <1>3, <1>5

LEMMA SubstitutionKeeps ==
  ASSUME NEW s, NEW t, Alike(s, t)
  PROVE  Kept(s, t, SubstitutionStage(s), SubstitutionStage(t))
<1> DEFINE n == Len(Substitutions)
<1>1. n \in Nat /\ DOMAIN Substitutions = 1 .. n
  BY PackAssumption, SequenceIs
<1>2. \A k \in 1 .. n : IsSequence(Substitutions[k].text)
  BY <1>1, PackAssumption
<1> HIDE DEF n
<1>3. PICK g : Substituting!IsTrace(0, s, n, Substitutions, g) /\ Substituting!Folded(0, s, Substitutions) = g[n]
  BY <1>1, Substituting!FoldHasTrace, StagesInduct
<1>4. PICK h : Substituting!IsTrace(0, t, n, Substitutions, h) /\ Substituting!Folded(0, t, Substitutions) = h[n]
  BY <1>1, Substituting!FoldHasTrace, StagesInduct
<1>5. ASSUME NEW k \in 1 .. n, Alike(g[k - 1], h[k - 1]) PROVE Kept(g[k - 1], h[k - 1], g[k], h[k])
  <2>1. g[k] = Substituted(g[k - 1], Substitutions[k]) /\ h[k] = Substituted(h[k - 1], Substitutions[k])
    BY <1>3, <1>4 DEF Substituting!IsTrace, SubstituteStep
  <2> QED BY <1>2, <1>5, <2>1, SubstitutedKeeps
<1>6. g[0] = s /\ h[0] = t
  BY <1>3, <1>4 DEF Substituting!IsTrace
<1>7. Kept(s, t, g[n], h[n])
  BY <1>1, <1>5, <1>6, TracesStayAlike
<1> QED BY <1>3, <1>4, <1>7, SubstitutionIsAFold

LEMMA SpanDeletedKeeps ==
  ASSUME NEW s, NEW t, Alike(s, t), NEW span
  PROVE  Kept(s, t, SpanDeleted(s, span), SpanDeleted(t, span))
<1> DEFINE working == Symbols(s.cells)
           found == Matches(working, span.pattern)
           r == Span(Min(found), Min(found) + Len(span.pattern))
           idiom == Lower(FirstOr(After(working, r.end), ".")) \in span.vetoes
           quoted == InQuotedSpan(working, r)
           allowed == DeletionAllowed(working, r, ClauseOk(s.text))
<1>1. s.cells = t.cells /\ s.text = t.text /\ Kept(s, t, s, t)
  BY WorkingIs
<1>2. /\ SpanDeleted(s, span) =
           IF found = {} THEN s
           ELSE IF span.diagnostic THEN Hold(s, SPAN, "diagnostic")
           ELSE IF idiom THEN Hold(s, SPAN, "idiom")
           ELSE IF quoted THEN Hold(s, SPAN, "quoted")
           ELSE IF allowed THEN Spliced(s, r, <<>>, SPAN)
           ELSE Hold(s, SPAN, "gate")
      /\ SpanDeleted(t, span) =
           IF found = {} THEN t
           ELSE IF span.diagnostic THEN Hold(t, SPAN, "diagnostic")
           ELSE IF idiom THEN Hold(t, SPAN, "idiom")
           ELSE IF quoted THEN Hold(t, SPAN, "quoted")
           ELSE IF allowed THEN Spliced(t, r, <<>>, SPAN)
           ELSE Hold(t, SPAN, "gate")
  BY <1>1 DEF SpanDeleted
<1> HIDE DEF r, found, idiom, quoted, allowed
<1>3. Kept(s, t, Spliced(s, r, <<>>, SPAN), Spliced(t, r, <<>>, SPAN))
  BY SplicedKeeps, EmptyIs
<1>4. \A why : Kept(s, t, Hold(s, SPAN, why), Hold(t, SPAN, why))
  BY HoldKeeps DEF Hold
<1> QED BY <1>1, <1>2, <1>3, <1>4

LEMMA DeletionKeeps ==
  ASSUME NEW s, NEW t, Alike(s, t)
  PROVE  Kept(s, t, DeletionStage(s), DeletionStage(t))
<1> DEFINE n == Len(DeletionSpans)
<1>1. n \in Nat /\ DOMAIN DeletionSpans = 1 .. n
  BY PackAssumption, SequenceIs
<1> HIDE DEF n
<1>3. PICK g : Deleting!IsTrace(0, s, n, DeletionSpans, g) /\ Deleting!Folded(0, s, DeletionSpans) = g[n]
  BY <1>1, Deleting!FoldHasTrace, StagesInduct
<1>4. PICK h : Deleting!IsTrace(0, t, n, DeletionSpans, h) /\ Deleting!Folded(0, t, DeletionSpans) = h[n]
  BY <1>1, Deleting!FoldHasTrace, StagesInduct
<1>5. ASSUME NEW k \in 1 .. n, Alike(g[k - 1], h[k - 1]) PROVE Kept(g[k - 1], h[k - 1], g[k], h[k])
  <2>1. g[k] = SpanDeleted(g[k - 1], DeletionSpans[k]) /\ h[k] = SpanDeleted(h[k - 1], DeletionSpans[k])
    BY <1>3, <1>4 DEF Deleting!IsTrace, DeleteStep
  <2> QED BY <1>5, <2>1, SpanDeletedKeeps
<1>6. g[0] = s /\ h[0] = t
  BY <1>3, <1>4 DEF Deleting!IsTrace
<1>7. Kept(s, t, g[n], h[n])
  BY <1>1, <1>5, <1>6, TracesStayAlike
<1> QED BY <1>3, <1>4, <1>7, DeletionIsAFold

-----------------------------------------------------------------------------
(***************************************************************************)
(* The frame stage: its matches are finitely many, so they can be sorted,  *)
(* and each plan carries a text.                                           *)
(***************************************************************************)
SortStep(nothing, sorted, m) == SortFrame(sorted, m)
ApartStep(nothing, kept, m) == KeepApart(kept, m)
Sorting == INSTANCE FoldFacts WITH Op <- SortStep
Parting == INSTANCE FoldFacts WITH Op <- ApartStep

LEMMA MatchesInduct ==
  Sorting!Inductive /\ Parting!Inductive
BY NatInduct DEF Sorting!Inductive, Parting!Inductive

LEMMA OrderIsAFold ==
  ASSUME NEW matches
  PROVE  FrameOrder(matches) = Sorting!Folded(0, <<>>, SetToSeq(matches))
BY DEF FrameOrder, Sorting!Folded, SortStep, FoldLeft, MapThenFoldSet, Max
LEMMA ResolutionIsAFold ==
  ASSUME NEW matches
  PROVE  FrameResolve(matches) = Parting!Folded(0, <<>>, FrameOrder(matches))
BY DEF FrameResolve, Parting!Folded, ApartStep, FoldLeft, MapThenFoldSet, Max

\* Matches of patterns are finitely many.
Places(rules, words) ==
  UNION {{[rule |-> k, start |-> at, end |-> at + Len(rules[k].pattern)] : at \in 0 .. Len(words)} : k \in DOMAIN rules}

LEMMA PlacesAreFinite ==
  ASSUME NEW rules, IsSequence(rules), NEW words, IsSequence(words)
  PROVE  IsFiniteSet(Places(rules, words))
<1> DEFINE P == (1 .. Len(rules)) \X (0 .. Len(words))
           f == [p \in P |-> [rule |-> p[1], start |-> p[2], end |-> p[2] + Len(rules[p[1]].pattern)]]
           T == Places(rules, words)
<1>1. Len(rules) \in Nat /\ DOMAIN rules = 1 .. Len(rules) /\ Len(words) \in Nat
  BY SequenceIs
<1>2. IsFiniteSet(P)
  <2>1. IsFiniteSet(1 .. Len(rules)) /\ IsFiniteSet(0 .. Len(words))
    BY <1>1, FS_Interval
  <2> QED BY <2>1, FS_Product
<1>3. f \in Surjection(P, T)
  <2>1. ASSUME NEW p \in P PROVE f[p] \in T
    <3>1. p[1] \in DOMAIN rules /\ p[2] \in 0 .. Len(words)
      BY <1>1
    <3>2. f[p] = [rule |-> p[1], start |-> p[2], end |-> p[2] + Len(rules[p[1]].pattern)]
      OBVIOUS
    <3> DEFINE At(k) == {[rule |-> k, start |-> at, end |-> at + Len(rules[k].pattern)] : at \in 0 .. Len(words)}
    <3>3. f[p] \in At(p[1])
      BY <3>1, <3>2
    <3>4. T = UNION {At(k) : k \in DOMAIN rules}
      BY DEF Places
    <3> HIDE DEF f, At, T
    <3> QED BY <3>1, <3>3, <3>4
  <2>2. ASSUME NEW m \in T PROVE \E p \in P : f[p] = m
    <3>1. PICK k \in DOMAIN rules, at \in 0 .. Len(words) :
             m = [rule |-> k, start |-> at, end |-> at + Len(rules[k].pattern)]
      BY DEF Places
    <3>2. <<k, at>> \in P
      BY <1>1
    <3>3. f[<<k, at>>] = m
      BY <3>1, <3>2
    <3> QED BY <3>2, <3>3
  <2>3. f \in [P -> T]
    BY <2>1
  <2> HIDE DEF P, f, T
  <2> QED BY <2>2, <2>3 DEF Surjection
<1> HIDE DEF P, f, T
<1>4. IsFiniteSet(T)
  BY <1>2, <1>3, FS_Surjection
<1> QED BY <1>4 DEF T

LEMMA MatchesAreWithin ==
  ASSUME NEW words, IsSequence(words), NEW pattern, IsSequence(pattern)
  PROVE  Matches(words, pattern) \subseteq 0 .. Len(words)
BY SequenceIs DEF Matches

LEMMA FrameMatchesAreFinite ==
  ASSUME NEW words, IsSequence(words)
  PROVE  IsFiniteSet(FrameMatches(words)) /\ FrameMatches(words) \subseteq Places(FrameRules, words)
<1>1. \A k \in DOMAIN FrameRules : Matches(words, FrameRules[k].pattern) \subseteq 0 .. Len(words)
  BY PackAssumption, MatchesAreWithin
<1>2. FrameMatches(words) \subseteq Places(FrameRules, words)
  <2> DEFINE On(k, offsets) == {[rule |-> k, start |-> at, end |-> at + Len(FrameRules[k].pattern)] : at \in offsets}
             Found(k) == Matches(words, FrameRules[k].pattern)
             All == 0 .. Len(words)
  <2>1. ASSUME NEW k \in DOMAIN FrameRules PROVE On(k, Found(k)) \subseteq On(k, All)
    <3>1. Found(k) \subseteq All
      BY <1>1
    <3> HIDE DEF Found, All
    <3> QED BY <3>1
  <2>2. FrameMatches(words) = UNION {On(k, Found(k)) : k \in DOMAIN FrameRules}
    BY DEF FrameMatches
  <2>3. Places(FrameRules, words) = UNION {On(k, All) : k \in DOMAIN FrameRules}
    BY DEF Places
  <2> HIDE DEF On, Found, All
  <2> QED BY <2>1, <2>2, <2>3
<1>3. IsFiniteSet(Places(FrameRules, words))
  BY PackAssumption, PlacesAreFinite
<1> QED BY <1>2, <1>3, FS_Subset

LEMMA FrameOrderIs ==
  ASSUME NEW M, IsFiniteSet(M)
  PROVE  FrameOrder(M) \in Seq(M)
<1> DEFINE s == SetToSeq(M)
           n == Len(s)
           I == [k \in 0 .. n |-> Seq(M)]
<1>1. s \in Seq(M)
  BY SetAsSequence
<1>2. n \in Nat /\ DOMAIN s = 1 .. n /\ \A k \in 1 .. n : s[k] \in M
  <2> HIDE DEF s
  <2> QED BY <1>1
<1> HIDE DEF s, n
<1>3. ASSUME NEW sorted \in Seq(M), NEW m \in M PROVE SortStep(0, sorted, m) \in Seq(M)
  <2>1. SortFrame(sorted, m) =
          InsertAt(sorted, Max({0} \cup {i \in DOMAIN sorted : ~FrameBefore(m, sorted[i])}) + 1, m)
    BY DEF SortFrame, SortInto
  <2> DEFINE J == {i \in DOMAIN sorted : ~FrameBefore(m, sorted[i])}
  <2>2. J \subseteq DOMAIN sorted
    OBVIOUS
  <2> HIDE DEF J
  <2>3. InsertAt(sorted, Max({0} \cup J) + 1, m) \in Seq(M)
    BY <2>2, InsertedIs
  <2> QED BY <2>1, <2>3 DEF J, SortStep
<1>4. <<>> \in Seq(M)
  OBVIOUS
<1>5. Sorting!IsPassedOn(0, <<>>, n, s, I)
  BY <1>2, <1>3, <1>4 DEF Sorting!IsPassedOn
<1>6. I[n] = Seq(M)
  BY <1>2
<1> HIDE DEF I
<1>7. Sorting!Folded(0, <<>>, s) \in I[n]
  BY <1>2, <1>5, Sorting!FoldInvariant, MatchesInduct
<1> QED BY <1>6, <1>7, OrderIsAFold DEF s

LEMMA FrameResolveIs ==
  ASSUME NEW M, IsFiniteSet(M)
  PROVE  FrameResolve(M) \in Seq(M)
<1> DEFINE s == FrameOrder(M)
           n == Len(s)
           I == [k \in 0 .. n |-> Seq(M)]
<1>1. s \in Seq(M)
  BY FrameOrderIs
<1>2. n \in Nat /\ DOMAIN s = 1 .. n /\ \A k \in 1 .. n : s[k] \in M
  <2> HIDE DEF s
  <2> QED BY <1>1
<1> HIDE DEF s, n
<1>3. ASSUME NEW kept \in Seq(M), NEW m \in M PROVE ApartStep(0, kept, m) \in Seq(M)
  BY DEF ApartStep, KeepApart
<1>4. <<>> \in Seq(M)
  OBVIOUS
<1>5. Parting!IsPassedOn(0, <<>>, n, s, I)
  BY <1>2, <1>3, <1>4 DEF Parting!IsPassedOn
<1>6. I[n] = Seq(M)
  BY <1>2
<1> HIDE DEF I
<1>7. Parting!Folded(0, <<>>, s) \in I[n]
  BY <1>2, <1>5, Parting!FoldInvariant, MatchesInduct
<1> QED BY <1>6, <1>7, ResolutionIsAFold DEF s

-----------------------------------------------------------------------------
LEMMA RealizedIs ==
  ASSUME NEW words, NEW m, NEW template, IsSequence(template)
  PROVE  IsSequence(Realized(words, m, template))
<1> DEFINE n == Len(template)
           new == Realized(words, m, template)
<1>1. n \in Nat /\ DOMAIN template = 1 .. n
  BY SequenceIs
<1>2. new = [k \in 1 .. n |-> new[k]]
  BY <1>1 DEF Realized
<1> HIDE DEF n, new
<1>3. IsSequence(new)
  BY <1>1, <1>2, Listed
<1> QED BY <1>3 DEF new

LEMMA FirstIsMember ==
  ASSUME NEW S, S \subseteq Nat, NEW k \in FirstOf(S)
  PROVE  k \in S
BY MinIs DEF FirstOf

LEMMA PlansHaveTexts ==
  ASSUME NEW words, NEW hadClause, NEW m, m.rule \in DOMAIN FrameRules, NEW p \in Plans(words, hadClause, m)
  PROVE  IsSequence(p.text)
<1> DEFINE targets == FrameRules[m.rule].targets
           Target(k) == Realized(words, m, targets[k])
           allowed == {k \in DOMAIN targets : RewriteAllowed(words, Span(m.start, m.end), Target(k), hadClause)}
<1>1. IsSequence(targets) /\ \A k \in DOMAIN targets : IsSequence(targets[k])
  BY PackAssumption
<1>2. DOMAIN targets \subseteq Nat
  <2> HIDE DEF targets
  <2> QED BY <1>1, SequenceIs
<1>3. CASE p.text = <<>>
  BY <1>3, EmptyIs
<1>4. CASE \E k \in FirstOf(allowed) : p.text = Cased(words, m.start, Target(k))
  <2>1. PICK k \in FirstOf(allowed) : p.text = Cased(words, m.start, Target(k))
    BY <1>4
  <2>2. allowed \subseteq Nat
    BY <1>2
  <2>3. k \in DOMAIN targets
    <3>1. k \in allowed
      <4> HIDE DEF allowed
      <4> QED BY <2>2, FirstIsMember
    <3> QED BY <3>1
  <2>4. IsSequence(Target(k))
    <3> HIDE DEF targets
    <3> QED BY <1>1, <2>3, RealizedIs
  <2> HIDE DEF Target
  <2> QED BY <2>1, <2>4, CapitalizedIs DEF Cased
<1>5. p.text = <<>> \/ \E k \in FirstOf(allowed) : p.text = Cased(words, m.start, Target(k))
  <2> HIDE DEF allowed
  <2>1. Plans(words, hadClause, m) \subseteq
          {[range |-> WidenDeletion(words, Span(m.start, m.end)), base |-> Span(m.start, m.end), text |-> <<>>]} \cup
          {[range |-> Span(m.start, m.end), base |-> Span(m.start, m.end), text |-> Cased(words, m.start, Target(k))] :
             k \in FirstOf(allowed)}
    BY DEF Plans, allowed
  <2> HIDE DEF Target
  <2> QED BY <2>1
<1> QED BY <1>3, <1>4, <1>5

LEMMA PlacesNameRules ==
  ASSUME NEW rules, NEW words, NEW m \in Places(rules, words)
  PROVE  m.rule \in DOMAIN rules
<1>1. PICK k \in DOMAIN rules, at \in 0 .. Len(words) :
         m = [rule |-> k, start |-> at, end |-> at + Len(rules[k].pattern)]
  BY DEF Places
<1> QED BY <1>1

LEMMA ScannedPlansAre ==
  ASSUME NEW working, IsSequence(working), NEW hadClause
  PROVE  /\ IsSequence(FrameScan(working, hadClause).plans)
         /\ \A k \in DOMAIN FrameScan(working, hadClause).plans :
              IsSequence(FrameScan(working, hadClause).plans[k].text)
<1> DEFINE edits == FrameEdits(FrameMatches(working))
           planned == [m \in edits |-> Plans(working, hadClause, m)]
           viable == {m \in edits : planned[m] # {}}
           order == Reverse(FrameResolve(viable))
           plans == [k \in DOMAIN order |-> CHOOSE p \in planned[order[k]] : TRUE]
<1>1. edits \subseteq FrameMatches(working)
  BY DEF FrameEdits, OfKind
<1>2. IsFiniteSet(viable) /\ viable \subseteq Places(FrameRules, working)
  <2>1. viable \subseteq FrameMatches(working)
    BY <1>1
  <2> HIDE DEF viable
  <2> QED BY <2>1, FrameMatchesAreFinite, FS_Subset
<1>3. order \in Seq(viable)
  <2> HIDE DEF viable
  <2> QED BY <1>2, FrameResolveIs, ReversedIs
<1>4. /\ IsSequence(order) /\ Len(order) \in Nat /\ DOMAIN order = 1 .. Len(order)
      /\ \A k \in DOMAIN order : order[k] \in viable
  <2> HIDE DEF viable, order
  <2> QED BY <1>3, SequenceOf, SequenceIs
<1>5. FrameScan(working, hadClause).plans = plans
  BY DEF FrameScan
<1>6. ASSUME NEW k \in DOMAIN order PROVE IsSequence(plans[k].text)
  <2>1. order[k] \in viable
    BY <1>4
  <2>2. order[k] \in edits /\ Plans(working, hadClause, order[k]) # {}
    BY <2>1
  <2>3. order[k].rule \in DOMAIN FrameRules
    <3>1. order[k] \in Places(FrameRules, working)
      BY <1>2, <2>1
    <3> HIDE DEF order
    <3> QED BY <3>1, PlacesNameRules
  <2>4. plans[k] = CHOOSE p \in Plans(working, hadClause, order[k]) : TRUE
    BY <2>2
  <2>5. plans[k] \in Plans(working, hadClause, order[k])
    <3> HIDE DEF plans, order
    <3> QED BY <2>2, <2>4
  <2> HIDE DEF plans, order
  <2> QED BY <2>3, <2>5, PlansHaveTexts
<1>7. IsSequence(plans) /\ DOMAIN plans = DOMAIN order
  <2> HIDE DEF order
  <2>1. plans = [k \in 1 .. Len(order) |-> plans[k]] /\ DOMAIN plans = DOMAIN order
    BY <1>4
  <2> HIDE DEF plans
  <2> QED BY <1>4, <2>1, Listed
<1> HIDE DEF plans, order
<1> QED BY <1>5, <1>6, <1>7

\* More holds do not look at the budget either.
LEMMA NotingKeeps ==
  ASSUME NEW s, NEW t, Alike(s, t), NEW more
  PROVE  Kept(s, t, [s EXCEPT !.held = @ \cup more], [t EXCEPT !.held = @ \cup more])
<1> DEFINE noted == s.held \cup more
           Noted(x) == WorkOf(x.text, x.cells, x.patches, noted, x.budget, x.pivoted, x.declined)
<1>1. s = WorkOf(s.text, s.cells, s.patches, s.held, s.budget, s.pivoted, s.declined)
      /\ t = WorkOf(t.text, t.cells, t.patches, t.held, t.budget, t.pivoted, t.declined)
      /\ s.text = t.text /\ s.held = t.held
  BY DEF Alike, IsWork
<1>2. [s EXCEPT !.held = @ \cup more] = Noted(s) /\ [t EXCEPT !.held = @ \cup more] = Noted(t)
  <2>1. [s EXCEPT !.held = @ \cup more] = [s EXCEPT !.held = noted]
        /\ [t EXCEPT !.held = @ \cup more] = [t EXCEPT !.held = noted]
    BY <1>1
  <2> HIDE DEF noted
  <2>2. [s EXCEPT !.held = noted] = Noted(s)
    BY <1>1 DEF WorkOf
  <2>3. [t EXCEPT !.held = noted] = Noted(t)
    BY <1>1 DEF WorkOf
  <2> QED BY <2>1, <2>2, <2>3
<1> HIDE DEF noted
<1> QED BY <1>1, <1>2 DEF Kept, Alike, IsWork, WorkOf

LEMMA FramesKeep ==
  ASSUME NEW s, NEW t, Alike(s, t)
  PROVE  Kept(s, t, FrameStage(s), FrameStage(t))
<1> DEFINE scan == FrameScan(Symbols(s.cells), ClauseOk(s.text))
           a == [s EXCEPT !.held = @ \cup scan.refused]
           b == [t EXCEPT !.held = @ \cup scan.refused]
<1>1. IsSequence(Symbols(s.cells)) /\ s.cells = t.cells /\ s.text = t.text
  BY WorkingIs
<1>2. FrameStage(s) = FramePlansApplied(a, scan.plans) /\ FrameStage(t) = FramePlansApplied(b, scan.plans)
  BY <1>1 DEF FrameStage
<1>3. IsSequence(scan.plans) /\ \A k \in DOMAIN scan.plans : IsSequence(scan.plans[k].text)
  BY <1>1, ScannedPlansAre
<1> HIDE DEF scan
<1>4. Kept(s, t, a, b)
  BY NotingKeeps
<1> HIDE DEF a, b
<1>5. Kept(a, b, FramePlansApplied(a, scan.plans), FramePlansApplied(b, scan.plans))
  BY <1>3, <1>4, PlansKeep DEF Kept
<1> QED BY <1>2, <1>4, <1>5, KeptAgain

-----------------------------------------------------------------------------
(***************************************************************************)
(* The two operations that take from the budget.  Two budgets give m more  *)
(* takes the same room when they are equal or both have m left.            *)
(***************************************************************************)
Room(a, b, m) == a = b \/ (a >= m /\ b >= m)
Took(s, t, a, b, m) ==
  /\ Alike(a, b)
  /\ \E d \in 0 .. m : a.budget = s.budget - d /\ b.budget = t.budget - d

LEMMA KeptTookNone ==
  ASSUME NEW s, NEW t, NEW a, NEW b, Kept(s, t, a, b), Alike(s, t), NEW m \in Nat
  PROVE  Took(s, t, a, b, m)
<1>1. a.budget = s.budget - 0 /\ b.budget = t.budget - 0 /\ 0 \in 0 .. m
  BY DEF Kept, Alike, IsWork
<1> QED BY <1>1 DEF Took, Kept

\* A take made where either budget has room for it, and the edit it pays for.
LEMMA TakeIsAlike ==
  ASSUME NEW s, NEW t, Alike(s, t), Room(s.budget, t.budget, 1), CanTake(s.budget),
         NEW r, NEW words, IsSequence(words), NEW rule
  PROVE  /\ CanTake(t.budget)
         /\ Took(s, t, Spliced([s EXCEPT !.budget = Taken(@)], r, words, rule),
                       Spliced([t EXCEPT !.budget = Taken(@)], r, words, rule), 1)
<1> DEFINE a == [s EXCEPT !.budget = Taken(@)]
           b == [t EXCEPT !.budget = Taken(@)]
           Paid(x) == WorkOf(x.text, x.cells, x.patches, x.held, x.budget - 1, x.pivoted, x.declined)
<1>1. /\ s = WorkOf(s.text, s.cells, s.patches, s.held, s.budget, s.pivoted, s.declined)
      /\ t = WorkOf(t.text, t.cells, t.patches, t.held, t.budget, t.pivoted, t.declined)
      /\ s.budget \in Nat /\ t.budget \in Nat
  BY DEF Alike, IsWork
<1>2. s.budget > 0 /\ t.budget > 0
  BY <1>1 DEF Room, CanTake
<1>3. Taken(s.budget) = s.budget - 1 /\ Taken(t.budget) = t.budget - 1
  BY <1>2 DEF Taken, CanTake
<1>4. a = Paid(s) /\ b = Paid(t)
  BY <1>1, <1>3 DEF WorkOf
<1>5. Alike(a, b) /\ a.budget = s.budget - 1 /\ b.budget = t.budget - 1
  BY <1>1, <1>2, <1>4 DEF Alike, IsWork, WorkOf
<1> HIDE DEF a, b
<1>6. Kept(a, b, Spliced(a, r, words, rule), Spliced(b, r, words, rule))
  BY <1>5, SplicedKeeps
<1>7. Took(s, t, Spliced(a, r, words, rule), Spliced(b, r, words, rule), 1)
  <2>1. 1 \in 0 .. 1
    OBVIOUS
  <2> QED BY <1>5, <1>6, <2>1 DEF Kept, Took
<1> QED BY <1>2, <1>7 DEF CanTake, a, b

-----------------------------------------------------------------------------
LEMMA RoomIsShared ==
  ASSUME NEW a \in Nat, NEW b \in Nat, NEW m \in Nat, Room(a, b, m + 1)
  PROVE  (CanTake(a) <=> CanTake(b)) /\ Room(a, b, 1)
BY DEF Room, CanTake

LEMMA RoomLeft ==
  ASSUME NEW s, NEW t, NEW a, NEW b, Alike(s, t), NEW j \in Nat, NEW m \in Nat,
         Took(s, t, a, b, j), Room(s.budget, t.budget, m + j)
  PROVE  Room(a.budget, b.budget, m)
<1>1. PICK d \in 0 .. j : a.budget = s.budget - d /\ b.budget = t.budget - d
  BY DEF Took
<1>2. s.budget \in Nat /\ t.budget \in Nat
  BY DEF Alike, IsWork
<1> QED BY <1>1, <1>2 DEF Room

LEMMA TookAgain ==
  ASSUME NEW s, NEW t, NEW a, NEW b, NEW c, NEW d, Alike(s, t), NEW m \in Nat, NEW n \in Nat,
         Took(s, t, a, b, m), Took(a, b, c, d, n)
  PROVE  Took(s, t, c, d, m + n)
<1>1. PICK x \in 0 .. m : a.budget = s.budget - x /\ b.budget = t.budget - x
  BY DEF Took
<1>2. PICK y \in 0 .. n : c.budget = a.budget - y /\ d.budget = b.budget - y
  BY DEF Took
<1>3. s.budget \in Nat /\ t.budget \in Nat
  BY DEF Alike, IsWork
<1>4. x + y \in 0 .. m + n /\ c.budget = s.budget - (x + y) /\ d.budget = t.budget - (x + y)
  BY <1>1, <1>2, <1>3
<1> QED BY <1>4 DEF Took

LEMMA TookAfterKept ==
  ASSUME NEW s, NEW t, NEW a, NEW b, NEW c, NEW d, NEW m,
         Kept(s, t, a, b), Took(a, b, c, d, m)
  PROVE  Took(s, t, c, d, m)
BY DEF Took, Kept

LEMMA KeptAfterTook ==
  ASSUME NEW s, NEW t, NEW a, NEW b, NEW c, NEW d, NEW m,
         Took(s, t, a, b, m), Kept(a, b, c, d)
  PROVE  Took(s, t, c, d, m)
BY DEF Took, Kept

LEMMA MarkingKeeps ==
  ASSUME NEW s, NEW t, Alike(s, t), NEW mark
  PROVE  Kept(s, t, [s EXCEPT !.pivoted = mark], [t EXCEPT !.pivoted = mark])
<1> DEFINE Marked(x) == WorkOf(x.text, x.cells, x.patches, x.held, x.budget, mark, x.declined)
<1>1. /\ s = WorkOf(s.text, s.cells, s.patches, s.held, s.budget, s.pivoted, s.declined)
      /\ t = WorkOf(t.text, t.cells, t.patches, t.held, t.budget, t.pivoted, t.declined)
  BY DEF Alike, IsWork
<1>2. [s EXCEPT !.pivoted = mark] = Marked(s) /\ [t EXCEPT !.pivoted = mark] = Marked(t)
  BY <1>1 DEF WorkOf
<1> QED BY <1>1, <1>2 DEF Kept, Alike, IsWork, WorkOf

LEMMA PivotAtTakes ==
  ASSUME NEW s, NEW t, Alike(s, t), NEW working, NEW at, NEW m \in Nat,
         Room(s.budget, t.budget, m + 1)
  PROVE  Took(s, t, PivotAt(s, working, at), PivotAt(t, working, at), 1)
<1> DEFINE derived == <<DerivedVerb(working, at)>>
           verb == IF at = 0 /\ working[1] \in CapitalForms THEN Capitalized(derived) ELSE derived
           a == [s EXCEPT !.pivoted = TRUE]
           b == [t EXCEPT !.pivoted = TRUE]
<1>1. /\ PivotAt(s, working, at) =
           IF derived = <<Rejected>> THEN a
           ELSE IF ~CanTake(s.budget) THEN Hold(a, PIVOT, "budget")
           ELSE Spliced([s EXCEPT !.budget = Taken(@)], Span(at, at + 1), verb, PIVOT)
      /\ PivotAt(t, working, at) =
           IF derived = <<Rejected>> THEN b
           ELSE IF ~CanTake(t.budget) THEN Hold(b, PIVOT, "budget")
           ELSE Spliced([t EXCEPT !.budget = Taken(@)], Span(at, at + 1), verb, PIVOT)
  BY DEF PivotAt
<1>2. IsSequence(verb)
  BY OneIs, CapitalizedIs
<1>3. (CanTake(s.budget) <=> CanTake(t.budget)) /\ Room(s.budget, t.budget, 1)
  BY RoomIsShared DEF Alike, IsWork
<1>4. Kept(s, t, a, b)
  BY MarkingKeeps
<1> HIDE DEF a, b, derived, verb
<1>5. Kept(a, b, Hold(a, PIVOT, "budget"), Hold(b, PIVOT, "budget"))
  BY <1>4, HoldKeeps DEF Kept, Hold
<1>6. Kept(s, t, Hold(a, PIVOT, "budget"), Hold(b, PIVOT, "budget"))
  BY <1>4, <1>5, KeptAgain
<1>7. CASE derived = <<Rejected>>
  <2>1. PivotAt(s, working, at) = a /\ PivotAt(t, working, at) = b
    BY <1>1, <1>7
  <2> QED BY <1>4, <2>1, KeptTookNone
<1>8. CASE derived # <<Rejected>> /\ ~CanTake(s.budget)
  <2>1. PivotAt(s, working, at) = Hold(a, PIVOT, "budget") /\ PivotAt(t, working, at) = Hold(b, PIVOT, "budget")
    BY <1>1, <1>3, <1>8
  <2> QED BY <1>6, <2>1, KeptTookNone
<1>9. CASE derived # <<Rejected>> /\ CanTake(s.budget)
  <2>1. /\ PivotAt(s, working, at) = Spliced([s EXCEPT !.budget = Taken(@)], Span(at, at + 1), verb, PIVOT)
        /\ PivotAt(t, working, at) = Spliced([t EXCEPT !.budget = Taken(@)], Span(at, at + 1), verb, PIVOT)
    BY <1>1, <1>3, <1>9
  <2>2. Took(s, t, Spliced([s EXCEPT !.budget = Taken(@)], Span(at, at + 1), verb, PIVOT),
                   Spliced([t EXCEPT !.budget = Taken(@)], Span(at, at + 1), verb, PIVOT), 1)
    BY <1>2, <1>3, <1>9, TakeIsAlike
  <2> QED BY <2>1, <2>2
<1> QED BY <1>7, <1>8, <1>9

LEMMA PivotOnceTakes ==
  ASSUME NEW s, NEW t, Alike(s, t), NEW m \in Nat, Room(s.budget, t.budget, m + 1)
  PROVE  Took(s, t, PivotOnce(s), PivotOnce(t), 1)
<1> DEFINE working == Symbols(s.cells)
           scan == PivotScan(working)
           a == HoldAll(s, PIVOT, scan.whys)
           b == HoldAll(t, PIVOT, scan.whys)
<1>1. s.cells = t.cells /\ s.pivoted = t.pivoted /\ Kept(s, t, s, t)
  BY WorkingIs
<1>2. /\ PivotOnce(s) = IF s.pivoted THEN s
                        ELSE IF scan.stops = {} THEN [a EXCEPT !.pivoted = TRUE]
                        ELSE PivotAt(a, working, Min(scan.stops))
      /\ PivotOnce(t) = IF s.pivoted THEN t
                        ELSE IF scan.stops = {} THEN [b EXCEPT !.pivoted = TRUE]
                        ELSE PivotAt(b, working, Min(scan.stops))
  BY <1>1 DEF PivotOnce
<1>3. Kept(s, t, a, b)
  BY HoldKeeps
<1> HIDE DEF a, b, scan, working
<1>4. Kept(s, t, [a EXCEPT !.pivoted = TRUE], [b EXCEPT !.pivoted = TRUE])
  <2>1. Kept(a, b, [a EXCEPT !.pivoted = TRUE], [b EXCEPT !.pivoted = TRUE])
    BY <1>3, MarkingKeeps DEF Kept
  <2> QED BY <1>3, <2>1, KeptAgain
<1>5. Took(s, t, PivotAt(a, working, Min(scan.stops)), PivotAt(b, working, Min(scan.stops)), 1)
  <2>1. Alike(a, b) /\ Room(a.budget, b.budget, m + 1)
    BY <1>3 DEF Kept
  <2> QED BY <1>3, <2>1, PivotAtTakes, TookAfterKept
<1>6. CASE s.pivoted
  <2>1. PivotOnce(s) = s /\ PivotOnce(t) = t
    BY <1>2, <1>6
  <2> QED BY <1>1, <2>1, KeptTookNone
<1>7. CASE ~s.pivoted /\ scan.stops = {}
  <2>1. PivotOnce(s) = [a EXCEPT !.pivoted = TRUE] /\ PivotOnce(t) = [b EXCEPT !.pivoted = TRUE]
    BY <1>2, <1>7
  <2> QED BY <1>4, <2>1, KeptTookNone
<1>8. CASE ~s.pivoted /\ scan.stops # {}
  BY <1>2, <1>5, <1>8
<1> QED BY <1>6, <1>7, <1>8

LEMMA PivotTakes ==
  ASSUME NEW s, NEW t, Alike(s, t), NEW m \in Nat, Room(s.budget, t.budget, m + 2)
  PROVE  Took(s, t, PivotStage(s), PivotStage(t), 2)
<1> DEFINE a == PivotOnce(s)
           b == PivotOnce(t)
<1>1. Took(s, t, a, b, 1)
  <2>1. m + 1 \in Nat /\ (m + 1) + 1 = m + 2
    OBVIOUS
  <2> QED BY <2>1, PivotOnceTakes
<1> HIDE DEF a, b
<1>2. Room(a.budget, b.budget, m + 1)
  <2>1. m + 1 \in Nat /\ (m + 1) + 1 = m + 2
    OBVIOUS
  <2> QED BY <1>1, <2>1, RoomLeft
<1>3. Took(a, b, PivotOnce(a), PivotOnce(b), 1)
  BY <1>1, <1>2, PivotOnceTakes DEF Took
<1>4. Took(s, t, PivotOnce(a), PivotOnce(b), 1 + 1)
  BY <1>1, <1>3, TookAgain
<1> QED BY <1>4 DEF PivotStage, a, b

LEMMA DejustTakes ==
  ASSUME NEW s, NEW t, Alike(s, t), NEW m \in Nat, Room(s.budget, t.budget, m + 1)
  PROVE  Took(s, t, DejustStage(s), DejustStage(t), 1)
<1> DEFINE working == Symbols(s.cells)
           found == DejustMarker(working)
           r == Span(Min(found), Min(found) + 1)
           quoted == InQuotedSpan(working, r)
           wide == WithOneSpace(working, r)
<1>1. s.cells = t.cells /\ Kept(s, t, s, t)
  BY WorkingIs
<1>2. /\ DejustStage(s) = IF found = {} THEN s
                          ELSE IF quoted THEN Hold(s, DEJUST, "quoted")
                          ELSE IF ~CanTake(s.budget) THEN Hold(s, DEJUST, "budget")
                          ELSE Spliced([s EXCEPT !.budget = Taken(@)], wide, <<>>, DEJUST)
      /\ DejustStage(t) = IF found = {} THEN t
                          ELSE IF quoted THEN Hold(t, DEJUST, "quoted")
                          ELSE IF ~CanTake(t.budget) THEN Hold(t, DEJUST, "budget")
                          ELSE Spliced([t EXCEPT !.budget = Taken(@)], wide, <<>>, DEJUST)
  BY <1>1 DEF DejustStage, DejustAt
<1> HIDE DEF found, r, quoted, wide, working
<1>3. (CanTake(s.budget) <=> CanTake(t.budget)) /\ Room(s.budget, t.budget, 1)
  BY RoomIsShared DEF Alike, IsWork
<1>4. \A why : Kept(s, t, Hold(s, DEJUST, why), Hold(t, DEJUST, why))
  BY HoldKeeps DEF Hold
<1>5. CASE found = {}
  <2>1. DejustStage(s) = s /\ DejustStage(t) = t
    BY <1>2, <1>5
  <2> QED BY <1>1, <2>1, KeptTookNone
<1>6. CASE found # {} /\ quoted
  <2>1. DejustStage(s) = Hold(s, DEJUST, "quoted") /\ DejustStage(t) = Hold(t, DEJUST, "quoted")
    BY <1>2, <1>6
  <2> QED BY <1>4, <2>1, KeptTookNone
<1>7. CASE found # {} /\ ~quoted /\ ~CanTake(s.budget)
  <2>1. DejustStage(s) = Hold(s, DEJUST, "budget") /\ DejustStage(t) = Hold(t, DEJUST, "budget")
    BY <1>2, <1>3, <1>7
  <2> QED BY <1>4, <2>1, KeptTookNone
<1>8. CASE found # {} /\ ~quoted /\ CanTake(s.budget)
  <2>1. /\ DejustStage(s) = Spliced([s EXCEPT !.budget = Taken(@)], wide, <<>>, DEJUST)
        /\ DejustStage(t) = Spliced([t EXCEPT !.budget = Taken(@)], wide, <<>>, DEJUST)
    BY <1>2, <1>3, <1>8
  <2>2. Took(s, t, Spliced([s EXCEPT !.budget = Taken(@)], wide, <<>>, DEJUST),
                   Spliced([t EXCEPT !.budget = Taken(@)], wide, <<>>, DEJUST), 1)
    BY <1>3, <1>8, TakeIsAlike, EmptyIs
  <2> QED BY <2>1, <2>2
<1> QED BY <1>5, <1>6, <1>7, <1>8

\* What the stages do to a sentence under two budgets of the same regime.
Stages(s) == FrameStage(DejustStage(DeletionStage(PivotStage(SubstitutionStage(s)))))

LEMMA StagesTake ==
  ASSUME NEW s, NEW t, Alike(s, t), Room(s.budget, t.budget, 3)
  PROVE  Took(s, t, Stages(s), Stages(t), 3)
<1> DEFINE a1 == SubstitutionStage(s)
           b1 == SubstitutionStage(t)
           a2 == PivotStage(a1)
           b2 == PivotStage(b1)
           a3 == DeletionStage(a2)
           b3 == DeletionStage(b2)
           a4 == DejustStage(a3)
           b4 == DejustStage(b3)
<1>1. Kept(s, t, a1, b1)
  BY SubstitutionKeeps
<1> HIDE DEF a1, b1
<1>2. Took(s, t, a2, b2, 2)
  <2>1. Alike(a1, b1) /\ Room(a1.budget, b1.budget, 1 + 2)
    BY <1>1 DEF Kept
  <2>2. Took(a1, b1, a2, b2, 2)
    BY <2>1, PivotTakes
  <2> QED BY <1>1, <2>2, TookAfterKept
<1> HIDE DEF a2, b2
<1>3. Took(s, t, a3, b3, 2)
  <2>1. Kept(a2, b2, a3, b3)
    BY <1>2, DeletionKeeps DEF Took
  <2> HIDE DEF a3, b3
  <2> QED BY <1>2, <2>1, KeptAfterTook
<1> HIDE DEF a3, b3
<1>4. Room(a3.budget, b3.budget, 0 + 1)
  <2>1. Room(s.budget, t.budget, 1 + 2)
    OBVIOUS
  <2>2. Room(a3.budget, b3.budget, 1)
    BY <1>3, <2>1, RoomLeft
  <2> QED BY <2>2
<1>5. Took(a3, b3, a4, b4, 1)
  <2>1. Alike(a3, b3)
    BY <1>3 DEF Took
  <2> QED BY <1>4, <2>1, DejustTakes
<1> HIDE DEF a4, b4
<1>6. Took(s, t, a4, b4, 2 + 1)
  BY <1>3, <1>5, TookAgain
<1>7. Took(s, t, FrameStage(a4), FrameStage(b4), 2 + 1)
  <2>1. Kept(a4, b4, FrameStage(a4), FrameStage(b4))
    BY <1>6, FramesKeep DEF Took
  <2> QED BY <1>6, <2>1, KeptAfterTook
<1> QED BY <1>7 DEF Stages, a4, b4, a3, b3, a2, b2, a1, b1

\* What the stages start from.
Opened(words, room, noted) == WorkOf(words, OriginalCells(words), <<>>, noted, room, FALSE, 0)

LEMMA OpenedAlike ==
  ASSUME NEW words, IsSequence(words), NEW x \in Nat, NEW y \in Nat, NEW noted
  PROVE  /\ Alike(Opened(words, x, noted), Opened(words, y, noted))
         /\ Opened(words, x, noted).budget = x /\ Opened(words, y, noted).budget = y
<1> DEFINE cells == OriginalCells(words)
           n == Len(words)
<1>1. n \in Nat
  BY SequenceIs
<1> HIDE DEF n
<1>2. cells = [k \in 1 .. n |-> cells[k]] /\ \A k \in 1 .. n : cells[k].at = k - 1
  BY <1>1 DEF OriginalCells, Cell, n
<1> HIDE DEF cells
<1>3. IsSequence(cells) /\ DOMAIN cells = 1 .. n
  BY <1>1, <1>2, Listed
<1>4. IsCells(cells)
  BY <1>2, <1>3 DEF IsCells
<1>5. IsPatches(<<>>)
  BY EmptyIs DEF IsPatches
<1> QED BY <1>4, <1>5 DEF Alike, IsWork, Opened, WorkOf, cells

-----------------------------------------------------------------------------
(***************************************************************************)
(* Quotations.                                                             *)
(***************************************************************************)
\* The offsets of a sentence that no edit may take: those of its marks, and
\* those an odd number of marks precedes.
Sheltered(words) ==
  {o \in 0 .. Len(words) - 1 : words[o + 1] = Quote \/ QuotesBefore(words, o) % 2 = 1}

InPlace(words, c) ==
  \/ c.at = NoOffset /\ c.sym # Quote
  \/ c.at \in 0 .. Len(words) - 1 /\ c.sym = words[c.at + 1]

\* Cells that still hold every sheltered symbol, in order, and no new mark.
Faithful(words, w) ==
  /\ \A i \in DOMAIN w : InPlace(words, w[i])
  /\ \A i, j \in DOMAIN w : i < j /\ w[i].at # NoOffset /\ w[j].at # NoOffset => w[i].at < w[j].at
  /\ \A o \in Sheltered(words) : \E i \in DOMAIN w : w[i].at = o

\* A patch that takes no sheltered symbol and puts in no mark.
IsClear(words, p) ==
  /\ 0 <= p.start /\ p.start < p.end /\ p.end <= Len(words)
  /\ \A o \in p.start .. p.end - 1 : o \notin Sheltered(words)
  /\ ~HasQuote(p.text)

\* Clear patches of different places, of symbols that are gone.
Clear(words, w, ps) ==
  \A k \in DOMAIN ps :
    /\ IsClear(words, ps[k])
    /\ \A i \in DOMAIN w : ~(ps[k].start <= w[i].at /\ w[i].at < ps[k].end)
    /\ \A l \in DOMAIN ps : l # k => ps[l].start # ps[k].start

Quiet(words, s) ==
  IsWork(s) /\ s.text = words /\ Faithful(words, s.cells) /\ Clear(words, s.cells, s.patches)

LEMMA MarksAreFinite ==
  ASSUME NEW words, NEW n \in Nat
  PROVE  /\ IsFiniteSet({i \in 1 .. n : words[i] = Quote})
         /\ QuotesBefore(words, n) \in Nat
<1>1. IsFiniteSet(1 .. n)
  BY FS_Interval
<1>2. IsFiniteSet({i \in 1 .. n : words[i] = Quote})
  BY <1>1, FS_Subset
<1> QED BY <1>2, FS_CardinalityType DEF QuotesBefore

\* No mark between two offsets: as many before the one as before the other.
LEMMA NoMarkBetween ==
  ASSUME NEW words, NEW a \in Nat, NEW b \in Nat, a <= b, \A i \in a + 1 .. b : words[i] # Quote
  PROVE  QuotesBefore(words, b) = QuotesBefore(words, a)
<1>1. {i \in 1 .. b : words[i] = Quote} = {i \in 1 .. a : words[i] = Quote}
  OBVIOUS
<1> QED BY <1>1 DEF QuotesBefore

\* The marks before a cell are the marks before its place in the sentence.
LEMMA SameMarksBefore ==
  ASSUME NEW words, IsSequence(words), NEW w, IsCells(w), Faithful(words, w),
         NEW i \in DOMAIN w, w[i].at # NoOffset
  PROVE  /\ w[i].at \in 0 .. Len(words) - 1
         /\ QuotesBefore(Symbols(w), i - 1) = QuotesBefore(words, w[i].at)
<1> DEFINE n == Len(words)
           o == w[i].at
           A == {j \in 1 .. i - 1 : Symbols(w)[j] = Quote}
           B == {k \in 1 .. o : words[k] = Quote}
           f == [j \in A |-> w[j].at + 1]
<1>1. n \in Nat /\ DOMAIN w = 1 .. Len(w) /\ Len(w) \in Nat
  BY SequenceIs DEF IsCells
<1>2. o \in 0 .. n - 1
  BY DEF Faithful, InPlace
<1>3. \A j \in DOMAIN w : Symbols(w)[j] = w[j].sym
  BY <1>1 DEF Symbols
<1>4. ASSUME NEW j \in A PROVE j \in DOMAIN w /\ w[j].at \in 0 .. o - 1 /\ w[j].at + 1 \in B
  <2>1. j \in DOMAIN w /\ j < i /\ w[j].sym = Quote
    BY <1>1, <1>3
  <2>2. w[j].at \in 0 .. n - 1 /\ words[w[j].at + 1] = Quote
    BY <2>1 DEF Faithful, InPlace
  <2>3. w[j].at # NoOffset
    BY <1>1, <2>2 DEF NoOffset
  <2>4. w[j].at < o
    BY <2>1, <2>3 DEF Faithful
  <2> HIDE DEF o, n
  <2>5. w[j].at \in 0 .. o - 1
    BY <1>1, <1>2, <2>2, <2>4
  <2>6. w[j].at + 1 \in 1 .. o
    BY <1>1, <1>2, <2>5
  <2> QED BY <2>1, <2>2, <2>5, <2>6
<1>5. ASSUME NEW j \in A, NEW l \in A, f[j] = f[l] PROVE j = l
  <2>1. /\ j \in DOMAIN w /\ l \in DOMAIN w /\ w[j].at \in Nat /\ w[l].at \in Nat
        /\ w[j].at = w[l].at
    <3>1. w[j].at + 1 = w[l].at + 1
      BY <1>5
    <3> HIDE DEF A, f
    <3>2. w[j].at \in 0 .. o - 1 /\ w[l].at \in 0 .. o - 1 /\ j \in DOMAIN w /\ l \in DOMAIN w
      BY <1>4
    <3> HIDE DEF o
    <3>3. o \in Nat
      BY <1>1, <1>2
    <3> QED BY <3>1, <3>2, <3>3
  <2>2. w[j].at # NoOffset /\ w[l].at # NoOffset /\ ~(w[j].at < w[l].at) /\ ~(w[l].at < w[j].at)
    BY <2>1 DEF NoOffset
  <2>3. ~(j < l) /\ ~(l < j)
    BY <2>1, <2>2 DEF Faithful
  <2>4. j \in Int /\ l \in Int
    BY <1>1, <2>1
  <2> QED BY <2>3, <2>4
<1>6. ASSUME NEW k \in B PROVE \E j \in A : f[j] = k
  <2>1. k - 1 \in 0 .. n - 1 /\ words[(k - 1) + 1] = Quote /\ k - 1 < o /\ k - 1 \in Int
    <3> HIDE DEF n
    <3>1. k \in 1 .. o
      OBVIOUS
    <3>2. words[k] = Quote
      OBVIOUS
    <3> HIDE DEF o, B
    <3>3. k - 1 \in 0 .. n - 1 /\ (k - 1) + 1 = k /\ k - 1 < o
      BY <1>1, <1>2, <3>1
    <3> QED BY <3>2, <3>3
  <2>2. k - 1 \in Sheltered(words)
    BY <2>1 DEF Sheltered
  <2>3. PICK j \in DOMAIN w : w[j].at = k - 1
    BY <2>2 DEF Faithful
  <2>4. w[j].sym = Quote
    <3>1. w[j].at # NoOffset
      BY <2>1, <2>3 DEF NoOffset
    <3> QED BY <2>1, <2>3, <3>1 DEF Faithful, InPlace
  <2>5. j < i
    <3>1. w[j].at # NoOffset /\ w[j].at < o
      BY <2>1, <2>3 DEF NoOffset
    <3>2. j # i
      BY <2>1, <2>3
    <3>3. ~(i < j)
      <4>1. i < j => o < w[j].at
        BY <3>1 DEF Faithful
      <4>2. ~(o < w[j].at)
        BY <1>2, <2>1, <2>3
      <4> QED BY <4>1, <4>2
    <3> QED BY <1>1, <3>2, <3>3
  <2>6. j \in A
    BY <1>1, <1>3, <2>4, <2>5
  <2>7. f[j] = k
    <3>1. f[j] = (k - 1) + 1
      BY <2>3, <2>6
    <3>2. k \in Int
      BY <1>2
    <3> QED BY <3>1, <3>2
  <2> QED BY <2>6, <2>7
<1>7. f \in Bijection(A, B)
  <2>1. f \in [A -> B]
    BY <1>4
  <2> HIDE DEF A, B, f
  <2> QED BY <1>5, <1>6, <2>1 DEF Bijection, Injection, Surjection, IsInjective
<1>8. Cardinality(A) = Cardinality(B)
  <2>1. IsFiniteSet(A)
    <3>1. i - 1 \in Nat
      BY <1>1
    <3> QED BY <3>1, MarksAreFinite
  <2> HIDE DEF A, B, f
  <2> QED BY <1>7, <2>1, FS_Bijection DEF ExistsBijection
<1> QED BY <1>2, <1>8 DEF QuotesBefore

-----------------------------------------------------------------------------
(***************************************************************************)
(* One edit of a quiet run of the stages.                                  *)
(***************************************************************************)
LEMMA JoinedAt ==
  ASSUME NEW a, IsSequence(a), NEW b, IsSequence(b)
  PROVE  /\ IsSequence(a \o b) /\ Len(a \o b) = Len(a) + Len(b)
         /\ \A k \in 1 .. Len(a) + Len(b) : (a \o b)[k] = IF k <= Len(a) THEN a[k] ELSE b[k - Len(a)]
<1> DEFINE S == Range(a) \cup Range(b)
<1>1. a \in Seq(S) /\ b \in Seq(S)
  BY InBoth
<1> HIDE DEF S
<1>2. Len(a \o b) = Len(a) + Len(b)
  BY <1>1
<1>3. \A k \in 1 .. Len(a) + Len(b) : (a \o b)[k] = IF k <= Len(a) THEN a[k] ELSE b[k - Len(a)]
  BY <1>1
<1> QED BY <1>2, <1>3, JoinedIs

LEMMA PieceAt ==
  ASSUME NEW w, IsSequence(w), NEW a \in Nat, NEW b \in Nat, a <= b, b <= Len(w)
  PROVE  /\ IsSequence(SubSeq(w, a + 1, b)) /\ Len(SubSeq(w, a + 1, b)) = b - a
         /\ \A k \in 1 .. b - a : SubSeq(w, a + 1, b)[k] = w[a + k]
<1> DEFINE p == SubSeq(w, a + 1, b)
<1>1. w \in Seq(Range(w))
  BY DEF IsSequence
<1>2. p = [k \in 1 .. b - a |-> w[a + k]]
  BY <1>1
<1>3. p = [k \in 1 .. b - a |-> p[k]] /\ b - a \in Nat
  BY <1>2
<1> HIDE DEF p
<1>4. IsSequence(p) /\ Len(p) = b - a
  BY <1>3, Listed
<1>5. \A k \in 1 .. b - a : p[k] = w[a + k]
  BY <1>2
<1> QED BY <1>4, <1>5 DEF p

LEMMA PutInAt ==
  ASSUME NEW words, IsSequence(words)
  PROVE  /\ IsSequence(ReplacementCells(words)) /\ Len(ReplacementCells(words)) = Len(words)
         /\ \A k \in 1 .. Len(words) : ReplacementCells(words)[k] = Cell(words[k], NoOffset)
<1> DEFINE b == ReplacementCells(words)
           m == Len(words)
<1>1. m \in Nat
  BY SequenceIs
<1>2. b = [k \in 1 .. m |-> Cell(words[k], NoOffset)]
  BY DEF ReplacementCells
<1>3. b = [k \in 1 .. m |-> b[k]]
  BY <1>2
<1> HIDE DEF b, m
<1>4. IsSequence(b) /\ Len(b) = m
  BY <1>1, <1>3, Listed
<1>5. \A k \in 1 .. m : b[k] = Cell(words[k], NoOffset)
  BY <1>2
<1> QED BY <1>4, <1>5 DEF b, m

LEMMA EditedAt ==
  ASSUME NEW w, IsCells(w), NEW r, CanEdit(w, r), NEW words, IsSequence(words)
  PROVE  LET e == Edited(w, r, words)
             m == Len(words)
         IN  /\ IsCells(e) /\ Len(e) = (Len(w) - (r.end - r.start)) + m
             /\ \A k \in 1 .. Len(e) :
                  /\ k <= r.start => e[k] = w[k]
                  /\ r.start < k /\ k <= r.start + m => e[k] = Cell(words[k - r.start], NoOffset)
                  /\ r.start + m < k => e[k] = w[(k - m) + (r.end - r.start)]
<1> DEFINE n == Len(w)
           m == Len(words)
           a == SubSeq(w, 1, r.start)
           b == ReplacementCells(words)
           c == SubSeq(w, r.end + 1, n)
           s == r.start
           t == r.end
           ab == a \o b
           e == ab \o c
<1>1. n \in Nat /\ m \in Nat /\ s \in 0 .. n - 1 /\ t \in s + 1 .. n
  BY SequenceIs DEF IsCells, CanEdit
<1>2. IsSequence(b) /\ Len(b) = m /\ \A k \in 1 .. m : b[k] = Cell(words[k], NoOffset)
  BY PutInAt
<1>3. IsSequence(a) /\ Len(a) = s /\ \A k \in 1 .. s : a[k] = w[k]
  <2>1. SubSeq(w, 0 + 1, s) = a /\ s - 0 = s /\ 0 \in Nat /\ s \in Nat /\ 0 <= s /\ s <= n
    BY <1>1
  <2>2. IsSequence(SubSeq(w, 0 + 1, s)) /\ Len(SubSeq(w, 0 + 1, s)) = s - 0
        /\ \A k \in 1 .. s - 0 : SubSeq(w, 0 + 1, s)[k] = w[0 + k]
    BY ONLY <2>1, PieceAt, IsCells(w) DEF IsCells
  <2> HIDE DEF a, s, n
  <2>3. \A k \in 1 .. s : 0 + k = k
    BY <1>1
  <2> QED BY <2>1, <2>2, <2>3
<1>4. IsSequence(c) /\ Len(c) = n - t /\ \A k \in 1 .. n - t : c[k] = w[t + k]
  <2>1. t \in Nat /\ n \in Nat /\ t <= n /\ n <= Len(w)
    BY <1>1
  <2> QED BY ONLY <2>1, PieceAt, IsCells(w) DEF IsCells
<1>5. IsCells(Edited(w, r, words)) /\ Edited(w, r, words) = e
  BY EditedIsCells DEF Edited
<1> HIDE DEF n, m, s, t, a, b, c
<1>6. /\ IsSequence(ab) /\ Len(ab) = s + m
      /\ \A k \in 1 .. s + m : ab[k] = IF k <= s THEN a[k] ELSE b[k - s]
  BY <1>2, <1>3, JoinedAt
<1> HIDE DEF ab
<1>7. /\ Len(e) = (s + m) + (n - t)
      /\ \A k \in 1 .. (s + m) + (n - t) : e[k] = IF k <= s + m THEN ab[k] ELSE c[k - (s + m)]
  BY <1>4, <1>6, JoinedAt
<1> HIDE DEF e
<1>8. \A k \in 1 .. (s + m) + (n - t) :
        /\ k <= s => e[k] = w[k]
        /\ s < k /\ k <= s + m => e[k] = Cell(words[k - s], NoOffset)
        /\ s + m < k => e[k] = w[(k - m) + (t - s)]
  <2>1. ASSUME NEW k \in 1 .. (s + m) + (n - t), k <= s PROVE e[k] = w[k]
    <3>1. k \in 1 .. s /\ k \in 1 .. s + m /\ k <= s + m
      BY <1>1, <2>1
    <3> QED BY <1>3, <1>6, <1>7, <2>1, <3>1
  <2>2. ASSUME NEW k \in 1 .. (s + m) + (n - t), s < k, k <= s + m
        PROVE  e[k] = Cell(words[k - s], NoOffset)
    <3>1. k - s \in 1 .. m /\ k \in 1 .. s + m /\ ~(k <= s)
      BY <1>1, <2>2
    <3> QED BY <1>2, <1>6, <1>7, <2>2, <3>1
  <2>3. ASSUME NEW k \in 1 .. (s + m) + (n - t), s + m < k
        PROVE  e[k] = w[(k - m) + (t - s)]
    <3>1. k - (s + m) \in 1 .. n - t /\ t + (k - (s + m)) = (k - m) + (t - s) /\ ~(k <= s + m)
      BY <1>1, <2>3
    <3>2. c[k - (s + m)] = w[t + (k - (s + m))]
      BY <1>4, <3>1
    <3> QED BY <1>7, <2>3, <3>1, <3>2
  <2> QED BY <2>1, <2>2, <2>3
<1>9. (s + m) + (n - t) = (n - (t - s)) + m
  BY <1>1
<1> QED BY <1>5, <1>7, <1>8, <1>9 DEF n, m, s, t

\* Where the cells of an edit's outcome come from, and where the others go.
LEMMA EditMoves ==
  ASSUME NEW w, IsCells(w), NEW r, CanEdit(w, r), NEW words, IsSequence(words)
  PROVE  LET e == Edited(w, r, words)
             m == Len(words)
             From(k) == IF k <= r.start THEN k ELSE (k - m) + (r.end - r.start)
         IN  /\ \A k \in DOMAIN e :
                  \/ \E j \in DOMAIN words : e[k] = Cell(words[j], NoOffset)
                  \/ /\ k <= r.start \/ r.start + m < k
                     /\ From(k) \in DOMAIN w /\ From(k) \notin r.start + 1 .. r.end
                     /\ e[k] = w[From(k)]
             /\ \A i \in DOMAIN w : i \notin r.start + 1 .. r.end => \E k \in DOMAIN e : e[k] = w[i]
<1> DEFINE e == Edited(w, r, words)
           n == Len(w)
           m == Len(words)
           s == r.start
           t == r.end
           From(k) == IF k <= s THEN k ELSE (k - m) + (t - s)
<1>1. n \in Nat /\ DOMAIN w = 1 .. n /\ m \in Nat /\ DOMAIN words = 1 .. m
      /\ s \in 0 .. n - 1 /\ t \in s + 1 .. n
  BY SequenceIs DEF IsCells, CanEdit
<1>2. /\ IsCells(e) /\ Len(e) = (n - (t - s)) + m
      /\ \A k \in 1 .. Len(e) :
           /\ k <= s => e[k] = w[k]
           /\ s < k /\ k <= s + m => e[k] = Cell(words[k - s], NoOffset)
           /\ s + m < k => e[k] = w[(k - m) + (t - s)]
  BY EditedAt
<1>3. DOMAIN e = 1 .. (n - (t - s)) + m
  BY <1>2, SequenceIs DEF IsCells
<1> HIDE DEF e, n, m, s, t
<1>4. ASSUME NEW k \in DOMAIN e
      PROVE  \/ \E j \in DOMAIN words : e[k] = Cell(words[j], NoOffset)
             \/ /\ k <= s \/ s + m < k
                /\ From(k) \in DOMAIN w /\ From(k) \notin s + 1 .. t
                /\ e[k] = w[From(k)]
  <2>0. k \in Int /\ 1 <= k /\ k <= (n - (t - s)) + m
    BY <1>1, <1>3
  <2>1. CASE k <= s
    <3>1. k \in 1 .. n /\ k \notin s + 1 .. t
      BY <1>1, <2>0, <2>1
    <3> QED BY <1>1, <1>2, <1>3, <2>1, <3>1
  <2>2. CASE s < k /\ k <= s + m
    <3>1. k - s \in 1 .. m
      BY <1>1, <2>0, <2>2
    <3> QED BY <1>1, <1>2, <1>3, <2>2, <3>1
  <2>3. CASE s + m < k
    <3>1. (k - m) + (t - s) \in 1 .. n /\ (k - m) + (t - s) \notin s + 1 .. t /\ ~(k <= s)
      BY <1>1, <2>0, <2>3
    <3> QED BY <1>1, <1>2, <1>3, <2>3, <3>1
  <2> QED BY <1>1, <2>0, <2>1, <2>2, <2>3
<1>5. ASSUME NEW i \in DOMAIN w, i \notin s + 1 .. t PROVE \E k \in DOMAIN e : e[k] = w[i]
  <2>1. CASE i <= s
    <3>1. i \in 1 .. (n - (t - s)) + m
      BY <1>1, <2>1
    <3> QED BY <1>2, <1>3, <2>1, <3>1
  <2>2. CASE ~(i <= s)
    <3> DEFINE k == (i - (t - s)) + m
    <3>1. i \in Int /\ t < i /\ i <= n
      BY <1>1, <1>5, <2>2
    <3>2. k \in 1 .. (n - (t - s)) + m /\ s + m < k /\ (k - m) + (t - s) = i
      BY <1>1, <3>1
    <3> HIDE DEF k
    <3> QED BY <1>2, <1>3, <3>2
  <2> QED BY <2>1, <2>2
<1> QED BY <1>4, <1>5 DEF e, m, s, t

LEMMA EditStaysFaithful ==
  ASSUME NEW words, IsSequence(words), NEW w, IsCells(w), Faithful(words, w), NEW r, CanEdit(w, r),
         \A i \in r.start + 1 .. r.end : w[i].at \notin Sheltered(words),
         NEW new, IsSequence(new), ~HasQuote(new)
  PROVE  Faithful(words, Edited(w, r, new))
<1> DEFINE e == Edited(w, r, new)
           m == Len(new)
           s == r.start
           t == r.end
           From(k) == IF k <= s THEN k ELSE (k - m) + (t - s)
<1>1. /\ \A k \in DOMAIN e :
           \/ \E j \in DOMAIN new : e[k] = Cell(new[j], NoOffset)
           \/ /\ k <= s \/ s + m < k
              /\ From(k) \in DOMAIN w /\ From(k) \notin s + 1 .. t
              /\ e[k] = w[From(k)]
      /\ \A i \in DOMAIN w : i \notin s + 1 .. t => \E k \in DOMAIN e : e[k] = w[i]
  BY EditMoves
<1>2. s \in Nat /\ t \in Nat /\ s < t /\ m \in Nat /\ IsCells(e)
  BY EditedAt, SequenceIs DEF IsCells, CanEdit
<1>3. DOMAIN e \subseteq Int
  BY <1>2, SequenceIs DEF IsCells
<1>4. \A j \in DOMAIN new : Cell(new[j], NoOffset).at = NoOffset /\ Cell(new[j], NoOffset).sym # Quote
  BY DEF HasQuote, Cell
<1> HIDE DEF e, m, s, t, From
<1>5. ASSUME NEW k \in DOMAIN e PROVE InPlace(words, e[k])
  BY <1>1, <1>4 DEF InPlace, Faithful
<1>6. ASSUME NEW k \in DOMAIN e, NEW l \in DOMAIN e, k < l, e[k].at # NoOffset, e[l].at # NoOffset
      PROVE  e[k].at < e[l].at
  <2>1. ASSUME NEW x \in DOMAIN e, e[x].at # NoOffset
        PROVE  (x <= s \/ s + m < x) /\ From(x) \in DOMAIN w /\ e[x] = w[From(x)]
    BY <1>1, <1>4, <2>1
  <2>2. From(k) < From(l)
    BY <1>2, <1>3, <1>6, <2>1 DEF From
  <2> QED BY <1>6, <2>1, <2>2 DEF Faithful
<1>7. ASSUME NEW o \in Sheltered(words) PROVE \E k \in DOMAIN e : e[k].at = o
  <2>1. PICK i \in DOMAIN w : w[i].at = o
    BY DEF Faithful
  <2>2. i \notin s + 1 .. t
    BY <2>1 DEF s, t
  <2> QED BY <1>1, <2>1, <2>2
<1> QED BY <1>5, <1>6, <1>7 DEF Faithful, e

\* An edit outside the quotations of the working text takes no sheltered symbol.
LEMMA OutsideTakesNone ==
  ASSUME NEW words, IsSequence(words), NEW w, IsCells(w), Faithful(words, w), NEW r, CanEdit(w, r),
         ~InQuotedSpan(Symbols(w), r)
  PROVE  \A i \in r.start + 1 .. r.end : w[i].at \notin Sheltered(words)
<1> DEFINE s == r.start
           t == r.end
           n == Len(w)
<1>1. n \in Nat /\ DOMAIN w = 1 .. n /\ s \in 0 .. n - 1 /\ t \in s + 1 .. n /\ s \in Nat /\ t \in Nat
  BY SequenceIs DEF IsCells, CanEdit
<1>2. \A i \in s + 1 .. t : Symbols(w)[i] # Quote /\ Symbols(w)[i] = w[i].sym /\ i \in DOMAIN w
  <2>1. \A i \in s + 1 .. t : Symbols(w)[i] # Quote
    BY DEF InQuotedSpan
  <2>2. \A i \in s + 1 .. t : i \in 1 .. n
    BY <1>1
  <2> QED BY <1>1, <2>1, <2>2 DEF Symbols
<1>3. QuotesBefore(Symbols(w), s) % 2 # 1
  BY DEF InQuotedSpan
<1>4. \A i \in s + 1 .. t : w[i].at # NoOffset
  <2>1. w[s + 1].at # NoOffset /\ \A i \in s + 1 .. t : w[i].at = w[s + 1].at + (i - s - 1)
    BY DEF CanEdit
  <2>2. s + 1 \in DOMAIN w
    BY <1>1
  <2>3. w[s + 1].at \in 0 .. Len(words) - 1
    BY <2>1, <2>2 DEF Faithful, InPlace
  <2>4. Len(words) \in Nat
    BY SequenceIs
  <2> HIDE DEF s, t
  <2>5. \A i \in s + 1 .. t : i - s - 1 \in Nat
    BY <1>1
  <2>6. \A i \in s + 1 .. t : w[i].at \in Nat
    BY <2>1, <2>3, <2>4, <2>5
  <2> QED BY <2>6 DEF NoOffset
<1> HIDE DEF s, t, n
<1>5. SUFFICES ASSUME NEW i \in s + 1 .. t PROVE w[i].at \notin Sheltered(words)
  BY DEF s, t
<1>6. i \in DOMAIN w /\ w[i].at # NoOffset /\ w[i].sym # Quote
  BY <1>2, <1>4
<1>7. w[i].at \in 0 .. Len(words) - 1 /\ QuotesBefore(Symbols(w), i - 1) = QuotesBefore(words, w[i].at)
  BY <1>6, SameMarksBefore
<1>8. w[i].sym = words[w[i].at + 1]
  BY <1>6 DEF Faithful, InPlace
<1>9. QuotesBefore(Symbols(w), i - 1) = QuotesBefore(Symbols(w), s)
  <2>1. i - 1 \in Nat /\ s <= i - 1
    BY <1>1
  <2>2. \A k \in s + 1 .. i - 1 : Symbols(w)[k] # Quote
    <3>1. \A k \in s + 1 .. i - 1 : k \in s + 1 .. t
      BY <1>1
    <3> QED BY <1>2, <3>1
  <2> QED BY <1>1, <2>1, <2>2, NoMarkBetween
<1> QED BY <1>3, <1>6, <1>7, <1>8, <1>9 DEF Sheltered

\* The offsets an accepted edit removes.
LEMMA RemovedAre ==
  ASSUME NEW words, IsSequence(words), NEW w, IsCells(w), Faithful(words, w), NEW r, CanEdit(w, r)
  PROVE  LET a == RemovedSpan(w, r).start
             b == RemovedSpan(w, r).end
         IN  /\ a \in Nat /\ b \in Nat /\ a < b /\ b <= Len(words)
             /\ a = w[r.start + 1].at /\ b = a + (r.end - r.start)
             /\ \A i \in r.start + 1 .. r.end : w[i].at = a + (i - r.start - 1)
<1> DEFINE s == r.start
           t == r.end
           n == Len(w)
           a == w[s + 1].at
<1>1. n \in Nat /\ DOMAIN w = 1 .. n /\ s \in 0 .. n - 1 /\ t \in s + 1 .. n
  BY SequenceIs DEF IsCells, CanEdit
<1>2. a # NoOffset /\ \A i \in s + 1 .. t : w[i].at = a + (i - s - 1)
  BY DEF CanEdit
<1>3. s + 1 \in DOMAIN w /\ t \in DOMAIN w /\ t \in s + 1 .. t
  BY <1>1
<1>4. a \in 0 .. Len(words) - 1
  BY <1>2, <1>3 DEF Faithful, InPlace
<1>5. w[t].at = a + (t - s - 1) /\ RemovedSpan(w, r) = Span(a, w[t].at + 1)
  BY <1>2, <1>3 DEF RemovedSpan
<1>6. RemovedSpan(w, r).start = a /\ RemovedSpan(w, r).end = w[t].at + 1
  BY <1>5 DEF Span
<1>7. Len(words) \in Nat
  BY SequenceIs
<1>8. w[t].at \in 0 .. Len(words) - 1
  <2>1. w[t].at # NoOffset
    <3> HIDE DEF a, s, t
    <3>1. a + (t - s - 1) >= 0
      BY <1>1, <1>4, <1>7
    <3> QED BY <1>5, <3>1 DEF NoOffset
  <2> QED BY <1>3, <2>1 DEF Faithful, InPlace
<1> HIDE DEF a, s, t, n
<1>9. w[t].at + 1 = a + (t - s) /\ a \in Nat /\ w[t].at + 1 \in Nat /\ a < w[t].at + 1 /\ w[t].at + 1 <= Len(words)
  <2> DEFINE z == w[t].at
             m == Len(words)
  <2>1. z = a + (t - s - 1)
    BY <1>5
  <2>2. a \in 0 .. m - 1 /\ z \in 0 .. m - 1 /\ m \in Nat
    BY <1>4, <1>7, <1>8
  <2> HIDE DEF z, m
  <2>3. z + 1 = a + (t - s)
    BY ONLY <1>1, <2>1, <2>2
  <2>4. a \in Nat /\ z + 1 \in Nat /\ a < z + 1 /\ z + 1 <= m
    BY ONLY <1>1, <2>1, <2>2
  <2> QED BY ONLY <2>3, <2>4 DEF z, m
<1> QED BY <1>2, <1>6, <1>9 DEF a, s, t

\* A quiet run stays quiet with an edit that takes no sheltered symbol.
LEMMA QuietEdit ==
  ASSUME NEW words, IsSequence(words), NEW s, Quiet(words, s), NEW r, CanEdit(s.cells, r),
         \A i \in r.start + 1 .. r.end : s.cells[i].at \notin Sheltered(words),
         NEW new, IsSequence(new), ~HasQuote(new), NEW rule
  PROVE  /\ Quiet(words, Spliced(s, r, new, rule))
         /\ Spliced(s, r, new, rule).cells = Edited(s.cells, r, new)
<1> DEFINE w == s.cells
           e == Edited(w, r, new)
           a == RemovedSpan(w, r).start
           b == RemovedSpan(w, r).end
           p == Patch(a, b, new, rule)
           ps == Append(s.patches, p)
           u == Spliced(s, r, new, rule)
<1>1. u = WorkOf(s.text, e, ps, s.held, s.budget, s.pivoted, s.declined)
  BY DEF Spliced, WorkOf, Quiet, IsWork
<1>2. IsWork(u)
  <2>1. Alike(s, s)
    BY DEF Quiet, Alike
  <2> QED BY <2>1, SplicedKeeps DEF Kept, Alike
<1>3. u.text = words /\ u.cells = e /\ u.patches = ps
  BY <1>1 DEF WorkOf, Quiet
<1>4. IsCells(w) /\ Faithful(words, w) /\ Clear(words, w, s.patches) /\ IsPatches(s.patches)
  BY DEF Quiet, IsWork
<1>5. Faithful(words, e)
  BY <1>4, EditStaysFaithful
<1>6. /\ a \in Nat /\ b \in Nat /\ a < b /\ b <= Len(words) /\ b = a + (r.end - r.start)
      /\ a = w[r.start + 1].at
      /\ \A i \in r.start + 1 .. r.end : w[i].at = a + (i - r.start - 1)
  BY <1>4, RemovedAre
<1>7. /\ DOMAIN w = 1 .. Len(w) /\ Len(w) \in Nat /\ r.start \in 0 .. Len(w) - 1
      /\ r.end \in r.start + 1 .. Len(w)
  BY <1>4, SequenceIs DEF IsCells, CanEdit
<1>8. \A o \in a .. b - 1 : \E i \in r.start + 1 .. r.end : w[i].at = o
  <2>1. SUFFICES ASSUME NEW o \in a .. b - 1 PROVE \E i \in r.start + 1 .. r.end : w[i].at = o
    OBVIOUS
  <2> DEFINE i == r.start + 1 + (o - a)
  <2>1a. r.start \in Nat /\ r.end \in Nat /\ a \in Nat /\ b \in Nat /\ b = a + (r.end - r.start)
    <3> HIDE DEF a, b, w
    <3> QED BY <1>6, <1>7
  <2> HIDE DEF a, b
  <2>1b. o \in Int /\ a <= o /\ o < b
    BY <2>1a
  <2>2. i \in r.start + 1 .. r.end /\ a + (i - r.start - 1) = o
    BY ONLY <2>1a, <2>1b
  <2> HIDE DEF i
  <2> QED BY <1>6, <2>2
<1>9. IsClear(words, p)
  <2>1. p.start = a /\ p.end = b /\ p.text = new
    BY DEF Patch
  <2>2. \A o \in a .. b - 1 : o \notin Sheltered(words)
    BY <1>8
  <2> HIDE DEF p, a, b
  <2> QED BY <1>6, <2>1, <2>2 DEF IsClear
\* The cells that are left are cells that were there, outside the edit.
<1>10. \A k \in DOMAIN e : \/ e[k].at = NoOffset
                          \/ \E i \in DOMAIN w : i \notin r.start + 1 .. r.end /\ e[k] = w[i]
  <2>1. \A k \in DOMAIN e :
          \/ \E j \in DOMAIN new : e[k] = Cell(new[j], NoOffset)
          \/ \E i \in DOMAIN w : i \notin r.start + 1 .. r.end /\ e[k] = w[i]
    BY <1>4, EditMoves
  <2>2. \A j \in DOMAIN new : Cell(new[j], NoOffset).at = NoOffset
    BY DEF Cell
  <2> HIDE DEF e, w
  <2> QED BY <2>1, <2>2
<1>11. \A k \in DOMAIN e : ~(a <= e[k].at /\ e[k].at < b)
  <2>1. SUFFICES ASSUME NEW k \in DOMAIN e, a <= e[k].at, e[k].at < b PROVE FALSE
    OBVIOUS
  <2>2. e[k].at \in Int
    BY <1>2, <1>3 DEF IsWork, IsCells
  <2>3. e[k].at # NoOffset
    <3> HIDE DEF e, a
    <3> QED BY <1>6, <2>1, <2>2 DEF NoOffset
  <2>4. PICK i \in DOMAIN w : i \notin r.start + 1 .. r.end /\ e[k] = w[i]
    BY <1>10, <2>3
  <2>5. e[k].at \in a .. b - 1
    <3> HIDE DEF e, a, b
    <3> QED BY <1>6, <2>1, <2>2
  <2>6. PICK j \in r.start + 1 .. r.end : w[j].at = w[i].at
    BY <1>8, <2>4, <2>5
  <2>7. i \in Int /\ j \in Int /\ i # j /\ j \in DOMAIN w
    BY <1>7, <2>4
  <2>8. w[i].at # NoOffset /\ w[j].at # NoOffset /\ w[i].at \in Int
    BY <1>4, <2>3, <2>4, <2>6 DEF IsCells
  <2>9. i < j \/ j < i
    BY <2>7
  <2>10. w[i].at < w[j].at \/ w[j].at < w[i].at
    BY <1>4, <2>7, <2>8, <2>9 DEF Faithful
  <2> QED BY <2>6, <2>8, <2>10
<1>12. \A k \in DOMAIN s.patches : \A l \in DOMAIN e :
         ~(s.patches[k].start <= e[l].at /\ e[l].at < s.patches[k].end)
  <2>1. SUFFICES ASSUME NEW k \in DOMAIN s.patches, NEW l \in DOMAIN e,
                        s.patches[k].start <= e[l].at, e[l].at < s.patches[k].end
                 PROVE  FALSE
    OBVIOUS
  <2>2. 0 <= s.patches[k].start /\ s.patches[k].start \in Int
    BY <1>4 DEF Clear, IsClear, IsPatches, IsPatch
  <2>3. e[l].at # NoOffset
    <3>1. e[l].at \in Int
      BY <1>2, <1>3 DEF IsWork, IsCells
    <3> HIDE DEF e
    <3> QED BY <2>1, <2>2, <3>1 DEF NoOffset
  <2>4. PICK i \in DOMAIN w : e[l] = w[i]
    BY <1>10, <2>3
  <2> QED BY <1>4, <2>1, <2>4 DEF Clear
<1>13. \A k \in DOMAIN s.patches : s.patches[k].start # a
  <2>1. SUFFICES ASSUME NEW k \in DOMAIN s.patches, s.patches[k].start = a PROVE FALSE
    OBVIOUS
  <2>2. r.start + 1 \in DOMAIN w
    BY <1>7
  <2>3. s.patches[k].start < s.patches[k].end /\ s.patches[k].start <= s.patches[k].start
    BY <1>4, <1>6, <2>1 DEF Clear, IsClear
  <2> QED BY <1>4, <1>6, <2>1, <2>2, <2>3 DEF Clear
<1>14. Clear(words, e, ps)
  <2>1. \A k \in DOMAIN ps : (k \in DOMAIN s.patches /\ ps[k] = s.patches[k]) \/ ps[k] = p
    BY <1>4, AppendedIs DEF IsPatches
  <2>2. p.start = a /\ p.end = b
    BY DEF Patch
  <2>3. \A k \in DOMAIN ps, l \in DOMAIN ps : l # k => ps[k] # p \/ ps[l] # p \/ k \in DOMAIN s.patches \/ l \in DOMAIN s.patches
    <3>1. IsSequence(s.patches)
      BY <1>4 DEF IsPatches
    <3>2. /\ Len(s.patches) \in Nat /\ DOMAIN s.patches = 1 .. Len(s.patches)
          /\ IsSequence(ps) /\ Len(ps) = Len(s.patches) + 1
      BY <3>1, SequenceIs, AppendedIs
    <3>3. DOMAIN ps = 1 .. Len(s.patches) + 1
      BY <3>2, SequenceIs
    <3> HIDE DEF ps, p
    <3> QED BY <3>2, <3>3
  <2>4. \A k \in DOMAIN s.patches : k \in DOMAIN ps /\ ps[k] = s.patches[k]
    <3>1. s.patches \in Seq(Range(s.patches) \cup {p})
      BY <1>4 DEF IsPatches, IsSequence
    <3> DEFINE V == Range(s.patches) \cup {p}
    <3>2. p \in V
      OBVIOUS
    <3> HIDE DEF V, p
    <3> QED BY <3>1, <3>2 DEF V
  <2> HIDE DEF ps, p, e, a, b
  <2>5. ASSUME NEW k \in DOMAIN ps
        PROVE  IsClear(words, ps[k]) /\ \A i \in DOMAIN e : ~(ps[k].start <= e[i].at /\ e[i].at < ps[k].end)
    BY <1>4, <1>9, <1>11, <1>12, <2>1, <2>2 DEF Clear
  <2>6. ASSUME NEW k \in DOMAIN ps, NEW l \in DOMAIN ps, l # k PROVE ps[l].start # ps[k].start
    <3>1. CASE k \in DOMAIN s.patches /\ l \in DOMAIN s.patches
      BY <1>4, <2>4, <2>6, <3>1 DEF Clear
    <3>2. CASE k \in DOMAIN s.patches /\ l \notin DOMAIN s.patches
      BY <1>13, <2>1, <2>2, <2>4, <3>2
    <3>3. CASE k \notin DOMAIN s.patches /\ l \in DOMAIN s.patches
      BY <1>13, <2>1, <2>2, <2>4, <3>3
    <3>4. CASE k \notin DOMAIN s.patches /\ l \notin DOMAIN s.patches
      BY <2>1, <2>3, <2>6, <3>4
    <3> QED BY <3>1, <3>2, <3>3, <3>4
  <2> QED BY <2>5, <2>6 DEF Clear
<1> QED BY <1>2, <1>3, <1>5, <1>14 DEF Quiet

LEMMA QuietSplice ==
  ASSUME NEW words, IsSequence(words), NEW s, Quiet(words, s), NEW r,
         CanEdit(s.cells, r) => ~InQuotedSpan(Symbols(s.cells), r),
         NEW new, IsSequence(new), ~HasQuote(new), NEW rule
  PROVE  Quiet(words, Spliced(s, r, new, rule))
<1>1. CASE CanEdit(s.cells, r)
  <2>1. IsCells(s.cells) /\ Faithful(words, s.cells)
    BY DEF Quiet, IsWork
  <2>2. \A i \in r.start + 1 .. r.end : s.cells[i].at \notin Sheltered(words)
    BY <1>1, <2>1, OutsideTakesNone
  <2> QED BY <1>1, <2>2, QuietEdit
<1>2. CASE ~CanEdit(s.cells, r)
  <2>1. IsWork(Spliced(s, r, new, rule))
    <3>1. Alike(s, s)
      BY DEF Quiet, Alike
    <3> QED BY <3>1, SplicedKeeps DEF Kept, Alike
  <2>2. /\ Spliced(s, r, new, rule).text = s.text /\ Spliced(s, r, new, rule).cells = s.cells
        /\ Spliced(s, r, new, rule).patches = s.patches
    BY <1>2 DEF Spliced, Quiet, IsWork, WorkOf
  <2> QED BY <2>1, <2>2 DEF Quiet
<1> QED BY <1>1, <1>2

-----------------------------------------------------------------------------
(***************************************************************************)
(* Edits planned on one working text and made from the right.              *)
(***************************************************************************)
\* The first m cells are those of the working text planned on, and no piece of
\* the original reaches over their end.
Intact(planned, w, m) ==
  /\ m \in 0 .. Len(planned) /\ m <= Len(w)
  /\ \A i \in 1 .. m : w[i] = planned[i]
  /\ ~(0 < m /\ m < Len(w) /\ w[m].at # NoOffset /\ w[m + 1].at = w[m].at + 1)

\* An edit planned outside the quotations is outside them still.
LEMMA StillOutside ==
  ASSUME NEW words, IsSequence(words), NEW w, IsCells(w), Faithful(words, w), NEW planned, IsCells(planned),
         NEW m, Intact(planned, w, m), NEW r, r.start < m, CanEdit(w, r),
         ~InQuotedSpan(Symbols(planned), r)
  PROVE  r.end <= m /\ ~InQuotedSpan(Symbols(w), r)
<1> DEFINE s == r.start
           t == r.end
           n == Len(w)
           l == Len(planned)
<1>1. /\ n \in Nat /\ DOMAIN w = 1 .. n /\ s \in 0 .. n - 1 /\ t \in s + 1 .. n /\ s \in Nat /\ t \in Nat
      /\ l \in Nat /\ m \in 0 .. l /\ m <= n /\ m \in Nat /\ s < m
  BY SequenceIs DEF IsCells, CanEdit, Intact
<1>2. w[s + 1].at # NoOffset /\ \A i \in s + 1 .. t : w[i].at = w[s + 1].at + (i - s - 1)
  BY DEF CanEdit
<1>3. \A i \in DOMAIN w : w[i].at \in Int
  BY DEF IsCells
<1>4. w[s + 1].at \in Nat
  <2>1. s + 1 \in DOMAIN w
    BY <1>1
  <2>2. w[s + 1].at \in 0 .. Len(words) - 1 /\ Len(words) \in Nat
    BY <1>2, <2>1, SequenceIs DEF Faithful, InPlace
  <2> QED BY <2>2
<1>5. t <= m
  <2>1. SUFFICES ASSUME m < t PROVE FALSE
    BY <1>1
  <2> HIDE DEF s, t, n
  <2>2. m \in s + 1 .. t /\ m + 1 \in s + 1 .. t /\ 0 < m /\ m < n
    BY <1>1, <2>1
  <2>3. w[m].at = w[s + 1].at + (m - s - 1) /\ w[m + 1].at = w[s + 1].at + ((m + 1) - s - 1)
    <3>1. \A i : i \in s + 1 .. t => w[i].at = w[s + 1].at + (i - s - 1)
      BY <1>2
    <3>2. w[m].at = w[s + 1].at + (m - s - 1)
      BY ONLY <2>2, <3>1
    <3>3. w[m + 1].at = w[s + 1].at + ((m + 1) - s - 1)
      BY ONLY <2>2, <3>1
    <3> QED BY <3>2, <3>3
  <2>4. w[m].at # NoOffset /\ w[m + 1].at = w[m].at + 1
    BY <1>1, <1>4, <2>2, <2>3 DEF NoOffset
  <2> QED BY <2>2, <2>4 DEF Intact, n
<1>6. \A i \in 1 .. m : Symbols(w)[i] = Symbols(planned)[i]
  <2>1. \A i \in 1 .. m : i \in 1 .. n /\ i \in 1 .. l
    BY <1>1
  <2>2. \A i \in 1 .. m : w[i] = planned[i]
    BY DEF Intact
  <2> QED BY <2>1, <2>2 DEF Symbols
<1>7. QuotesBefore(Symbols(w), s) = QuotesBefore(Symbols(planned), s)
  <2>1. \A i \in 1 .. s : i \in 1 .. m
    BY <1>1
  <2>2. {i \in 1 .. s : Symbols(w)[i] = Quote} = {i \in 1 .. s : Symbols(planned)[i] = Quote}
    BY <1>6, <2>1
  <2> QED BY <2>2 DEF QuotesBefore
<1>8. \A i \in s + 1 .. t : i \in 1 .. m
  BY <1>1, <1>5
<1> QED BY <1>5, <1>6, <1>7, <1>8 DEF InQuotedSpan

\* An edit leaves what is before it intact.
LEMMA IntactBefore ==
  ASSUME NEW words, IsSequence(words), NEW w, IsCells(w), Faithful(words, w), NEW planned, IsCells(planned),
         NEW m, Intact(planned, w, m), NEW r, r.start < m, CanEdit(w, r), NEW new, IsSequence(new)
  PROVE  Intact(planned, Edited(w, r, new), r.start)
<1> DEFINE s == r.start
           t == r.end
           n == Len(w)
           e == Edited(w, r, new)
           k == Len(new)
           l == Len(planned)
<1>1. /\ n \in Nat /\ DOMAIN w = 1 .. n /\ s \in 0 .. n - 1 /\ t \in s + 1 .. n
      /\ m \in 0 .. l /\ m <= n /\ s < m /\ k \in Nat /\ l \in Nat
  BY SequenceIs DEF IsCells, CanEdit, Intact
<1>2. /\ Len(e) = (n - (t - s)) + k
      /\ \A i \in 1 .. Len(e) :
           /\ i <= s => e[i] = w[i]
           /\ s < i /\ i <= s + k => e[i] = Cell(new[i - s], NoOffset)
           /\ s + k < i => e[i] = w[(i - k) + (t - s)]
  BY EditedAt
<1>3. w[s + 1].at # NoOffset /\ w[t].at # NoOffset
  <2>1. w[s + 1].at # NoOffset /\ w[t].at = w[s + 1].at + (t - s - 1)
    <3>1. t \in s + 1 .. t
      BY <1>1
    <3> QED BY <3>1 DEF CanEdit
  <2>2. w[s + 1].at \in Nat
    <3>1. s + 1 \in DOMAIN w
      BY <1>1
    <3>2. w[s + 1].at \in 0 .. Len(words) - 1 /\ Len(words) \in Nat
      BY <2>1, <3>1, SequenceIs DEF Faithful, InPlace
    <3> QED BY <3>2
  <2> HIDE DEF s, t
  <2>3. w[t].at \in Nat
    BY <1>1, <2>1, <2>2
  <2> QED BY <2>1, <2>3 DEF NoOffset
<1>4. \A i \in 1 .. m : w[i] = planned[i]
  BY DEF Intact
<1>5. \A i \in DOMAIN w : w[i].at \in Int
  BY DEF IsCells
<1> HIDE DEF s, t, n, e, k, l
<1>6. s \in 0 .. l /\ s <= Len(e)
  BY <1>1, <1>2
<1>7. \A i \in 1 .. s : e[i] = planned[i]
  <2>1. \A i \in 1 .. s : i \in 1 .. m /\ i \in 1 .. Len(e) /\ i <= s
    BY <1>1, <1>6
  <2> QED BY <1>2, <1>4, <2>1
<1>8. ASSUME 0 < s, s < Len(e), e[s].at # NoOffset, e[s + 1].at = e[s].at + 1 PROVE FALSE
  <2>1. s \in 1 .. Len(e) /\ s + 1 \in 1 .. Len(e) /\ s \in DOMAIN w /\ s + 1 \in DOMAIN w /\ t \in DOMAIN w
    BY <1>1, <1>8
  <2>2. e[s] = w[s] /\ w[s].at \in Int
    BY <1>1, <1>2, <1>5, <2>1
  <2>3. w[s].at \in Nat
    <3>1. w[s].at \in 0 .. Len(words) - 1 /\ Len(words) \in Nat
      BY <1>8, <2>1, <2>2, SequenceIs DEF Faithful, InPlace
    <3> QED BY <3>1
  <2>4. CASE k > 0
    <3>1. s < s + 1 /\ s + 1 <= s + k
      BY <1>1, <2>4
    <3>2. e[s + 1].at = NoOffset
      BY <1>2, <2>1, <3>1 DEF Cell
    <3> QED BY <1>8, <2>2, <2>3, <3>2 DEF NoOffset
  <2>5. CASE k = 0
    <3>0. s \in Nat /\ t \in Nat /\ t < n
      <4>1. Len(e) = (n - (t - s)) + k /\ s < Len(e)
        BY <1>2, <1>8
      <4> QED BY <1>1, <2>5, <4>1
    <3>1. s + k < s + 1 /\ ((s + 1) - k) + (t - s) = t + 1 /\ t + 1 \in DOMAIN w
      BY <1>1, <2>5, <3>0
    <3>2. e[s + 1] = w[t + 1]
      BY <1>2, <2>1, <3>1
    <3>3. w[t + 1].at # NoOffset
      BY <1>8, <2>2, <2>3, <3>2 DEF NoOffset
    <3>4. s < s + 1 /\ s + 1 <= t /\ t < t + 1
      BY <1>1
    <3>5. w[s].at # NoOffset
      BY <1>8, <2>2
    <3>6. w[s].at < w[t].at
      <4>1. s < t
        BY <1>1
      <4> QED BY <1>3, <2>1, <3>5, <4>1 DEF Faithful
    <3>7. w[t].at < w[t + 1].at
      BY <1>3, <2>1, <3>1, <3>3, <3>4 DEF Faithful
    <3>8. w[t].at \in Int /\ w[t + 1].at \in Int
      BY <1>5, <2>1, <3>1
    <3> QED BY <1>8, <2>2, <3>2, <3>6, <3>7, <3>8
  <2> QED BY <1>1, <2>4, <2>5
<1> QED BY <1>6, <1>7, <1>8 DEF Intact, s, e, l

\* One edit of a row.
LEMMA RowEdit ==
  ASSUME NEW words, IsSequence(words), NEW s, Quiet(words, s), NEW planned, IsCells(planned),
         NEW m, Intact(planned, s.cells, m), NEW r, r.start \in Nat, r.start < m,
         ~InQuotedSpan(Symbols(planned), r),
         NEW new, IsSequence(new), ~HasQuote(new), NEW rule
  PROVE  /\ Quiet(words, Spliced(s, r, new, rule))
         /\ \E q : Intact(planned, Spliced(s, r, new, rule).cells, q) /\ r.start <= q
<1>1. IsCells(s.cells) /\ Faithful(words, s.cells)
  BY DEF Quiet, IsWork
<1>2. Quiet(words, Spliced(s, r, new, rule))
  <2>1. CanEdit(s.cells, r) => ~InQuotedSpan(Symbols(s.cells), r)
    BY <1>1, StillOutside
  <2> QED BY <2>1, QuietSplice
<1>3. CASE CanEdit(s.cells, r)
  <2>1. Spliced(s, r, new, rule).cells = Edited(s.cells, r, new)
    BY <1>3 DEF Spliced, Quiet, IsWork, WorkOf
  <2>2. Intact(planned, Edited(s.cells, r, new), r.start)
    BY <1>1, <1>3, IntactBefore
  <2> QED BY <1>2, <2>1, <2>2
<1>4. CASE ~CanEdit(s.cells, r)
  <2>1. Spliced(s, r, new, rule).cells = s.cells
    BY <1>4 DEF Spliced, Quiet, IsWork, WorkOf
  <2>2. m \in Int /\ r.start <= m
    BY SequenceIs DEF Intact, IsCells
  <2> QED BY <1>2, <2>1, <2>2
<1> QED BY <1>3, <1>4

LEMMA AllIntact ==
  ASSUME NEW w, IsCells(w)
  PROVE  Intact(w, w, Len(w))
BY SequenceIs DEF Intact, IsCells

LEMMA SplicesStayQuiet ==
  ASSUME NEW words, IsSequence(words), NEW s, Quiet(words, s), NEW edits, IsSequence(edits),
         \A k \in DOMAIN edits :
           /\ IsSequence(edits[k].text) /\ ~HasQuote(edits[k].text)
           /\ ~InQuotedSpan(Symbols(s.cells), edits[k])
           /\ edits[k].start \in Nat /\ edits[k].start < Len(s.cells),
         \A k, l \in DOMAIN edits : k < l => edits[l].start < edits[k].start
  PROVE  Quiet(words, SplicedAll(s, edits))
<1> DEFINE n == Len(edits)
           planned == s.cells
<1>1. n \in Nat /\ DOMAIN edits = 1 .. n /\ IsCells(planned)
  BY SequenceIs DEF Quiet, IsWork
<1>2. \A k \in 1 .. n : /\ IsSequence(edits[k].text) /\ ~HasQuote(edits[k].text)
                        /\ ~InQuotedSpan(Symbols(planned), edits[k])
                        /\ edits[k].start \in Nat /\ edits[k].start < Len(planned)
  BY <1>1
<1>3. \A k, l \in 1 .. n : k < l => edits[l].start < edits[k].start
  BY <1>1
<1>4. Intact(planned, s.cells, Len(planned))
  BY <1>1, AllIntact
<1> HIDE DEF n, planned
<1>5. PICK g : Splicing!IsTrace(0, s, n, edits, g) /\ Splicing!Folded(0, s, edits) = g[n]
  BY <1>1, Splicing!FoldHasTrace, StagesInduct
<1>6. g[0] = s /\ \A k \in 1 .. n : g[k] = SplicedPatch(g[k - 1], edits[k])
  BY <1>5 DEF Splicing!IsTrace, SpliceStep
<1> DEFINE Left(k, q) == Intact(planned, g[k].cells, q) /\ \A l \in k + 1 .. n : edits[l].start < q
           T == {k \in Nat : k <= n => Quiet(words, g[k]) /\ \E q : Left(k, q)}
<1>7. 0 \in T
  <2>1. \A l \in 0 + 1 .. n : edits[l].start < Len(planned)
    BY <1>2
  <2>2. Left(0, Len(planned))
    BY <1>4, <1>6, <2>1
  <2> HIDE DEF Left
  <2> QED BY <1>6, <2>2
<1>8. ASSUME NEW k \in Nat, k \in T PROVE k + 1 \in T
  <2>1. SUFFICES ASSUME k + 1 <= n PROVE Quiet(words, g[k + 1]) /\ \E q : Left(k + 1, q)
    BY <1>8
  <2>2. k + 1 \in 1 .. n /\ (k + 1) - 1 = k /\ k + 1 \in k + 1 .. n /\ k <= n
    BY <1>1, <2>1
  <2>3. Quiet(words, g[k])
    BY <1>8, <2>2
  <2>4. PICK m : Left(k, m)
    <3> HIDE DEF Left
    <3> QED BY <1>8, <2>2
  <2> DEFINE p == edits[k + 1]
  <2>5. /\ IsSequence(p.text) /\ ~HasQuote(p.text) /\ ~InQuotedSpan(Symbols(planned), p)
        /\ p.start \in Nat /\ p.start < m /\ Intact(planned, g[k].cells, m)
    BY <1>2, <2>2, <2>4
  <2>6. g[k + 1] = Spliced(g[k], p, p.text, p.rule)
    BY <1>6, <2>2 DEF SplicedPatch
  <2>7. \A l \in (k + 1) + 1 .. n : edits[l].start < p.start /\ edits[l].start \in Nat
    <3>1. \A l \in (k + 1) + 1 .. n : l \in 1 .. n /\ k + 1 < l
      BY <1>1, <2>2
    <3> QED BY <1>2, <1>3, <2>2, <3>1
  <2> HIDE DEF p
  <2>8. Quiet(words, g[k + 1]) /\ \E q : Intact(planned, g[k + 1].cells, q) /\ p.start <= q
    BY <1>1, <2>3, <2>5, <2>6, RowEdit
  <2>9. PICK q : Intact(planned, g[k + 1].cells, q) /\ p.start <= q
    BY <2>8
  <2>10. q \in Int
    BY <1>1, <2>9, SequenceIs DEF Intact, IsCells
  <2>11. \A l \in (k + 1) + 1 .. n : edits[l].start < q
    BY <2>5, <2>7, <2>9, <2>10
  <2>12. Left(k + 1, q)
    BY <2>9, <2>11
  <2> HIDE DEF Left
  <2> QED BY <2>8, <2>12
<1> HIDE DEF T
<1>9. Nat \subseteq T
  BY <1>7, <1>8, NatInduct
<1>10. Quiet(words, g[n])
  BY <1>1, <1>9 DEF T
<1> QED BY <1>5, <1>10, SplicedAllIsAFold DEF n

LEMMA PlansStayQuiet ==
  ASSUME NEW words, IsSequence(words), NEW s, Quiet(words, s), NEW plans, IsSequence(plans),
         \A k \in DOMAIN plans :
           /\ IsSequence(plans[k].text) /\ ~HasQuote(plans[k].text)
           /\ ~InQuotedSpan(Symbols(s.cells), plans[k].range) /\ ~InQuotedSpan(Symbols(s.cells), plans[k].base)
           /\ plans[k].range.start \in Nat /\ plans[k].base.start \in Nat
           /\ plans[k].range.start <= plans[k].base.start /\ plans[k].base.start < Len(s.cells),
         \A k, l \in DOMAIN plans : k < l => plans[l].base.start < plans[k].range.start
  PROVE  Quiet(words, FramePlansApplied(s, plans))
<1> DEFINE n == Len(plans)
           planned == s.cells
<1>1. n \in Nat /\ DOMAIN plans = 1 .. n /\ IsCells(planned)
  BY SequenceIs DEF Quiet, IsWork
<1>2. \A k \in 1 .. n :
        /\ IsSequence(plans[k].text) /\ ~HasQuote(plans[k].text)
        /\ ~InQuotedSpan(Symbols(planned), plans[k].range) /\ ~InQuotedSpan(Symbols(planned), plans[k].base)
        /\ plans[k].range.start \in Nat /\ plans[k].base.start \in Nat
        /\ plans[k].range.start <= plans[k].base.start /\ plans[k].base.start < Len(planned)
  BY <1>1
<1>3. \A k, l \in 1 .. n : k < l => plans[l].base.start < plans[k].range.start
  BY <1>1
<1>4. Intact(planned, s.cells, Len(planned))
  BY <1>1, AllIntact
<1> HIDE DEF n, planned
<1>5. PICK g : Planning!IsTrace(0, s, n, plans, g) /\ Planning!Folded(0, s, plans) = g[n]
  BY <1>1, Planning!FoldHasTrace, StagesInduct
<1>6. g[0] = s /\ \A k \in 1 .. n : g[k] = FramePlanApplied(g[k - 1], plans[k])
  BY <1>5 DEF Planning!IsTrace, PlanStep
<1> DEFINE Left(k, q) == Intact(planned, g[k].cells, q) /\ \A l \in k + 1 .. n : plans[l].base.start < q
           T == {k \in Nat : k <= n => Quiet(words, g[k]) /\ \E q : Left(k, q)}
<1>7. 0 \in T
  <2>1. \A l \in 0 + 1 .. n : plans[l].base.start < Len(planned)
    BY <1>2
  <2>2. Left(0, Len(planned))
    BY <1>4, <1>6, <2>1
  <2> HIDE DEF Left
  <2> QED BY <1>6, <2>2
<1>8. ASSUME NEW k \in Nat, k \in T PROVE k + 1 \in T
  <2>1. SUFFICES ASSUME k + 1 <= n PROVE Quiet(words, g[k + 1]) /\ \E q : Left(k + 1, q)
    BY <1>8
  <2>2. k + 1 \in 1 .. n /\ (k + 1) - 1 = k /\ k + 1 \in k + 1 .. n /\ k <= n
    BY <1>1, <2>1
  <2>3. Quiet(words, g[k])
    BY <1>8, <2>2
  <2>4. PICK m : Left(k, m)
    <3> HIDE DEF Left
    <3> QED BY <1>8, <2>2
  <2> DEFINE p == plans[k + 1]
             a == p.range.start
  <2>5. /\ IsSequence(p.text) /\ ~HasQuote(p.text)
        /\ ~InQuotedSpan(Symbols(planned), p.range) /\ ~InQuotedSpan(Symbols(planned), p.base)
        /\ a \in Nat /\ p.base.start \in Nat /\ a <= p.base.start /\ p.base.start < m
        /\ Intact(planned, g[k].cells, m)
    BY <1>2, <2>2, <2>4
  <2>6. g[k + 1] = FramePlanApplied(g[k], p)
    BY <1>6, <2>2
  <2>7. \A l \in (k + 1) + 1 .. n : plans[l].base.start < a /\ plans[l].base.start \in Nat
    <3>1. \A l \in (k + 1) + 1 .. n : l \in 1 .. n /\ k + 1 < l
      BY <1>1, <2>2
    <3> QED BY <1>2, <1>3, <2>2, <3>1
  <2> HIDE DEF p, a
  <2>8. m \in Int
    BY <1>1, <2>5, SequenceIs DEF Intact, IsCells
  <2>9. a < m /\ p.range.start = a
    BY <2>5, <2>8 DEF a
  <2>10. Quiet(words, g[k + 1]) /\ \E q : Intact(planned, g[k + 1].cells, q) /\ a <= q
    <3>1. CASE g[k + 1] = Spliced(g[k], p.range, p.text, FRAME)
      <4>1. p.range.start \in Nat /\ p.range.start < m
        BY <2>5, <2>9
      <4> QED BY <1>1, <2>3, <2>5, <2>9, <3>1, <4>1, RowEdit
    <3>2. CASE g[k + 1] = Spliced(g[k], p.base, p.text, FRAME)
      <4>1. Quiet(words, g[k + 1]) /\ \E q : Intact(planned, g[k + 1].cells, q) /\ p.base.start <= q
        BY <1>1, <2>3, <2>5, <3>2, RowEdit
      <4>2. PICK q : Intact(planned, g[k + 1].cells, q) /\ p.base.start <= q
        BY <4>1
      <4>3. q \in Int
        BY <1>1, <4>2, SequenceIs DEF Intact, IsCells
      <4>4. a <= q
        BY <2>5, <4>2, <4>3
      <4> QED BY <4>1, <4>2, <4>4
    <3>3. CASE g[k + 1] = g[k]
      <4>1. a <= m
        BY <2>5, <2>8, <2>9
      <4> QED BY <2>3, <2>5, <3>3, <4>1
    <3> QED BY <2>6, <3>1, <3>2, <3>3 DEF FramePlanApplied
  <2>11. PICK q : Intact(planned, g[k + 1].cells, q) /\ a <= q
    BY <2>10
  <2>12. q \in Int
    BY <1>1, <2>11, SequenceIs DEF Intact, IsCells
  <2>13. \A l \in (k + 1) + 1 .. n : plans[l].base.start < q
    BY <2>5, <2>7, <2>11, <2>12
  <2>14. Left(k + 1, q)
    BY <2>11, <2>13
  <2> HIDE DEF Left
  <2> QED BY <2>10, <2>14
<1> HIDE DEF T
<1>9. Nat \subseteq T
  BY <1>7, <1>8, NatInduct
<1>10. Quiet(words, g[n])
  BY <1>1, <1>9 DEF T
<1> QED BY <1>5, <1>10, PlansIsAFold DEF n

-----------------------------------------------------------------------------
(***************************************************************************)
(* The orders edits are made in.                                           *)
(***************************************************************************)
Climbs(s) == \A i, j \in DOMAIN s : i < j => s[i] < s[j]

LEMMA InOrderClimbs ==
  ASSUME NEW offsets, NEW n \in Nat
  PROVE  Climbs(InOrder(offsets, n))
<1> DEFINE numbers == OffsetsBelow(n)
           I == [k \in 0 .. n |-> {c \in Seq(Int) : Climbs(c) /\ \A i \in DOMAIN c : c[i] < k}]
<1>1. DOMAIN numbers = 1 .. n /\ \A k \in 1 .. n : numbers[k] = k - 1
  BY DEF OffsetsBelow
<1>2. ASSUME NEW k \in 1 .. n, NEW c \in I[k - 1]
      PROVE  CountStep(offsets, c, numbers[k]) \in I[k]
  <2>0. k - 1 \in 0 .. n /\ k \in 0 .. n /\ k - 1 \in Int
    OBVIOUS
  <2>1. c \in Seq(Int) /\ Climbs(c) /\ \A i \in DOMAIN c : c[i] < k - 1
    BY <2>0
  <2>2. Append(c, k - 1) \in Seq(Int)
    BY <2>0, <2>1
  <2>3. /\ Len(c) \in Nat /\ DOMAIN c = 1 .. Len(c) /\ DOMAIN Append(c, k - 1) = 1 .. Len(c) + 1
        /\ \A i \in 1 .. Len(c) : Append(c, k - 1)[i] = c[i] /\ c[i] \in Int
        /\ Append(c, k - 1)[Len(c) + 1] = k - 1
    BY <2>0, <2>1
  <2> DEFINE d == Append(c, k - 1)
             m == Len(c)
  <2>4. m \in Nat /\ DOMAIN d = 1 .. m + 1 /\ d[m + 1] = k - 1
        /\ \A i \in 1 .. m : d[i] = c[i] /\ c[i] \in Int /\ c[i] < k - 1
    BY <2>1, <2>3
  <2>5. \A i, j \in 1 .. m : i < j => c[i] < c[j]
    BY <2>1, <2>3 DEF Climbs
  <2> HIDE DEF d, m, I, numbers
  <2>6. Climbs(d)
    <3>1. SUFFICES ASSUME NEW i \in DOMAIN d, NEW j \in DOMAIN d, i < j PROVE d[i] < d[j]
      BY DEF Climbs
    <3>2. i \in 1 .. m /\ (j \in 1 .. m \/ j = m + 1)
      BY <2>4, <3>1
    <3> QED BY <2>4, <2>5, <3>1, <3>2
  <2>7. \A i \in DOMAIN d : d[i] < k
    <3>1. \A i \in DOMAIN d : i \in 1 .. m \/ i = m + 1
      BY <2>4
    <3> QED BY <2>4, <3>1
  <2>8. d \in I[k]
    BY <2>0, <2>2, <2>6, <2>7 DEF I, d
  <2>9. c \in I[k]
    <3>1. \A i \in DOMAIN c : c[i] < k
      BY <2>0, <2>1, <2>3
    <3> QED BY <2>0, <2>1, <3>1 DEF I
  <2> QED BY <1>1, <2>8, <2>9 DEF CountStep, Counted, d
<1>3. <<>> \in I[0]
  <2>1. <<>> \in Seq(Int) /\ DOMAIN <<>> = {}
    BY EmptyIs
  <2> QED BY <2>1 DEF Climbs
<1> HIDE DEF I, numbers
<1>4. Numbering!IsPassedOn(offsets, <<>>, n, numbers, I)
  BY <1>2, <1>3 DEF Numbering!IsPassedOn
<1>5. Numbering!Folded(offsets, <<>>, numbers) \in I[n]
  BY <1>1, <1>4, Numbering!FoldInvariant, NumberingInducts
<1>6. Numbering!Folded(offsets, <<>>, numbers) = InOrder(offsets, n)
  BY InOrderIsAFold DEF numbers
<1>7. I[n] \subseteq {c \in Seq(Int) : Climbs(c)}
  BY DEF I
<1> QED BY <1>5, <1>6, <1>7

LEMMA ReversedFalls ==
  ASSUME NEW s, IsSequence(s)
  PROVE  /\ IsSequence(Reverse(s)) /\ DOMAIN Reverse(s) = DOMAIN s
         /\ \A k \in DOMAIN s : (Len(s) - k) + 1 \in DOMAIN s /\ Reverse(s)[k] = s[(Len(s) - k) + 1]
<1> DEFINE n == Len(s)
<1>1. n \in Nat /\ DOMAIN s = 1 .. n
  BY SequenceIs
<1>2. Reverse(s) = [k \in 1 .. n |-> s[(n - k) + 1]]
  BY DEF Reverse
<1>3. Reverse(s) = [k \in 1 .. n |-> Reverse(s)[k]]
  BY <1>2
<1> HIDE DEF n
<1>4. IsSequence(Reverse(s))
  BY <1>1, <1>3, Listed
<1>5. \A k \in 1 .. n : (n - k) + 1 \in 1 .. n
  BY <1>1
<1> QED BY <1>1, <1>2, <1>4, <1>5 DEF n

-----------------------------------------------------------------------------
(***************************************************************************)
(* The stages.                                                             *)
(***************************************************************************)
LEMMA QuietAs ==
  ASSUME NEW words, NEW s, Quiet(words, s), NEW u, IsWork(u),
         u.text = s.text, u.cells = s.cells, u.patches = s.patches
  PROVE  Quiet(words, u)
BY DEF Quiet

LEMMA QuietHold ==
  ASSUME NEW words, NEW s, Quiet(words, s), NEW rule, NEW whys
  PROVE  Quiet(words, HoldAll(s, rule, whys)) /\ HoldAll(s, rule, whys).cells = s.cells
<1> DEFINE noted == s.held \cup HoldsOn(s.text, rule, whys)
           u == HoldAll(s, rule, whys)
<1>1. s = WorkOf(s.text, s.cells, s.patches, s.held, s.budget, s.pivoted, s.declined)
  BY DEF Quiet, IsWork
<1>2. u = WorkOf(s.text, s.cells, s.patches, noted, s.budget, s.pivoted, s.declined)
  BY <1>1, HoldIs DEF WorkOf
<1>3. IsWork(u)
  <2>1. Alike(s, s)
    BY DEF Quiet, Alike
  <2> QED BY <2>1, HoldKeeps DEF Kept, Alike
<1>4. u.text = s.text /\ u.cells = s.cells /\ u.patches = s.patches
  BY <1>2 DEF WorkOf
<1> HIDE DEF u
<1> QED BY <1>3, <1>4, QuietAs DEF u

LEMMA QuietMark ==
  ASSUME NEW words, NEW s, Quiet(words, s), NEW mark
  PROVE  Quiet(words, [s EXCEPT !.pivoted = mark]) /\ [s EXCEPT !.pivoted = mark].cells = s.cells
<1> DEFINE u == [s EXCEPT !.pivoted = mark]
<1>1. s = WorkOf(s.text, s.cells, s.patches, s.held, s.budget, s.pivoted, s.declined)
  BY DEF Quiet, IsWork
<1>2. u = WorkOf(s.text, s.cells, s.patches, s.held, s.budget, mark, s.declined)
  BY <1>1 DEF WorkOf
<1>3. IsWork(u)
  <2>1. Alike(s, s)
    BY DEF Quiet, Alike
  <2> QED BY <2>1, MarkingKeeps DEF Kept, Alike
<1>4. u.text = s.text /\ u.cells = s.cells /\ u.patches = s.patches
  BY <1>2 DEF WorkOf
<1> HIDE DEF u
<1> QED BY <1>3, <1>4, QuietAs DEF u

LEMMA QuietTake ==
  ASSUME NEW words, NEW s, Quiet(words, s), CanTake(s.budget)
  PROVE  Quiet(words, [s EXCEPT !.budget = Taken(@)]) /\ [s EXCEPT !.budget = Taken(@)].cells = s.cells
<1> DEFINE u == [s EXCEPT !.budget = Taken(@)]
<1>1. /\ s = WorkOf(s.text, s.cells, s.patches, s.held, s.budget, s.pivoted, s.declined)
      /\ IsCells(s.cells) /\ IsPatches(s.patches) /\ s.budget \in Nat
  BY DEF Quiet, IsWork
<1>2. Taken(s.budget) = s.budget - 1 /\ s.budget - 1 \in Nat
  BY <1>1 DEF Taken, CanTake
<1>3. u = WorkOf(s.text, s.cells, s.patches, s.held, s.budget - 1, s.pivoted, s.declined)
  BY <1>1, <1>2 DEF WorkOf
<1>4. IsWork(u)
  BY <1>1, <1>2, <1>3 DEF IsWork, WorkOf
<1>5. u.text = s.text /\ u.cells = s.cells /\ u.patches = s.patches
  BY <1>3 DEF WorkOf
<1> HIDE DEF u
<1> QED BY <1>4, <1>5, QuietAs DEF u

LEMMA QuietNote ==
  ASSUME NEW words, NEW s, Quiet(words, s), NEW more
  PROVE  Quiet(words, [s EXCEPT !.held = @ \cup more]) /\ [s EXCEPT !.held = @ \cup more].cells = s.cells
<1> DEFINE u == [s EXCEPT !.held = @ \cup more]
           noted == s.held \cup more
<1>1. s = WorkOf(s.text, s.cells, s.patches, s.held, s.budget, s.pivoted, s.declined)
  BY DEF Quiet, IsWork
<1>2. u = [s EXCEPT !.held = noted]
  BY <1>1
<1> HIDE DEF noted
<1>3. u = WorkOf(s.text, s.cells, s.patches, noted, s.budget, s.pivoted, s.declined)
  BY <1>1, <1>2 DEF WorkOf
<1>4. IsWork(u)
  <2>1. Alike(s, s)
    BY DEF Quiet, Alike
  <2> QED BY <2>1, NotingKeeps DEF Kept, Alike
<1>5. u.text = s.text /\ u.cells = s.cells /\ u.patches = s.patches
  BY <1>3 DEF WorkOf
<1> HIDE DEF u
<1> QED BY <1>4, <1>5, QuietAs DEF u

\* What a capital changes is no mark.
LEMMA CapitalIsNoMark ==
  ASSUME NEW words, IsSequence(words), ~HasQuote(words)
  PROVE  ~HasQuote(Capitalized(words))
<1>1. CASE words # <<>> /\ words[1] \in DOMAIN Capital
  <2> DEFINE c == <<Capital[words[1]]>>
             t == Tail(words)
  <2>1. Capitalized(words) = c \o t
    BY <1>1 DEF Capitalized
  <2>2. words \in Seq(Range(words)) /\ Len(words) \in Nat /\ DOMAIN words = 1 .. Len(words)
    BY SequenceIs DEF IsSequence
  <2>3. /\ t \in Seq(Range(words)) /\ DOMAIN t = 1 .. Len(words) - 1
        /\ \A k \in 1 .. Len(words) - 1 : t[k] = words[k + 1]
    BY <1>1, <2>2
  <2>4. IsSequence(t) /\ IsSequence(c) /\ c[1] = Capital[words[1]] /\ DOMAIN c = {1}
    BY <2>3, SequenceOf, OneIs
  <2>5. Capital[words[1]] # Quote
    BY <1>1, QuoteAssumption DEF IsWord, Punctuation
  <2>6. \A k \in DOMAIN t : t[k] # Quote
    <3>1. \A k \in 1 .. Len(words) - 1 : k + 1 \in DOMAIN words
      BY <2>2
    <3> QED BY <2>3, <3>1 DEF HasQuote
  <2> HIDE DEF c, t
  <2>7. \A k \in DOMAIN (c \o t) : (c \o t)[k] # Quote
    <3>1. \A k \in DOMAIN (c \o t) :
            \/ k \in DOMAIN c /\ (c \o t)[k] = c[k]
            \/ k - Len(c) \in DOMAIN t /\ (c \o t)[k] = t[k - Len(c)]
      BY <2>4, JoinedIs
    <3> QED BY <2>4, <2>5, <2>6, <3>1
  <2> QED BY <2>1, <2>7 DEF HasQuote
<1>2. CASE ~(words # <<>> /\ words[1] \in DOMAIN Capital)
  BY <1>2 DEF Capitalized
<1> QED BY <1>1, <1>2

LEMMA SameSpan ==
  ASSUME NEW words, NEW r, NEW q, r.start = q.start, r.end = q.end
  PROVE  InQuotedSpan(words, r) <=> InQuotedSpan(words, q)
BY DEF InQuotedSpan

LEMMA QuietSubstituted ==
  ASSUME NEW words, IsSequence(words), NEW s, Quiet(words, s),
         NEW pair, IsSequence(pair.text), ~HasQuote(pair.text)
  PROVE  Quiet(words, Substituted(s, pair))
<1> DEFINE working == Symbols(s.cells)
           n == Len(working)
           offsets == Matches(working, pair.pattern) \ QuotedMatches(working, pair)
           numbers == InOrder(offsets, n)
           order == Reverse(numbers)
           edits == SubstitutionEdits(working, pair)
           noted == IF QuotedMatches(working, pair) = {} THEN s ELSE Hold(s, SUB, "quoted")
<1>1. IsSequence(working) /\ n \in Nat /\ n = Len(s.cells)
  BY SymbolsAre, SequenceIs DEF Quiet, IsWork, IsCells
<1>2. Substituted(s, pair) =
        IF Matches(working, pair.pattern) = {} THEN s
        ELSE IF ~SubstitutionPasses(s.text, working, pair) THEN Hold(s, SUB, "clause")
        ELSE SplicedAll(noted, edits)
  BY DEF Substituted
<1>3. Quiet(words, Hold(s, SUB, "clause"))
  BY QuietHold DEF Hold
<1>4. Quiet(words, noted) /\ noted.cells = s.cells
  BY QuietHold DEF Hold
<1>5. IsSequence(numbers) /\ (\A k \in DOMAIN numbers : numbers[k] \in offsets \cap 0 .. n - 1) /\ Climbs(numbers)
  <2>1. numbers \in Seq(offsets \cap 0 .. n - 1)
    <3> HIDE DEF n, offsets
    <3> QED BY <1>1, InOrderIs
  <2>2. Climbs(numbers)
    <3> HIDE DEF n, offsets
    <3> QED BY <1>1, InOrderClimbs
  <2> DEFINE S == offsets \cap 0 .. n - 1
  <2>3. numbers \in Seq(S)
    BY <2>1
  <2> HIDE DEF S, numbers
  <2>4. IsSequence(numbers) /\ \A k \in DOMAIN numbers : numbers[k] \in S
    BY <2>3, SequenceOf
  <2> QED BY <2>2, <2>4 DEF S
<1>6. edits = [k \in DOMAIN order |-> Patch(order[k], order[k] + Len(pair.pattern),
                                            SubstitutionText(working, pair, order[k]), SUB)]
  BY DEF SubstitutionEdits
<1>7. IsSequence(edits) /\ \A k \in DOMAIN edits : IsSequence(edits[k].text)
  BY <1>1, SubstitutionEditsAre
<1>8. \A at : Quote \notin {} /\ ~HasQuote(SubstitutionText(working, pair, at))
  BY CapitalIsNoMark DEF SubstitutionText
<1>9. \A at \in offsets : ~InQuotedSpan(working, Span(at, at + Len(pair.pattern)))
  BY DEF QuotedMatches, SubstitutionRange
<1>10. /\ IsSequence(order) /\ DOMAIN order = DOMAIN numbers
       /\ \A k \in DOMAIN numbers : (Len(numbers) - k) + 1 \in DOMAIN numbers /\ order[k] = numbers[(Len(numbers) - k) + 1]
  <2> HIDE DEF numbers
  <2> QED BY <1>5, ReversedFalls
<1>11. Len(numbers) \in Nat /\ DOMAIN numbers = 1 .. Len(numbers)
  <2> HIDE DEF numbers
  <2> QED BY <1>5, SequenceIs
<1> HIDE DEF offsets, numbers, order, n, edits, noted
<1>12. DOMAIN edits = DOMAIN numbers
  BY <1>6, <1>10
<1>13. ASSUME NEW k \in DOMAIN edits
       PROVE  /\ edits[k].start = order[k] /\ order[k] \in offsets /\ order[k] \in 0 .. n - 1
              /\ ~HasQuote(edits[k].text) /\ ~InQuotedSpan(working, edits[k])
  <2>1. edits[k] = Patch(order[k], order[k] + Len(pair.pattern), SubstitutionText(working, pair, order[k]), SUB)
    BY <1>6, <1>10, <1>12
  <2>2. order[k] \in offsets /\ order[k] \in 0 .. n - 1
    BY <1>5, <1>10, <1>12
  <2>3. /\ edits[k].start = order[k] /\ edits[k].end = order[k] + Len(pair.pattern)
        /\ edits[k].text = SubstitutionText(working, pair, order[k])
    BY <2>1 DEF Patch
  <2>4. ~InQuotedSpan(working, edits[k])
    <3> DEFINE q == Span(order[k], order[k] + Len(pair.pattern))
    <3>1. ~InQuotedSpan(working, q)
      BY <1>9, <2>2
    <3>2. q.start = order[k] /\ q.end = order[k] + Len(pair.pattern)
      BY DEF Span
    <3> HIDE DEF q, working
    <3> QED BY <2>3, <3>1, <3>2, SameSpan
  <2> QED BY <1>8, <2>2, <2>3, <2>4
<1>14. ASSUME NEW k \in DOMAIN edits, NEW l \in DOMAIN edits, k < l PROVE edits[l].start < edits[k].start
  <2>1. k \in 1 .. Len(numbers) /\ l \in 1 .. Len(numbers)
    BY <1>11, <1>12
  <2>2. (Len(numbers) - l) + 1 < (Len(numbers) - k) + 1
    BY <1>11, <1>14, <2>1
  <2>3. numbers[(Len(numbers) - l) + 1] < numbers[(Len(numbers) - k) + 1]
    BY <1>5, <1>10, <1>12, <2>2 DEF Climbs
  <2> QED BY <1>10, <1>12, <1>13, <2>3
<1>15. Quiet(words, SplicedAll(noted, edits))
  <2>1. \A k \in DOMAIN edits :
           /\ IsSequence(edits[k].text) /\ ~HasQuote(edits[k].text)
           /\ ~InQuotedSpan(Symbols(noted.cells), edits[k])
           /\ edits[k].start \in Nat /\ edits[k].start < Len(noted.cells)
    BY <1>1, <1>4, <1>7, <1>13
  <2> QED BY <1>4, <1>7, <1>14, <2>1, SplicesStayQuiet
<1> QED BY <1>2, <1>3, <1>15

LEMMA TraceStaysQuiet ==
  ASSUME NEW words, NEW n \in Nat, NEW g, Quiet(words, g[0]),
         \A k \in 1 .. n : Quiet(words, g[k - 1]) => Quiet(words, g[k])
  PROVE  Quiet(words, g[n])
<1> DEFINE T == {k \in Nat : k <= n => Quiet(words, g[k])}
<1>1. 0 \in T
  OBVIOUS
<1>2. ASSUME NEW k \in Nat, k \in T PROVE k + 1 \in T
  <2>1. SUFFICES ASSUME k + 1 <= n PROVE Quiet(words, g[k + 1])
    OBVIOUS
  <2>2. k + 1 \in 1 .. n /\ (k + 1) - 1 = k /\ Quiet(words, g[k])
    BY <1>2, <2>1
  <2> QED BY <2>2
<1> HIDE DEF T
<1>3. Nat \subseteq T
  BY <1>1, <1>2, NatInduct
<1> QED BY <1>3 DEF T

LEMMA QuietSubstitutions ==
  ASSUME NEW words, IsSequence(words), NEW s, Quiet(words, s)
  PROVE  Quiet(words, SubstitutionStage(s))
<1> DEFINE n == Len(Substitutions)
<1>1. n \in Nat /\ DOMAIN Substitutions = 1 .. n
  BY PackAssumption, SequenceIs
<1>2. \A k \in 1 .. n : IsSequence(Substitutions[k].text) /\ ~HasQuote(Substitutions[k].text)
  BY <1>1, PackAssumption, QuoteAssumption
<1> HIDE DEF n
<1>3. PICK g : Substituting!IsTrace(0, s, n, Substitutions, g) /\ Substituting!Folded(0, s, Substitutions) = g[n]
  BY <1>1, Substituting!FoldHasTrace, StagesInduct
<1>4. g[0] = s /\ \A k \in 1 .. n : g[k] = Substituted(g[k - 1], Substitutions[k])
  BY <1>3 DEF Substituting!IsTrace, SubstituteStep
<1>5. \A k \in 1 .. n : Quiet(words, g[k - 1]) => Quiet(words, g[k])
  BY <1>2, <1>4, QuietSubstituted
<1>6. Quiet(words, g[n])
  BY <1>1, <1>4, <1>5, TraceStaysQuiet
<1> QED BY <1>3, <1>6, SubstitutionIsAFold

LEMMA QuietPivotAt ==
  ASSUME NEW words, IsSequence(words), NEW s, Quiet(words, s), NEW at,
         Lower(Symbols(s.cells)[at + 1]) \in DOMAIN Constructions,
         DerivedVerb(Symbols(s.cells), at) # Rejected => ~InQuotedSpan(Symbols(s.cells), Span(at, at + 1))
  PROVE  Quiet(words, PivotAt(s, Symbols(s.cells), at))
<1> DEFINE working == Symbols(s.cells)
           derived == <<DerivedVerb(working, at)>>
           verb == IF at = 0 /\ working[1] \in CapitalForms THEN Capitalized(derived) ELSE derived
           broken == [s EXCEPT !.pivoted = TRUE]
           paid == [s EXCEPT !.budget = Taken(@)]
<1>1. PivotAt(s, working, at) =
        IF derived = <<Rejected>> THEN broken
        ELSE IF ~CanTake(s.budget) THEN Hold(broken, PIVOT, "budget")
        ELSE Spliced(paid, Span(at, at + 1), verb, PIVOT)
  BY DEF PivotAt
<1>2. IsSequence(verb) /\ ~HasQuote(verb)
  <2>1. IsSequence(derived) /\ DOMAIN derived = {1} /\ derived[1] = DerivedVerb(working, at)
    BY OneIs
  <2>2. DerivedVerb(working, at) # Quote
    BY QuoteAssumption DEF DerivedVerb
  <2> HIDE DEF derived
  <2>3. ~HasQuote(derived)
    BY <2>1, <2>2 DEF HasQuote
  <2> QED BY <2>1, <2>3, CapitalizedIs, CapitalIsNoMark
<1>3. Quiet(words, broken)
  BY QuietMark
<1>4. Quiet(words, Hold(broken, PIVOT, "budget"))
  <2> HIDE DEF broken
  <2> QED BY <1>3, QuietHold DEF Hold
<1>5. CASE derived # <<Rejected>> /\ CanTake(s.budget)
  <2>1. Quiet(words, paid) /\ paid.cells = s.cells
    BY <1>5, QuietTake
  <2>2. ~InQuotedSpan(working, Span(at, at + 1))
    BY <1>5
  <2>3. PivotAt(s, working, at) = Spliced(paid, Span(at, at + 1), verb, PIVOT)
    BY <1>1, <1>5
  <2> HIDE DEF paid, verb
  <2> QED BY <1>2, <2>1, <2>2, <2>3, QuietSplice
<1> HIDE DEF broken, derived
<1> QED BY <1>1, <1>3, <1>4, <1>5

LEMMA QuietPivotOnce ==
  ASSUME NEW words, IsSequence(words), NEW s, Quiet(words, s)
  PROVE  Quiet(words, PivotOnce(s))
<1> DEFINE working == Symbols(s.cells)
           heads == {at \in 0 .. Len(working) - 1 : Lower(working[at + 1]) \in DOMAIN Constructions}
           passed == {at \in heads : DerivedVerb(working, at) # Rejected
                        /\ (InQuotedSpan(working, Span(at, at + 1))
                              \/ Lower(FirstOr(After(working, at + 1), ".")) \in Prepositions)}
           scan == PivotScan(working)
           a == HoldAll(s, PIVOT, scan.whys)
           first == Min(scan.stops)
<1>1. scan.stops = heads \ passed
  BY DEF PivotScan
<1>2. Quiet(words, a) /\ a.cells = s.cells
  BY QuietHold
<1>3. PivotOnce(s) = IF s.pivoted THEN s
                     ELSE IF scan.stops = {} THEN [a EXCEPT !.pivoted = TRUE]
                     ELSE PivotAt(a, working, first)
  BY DEF PivotOnce
<1>4. Quiet(words, [a EXCEPT !.pivoted = TRUE])
  <2> HIDE DEF a
  <2> QED BY <1>2, QuietMark
<1>5. CASE scan.stops # {}
  <2>1. scan.stops \subseteq Nat
    <3>1. Len(working) \in Nat
      BY SymbolsAre, SequenceIs DEF Quiet, IsWork, IsCells
    <3> HIDE DEF working, scan, passed
    <3> QED BY <1>1, <3>1
  <2>2. first \in scan.stops
    <3> HIDE DEF scan
    <3> QED BY <1>5, <2>1, MinIs
  <2>3. first \in heads /\ first \notin passed
    <3> HIDE DEF first, scan, heads, passed
    <3> QED BY <1>1, <2>2
  <2>4. Lower(working[first + 1]) \in DOMAIN Constructions
    <3> HIDE DEF first
    <3> QED BY <2>3
  <2>5. DerivedVerb(working, first) # Rejected => ~InQuotedSpan(working, Span(first, first + 1))
    <3> HIDE DEF first
    <3> QED BY <2>3
  <2> HIDE DEF first, a, scan
  <2>6. Quiet(words, PivotAt(a, working, first))
    BY <1>2, <2>4, <2>5, QuietPivotAt
  <2> QED BY <1>3, <1>4, <2>6
<1> HIDE DEF scan, a, first
<1> QED BY <1>3, <1>4, <1>5

LEMMA QuietPivots ==
  ASSUME NEW words, IsSequence(words), NEW s, Quiet(words, s)
  PROVE  Quiet(words, PivotStage(s))
<1>1. Quiet(words, PivotOnce(s))
  BY QuietPivotOnce
<1> QED BY <1>1, QuietPivotOnce DEF PivotStage

LEMMA NothingHasNoMark == IsSequence(<<>>) /\ ~HasQuote(<<>>)
BY EmptyIs DEF HasQuote

LEMMA QuietSpanDeleted ==
  ASSUME NEW words, IsSequence(words), NEW s, Quiet(words, s), NEW span
  PROVE  Quiet(words, SpanDeleted(s, span))
<1> DEFINE working == Symbols(s.cells)
           found == Matches(working, span.pattern)
           r == Span(Min(found), Min(found) + Len(span.pattern))
           idiom == Lower(FirstOr(After(working, r.end), ".")) \in span.vetoes
           quoted == InQuotedSpan(working, r)
           allowed == DeletionAllowed(working, r, ClauseOk(s.text))
<1>1. SpanDeleted(s, span) =
        IF found = {} THEN s
        ELSE IF span.diagnostic THEN Hold(s, SPAN, "diagnostic")
        ELSE IF idiom THEN Hold(s, SPAN, "idiom")
        ELSE IF quoted THEN Hold(s, SPAN, "quoted")
        ELSE IF allowed THEN Spliced(s, r, <<>>, SPAN)
        ELSE Hold(s, SPAN, "gate")
  BY DEF SpanDeleted
<1>2. ~quoted => Quiet(words, Spliced(s, r, <<>>, SPAN))
  <2> HIDE DEF r
  <2> QED BY QuietSplice, NothingHasNoMark
<1>3. \A why : Quiet(words, Hold(s, SPAN, why))
  BY QuietHold DEF Hold
<1> HIDE DEF found, r, idiom, quoted, allowed
<1> QED BY <1>1, <1>2, <1>3

LEMMA QuietDeletions ==
  ASSUME NEW words, IsSequence(words), NEW s, Quiet(words, s)
  PROVE  Quiet(words, DeletionStage(s))
<1> DEFINE n == Len(DeletionSpans)
<1>1. n \in Nat /\ DOMAIN DeletionSpans = 1 .. n
  BY PackAssumption, SequenceIs
<1> HIDE DEF n
<1>2. PICK g : Deleting!IsTrace(0, s, n, DeletionSpans, g) /\ Deleting!Folded(0, s, DeletionSpans) = g[n]
  BY <1>1, Deleting!FoldHasTrace, StagesInduct
<1>3. g[0] = s /\ \A k \in 1 .. n : g[k] = SpanDeleted(g[k - 1], DeletionSpans[k])
  BY <1>2 DEF Deleting!IsTrace, DeleteStep
<1>4. \A k \in 1 .. n : Quiet(words, g[k - 1]) => Quiet(words, g[k])
  BY <1>3, QuietSpanDeleted
<1>5. Quiet(words, g[n])
  BY <1>1, <1>3, <1>4, TraceStaysQuiet
<1> QED BY <1>2, <1>5, DeletionIsAFold

\* A space on either side of a span brings no mark with it.
LEMMA SpaceIsNoMark ==
  ASSUME NEW words, NEW r, r.start \in Nat, r.end \in Nat, ~InQuotedSpan(words, r)
  PROVE  /\ words[r.end + 1] = Space => ~InQuotedSpan(words, Span(r.start, r.end + 1))
         /\ r.start > 0 /\ words[r.start] = Space => ~InQuotedSpan(words, Span(r.start - 1, r.end))
<1> DEFINE s == r.start
           t == r.end
<1>1. /\ s \in Nat /\ t \in Nat /\ (\A i \in s + 1 .. t : words[i] # Quote) /\ QuotesBefore(words, s) % 2 # 1
      /\ Space # Quote
  BY DEF InQuotedSpan, Space, Quote
<1>2. Span(s, t + 1).start = s /\ Span(s, t + 1).end = t + 1 /\ Span(s - 1, t).start = s - 1 /\ Span(s - 1, t).end = t
  BY DEF Span
<1> HIDE DEF s, t
<1>3. ASSUME words[t + 1] = Space PROVE ~InQuotedSpan(words, Span(s, t + 1))
  <2>1. \A i \in s + 1 .. t + 1 : i \in s + 1 .. t \/ i = t + 1
    BY <1>1
  <2>2. \A i \in s + 1 .. t + 1 : words[i] # Quote
    BY <1>1, <1>3, <2>1
  <2> QED BY <1>1, <1>2, <2>2 DEF InQuotedSpan
<1>4. ASSUME s > 0, words[s] = Space PROVE ~InQuotedSpan(words, Span(s - 1, t))
  <2>1. \A i \in (s - 1) + 1 .. t : i \in s + 1 .. t \/ i = s
    BY <1>1
  <2>2. \A i \in (s - 1) + 1 .. t : words[i] # Quote
    BY <1>1, <1>4, <2>1
  <2>3. s - 1 \in Nat /\ s - 1 <= s /\ \A i \in (s - 1) + 1 .. s : i = s
    BY <1>1, <1>4
  <2>4. QuotesBefore(words, s) = QuotesBefore(words, s - 1)
    BY <1>1, <1>4, <2>3, NoMarkBetween
  <2> QED BY <1>1, <1>2, <2>2, <2>4 DEF InQuotedSpan
<1> QED BY <1>3, <1>4 DEF s, t

LEMMA QuietDejust ==
  ASSUME NEW words, IsSequence(words), NEW s, Quiet(words, s)
  PROVE  Quiet(words, DejustStage(s))
<1> DEFINE working == Symbols(s.cells)
           found == DejustMarker(working)
           at == Min(found)
           r == Span(at, at + 1)
           quoted == InQuotedSpan(working, r)
           wide == WithOneSpace(working, r)
           paid == [s EXCEPT !.budget = Taken(@)]
<1>1. DejustStage(s) = IF found = {} THEN s
                       ELSE IF quoted THEN Hold(s, DEJUST, "quoted")
                       ELSE IF ~CanTake(s.budget) THEN Hold(s, DEJUST, "budget")
                       ELSE Spliced(paid, wide, <<>>, DEJUST)
  BY DEF DejustStage, DejustAt
<1>2. found \subseteq Nat
  <2> DEFINE Offsets(w) == {k \in 0 .. Len(working) - 1 : Lower(working[k + 1]) \in w}
             aux == Offsets(QuestionAuxiliaries)
             ors == {k \in Offsets({"or"}) : aux # {} /\ k > Min(aux)}
             Between(a, b) == {k \in Offsets(DismissiveMarkers) : a < k /\ k < b /\ ~MarkerGuarded(working, k)}
             between == Between(Min(aux), Min(ors))
  <2>1. ContrastMarker(working) \subseteq FirstOf(between)
    <3>1. ContrastMarker(working) =
             IF LastOr(Tokens(working), ".") = "?" /\ ors # {} /\ Len(After(working, Min(ors) + 1)) >= 2
             THEN FirstOf(between) ELSE {}
      BY DEF ContrastMarker
    <3> HIDE DEF ors, between
    <3> QED BY <3>1
  <2>2. between \subseteq Nat
    <3>1. Len(working) \in Nat
      BY SymbolsAre, SequenceIs DEF Quiet, IsWork, IsCells
    <3>2. between \subseteq 0 .. Len(working) - 1
      OBVIOUS
    <3> HIDE DEF between, working
    <3> QED BY <3>1, <3>2
  <2> HIDE DEF between
  <2>3. FirstOf(between) \subseteq Nat
    BY <2>2, FirstIsMember
  <2> QED BY <2>1, <2>3 DEF DejustMarker
<1>3. \A why : Quiet(words, Hold(s, DEJUST, why))
  BY QuietHold DEF Hold
<1>4. CASE found # {} /\ ~quoted /\ CanTake(s.budget)
  <2>1. Quiet(words, paid) /\ paid.cells = s.cells
    BY <1>4, QuietTake
  <2>2. at \in Nat
    <3> HIDE DEF found
    <3> QED BY <1>2, <1>4, MinIs
  <2>3. r.start = at /\ r.end = at + 1 /\ ~InQuotedSpan(working, r)
    BY <1>4 DEF Span
  <2> HIDE DEF at, r, found, working
  <2>4. ~InQuotedSpan(working, wide)
    <3>1. r.start \in Nat /\ r.end \in Nat
      BY <2>2, <2>3
    <3> QED BY <2>3, <3>1, SpaceIsNoMark DEF WithOneSpace
  <2>5. ~InQuotedSpan(Symbols(paid.cells), wide)
    BY <2>1, <2>4 DEF working
  <2> HIDE DEF wide, paid
  <2>6. Quiet(words, Spliced(paid, wide, <<>>, DEJUST))
    BY <2>1, <2>5, QuietSplice, NothingHasNoMark
  <2>7. DejustStage(s) = Spliced(paid, wide, <<>>, DEJUST)
    BY <1>1, <1>4
  <2> QED BY <2>6, <2>7
<1> HIDE DEF found, quoted, wide, paid
<1> QED BY <1>1, <1>3, <1>4

-----------------------------------------------------------------------------
(***************************************************************************)
(* Insertion sort by a key, and the frame stage.                           *)
(***************************************************************************)
LEMMA InsertedAt ==
  ASSUME NEW s, IsSequence(s), NEW m \in 0 .. Len(s), NEW x
  PROVE  LET t == InsertAt(s, m + 1, x)
         IN  /\ IsSequence(t) /\ DOMAIN t = 1 .. Len(s) + 1
             /\ \A k \in DOMAIN t : \/ k <= m /\ k \in DOMAIN s /\ t[k] = s[k]
                                    \/ k = m + 1 /\ t[k] = x
                                    \/ k > m + 1 /\ k - 1 \in DOMAIN s /\ t[k] = s[k - 1]
<1> DEFINE n == Len(s)
           a == SubSeq(s, 1, m)
           b == <<x>>
           c == SubSeq(s, m + 1, n)
           ab == a \o b
           t == ab \o c
<1>1. n \in Nat /\ DOMAIN s = 1 .. n /\ m \in Nat /\ m <= n
  BY SequenceIs
<1>2. IsSequence(a) /\ Len(a) = m /\ \A k \in 1 .. m : a[k] = s[k]
  <2>1. SubSeq(s, 0 + 1, m) = a /\ m - 0 = m /\ 0 \in Nat /\ 0 <= m
    BY <1>1
  <2>2. IsSequence(SubSeq(s, 0 + 1, m)) /\ Len(SubSeq(s, 0 + 1, m)) = m - 0
        /\ \A k \in 1 .. m - 0 : SubSeq(s, 0 + 1, m)[k] = s[0 + k]
    BY <1>1, <2>1, PieceAt
  <2>3. \A k \in 1 .. m : 0 + k = k
    BY <1>1
  <2> HIDE DEF a, n
  <2>4. IsSequence(a) /\ Len(a) = m
    BY ONLY <2>1, <2>2
  <2>5. \A k \in 1 .. m : a[k] = s[k]
    BY ONLY <2>1, <2>2, <2>3
  <2> QED BY <2>4, <2>5
<1>3. IsSequence(c) /\ Len(c) = n - m /\ \A k \in 1 .. n - m : c[k] = s[m + k]
  <2>1. m \in Nat /\ n \in Nat /\ m <= n /\ n <= Len(s)
    BY <1>1
  <2> HIDE DEF n
  <2>2. IsSequence(SubSeq(s, m + 1, n)) /\ Len(SubSeq(s, m + 1, n)) = n - m
        /\ \A k \in 1 .. n - m : SubSeq(s, m + 1, n)[k] = s[m + k]
    BY ONLY <2>1, PieceAt, IsSequence(s)
  <2> QED BY <2>2 DEF n
<1>4. IsSequence(b) /\ Len(b) = 1 /\ b[1] = x
  BY OneIs
<1>5. InsertAt(s, m + 1, x) = t
  <2>1. (m + 1) - 1 = m
    BY <1>1
  <2> DEFINE j == (m + 1) - 1
  <2>2. InsertAt(s, m + 1, x) = SubSeq(s, 1, j) \o <<x>> \o SubSeq(s, m + 1, Len(s))
    BY Zenon DEF InsertAt
  <2>3. j = m
    BY <2>1
  <2> HIDE DEF j
  <2>4. InsertAt(s, m + 1, x) = SubSeq(s, 1, m) \o <<x>> \o SubSeq(s, m + 1, Len(s))
    BY ONLY <2>2, <2>3
  <2> QED BY <2>4
<1> HIDE DEF a, b, c, n
<1>6. IsSequence(ab) /\ Len(ab) = m + 1 /\ \A k \in 1 .. m + 1 : ab[k] = IF k <= m THEN a[k] ELSE b[k - m]
  <2>1. /\ IsSequence(a \o b) /\ Len(a \o b) = Len(a) + Len(b)
        /\ \A k \in 1 .. Len(a) + Len(b) : (a \o b)[k] = IF k <= Len(a) THEN a[k] ELSE b[k - Len(a)]
    BY <1>2, <1>4, JoinedAt
  <2>2. Len(a) = m /\ Len(b) = 1
    BY <1>2, <1>4
  <2> QED BY ONLY <2>1, <2>2
<1> HIDE DEF ab
<1>7. /\ IsSequence(t) /\ Len(t) = (m + 1) + (n - m)
      /\ \A k \in 1 .. (m + 1) + (n - m) : t[k] = IF k <= m + 1 THEN ab[k] ELSE c[k - (m + 1)]
  <2>1. /\ IsSequence(ab \o c) /\ Len(ab \o c) = Len(ab) + Len(c)
        /\ \A k \in 1 .. Len(ab) + Len(c) : (ab \o c)[k] = IF k <= Len(ab) THEN ab[k] ELSE c[k - Len(ab)]
    BY <1>3, <1>6, JoinedAt
  <2>2. Len(ab) = m + 1 /\ Len(c) = n - m
    BY <1>3, <1>6
  <2>3. /\ IsSequence(ab \o c) /\ Len(ab \o c) = (m + 1) + (n - m)
        /\ \A k \in 1 .. (m + 1) + (n - m) : (ab \o c)[k] = IF k <= m + 1 THEN ab[k] ELSE c[k - (m + 1)]
    BY ONLY <2>1, <2>2, Zenon
  <2> QED BY <2>3
<1>8. DOMAIN t = 1 .. n + 1 /\ (m + 1) + (n - m) = n + 1
  <2> HIDE DEF t
  <2>1. (m + 1) + (n - m) = n + 1
    BY <1>1
  <2> QED BY <1>7, <2>1, SequenceIs
<1> HIDE DEF t
<1>9. ASSUME NEW k \in 1 .. n + 1
      PROVE  \/ k <= m /\ k \in DOMAIN s /\ t[k] = s[k]
             \/ k = m + 1 /\ t[k] = x
             \/ k > m + 1 /\ k - 1 \in DOMAIN s /\ t[k] = s[k - 1]
  <2>1. CASE k <= m
    <3>1. k \in 1 .. m /\ k \in 1 .. m + 1 /\ k <= m + 1 /\ k \in DOMAIN s
      BY <1>1, <2>1
    <3> QED BY <1>2, <1>6, <1>7, <1>8, <2>1, <3>1
  <2>2. CASE k = m + 1
    <3>1. k \in 1 .. m + 1 /\ k <= m + 1 /\ ~(k <= m) /\ k - m = 1
      BY <1>1, <2>2
    <3> QED BY <1>4, <1>6, <1>7, <1>8, <2>2, <3>1
  <2>3. CASE k > m + 1
    <3>1. ~(k <= m + 1) /\ k - (m + 1) \in 1 .. n - m /\ m + (k - (m + 1)) = k - 1 /\ k - 1 \in DOMAIN s
      BY <1>1, <2>3
    <3> QED BY <1>3, <1>7, <1>8, <2>3, <3>1
  <2> QED BY <1>1, <2>1, <2>2, <2>3
<1> QED BY <1>5, <1>7, <1>8, <1>9 DEF n

\* The key never falls along the sequence.
Rises(key, s) == \A i, j \in DOMAIN s : i < j => key[s[i]] <= key[s[j]]

LEMMA InsertedRises ==
  ASSUME NEW M, NEW key \in [M -> Int], NEW sorted \in Seq(M), Rises(key, sorted), NEW x \in M,
         NEW J, J \subseteq DOMAIN sorted,
         \A i \in J : key[sorted[i]] <= key[x],
         \A i \in DOMAIN sorted : i \notin J => key[x] <= key[sorted[i]]
  PROVE  Rises(key, InsertAt(sorted, Max({0} \cup J) + 1, x))
<1> DEFINE n == Len(sorted)
           m == Max({0} \cup J)
           t == InsertAt(sorted, m + 1, x)
<1>1. n \in Nat /\ DOMAIN sorted = 1 .. n /\ IsSequence(sorted) /\ \A i \in DOMAIN sorted : sorted[i] \in M
  BY SequenceOf
<1>2. m \in 0 .. n /\ (m = 0 \/ m \in J) /\ \A i \in J : i <= m
  <2> DEFINE K == {0} \cup J
  <2>1. K \subseteq 0 .. n /\ K # {}
    BY <1>1
  <2> HIDE DEF K, n
  <2>2. Max(K) \in K /\ \A i \in K : i <= Max(K)
    BY <1>1, <2>1, MaxIsWithin
  <2> QED BY <2>1, <2>2 DEF K
<1> HIDE DEF m
<1>3. /\ DOMAIN t = 1 .. n + 1
      /\ \A k \in DOMAIN t : \/ k <= m /\ k \in DOMAIN sorted /\ t[k] = sorted[k]
                             \/ k = m + 1 /\ t[k] = x
                             \/ k > m + 1 /\ k - 1 \in DOMAIN sorted /\ t[k] = sorted[k - 1]
  BY <1>1, <1>2, InsertedAt
<1> HIDE DEF t, n
<1>4. \A i \in DOMAIN sorted : key[sorted[i]] \in Int
  BY <1>1
<1>5. key[x] \in Int
  OBVIOUS
<1>6. \A i \in DOMAIN sorted : i <= m => key[sorted[i]] <= key[x]
  <2>1. SUFFICES ASSUME NEW i \in DOMAIN sorted, i <= m PROVE key[sorted[i]] <= key[x]
    OBVIOUS
  <2>2. m # 0
    BY <1>1, <1>2, <2>1
  <2>3. m \in J /\ m \in DOMAIN sorted /\ key[sorted[m]] <= key[x]
    BY <1>2, <2>2
  <2>4. i = m \/ i < m
    BY <1>1, <1>2, <2>1
  <2>5. key[sorted[i]] <= key[sorted[m]]
    BY <1>4, <2>3, <2>4 DEF Rises
  <2> QED BY <1>4, <1>5, <2>3, <2>5
<1>7. \A i \in DOMAIN sorted : i > m => key[x] <= key[sorted[i]]
  <2>1. \A i \in DOMAIN sorted : i > m => i \notin J
    BY <1>1, <1>2
  <2> QED BY <2>1
<1>8. ASSUME NEW i \in DOMAIN t, NEW j \in DOMAIN t, i < j PROVE key[t[i]] <= key[t[j]]
  <2>0. i \in Int /\ j \in Int /\ m \in Int
    BY <1>1, <1>2, <1>3
  <2>1. CASE i <= m /\ i \in DOMAIN sorted /\ t[i] = sorted[i]
    <3>1. CASE j <= m /\ j \in DOMAIN sorted /\ t[j] = sorted[j]
      BY <1>8, <2>1, <3>1 DEF Rises
    <3>2. CASE j = m + 1 /\ t[j] = x
      BY <1>6, <2>1, <3>2
    <3>3. CASE j > m + 1 /\ j - 1 \in DOMAIN sorted /\ t[j] = sorted[j - 1]
      <4>1. i < j - 1
        BY <2>0, <2>1, <3>3
      <4> QED BY <2>1, <3>3, <4>1 DEF Rises
    <3> QED BY <1>3, <3>1, <3>2, <3>3
  <2>2. CASE i = m + 1 /\ t[i] = x
    <3>1. j > m + 1
      BY <1>8, <2>2
    <3>2. j - 1 \in DOMAIN sorted /\ t[j] = sorted[j - 1] /\ j - 1 > m
      BY <1>3, <2>0, <3>1
    <3> QED BY <1>7, <2>2, <3>2
  <2>3. CASE i > m + 1 /\ i - 1 \in DOMAIN sorted /\ t[i] = sorted[i - 1]
    <3>1. j > m + 1
      BY <1>8, <2>0, <2>3
    <3>2. j - 1 \in DOMAIN sorted /\ t[j] = sorted[j - 1] /\ i - 1 < j - 1
      BY <1>3, <1>8, <2>0, <3>1
    <3> QED BY <2>3, <3>2 DEF Rises
  <2> QED BY <1>3, <2>1, <2>2, <2>3
<1> QED BY <1>8 DEF Rises, t, m

LEMMA FrameOrderRises ==
  ASSUME NEW M, IsFiniteSet(M), NEW key \in [M -> Int], \A m \in M : m.start \in Int /\ key[m] = m.start
  PROVE  FrameOrder(M) \in Seq(M) /\ Rises(key, FrameOrder(M))
<1> DEFINE s == SetToSeq(M)
           n == Len(s)
           R == {t \in Seq(M) : Rises(key, t)}
           I == [k \in 0 .. n |-> R]
<1>1. s \in Seq(M)
  BY SetAsSequence
<1>2. n \in Nat /\ DOMAIN s = 1 .. n /\ \A k \in 1 .. n : s[k] \in M
  <2> HIDE DEF s
  <2> QED BY <1>1
<1> HIDE DEF s, n
<1>3. ASSUME NEW sorted \in R, NEW m \in M PROVE SortStep(0, sorted, m) \in R
  <2>1. SortFrame(sorted, m) =
          InsertAt(sorted, Max({0} \cup {i \in DOMAIN sorted : ~FrameBefore(m, sorted[i])}) + 1, m)
    BY DEF SortFrame, SortInto
  <2> DEFINE J == {i \in DOMAIN sorted : ~FrameBefore(m, sorted[i])}
  <2>2. J \subseteq DOMAIN sorted /\ sorted \in Seq(M) /\ Rises(key, sorted)
    OBVIOUS
  <2>3. \A i \in DOMAIN sorted : sorted[i] \in M
    BY <2>2
  <2>4. \A i \in J : key[sorted[i]] <= key[m]
    BY <2>3 DEF FrameBefore
  <2>5. \A i \in DOMAIN sorted : i \notin J => key[m] <= key[sorted[i]]
    BY <2>3 DEF FrameBefore
  <2> HIDE DEF J
  <2>6. InsertAt(sorted, Max({0} \cup J) + 1, m) \in Seq(M)
    BY <2>2, InsertedIs
  <2>7. Rises(key, InsertAt(sorted, Max({0} \cup J) + 1, m))
    BY <2>2, <2>4, <2>5, InsertedRises
  <2> QED BY <2>1, <2>6, <2>7 DEF J, SortStep
<1>4. <<>> \in R
  BY DEF Rises
<1> HIDE DEF R
<1>5. Sorting!IsPassedOn(0, <<>>, n, s, I)
  BY <1>2, <1>3, <1>4 DEF Sorting!IsPassedOn
<1>6. I[n] = R
  BY <1>2
<1> HIDE DEF I
<1>7. Sorting!Folded(0, <<>>, s) \in I[n]
  BY <1>2, <1>5, Sorting!FoldInvariant, MatchesInduct
<1>8. FrameOrder(M) \in R
  BY <1>6, <1>7, OrderIsAFold DEF s
<1> QED BY <1>8 DEF R

\* The key climbs strictly along the sequence.
ClimbsBy(key, s) == \A i, j \in DOMAIN s : i < j => key[s[i]] < key[s[j]]

LEMMA FrameResolveClimbs ==
  ASSUME NEW M, IsFiniteSet(M), NEW key \in [M -> Int],
         \A m \in M : m.start \in Int /\ m.end \in Int /\ m.start < m.end /\ key[m] = m.start
  PROVE  FrameResolve(M) \in Seq(M) /\ ClimbsBy(key, FrameResolve(M))
<1> DEFINE s == FrameOrder(M)
           n == Len(s)
           R(k) == {t \in Seq(M) : /\ ClimbsBy(key, t)
                                   /\ \A i \in DOMAIN t : \E j \in 1 .. k : t[i] = s[j]}
           I == [k \in 0 .. n |-> R(k)]
<1>1. s \in Seq(M) /\ Rises(key, s)
  BY FrameOrderRises
<1>2. n \in Nat /\ DOMAIN s = 1 .. n /\ \A k \in 1 .. n : s[k] \in M
  <2> HIDE DEF s
  <2> QED BY <1>1
<1> HIDE DEF s, n
<1>3. ASSUME NEW k \in 1 .. n, NEW kept \in R(k - 1) PROVE ApartStep(0, kept, s[k]) \in R(k)
  <2> DEFINE m == s[k]
  <2>1. m \in M /\ kept \in Seq(M) /\ ClimbsBy(key, kept) /\ k \in Int
    BY <1>2
  <2>2. \A i \in DOMAIN kept : \E j \in 1 .. k - 1 : kept[i] = s[j]
    OBVIOUS
  <2>3. \A i \in DOMAIN kept : \E j \in 1 .. k : kept[i] = s[j]
    BY <2>1, <2>2
  <2>4. CASE \E i \in DOMAIN kept : Meets(kept[i], m)
    <3>1. ApartStep(0, kept, m) = kept
      BY <2>4 DEF ApartStep, KeepApart
    <3> QED BY <2>1, <2>3, <3>1
  <2>5. CASE ~\E i \in DOMAIN kept : Meets(kept[i], m)
    <3> DEFINE t == Append(kept, m)
    <3>1. ApartStep(0, kept, m) = t
      BY <2>5 DEF ApartStep, KeepApart
    <3>2. t \in Seq(M) /\ DOMAIN t = 1 .. Len(kept) + 1 /\ Len(kept) \in Nat
          /\ DOMAIN kept = 1 .. Len(kept)
          /\ \A i \in DOMAIN kept : t[i] = kept[i]
      BY <2>1
    <3>3. t[Len(kept) + 1] = m
      BY <2>1
    <3>4. ASSUME NEW i \in DOMAIN kept PROVE key[kept[i]] < key[m]
      <4>1. PICK j \in 1 .. k - 1 : kept[i] = s[j]
        BY <2>2
      <4>2. j \in DOMAIN s /\ k \in DOMAIN s /\ j < k /\ s[j] \in M
        BY <1>2
      <4>3. key[s[j]] <= key[m]
        BY <1>1, <4>2 DEF Rises
      <4>4. ~Meets(s[j], m)
        BY <2>5, <4>1
      <4> HIDE DEF m
      <4>5. s[j].start # m.start
        BY <2>1, <4>2, <4>4 DEF Meets
      <4> QED BY <2>1, <4>1, <4>2, <4>3, <4>5
    <3> HIDE DEF t, m
    <3>5. ClimbsBy(key, t)
      <4>1. ASSUME NEW i \in DOMAIN t, NEW j \in DOMAIN t, i < j PROVE key[t[i]] < key[t[j]]
        <5>1. i \in DOMAIN kept /\ t[i] = kept[i]
          BY <3>2, <4>1
        <5>2. CASE j \in DOMAIN kept
          BY <2>1, <3>2, <4>1, <5>1, <5>2 DEF ClimbsBy
        <5>3. CASE j \notin DOMAIN kept
          <6>1. j = Len(kept) + 1
            BY <3>2, <5>3
          <6> QED BY <3>3, <3>4, <5>1, <6>1
        <5> QED BY <5>2, <5>3
      <4> QED BY <4>1 DEF ClimbsBy
    <3>6. \A i \in DOMAIN t : \E j \in 1 .. k : t[i] = s[j]
      <4>1. ASSUME NEW i \in DOMAIN t PROVE \E j \in 1 .. k : t[i] = s[j]
        <5>1. CASE i \in DOMAIN kept
          BY <2>3, <3>2, <5>1
        <5>2. CASE i \notin DOMAIN kept
          <6>1. i = Len(kept) + 1
            BY <3>2, <5>2
          <6>2. t[i] = s[k] /\ k \in 1 .. k
            BY <2>1, <3>3, <6>1 DEF m
          <6> QED BY <6>2
        <5> QED BY <5>1, <5>2
      <4> QED BY <4>1
    <3> QED BY <3>1, <3>2, <3>5, <3>6 DEF m
  <2> QED BY <2>4, <2>5
<1>4. <<>> \in R(0)
  BY DEF ClimbsBy
<1> HIDE DEF R
<1>5. Parting!IsPassedOn(0, <<>>, n, s, I)
  BY <1>2, <1>3, <1>4 DEF Parting!IsPassedOn
<1>6. I[n] = R(n)
  BY <1>2
<1> HIDE DEF I
<1>7. Parting!Folded(0, <<>>, s) \in I[n]
  BY <1>2, <1>5, Parting!FoldInvariant, MatchesInduct
<1>8. FrameResolve(M) \in R(n)
  BY <1>6, <1>7, ResolutionIsAFold DEF s
<1> QED BY <1>8 DEF R

-----------------------------------------------------------------------------
LEMMA OnlySpaceFitsSpace ==
  ASSUME NEW c, Fits(c, Space)
  PROVE  c = Space
<1>1. ~IsWord(Space)
  BY DEF IsWord
<1>2. Space \notin CapitalForms
  BY <1>1, QuoteAssumption DEF CapitalForms
<1>3. Lower(Space) = Space
  BY <1>2 DEF Lower
<1> QED BY <1>1, <1>3 DEF Fits

LEMMA FrameMatchIs ==
  ASSUME NEW words, IsSequence(words), NEW m \in FrameMatches(words)
  PROVE  /\ m.rule \in DOMAIN FrameRules
         /\ m.start \in Nat /\ m.end \in Nat /\ m.start < m.end /\ m.end <= Len(words)
         /\ \A k \in DOMAIN FrameRules[m.rule].pattern : Fits(FrameRules[m.rule].pattern[k], words[m.start + k])
         /\ words[m.start + 1] # Space
<1>1. PICK k \in DOMAIN FrameRules :
         m \in {[rule |-> k, start |-> at, end |-> at + Len(FrameRules[k].pattern)] :
                  at \in Matches(words, FrameRules[k].pattern)}
  BY DEF FrameMatches
<1> DEFINE pattern == FrameRules[k].pattern
           n == Len(pattern)
<1>2. PICK at \in Matches(words, pattern) : m = [rule |-> k, start |-> at, end |-> at + n]
  BY <1>1
<1>3. IsSequence(pattern) /\ pattern # <<>> /\ pattern[1] # Space
  BY PackAssumption, QuoteAssumption
<1> DEFINE size == Len(words)
<1>4. size \in Nat
  BY SequenceIs
<1>5. at \in 0 .. size - n /\ \A j \in 1 .. n : Fits(pattern[j], words[at + j])
  BY DEF Matches
<1>6. m.rule = k /\ m.start = at /\ m.end = at + n
  BY <1>2
<1> HIDE DEF pattern, size
<1>7. n \in Nat /\ DOMAIN pattern = 1 .. n /\ n # 0
  BY <1>3, SequenceIs, EmptyIs
<1> HIDE DEF n
<1>8. m.start \in Nat /\ m.end \in Nat /\ m.start < m.end /\ m.end <= size /\ 1 \in 1 .. n
  BY <1>4, <1>5, <1>6, <1>7
<1>9. words[at + 1] # Space
  <2>1. Fits(pattern[1], words[at + 1])
    BY <1>5, <1>8
  <2> QED BY <1>3, <2>1, OnlySpaceFitsSpace
<1> QED BY <1>5, <1>6, <1>7, <1>8, <1>9 DEF size, pattern

LEMMA RealizedHasNoMark ==
  ASSUME NEW words, IsSequence(words), NEW m \in FrameMatches(words),
         NEW j \in DOMAIN FrameRules[m.rule].targets
  PROVE  ~HasQuote(Realized(words, m, FrameRules[m.rule].targets[j]))
<1> DEFINE pattern == FrameRules[m.rule].pattern
           template == FrameRules[m.rule].targets[j]
           slot == CHOOSE k \in DOMAIN pattern : pattern[k] = Slot
           new == Realized(words, m, template)
<1>1. m.rule \in DOMAIN FrameRules /\ \A k \in DOMAIN pattern : Fits(pattern[k], words[m.start + k])
  BY FrameMatchIs
<1>2. ~HasQuote(template) /\ (HasSlot(template) => HasSlot(pattern))
  BY <1>1, QuoteAssumption
<1>3. DOMAIN new = DOMAIN template
      /\ \A k \in DOMAIN template : new[k] = IF template[k] = Slot THEN words[m.start + slot] ELSE template[k]
  BY DEF Realized
<1> HIDE DEF new, template, pattern
<1>4. ASSUME NEW k \in DOMAIN template, template[k] = Slot PROVE words[m.start + slot] # Quote
  <2>1. HasSlot(pattern)
    BY <1>2, <1>4 DEF HasSlot
  <2>2. slot \in DOMAIN pattern /\ pattern[slot] = Slot
    BY <2>1 DEF HasSlot
  <2> HIDE DEF slot
  <2>3. IsWord(words[m.start + slot])
    BY <1>1, <2>2 DEF Fits
  <2> QED BY <2>3 DEF IsWord, Punctuation
<1> HIDE DEF slot
<1>5. \A k \in DOMAIN template : new[k] # Quote
  BY <1>2, <1>3, <1>4 DEF HasQuote
<1> QED BY <1>3, <1>5 DEF HasQuote, new, template

LEMMA QuietPlan ==
  ASSUME NEW words, IsSequence(words), NEW m \in FrameMatches(words), NEW hadClause,
         NEW p \in Plans(words, hadClause, m)
  PROVE  /\ IsSequence(p.text) /\ ~HasQuote(p.text)
         /\ ~InQuotedSpan(words, p.range) /\ ~InQuotedSpan(words, p.base)
         /\ p.base.start = m.start /\ m.start \in Nat /\ m.start < Len(words)
         /\ \/ p.range.start = m.start
            \/ p.range.start = m.start - 1 /\ m.start > 0 /\ words[m.start] = Space
<1> DEFINE base == Span(m.start, m.end)
           wide == WidenDeletion(words, base)
           targets == FrameRules[m.rule].targets
           Target(k) == Realized(words, m, targets[k])
           allowed == {k \in DOMAIN targets : RewriteAllowed(words, base, Target(k), hadClause)}
           a == m.start
           b == m.end
           n == Len(words)
<1>1. m.rule \in DOMAIN FrameRules /\ a \in Nat /\ b \in Nat /\ a < b /\ b <= n /\ n \in Nat
  BY FrameMatchIs, SequenceIs
<1>2. base.start = a /\ base.end = b
  BY DEF Span
<1>3. IsSequence(p.text)
  BY <1>1, PlansHaveTexts
<1>4. ~InQuotedSpan(words, base)
  BY DEF Plans
<1>5. \/ p = [range |-> wide, base |-> base, text |-> <<>>]
      \/ \E k \in FirstOf(allowed) : p = [range |-> base, base |-> base, text |-> Cased(words, a, Target(k))]
  <2> HIDE DEF allowed
  <2>1. Plans(words, hadClause, m) \subseteq
          {[range |-> wide, base |-> base, text |-> <<>>]} \cup
          {[range |-> base, base |-> base, text |-> Cased(words, a, Target(k))] : k \in FirstOf(allowed)}
    BY DEF Plans, allowed
  <2> HIDE DEF Target, wide, base
  <2> QED BY <2>1
<1>6. CASE p = [range |-> wide, base |-> base, text |-> <<>>]
  <2>1. p.range = wide /\ p.base = base /\ p.text = <<>>
    BY <1>6
  <2>2. \/ wide = Span(a - 1, b) /\ a > 0 /\ words[a] = Space
        \/ wide = Span(a, b + 1) /\ words[b + 1] = Space
        \/ wide = base
    <3>1. \/ wide = Span(base.start - 1, base.end) /\ base.start > 0 /\ words[base.start] = Space
          \/ wide = Span(base.start, base.end + 1) /\ words[base.end + 1] = Space
          \/ wide = base
      <4> HIDE DEF base
      <4> QED BY DEF WidenDeletion
    <3> QED BY <1>2, <3>1
  <2> HIDE DEF wide, a, b, n
  <2>3. ~InQuotedSpan(words, wide)
    <3>1. /\ words[b + 1] = Space => ~InQuotedSpan(words, Span(a, b + 1))
          /\ a > 0 /\ words[a] = Space => ~InQuotedSpan(words, Span(a - 1, b))
      <4> HIDE DEF base
      <4>1. base.start \in Nat /\ base.end \in Nat
        BY <1>1, <1>2
      <4> QED BY <1>2, <1>4, <4>1, SpaceIsNoMark
    <3> QED BY <1>4, <2>2, <3>1
  <2>4. wide.start = a \/ (wide.start = a - 1 /\ a > 0 /\ words[a] = Space)
    BY <1>2, <2>2 DEF Span
  <2> HIDE DEF base
  <2> QED BY <1>1, <1>2, <1>3, <1>4, <2>1, <2>3, <2>4, NothingHasNoMark DEF a, n
<1>7. CASE \E k \in FirstOf(allowed) : p = [range |-> base, base |-> base, text |-> Cased(words, a, Target(k))]
  <2>1. PICK k \in FirstOf(allowed) : p = [range |-> base, base |-> base, text |-> Cased(words, a, Target(k))]
    BY <1>7
  <2>2. k \in DOMAIN targets
    <3>1. IsSequence(targets)
      BY <1>1, PackAssumption
    <3>2. DOMAIN targets \subseteq Nat
      <4> HIDE DEF targets
      <4> QED BY <3>1, SequenceIs
    <3>3. allowed \subseteq Nat
      BY <3>2
    <3>4. k \in allowed
      <4> HIDE DEF allowed
      <4> QED BY <3>3, FirstIsMember
    <3> QED BY <3>4
  <2>3. IsSequence(Target(k)) /\ ~HasQuote(Target(k))
    <3>1. IsSequence(targets[k])
      BY <1>1, <2>2, PackAssumption
    <3>2. IsSequence(Target(k))
      <4> HIDE DEF targets
      <4> QED BY <3>1, RealizedIs
    <3>3. ~HasQuote(Target(k))
      BY <2>2, RealizedHasNoMark
    <3> QED BY <3>2, <3>3
  <2>4. ~HasQuote(p.text)
    <3>1. p.text \in {Target(k), Capitalized(Target(k))}
      BY <2>1 DEF Cased
    <3> HIDE DEF Target
    <3> QED BY <2>3, <3>1, CapitalIsNoMark
  <2>5. p.range = base /\ p.base = base
    BY <2>1
  <2> HIDE DEF base
  <2> QED BY <1>1, <1>2, <1>3, <1>4, <2>4, <2>5
<1> HIDE DEF allowed
<1> QED BY <1>5, <1>6, <1>7

LEMMA QuietScan ==
  ASSUME NEW words, IsSequence(words), NEW hadClause
  PROVE  LET plans == FrameScan(words, hadClause).plans
         IN  /\ IsSequence(plans)
             /\ \A k \in DOMAIN plans :
                  /\ IsSequence(plans[k].text) /\ ~HasQuote(plans[k].text)
                  /\ ~InQuotedSpan(words, plans[k].range) /\ ~InQuotedSpan(words, plans[k].base)
                  /\ plans[k].range.start \in Nat /\ plans[k].base.start \in Nat
                  /\ plans[k].range.start <= plans[k].base.start /\ plans[k].base.start < Len(words)
             /\ \A k, l \in DOMAIN plans : k < l => plans[l].base.start < plans[k].range.start
<1> DEFINE edits == FrameEdits(FrameMatches(words))
           planned == [m \in edits |-> Plans(words, hadClause, m)]
           viable == {m \in edits : planned[m] # {}}
           order == Reverse(FrameResolve(viable))
           plans == [k \in DOMAIN order |-> CHOOSE p \in planned[order[k]] : TRUE]
           key == [m \in viable |-> m.start]
           resolved == FrameResolve(viable)
           n == Len(resolved)
<1>1. viable \subseteq FrameMatches(words)
  BY DEF FrameEdits, OfKind
<1>2. IsFiniteSet(viable)
  <2> HIDE DEF viable
  <2> QED BY <1>1, FrameMatchesAreFinite, FS_Subset
<1>3. \A m \in viable : /\ m.start \in Nat /\ m.end \in Nat /\ m.start < m.end /\ words[m.start + 1] # Space
                        /\ m.start < Len(words) /\ key[m] = m.start
  <2>1. ASSUME NEW m \in viable
        PROVE  m.start \in Nat /\ m.end \in Nat /\ m.start < m.end /\ words[m.start + 1] # Space /\ m.start < Len(words)
    <3>1. m \in FrameMatches(words)
      BY <1>1
    <3> HIDE DEF viable
    <3>2. m.start \in Nat /\ m.end \in Nat /\ m.start < m.end /\ words[m.start + 1] # Space /\ m.end <= Len(words)
      BY <3>1, FrameMatchIs
    <3> QED BY <3>2, SequenceIs
  <2> HIDE DEF viable
  <2> QED BY <2>1
<1>4. \A m \in viable : planned[m] = Plans(words, hadClause, m) /\ planned[m] # {}
  OBVIOUS
<1>5. FrameScan(words, hadClause).plans = plans
  BY DEF FrameScan
<1> HIDE DEF viable, planned
<1>6. key \in [viable -> Int] /\ \A m \in viable : m.start \in Int /\ m.end \in Int
  BY <1>3
<1> HIDE DEF key
<1>7. resolved \in Seq(viable) /\ ClimbsBy(key, resolved)
  BY <1>2, <1>3, <1>6, FrameResolveClimbs
<1> HIDE DEF resolved
<1>8. IsSequence(resolved) /\ n \in Nat /\ DOMAIN resolved = 1 .. n /\ \A k \in 1 .. n : resolved[k] \in viable
  BY <1>7, SequenceOf, SequenceIs
<1>9. /\ IsSequence(order) /\ DOMAIN order = 1 .. n
      /\ \A k \in 1 .. n : (n - k) + 1 \in 1 .. n /\ order[k] = resolved[(n - k) + 1]
  BY <1>8, ReversedFalls DEF resolved
<1> HIDE DEF order, n
<1>10. IsSequence(plans) /\ DOMAIN plans = 1 .. n
  <2>1. plans = [k \in 1 .. n |-> plans[k]] /\ DOMAIN plans = 1 .. n
    BY <1>9
  <2> HIDE DEF plans
  <2> QED BY <1>8, <2>1, Listed
<1>11. ASSUME NEW k \in 1 .. n
       PROVE  order[k] \in viable /\ plans[k] \in Plans(words, hadClause, order[k])
  <2>1. order[k] \in viable
    BY <1>8, <1>9
  <2>2. plans[k] = CHOOSE p \in planned[order[k]] : TRUE
    BY <1>9
  <2> HIDE DEF plans
  <2>3. plans[k] \in planned[order[k]]
    BY <1>4, <2>1, <2>2
  <2> QED BY <1>4, <2>1, <2>3
<1> HIDE DEF plans
<1>12. ASSUME NEW k \in 1 .. n
       PROVE  /\ IsSequence(plans[k].text) /\ ~HasQuote(plans[k].text)
              /\ ~InQuotedSpan(words, plans[k].range) /\ ~InQuotedSpan(words, plans[k].base)
              /\ plans[k].base.start = order[k].start /\ plans[k].base.start \in Nat
              /\ plans[k].base.start < Len(words)
              /\ \/ plans[k].range.start = order[k].start
                 \/ /\ plans[k].range.start = order[k].start - 1
                    /\ order[k].start > 0 /\ words[order[k].start] = Space
  <2>1. order[k] \in viable /\ plans[k] \in Plans(words, hadClause, order[k])
    BY <1>11
  <2>2. order[k] \in FrameMatches(words)
    BY <1>1, <2>1
  <2> QED BY <2>1, <2>2, QuietPlan
<1>13. ASSUME NEW k \in 1 .. n
       PROVE  plans[k].range.start \in Nat /\ plans[k].range.start <= plans[k].base.start
  <2> DEFINE o == order[k].start
             r == plans[k].range.start
  <2>1. o \in Nat /\ plans[k].base.start = o /\ (r = o \/ (r = o - 1 /\ o > 0))
    BY <1>12
  <2> HIDE DEF o, r
  <2>2. r \in Nat /\ r <= o
    BY <2>1
  <2> QED BY <2>1, <2>2 DEF r
<1>14. ASSUME NEW k \in 1 .. n, NEW l \in 1 .. n, k < l PROVE plans[l].base.start < plans[k].range.start
  <2> DEFINE o == order[k].start
             r == plans[k].range.start
             q == order[l].start
  <2>1. o \in Nat /\ q \in Nat /\ plans[l].base.start = q /\ (r = o \/ (r = o - 1 /\ words[o] = Space))
    BY <1>12
  <2>2. words[q + 1] # Space
    BY <1>3, <1>11
  <2>3. q < o
    <3>1. (n - k) + 1 \in 1 .. n /\ (n - l) + 1 \in 1 .. n /\ (n - l) + 1 < (n - k) + 1
      BY <1>8, <1>9, <1>14
    <3>2. key[resolved[(n - l) + 1]] < key[resolved[(n - k) + 1]]
      BY <1>7, <1>8, <3>1 DEF ClimbsBy
    <3>3. key[order[l]] < key[order[k]]
      BY <1>9, <3>2
    <3> QED BY <1>3, <1>11, <3>3
  <2> HIDE DEF o, r, q
  <2>4. q < r
    <3>1. CASE r = o
      BY <2>3, <3>1
    <3>2. CASE r = o - 1 /\ words[o] = Space
      <4>1. q # o - 1
        <5>1. q = o - 1 => q + 1 = o
          BY <2>1
        <5> QED BY <2>2, <3>2, <5>1
      <4> QED BY <2>1, <2>3, <3>2, <4>1
    <3> QED BY <2>1, <3>1, <3>2
  <2> QED BY <2>1, <2>4 DEF r
<1> QED BY <1>5, <1>10, <1>12, <1>13, <1>14

LEMMA QuietFrames ==
  ASSUME NEW words, IsSequence(words), NEW s, Quiet(words, s)
  PROVE  Quiet(words, FrameStage(s))
<1> DEFINE working == Symbols(s.cells)
           scan == FrameScan(working, ClauseOk(s.text))
           plans == scan.plans
           noted == [s EXCEPT !.held = @ \cup scan.refused]
<1>1. IsSequence(working) /\ Len(working) = Len(s.cells)
  BY SymbolsAre DEF Quiet, IsWork, IsCells
<1>2. FrameStage(s) = FramePlansApplied(noted, plans)
  BY DEF FrameStage
<1>3. /\ IsSequence(plans)
      /\ \A k \in DOMAIN plans :
           /\ IsSequence(plans[k].text) /\ ~HasQuote(plans[k].text)
           /\ ~InQuotedSpan(working, plans[k].range) /\ ~InQuotedSpan(working, plans[k].base)
           /\ plans[k].range.start \in Nat /\ plans[k].base.start \in Nat
           /\ plans[k].range.start <= plans[k].base.start /\ plans[k].base.start < Len(working)
      /\ \A k, l \in DOMAIN plans : k < l => plans[l].base.start < plans[k].range.start
  <2> HIDE DEF working
  <2> QED BY <1>1, QuietScan
<1>4. Quiet(words, noted) /\ noted.cells = s.cells
  <2> HIDE DEF scan
  <2> QED BY QuietNote
<1> HIDE DEF noted, plans, working
<1>5. /\ Symbols(noted.cells) = working /\ Len(working) = Len(noted.cells)
  BY <1>1, <1>4 DEF working
<1>6. Quiet(words, FramePlansApplied(noted, plans))
  BY <1>3, <1>4, <1>5, PlansStayQuiet
<1> QED BY <1>2, <1>6

LEMMA OpenedIsQuiet ==
  ASSUME NEW words, IsSequence(words), NEW room \in Nat, NEW noted
  PROVE  /\ Quiet(words, Opened(words, room, noted)) /\ Symbols(Opened(words, room, noted).cells) = words
         /\ Len(Opened(words, room, noted).cells) = Len(words)
<1> DEFINE n == Len(words)
           w == OriginalCells(words)
           s == Opened(words, room, noted)
<1>1. n \in Nat /\ DOMAIN words = 1 .. n /\ words = [k \in 1 .. n |-> words[k]]
  BY SequenceIs
<1>2. IsWork(s) /\ s.text = words /\ s.cells = w /\ s.patches = <<>>
  <2>1. Alike(s, s)
    BY OpenedAlike
  <2>2. s.text = words /\ s.cells = w /\ s.patches = <<>>
    <3> HIDE DEF w
    <3> QED BY DEF Opened, WorkOf, w
  <2> QED BY <2>1, <2>2 DEF Alike
<1> HIDE DEF s
<1>3. w = [k \in 1 .. n |-> Cell(words[k], k - 1)]
  BY DEF OriginalCells
<1>4. w = [k \in 1 .. n |-> w[k]]
  BY <1>3
<1>5. DOMAIN w = 1 .. n /\ \A k \in 1 .. n : w[k].at = k - 1 /\ w[k].sym = words[k]
  BY <1>3 DEF Cell
<1> HIDE DEF w, n
<1>6. Len(w) = n
  BY <1>1, <1>4, Listed
<1>7. \A i \in DOMAIN w : InPlace(words, w[i])
  <2>1. ASSUME NEW i \in 1 .. n PROVE InPlace(words, w[i])
    <3>1. w[i].at \in 0 .. n - 1 /\ w[i].at + 1 = i
      BY <1>1, <1>5
    <3> QED BY <1>5, <3>1 DEF InPlace, n
  <2> QED BY <1>5, <2>1
<1>8. \A i, j \in DOMAIN w : i < j => w[i].at < w[j].at
  BY <1>1, <1>5
<1>9. \A o \in Sheltered(words) : \E i \in DOMAIN w : w[i].at = o
  <2>1. ASSUME NEW o \in Sheltered(words) PROVE \E i \in DOMAIN w : w[i].at = o
    <3>1. o \in 0 .. n - 1
      BY DEF Sheltered, n
    <3>2. o + 1 \in 1 .. n /\ (o + 1) - 1 = o
      BY <1>1, <3>1
    <3> QED BY <1>5, <3>2
  <2> QED BY <2>1
<1>10. Faithful(words, w)
  BY <1>7, <1>8, <1>9 DEF Faithful
<1>11. Clear(words, w, <<>>)
  BY EmptyIs DEF Clear
<1>12. Symbols(w) = words
  <2>1. Symbols(w) = [k \in 1 .. n |-> words[k]]
    BY <1>5, <1>6 DEF Symbols
  <2> QED BY <1>1, <2>1
<1> QED BY <1>2, <1>6, <1>10, <1>11, <1>12 DEF Quiet, s, n

LEMMA QuietStages ==
  ASSUME NEW words, IsSequence(words), NEW s, Quiet(words, s)
  PROVE  Quiet(words, Stages(s))
<1> DEFINE a == SubstitutionStage(s)
           b == PivotStage(a)
           c == DeletionStage(b)
           d == DejustStage(c)
<1>1. Quiet(words, a)
  BY QuietSubstitutions
<1> HIDE DEF a
<1>2. Quiet(words, b)
  BY <1>1, QuietPivots
<1> HIDE DEF b
<1>3. Quiet(words, c)
  BY <1>2, QuietDeletions
<1> HIDE DEF c
<1>4. Quiet(words, d)
  BY <1>3, QuietDejust
<1> HIDE DEF d
<1>5. Quiet(words, FrameStage(d))
  BY <1>4, QuietFrames
<1> QED BY <1>5 DEF Stages, a, b, c, d
=============================================================================
