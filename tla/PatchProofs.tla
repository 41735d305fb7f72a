----------------------------- MODULE PatchProofs -----------------------------
(***************************************************************************)
(* What the patch plumbing guarantees for every text, every set of         *)
(* replacements and every number of edits.  Five results, one part each.   *)
(*                                                                         *)
(* 1. The patches one splicer records never overlap (PatchesDisjoint).     *)
(*    DisjointPatches alone is not inductive: a new patch is clear of the  *)
(*    old ones because it is cut from an original chunk, and no original   *)
(*    chunk meets a patch.  The inductive invariant IInv adds that fact    *)
(*    (ClearOf, in SoundChunk) and the one that keeps it true, that        *)
(*    original chunks do not meet each other (AllApart).                   *)
(*                                                                         *)
(* 2. The splicer implements the working text of module WorkingText        *)
(*    (SplicerImplementsWorkingText): the chain read as cells is edited    *)
(*    exactly where the span says, and the recorded patch removes exactly  *)
(*    the source bytes those cells came from.                              *)
(*                                                                         *)
(* 3. resolve keeps a candidate exactly when it is valid and no kept one   *)
(*    comes before it (ResolutionIsLeftmostFirst): both of its folds, the  *)
(*    stable sort and the greedy scan, are traced with FoldFacts.          *)
(*                                                                         *)
(* 4. The recorded patches are honest (PatchesHonest).  The invariant this *)
(*    needs beside IInv is Canonical: the chain is the one its patches     *)
(*    compose when they are taken from the right, whatever order they were *)
(*    recorded in.  An edit puts one more patch into that order and splits *)
(*    one chunk of the composed chain (ComposedInserts), which is what     *)
(*    apply does to the chunk it stops at (SplitIsEdit).  Replaying,       *)
(*    resolving and applying the patches all read off the same chain.      *)
(*                                                                         *)
(* 5. Rebased spans follow the edits (SpansFollowEdits).  Carries tells    *)
(*    what the text of apply holds while the first patches are still to be *)
(*    spliced, RebasedIs where rebase_range puts an edge; both speak of    *)
(*    how much the patches before a place make the text grow.              *)
(***************************************************************************)
EXTENDS Splicer, Resolution, SequenceTheorems, WellFoundedInduction, NaturalsInduction, TLAPS

(* Every set of naturals has a least number, and so induction holds. *)
LEMMA LeastNat ==
  ASSUME NEW T, T \subseteq Nat, T # {}
  PROVE  \E x \in T : \A y \in T : x <= y
<1> DEFINE R == OpToRel(<, Nat)
<1>1. IsWellFoundedOn(R, Nat)
  BY NatLessThanWellFounded
<1> HIDE DEF R
<1>2. PICK x \in T : \A y \in T : ~ (<<y, x>> \in R)
  BY <1>1, WFMin
<1>3. \A y \in T : ~(y < x)
  BY <1>2 DEF OpToRel, R
<1> QED BY <1>2, <1>3

LEMMA NatInduct ==
  ASSUME NEW T, 0 \in T, \A n \in Nat : n \in T => n + 1 \in T
  PROVE  Nat \subseteq T
<1> DEFINE U == Nat \ T
<1>1. SUFFICES ASSUME U # {} PROVE FALSE
  OBVIOUS
<1>2. PICK x \in U : \A y \in U : x <= y
  <2> HIDE DEF U
  <2>1. U \subseteq Nat
    BY DEF U
  <2> QED BY <1>1, <2>1, LeastNat
<1>3. x # 0 /\ x \in Nat /\ x \notin T
  BY <1>2
<1>4. x - 1 \in Nat
  BY <1>3
<1>5. x - 1 \in T
  BY <1>2, <1>4
<1>6. (x - 1) + 1 \in T
  BY <1>4, <1>5
<1> QED BY <1>3, <1>6

Apart(a, b) == a.end <= b.start \/ b.end <= a.start

OriginalsApart(c, d) == IsOriginal(c) /\ IsOriginal(d) => Apart(c, d)

\* Every two chunks of the chain s are apart; every chunk of s is apart from
\* every chunk of t.
AllApart(s) == \A i, j \in DOMAIN s : i # j => OriginalsApart(s[i], s[j])
Across(s, t) == \A i \in DOMAIN s : \A j \in DOMAIN t : OriginalsApart(s[i], t[j])

\* The chunks that may stand in a chain beside the recorded patches.
InSentence(c) == IsOriginal(c) => Opening <= c.start /\ c.end <= Closing
ClearOf(c, recorded) == IsOriginal(c) => \A k \in DOMAIN recorded : Apart(c, recorded[k])
SoundChunk(recorded) ==
  {c \in Chunk : ChunkLen(c) > 0 /\ InSentence(c) /\ ClearOf(c, recorded)}

SoundPatch == {p \in PatchRecord : Opening <= p.start /\ p.start < p.end /\ p.end <= Closing}

PatchesApart(recorded) ==
  \A i, j \in DOMAIN recorded : i # j => Apart(recorded[i], recorded[j])

IInv ==
  /\ chunks \in Seq(SoundChunk(patches))
  /\ patches \in Seq(SoundPatch)
  /\ AllApart(chunks)
  /\ PatchesApart(patches)

-----------------------------------------------------------------------------
\* The elements of a concatenation are those of its two parts.
LEMMA ConcatElements ==
  ASSUME NEW S, NEW s \in Seq(S), NEW t \in Seq(S)
  PROVE  /\ s \o t \in Seq(S)
         /\ DOMAIN (s \o t) = 1..Len(s) + Len(t)
         /\ \A k \in 1..Len(s) : (s \o t)[k] = s[k]
         /\ \A k \in Len(s) + 1 .. Len(s) + Len(t) :
              k - Len(s) \in DOMAIN t /\ (s \o t)[k] = t[k - Len(s)]
OBVIOUS

\* A concatenation of two chains, each apart in itself and apart from the
\* other, is apart in itself.
LEMMA ConcatApart ==
  ASSUME NEW S, NEW s \in Seq(S), NEW t \in Seq(S), AllApart(s), AllApart(t), Across(s, t)
  PROVE  AllApart(s \o t)
<1>1. SUFFICES ASSUME NEW i \in DOMAIN (s \o t), NEW j \in DOMAIN (s \o t), i # j
               PROVE  OriginalsApart((s \o t)[i], (s \o t)[j])
  BY DEF AllApart
<1>2. DOMAIN s = 1..Len(s) /\ DOMAIN t = 1..Len(t) /\ Len(s) \in Nat /\ Len(t) \in Nat
  OBVIOUS
<1>3. CASE i <= Len(s) /\ j <= Len(s)
  <2>1. i \in DOMAIN s /\ j \in DOMAIN s /\ (s \o t)[i] = s[i] /\ (s \o t)[j] = s[j]
    BY <1>1, <1>2, <1>3, ConcatElements
  <2> QED BY <2>1, <1>1 DEF AllApart
<1>4. CASE i > Len(s) /\ j > Len(s)
  <2>1. /\ i - Len(s) \in DOMAIN t /\ (s \o t)[i] = t[i - Len(s)]
        /\ j - Len(s) \in DOMAIN t /\ (s \o t)[j] = t[j - Len(s)]
        /\ i - Len(s) # j - Len(s)
    BY <1>1, <1>2, <1>4, ConcatElements
  <2> QED BY <2>1 DEF AllApart
<1>5. CASE i <= Len(s) /\ j > Len(s)
  <2>1. /\ i \in DOMAIN s /\ (s \o t)[i] = s[i]
        /\ j - Len(s) \in DOMAIN t /\ (s \o t)[j] = t[j - Len(s)]
    BY <1>1, <1>2, <1>5, ConcatElements
  <2> QED BY <2>1 DEF Across
<1>6. CASE i > Len(s) /\ j <= Len(s)
  <2>1. /\ j \in DOMAIN s /\ (s \o t)[j] = s[j]
        /\ i - Len(s) \in DOMAIN t /\ (s \o t)[i] = t[i - Len(s)]
    BY <1>1, <1>2, <1>6, ConcatElements
  <2>2. OriginalsApart(s[j], t[i - Len(s)])
    BY <2>1 DEF Across
  <2> QED BY <2>1, <2>2 DEF OriginalsApart, Apart
<1> QED
  <2>1. i \in Int /\ j \in Int
    BY <1>1, ConcatElements
  <2> QED BY <2>1, <1>2, <1>3, <1>4, <1>5, <1>6

\* What is apart from two chains is apart from their concatenation.
LEMMA AcrossConcatLeft ==
  ASSUME NEW S, NEW s \in Seq(S), NEW t \in Seq(S), NEW u, Across(s, u), Across(t, u)
  PROVE  Across(s \o t, u)
<1>1. SUFFICES ASSUME NEW i \in DOMAIN (s \o t), NEW j \in DOMAIN u
               PROVE  OriginalsApart((s \o t)[i], u[j])
  BY DEF Across
<1>2. DOMAIN s = 1..Len(s) /\ Len(s) \in Nat /\ Len(t) \in Nat /\ i \in 1..Len(s) + Len(t)
  BY <1>1, ConcatElements
<1>3. CASE i <= Len(s)
  BY <1>2, <1>3, ConcatElements DEF Across
<1>4. CASE i > Len(s)
  <2>1. i - Len(s) \in DOMAIN t /\ (s \o t)[i] = t[i - Len(s)]
    BY <1>2, <1>4, ConcatElements
  <2> QED BY <2>1 DEF Across
<1> QED BY <1>2, <1>3, <1>4

\* Apartness of two chains does not depend on their order.
LEMMA AcrossSymmetric ==
  ASSUME NEW s, NEW t, Across(s, t)
  PROVE  Across(t, s)
BY DEF Across, OriginalsApart, Apart

\* The same as AcrossConcatLeft, on the other side.
LEMMA AcrossConcatRight ==
  ASSUME NEW S, NEW s \in Seq(S), NEW t \in Seq(S), NEW u, Across(u, s), Across(u, t)
  PROVE  Across(u, s \o t)
BY AcrossSymmetric, AcrossConcatLeft

\* A piece is a chain of one chunk or of none.
LEMMA PieceIsChain ==
  ASSUME NEW G, NEW c, ChunkLen(c) > 0 => c \in G
  PROVE  /\ Piece(c) \in Seq(G)
         /\ AllApart(Piece(c))
         /\ \A k \in DOMAIN Piece(c) : Piece(c)[k] = c
BY DEF Piece, AllApart

\* Any patch record added to `recorded' keeps a chunk clear if it is apart
\* from that chunk.
LEMMA StillClear ==
  ASSUME NEW recorded \in Seq(PatchRecord), NEW p \in PatchRecord,
         NEW c \in SoundChunk(recorded), IsOriginal(c) => Apart(c, p)
  PROVE  c \in SoundChunk(Append(recorded, p))
<1>1. ASSUME IsOriginal(c), NEW k \in DOMAIN Append(recorded, p)
      PROVE  Apart(c, Append(recorded, p)[k])
  <2>1. CASE k = Len(recorded) + 1
    BY <1>1, <2>1
  <2>2. CASE k # Len(recorded) + 1
    <3>1. k \in DOMAIN recorded /\ Append(recorded, p)[k] = recorded[k]
      BY <1>1, <2>2
    <3> QED BY <1>1, <3>1 DEF SoundChunk, ClearOf
  <2> QED BY <2>1, <2>2
<1> QED BY <1>1 DEF SoundChunk, ClearOf

\* The pieces an edit leaves of an original chunk c are sound beside the new
\* patch, apart from each other, and inside c.
LEMMA PiecesAreSound ==
  ASSUME NEW recorded \in Seq(PatchRecord), NEW c \in SoundChunk(recorded), IsOriginal(c),
         NEW target \in [start : Int, end : Int],
         c.start <= target.start, target.start < target.end, target.end <= c.end,
         NEW text \in Replacements
  PROVE  LET pieces == Pieces(c, target, text)
             grown  == Append(recorded, Patch(target.start, target.end, text, 0))
         IN  /\ pieces \in Seq(SoundChunk(grown))
             /\ AllApart(pieces)
             /\ \A d \in Chunk : OriginalsApart(d, c) => Across(<<d>>, pieces)
<1> DEFINE p == Patch(target.start, target.end, text, 0)
           grown == Append(recorded, p)
           G == SoundChunk(grown)
           before == Original(c.start, target.start)
           middle == Replaced(text)
           after  == Original(target.end, c.end)
<1>1. p \in PatchRecord
  BY DEF Patch, PatchRecord
<1>2. c \in Chunk /\ InSentence(c) /\ ClearOf(c, recorded)
  BY DEF SoundChunk
<1>3. before \in Chunk /\ middle \in Chunk /\ after \in Chunk
  BY <1>2 DEF Original, Replaced, Chunk
<1>4. IsOriginal(before) /\ ~IsOriginal(middle) /\ IsOriginal(after)
  BY DEF IsOriginal, Original, Replaced
<1>5. ChunkLen(before) > 0 => before \in G
  <2>1. SUFFICES ASSUME ChunkLen(before) > 0 PROVE before \in SoundChunk(recorded)
    <3>1. Apart(before, p)
      BY <1>2 DEF Apart, Patch, Original, Chunk
    <3> QED BY <1>1, <2>1, <3>1, StillClear
  <2>2. InSentence(before)
    BY <1>2, OpeningAssumption, SourceAssumption
       DEF InSentence, Original, Chunk, Closing, IsOriginal
  <2>3. ClearOf(before, recorded)
    <3>1. ASSUME NEW k \in DOMAIN recorded PROVE Apart(before, recorded[k])
      <4>1. recorded[k] \in PatchRecord /\ Apart(c, recorded[k])
        BY <1>2 DEF ClearOf
      <4> QED BY <4>1, <1>2 DEF Apart, Original, PatchRecord, Chunk
    <3> QED BY <3>1 DEF ClearOf
  <2> QED BY <1>3, <2>1, <2>2, <2>3 DEF SoundChunk
<1>6. ChunkLen(after) > 0 => after \in G
  <2>1. SUFFICES ASSUME ChunkLen(after) > 0 PROVE after \in SoundChunk(recorded)
    <3>1. Apart(after, p)
      BY <1>2 DEF Apart, Patch, Original, Chunk
    <3> QED BY <1>1, <2>1, <3>1, StillClear
  <2>2. InSentence(after)
    BY <1>2, OpeningAssumption, SourceAssumption
       DEF InSentence, Original, Chunk, Closing, IsOriginal
  <2>3. ClearOf(after, recorded)
    <3>1. ASSUME NEW k \in DOMAIN recorded PROVE Apart(after, recorded[k])
      <4>1. recorded[k] \in PatchRecord /\ Apart(c, recorded[k])
        BY <1>2 DEF ClearOf
      <4> QED BY <4>1, <1>2 DEF Apart, Original, PatchRecord, Chunk
    <3> QED BY <3>1 DEF ClearOf
  <2> QED BY <1>3, <2>1, <2>2, <2>3 DEF SoundChunk
<1>7. ChunkLen(middle) > 0 => middle \in G
  BY <1>3, <1>4 DEF SoundChunk, InSentence, ClearOf
<1>8. /\ Piece(before) \in Seq(G) /\ Piece(middle) \in Seq(G) /\ Piece(after) \in Seq(G)
      /\ AllApart(Piece(before)) /\ AllApart(Piece(middle)) /\ AllApart(Piece(after))
  BY <1>5, <1>6, <1>7, PieceIsChain
<1>9. /\ \A k \in DOMAIN Piece(before) : Piece(before)[k] = before
      /\ \A k \in DOMAIN Piece(middle) : Piece(middle)[k] = middle
      /\ \A k \in DOMAIN Piece(after) : Piece(after)[k] = after
  BY <1>5, <1>6, <1>7, PieceIsChain
<1>10. Piece(before) \o Piece(middle) \in Seq(G)
       /\ AllApart(Piece(before) \o Piece(middle))
  <2>1. Across(Piece(before), Piece(middle))
    BY <1>4, <1>9 DEF Across, OriginalsApart
  <2> QED BY <1>8, <2>1, ConcatApart, ConcatElements
<1>11. AllApart(Pieces(c, target, text)) /\ Pieces(c, target, text) \in Seq(G)
  <2>1. Across(Piece(before), Piece(after))
    BY <1>2, <1>9 DEF Across, OriginalsApart, Apart, Original, Chunk
  <2>2. Across(Piece(middle), Piece(after))
    BY <1>4, <1>9 DEF Across, OriginalsApart
  <2>3. Across(Piece(before) \o Piece(middle), Piece(after))
    BY <1>8, <2>1, <2>2, AcrossConcatLeft
  <2> QED BY <1>8, <1>10, <2>3, ConcatApart, ConcatElements DEF Pieces
<1>12. ASSUME NEW d \in Chunk, OriginalsApart(d, c)
       PROVE  Across(<<d>>, Pieces(c, target, text))
  <2>1. Across(<<d>>, Piece(before))
    BY <1>2, <1>9, <1>12 DEF Across, OriginalsApart, Apart, Original, Chunk, IsOriginal
  <2>2. Across(<<d>>, Piece(middle))
    BY <1>4, <1>9 DEF Across, OriginalsApart
  <2>3. Across(<<d>>, Piece(after))
    BY <1>2, <1>9, <1>12 DEF Across, OriginalsApart, Apart, Original, Chunk, IsOriginal
  <2>4. Across(<<d>>, Piece(before) \o Piece(middle))
    BY <1>8, <2>1, <2>2, AcrossConcatRight
  <2> QED BY <1>8, <1>10, <2>3, <2>4, AcrossConcatRight DEF Pieces
<1> QED BY <1>11, <1>12

Ahead(chain, i) == SubSeq(chain, 1, i - 1)

\* What apply leaves in front of chunk i: the same chunks, at the same places.
LEMMA FrontOfChain ==
  ASSUME NEW G, NEW H, NEW chain \in Seq(G), AllApart(chain), NEW i \in 1..Len(chain),
         \A k \in 1..i - 1 : chain[k] \in H
  PROVE  /\ Ahead(chain, i) \in Seq(H) /\ AllApart(Ahead(chain, i))
         /\ DOMAIN Ahead(chain, i) = 1..i - 1
         /\ \A k \in 1..i - 1 : Ahead(chain, i)[k] = chain[k]
<1> DEFINE front == Ahead(chain, i)
<1>1. DOMAIN front = 1..i - 1 /\ \A k \in 1..i - 1 : front[k] = chain[k]
  BY DEF Ahead
<1>2. front \in Seq(H)
  <2>1. front = [k \in 1..i - 1 |-> chain[k]] /\ i - 1 \in Nat
    BY DEF Ahead
  <2> QED BY <2>1
<1>3. AllApart(front)
  BY <1>1 DEF AllApart
<1> QED BY <1>1, <1>2, <1>3

Behind(chain, i) == SubSeq(chain, i + 1, Len(chain))

\* What apply leaves behind chunk i: the same chunks, i places earlier.
LEMMA BackOfChain ==
  ASSUME NEW G, NEW H, NEW chain \in Seq(G), AllApart(chain), NEW i \in 1..Len(chain),
         \A k \in DOMAIN chain : k > i => chain[k] \in H
  PROVE  LET back == Behind(chain, i)
         IN  /\ back \in Seq(H) /\ AllApart(back)
             /\ DOMAIN back = 1..Len(chain) - i
<1> DEFINE back == Behind(chain, i)
<1>1. DOMAIN back = 1..Len(chain) - i /\ Len(chain) - i \in Nat
  BY DEF Behind
<1>2. \A k \in 1..Len(chain) - i : back[k] = chain[i + k]
  BY DEF Behind
<1>3. back \in Seq(H)
  <2>1. back = [k \in 1..Len(chain) - i |-> chain[i + k]]
    BY <1>1, <1>2 DEF Behind
  <2>2. \A k \in 1..Len(chain) - i : i + k \in DOMAIN chain /\ i + k > i
    OBVIOUS
  <2> HIDE DEF back
  <2> QED BY <1>1, <2>1, <2>2
<1>4. AllApart(back)
  <2>1. SUFFICES ASSUME NEW j \in 1..Len(chain) - i, NEW k \in 1..Len(chain) - i, j # k
                 PROVE  OriginalsApart(back[j], back[k])
    BY <1>1 DEF AllApart
  <2>2. i + j \in DOMAIN chain /\ i + k \in DOMAIN chain /\ i + j # i + k
    BY <2>1
  <2> QED BY <1>2, <2>1, <2>2 DEF AllApart
<1> QED BY <1>1, <1>2, <1>3, <1>4

\* SentenceSplicer::apply keeps the chain sound: cutting target out of the
\* original chunk i leaves chunks that are clear of every patch, the new one
\* included, and apart from each other.
LEMMA ReshapedIsSound ==
  ASSUME NEW recorded \in Seq(PatchRecord), NEW chain \in Seq(SoundChunk(recorded)),
         AllApart(chain), NEW i \in DOMAIN chain, IsOriginal(chain[i]),
         NEW target \in [start : Int, end : Int],
         chain[i].start <= target.start, target.start < target.end, target.end <= chain[i].end,
         NEW text \in Replacements
  PROVE  LET after == Reshaped(chain, i, Pieces(chain[i], target, text))
             grown == Append(recorded, Patch(target.start, target.end, text, 0))
         IN  after \in Seq(SoundChunk(grown)) /\ AllApart(after)
<1> DEFINE p == Patch(target.start, target.end, text, 0)
           G == SoundChunk(Append(recorded, p))
           front == Ahead(chain, i)
           pieces == Pieces(chain[i], target, text)
           back == Behind(chain, i)
<1>1. p \in PatchRecord /\ i \in 1..Len(chain) /\ Len(chain) \in Nat
  BY DEF Patch, PatchRecord
<1>2. chain[i] \in SoundChunk(recorded) /\ chain[i] \in Chunk
  BY DEF SoundChunk
<1>3. /\ pieces \in Seq(G) /\ AllApart(pieces)
      /\ \A d \in Chunk : OriginalsApart(d, chain[i]) => Across(<<d>>, pieces)
  BY <1>2, PiecesAreSound
<1>4. ASSUME NEW k \in DOMAIN chain, k # i
      PROVE  chain[k] \in G /\ chain[k] \in Chunk /\ OriginalsApart(chain[k], chain[i])
  <2>1. chain[k] \in SoundChunk(recorded) /\ chain[k] \in Chunk
    BY DEF SoundChunk
  <2>2. OriginalsApart(chain[k], chain[i])
    BY <1>4 DEF AllApart
  <2>3. IsOriginal(chain[k]) => Apart(chain[k], p)
    BY <1>2, <2>1, <2>2 DEF OriginalsApart, Apart, Chunk, Patch
  <2> QED BY <1>1, <2>1, <2>2, <2>3, StillClear
<1>5. /\ front \in Seq(G) /\ AllApart(front)
      /\ DOMAIN front = 1..i - 1 /\ \A k \in 1..i - 1 : front[k] = chain[k]
  <2>1. \A k \in 1..i - 1 : chain[k] \in G
    BY <1>1, <1>4
  <2>2. chain \in Seq(SoundChunk(recorded)) /\ AllApart(chain) /\ i \in 1..Len(chain)
    BY <1>1
  <2> HIDE DEF G, front
  <2>3. Ahead(chain, i) \in Seq(G) /\ AllApart(Ahead(chain, i))
    BY <2>1, <2>2, FrontOfChain
  <2>4. /\ DOMAIN Ahead(chain, i) = 1..i - 1
        /\ \A k \in 1..i - 1 : Ahead(chain, i)[k] = chain[k]
    BY <2>1, <2>2, FrontOfChain
  <2> QED BY <2>3, <2>4 DEF front
<1>6. /\ back \in Seq(G) /\ AllApart(back)
      /\ DOMAIN back = 1..Len(chain) - i
      /\ \A k \in 1..Len(chain) - i : back[k] = chain[i + k]
  <2>1. \A k \in DOMAIN chain : k > i => chain[k] \in G
    BY <1>1, <1>4
  <2>2. chain \in Seq(SoundChunk(recorded)) /\ AllApart(chain) /\ i \in 1..Len(chain)
    BY <1>1
  <2> HIDE DEF G, back
  <2>3. Behind(chain, i) \in Seq(G)
    BY <2>1, <2>2, BackOfChain
  <2>4. AllApart(Behind(chain, i))
    BY <2>1, <2>2, BackOfChain
  <2>5. DOMAIN Behind(chain, i) = 1..Len(chain) - i
    BY <2>1, <2>2, BackOfChain
  <2>6. \A k \in 1..Len(chain) - i : Behind(chain, i)[k] = chain[i + k]
    BY <2>2 DEF Behind
  <2> QED BY <2>3, <2>4, <2>5, <2>6 DEF back
<1> HIDE DEF front, back
<1>7. Across(front, pieces)
  <2>1. ASSUME NEW k \in DOMAIN front, NEW j \in DOMAIN pieces
        PROVE  OriginalsApart(front[k], pieces[j])
    <3>1. k \in DOMAIN chain /\ k # i /\ front[k] = chain[k]
      BY <1>1, <1>5, <2>1
    <3>2. Across(<<chain[k]>>, pieces)
      BY <1>3, <1>4, <3>1
    <3> QED BY <3>1, <3>2 DEF Across
  <2> QED BY <2>1 DEF Across
<1>8. Across(pieces, back)
  <2>1. ASSUME NEW k \in DOMAIN back, NEW j \in DOMAIN pieces
        PROVE  OriginalsApart(back[k], pieces[j])
    <3>1. i + k \in DOMAIN chain /\ i + k # i /\ back[k] = chain[i + k]
      BY <1>1, <1>6, <2>1
    <3>2. Across(<<chain[i + k]>>, pieces)
      BY <1>3, <1>4, <3>1
    <3> QED BY <3>1, <3>2 DEF Across
  <2>2. Across(back, pieces)
    BY <2>1 DEF Across
  <2> QED BY <2>2, AcrossSymmetric
<1>9. Across(front, back)
  <2>1. ASSUME NEW k \in DOMAIN front, NEW j \in DOMAIN back
        PROVE  OriginalsApart(front[k], back[j])
    <3>1. k \in DOMAIN chain /\ front[k] = chain[k] /\ k < i
      BY <1>1, <1>5, <2>1
    <3>2. i + j \in DOMAIN chain /\ back[j] = chain[i + j] /\ i < i + j
      BY <1>1, <1>6, <2>1
    <3>3. k # i + j
      BY <1>1, <3>1, <3>2
    <3>4. OriginalsApart(chain[k], chain[i + j])
      BY <3>1, <3>2, <3>3 DEF AllApart
    <3> QED BY <3>1, <3>2, <3>4
  <2> QED BY <2>1 DEF Across
<1>10. front \o pieces \in Seq(G) /\ AllApart(front \o pieces)
  BY <1>3, <1>5, <1>7, ConcatApart, ConcatElements
<1>11. Across(front \o pieces, back)
  BY <1>3, <1>5, <1>8, <1>9, AcrossConcatLeft
<1>12. (front \o pieces) \o back \in Seq(G) /\ AllApart((front \o pieces) \o back)
  BY <1>6, <1>10, <1>11, ConcatApart, ConcatElements
<1> HIDE DEF pieces, G
<1>13. Reshaped(chain, i, pieces) = (front \o pieces) \o back
  BY DEF Reshaped, front, back, Ahead, Behind
<1> QED BY <1>12, <1>13 DEF G, pieces, p

-----------------------------------------------------------------------------
\* SentenceSplicer::new starts with one chunk, the whole sentence.
LEMMA InitSound == Init => IInv
<1> SUFFICES ASSUME Init PROVE IInv
  OBVIOUS
<1>1. chunks = <<Original(Opening, Closing)>> /\ patches = <<>>
  BY DEF Init, Seeded
<1>2. Original(Opening, Closing) \in SoundChunk(patches)
  BY <1>1, OpeningAssumption, SourceAssumption
     DEF Original, SoundChunk, Chunk, ChunkLen, InSentence, ClearOf, IsOriginal, Closing
<1>3. AllApart(chunks)
  BY <1>1 DEF AllApart
<1> QED BY <1>1, <1>2, <1>3 DEF IInv, PatchesApart

\* An accepted edit (SentenceSplicer::apply) keeps the invariant.
LEMMA EditSound ==
  ASSUME IInv, NEW r \in [start : Nat, end : Nat], r.start < r.end,
         NEW text \in Replacements, Edit(r, text)
  PROVE  IInv'
<1>1. PICK i \in DOMAIN chunks :
        /\ CanApplyAt(chunks, i, r)
        /\ LET after == ApplyAt([chunks |-> chunks, patches |-> patches], i, r, text)
           IN  chunks' = after.chunks /\ patches' = after.patches
  BY DEF Edit
<1> DEFINE c == chunks[i]
           cursor == Cursor(chunks, i)
           target == Target(chunks, i, r)
           p == Patch(target.start, target.end, text, 0)
<1>2. /\ chunks' = Reshaped(chunks, i, Pieces(c, target, text))
      /\ patches' = Append(patches, p)
  BY <1>1 DEF ApplyAt
<1>3. /\ cursor \in Nat /\ cursor <= r.start /\ r.end <= cursor + ChunkLen(c)
      /\ IsOriginal(c)
  BY <1>1 DEF CanApplyAt, StopsAt, Holds
<1>4. /\ chunks \in Seq(SoundChunk(patches)) /\ AllApart(chunks) /\ PatchesApart(patches)
      /\ patches \in Seq(SoundPatch) /\ patches \in Seq(PatchRecord)
  BY DEF IInv, SoundPatch
<1>5. c \in Chunk /\ InSentence(c) /\ ClearOf(c, patches)
  BY <1>4 DEF SoundChunk
<1>6. /\ target \in [start : Int, end : Int]
      /\ c.start <= target.start /\ target.start < target.end /\ target.end <= c.end
  <2>1. ChunkLen(c) = c.end - c.start
    BY <1>3 DEF ChunkLen
  <2>2. /\ target = [start |-> c.start + (r.start - cursor), end |-> c.start + (r.end - cursor)]
        /\ c.start \in Int /\ c.end \in Int
    BY <1>5 DEF Target, Span, Chunk
  <2>3. r.start \in Nat /\ r.end \in Nat
    OBVIOUS
  <2> HIDE DEF c, cursor, target
  <2> QED BY <1>3, <2>1, <2>2, <2>3
<1>7. chunks' \in Seq(SoundChunk(patches')) /\ AllApart(chunks')
  BY <1>2, <1>3, <1>4, <1>6, ReshapedIsSound
<1>8. p \in SoundPatch /\ p.start = target.start /\ p.end = target.end
  <2>1. Opening <= c.start /\ c.end <= Closing /\ c.start \in Int /\ c.end \in Int
    BY <1>3, <1>5 DEF InSentence, Chunk
  <2>2. Opening \in Int /\ Closing \in Int
    BY OpeningAssumption, SourceAssumption DEF Closing
  <2>3. /\ p = [start |-> target.start, end |-> target.end, text |-> text, rule |-> 0]
        /\ target.start \in Int /\ target.end \in Int
    BY <1>6 DEF Patch
  <2> HIDE DEF c, target, p
  <2>4. p \in PatchRecord /\ p.start = target.start /\ p.end = target.end
    BY <2>3 DEF PatchRecord
  <2> QED BY <1>6, <2>1, <2>2, <2>3, <2>4 DEF SoundPatch
<1>9. patches' \in Seq(SoundPatch)
  BY <1>2, <1>4, <1>8
<1>10. PatchesApart(patches')
  <2>1. ASSUME NEW k \in DOMAIN patches PROVE Apart(patches[k], p) /\ Apart(p, patches[k])
    <3>1. Apart(c, patches[k]) /\ patches[k] \in SoundPatch
      BY <1>3, <1>4, <1>5 DEF ClearOf
    <3> QED BY <1>5, <1>6, <1>8, <3>1 DEF Apart, SoundPatch, PatchRecord, Chunk
  <2>2. /\ DOMAIN patches' = 1..Len(patches) + 1 /\ patches'[Len(patches) + 1] = p
        /\ \A k \in 1..Len(patches) : k \in DOMAIN patches /\ patches'[k] = patches[k]
    BY <1>2, <1>4, <1>8
  <2>3. SUFFICES ASSUME NEW j \in DOMAIN patches', NEW k \in DOMAIN patches', j # k
                 PROVE  Apart(patches'[j], patches'[k])
    BY DEF PatchesApart
  <2>4. CASE j = Len(patches) + 1
    BY <1>4, <2>1, <2>2, <2>3, <2>4
  <2>5. CASE k = Len(patches) + 1
    BY <1>4, <2>1, <2>2, <2>3, <2>5
  <2>6. CASE j # Len(patches) + 1 /\ k # Len(patches) + 1
    <3>1. /\ j \in DOMAIN patches /\ patches'[j] = patches[j]
          /\ k \in DOMAIN patches /\ patches'[k] = patches[k]
      BY <1>4, <2>2, <2>3, <2>6
    <3> QED BY <1>4, <2>3, <3>1 DEF PatchesApart
  <2> QED BY <2>4, <2>5, <2>6
<1> QED BY <1>7, <1>9, <1>10 DEF IInv

\* Every step keeps the invariant.
LEMMA StepSound == IInv /\ [Next]_vars => IInv'
<1>1. ASSUME IInv, Next PROVE IInv'
  <2>1. PICK text \in Replacements, s \in 0..Len(WorkingText(chunks)) :
          \E e \in s + 1 .. Len(WorkingText(chunks)) : Edit(Span(s, e), text)
    BY <1>1 DEF Next
  <2>2. PICK e \in s + 1 .. Len(WorkingText(chunks)) : Edit(Span(s, e), text)
    BY <2>1
  <2>3. Span(s, e) \in [start : Nat, end : Nat] /\ Span(s, e).start < Span(s, e).end
    BY <2>1, <2>2 DEF Span
  <2> QED BY <1>1, <2>2, <2>3, EditSound
<1>2. ASSUME IInv, UNCHANGED vars PROVE IInv'
  BY <1>2 DEF IInv, vars
<1> QED BY <1>1, <1>2

\* The invariant says of every chunk and patch what TypeOK does.
LEMMA SoundIsTyped == IInv => TypeOK
<1> SUFFICES ASSUME IInv PROVE TypeOK
  OBVIOUS
<1>1. /\ chunks \in Seq(Chunk)
      /\ \A i \in DOMAIN chunks :
           /\ ChunkLen(chunks[i]) > 0
           /\ IsOriginal(chunks[i]) => Opening <= chunks[i].start /\ chunks[i].end <= Closing
  BY DEF IInv, SoundChunk, InSentence
<1>2. /\ patches \in Seq(PatchRecord)
      /\ \A i \in DOMAIN patches :
           Opening <= patches[i].start /\ patches[i].start < patches[i].end
             /\ patches[i].end <= Closing
  BY DEF IInv, SoundPatch
<1> QED BY <1>1, <1>2 DEF TypeOK

\* Patches that are apart and not empty do not overlap in the sense of
\* friction_core::span::ranges_overlap.
LEMMA ApartIsDisjoint == IInv => DisjointPatches
<1> SUFFICES ASSUME IInv, NEW i \in DOMAIN patches, NEW j \in DOMAIN patches, i # j
             PROVE  ~RangesOverlap(patches[i], patches[j])
  BY DEF DisjointPatches
<1>1. patches[i] \in SoundPatch /\ patches[j] \in SoundPatch
  BY DEF IInv
<1>2. Apart(patches[i], patches[j])
  BY DEF IInv, PatchesApart
<1> QED BY <1>1, <1>2 DEF RangesOverlap, IsEmptySpan, Apart, SoundPatch, PatchRecord

\* The invariant holds in every reachable state of the splicer.
THEOREM Inductive == Spec => []IInv
BY InitSound, StepSound, PTL DEF Spec

\* No chunk of the chain is ever empty, and chunks and patches stay inside
\* the sentence (SentenceSplicer::apply drops empty pieces).
THEOREM TypeCorrect == Spec => []TypeOK
BY Inductive, SoundIsTyped, PTL

\* The patches a sentence's stages record never overlap (what
\* apply_recapitalize calls "DISJOINT by construction").
THEOREM PatchesDisjoint == Spec => []DisjointPatches
BY Inductive, ApartIsDisjoint, PTL

Elements(w) == {w[i] : i \in DOMAIN w}

LEMMA AppendFacts ==
  ASSUME NEW S, NEW w \in Seq(S), NEW p \in S
  PROVE  /\ Append(w, p) \in Seq(S)
         /\ Elements(Append(w, p)) = Elements(w) \cup {p}
         /\ DOMAIN Append(w, p) = DOMAIN w \cup {Len(w) + 1}
         /\ \A i \in DOMAIN w : Append(w, p)[i] = w[i]
         /\ Append(w, p)[Len(w) + 1] = p
         /\ \A i \in DOMAIN w : i < Len(w) + 1
<1>1. /\ Append(w, p) \in Seq(S) /\ Len(Append(w, p)) = Len(w) + 1
      /\ Len(w) \in Nat /\ DOMAIN w = 1 .. Len(w)
      /\ \A i \in 1 .. Len(w) : Append(w, p)[i] = w[i]
      /\ Append(w, p)[Len(w) + 1] = p
  OBVIOUS
<1>2. DOMAIN Append(w, p) = 1 .. Len(w) + 1
  BY <1>1
<1>3. DOMAIN Append(w, p) = DOMAIN w \cup {Len(w) + 1}
  BY <1>1, <1>2
<1>4. Elements(Append(w, p)) = Elements(w) \cup {p}
  BY <1>1, <1>3 DEF Elements
<1> QED
  BY <1>1, <1>3, <1>4


(***************************************************************************)
(* The working text of a chain as cells: one fold over its chunks.         *)
(***************************************************************************)
FlattenStep(source, w, c) == w \o CellsOf(c)
MeasureStep(source, sum, c) == sum + ChunkLen(c)
Flattening == INSTANCE FoldFacts WITH Op <- FlattenStep
Measuring == INSTANCE FoldFacts WITH Op <- MeasureStep

LEMMA ChainInducts ==
  Flattening!Inductive /\ Measuring!Inductive
BY NatInduct DEF Flattening!Inductive, Measuring!Inductive

CellSet == [sym : Range(Source) \cup UNION {Range(text) : text \in Replacements}, at : Int]

LEMMA CellsIsAFold ==
  ASSUME NEW chain
  PROVE  Cells(chain) = Flattening!Folded(0, <<>>, chain)
  BY DEF Cells, Flattening!Folded, FlattenStep, FoldLeft, MapThenFoldSet, Max

LEMMA CursorIsAFold ==
  ASSUME NEW chain, NEW i
  PROVE  Cursor(chain, i) = Measuring!Folded(0, 0, SubSeq(chain, 1, i - 1))
<1> DEFINE front == SubSeq(chain, 1, i - 1)
<1> HIDE DEF front
<1>1. FoldLeft(LAMBDA sum, c : sum + ChunkLen(c), 0, front) = Measuring!Folded(0, 0, front)
  BY DEF Measuring!Folded, MeasureStep, FoldLeft, MapThenFoldSet, Max
<1> QED
  BY <1>1 DEF Cursor, front

(* A chunk lies in the sentence: its cells are as many as its symbols. *)
Placed == {c \in Chunk : ChunkLen(c) >= 0 /\ InSentence(c)}

LEMMA CellsOfPlaced ==
  ASSUME NEW c \in Placed
  PROVE  /\ CellsOf(c) \in Seq(CellSet)
         /\ Len(CellsOf(c)) = ChunkLen(c)
         /\ IsOriginal(c) => \A k \in 1 .. c.end - c.start :
              CellsOf(c)[k] = Cell(Source[c.start - Opening + k], c.start - Opening + k - 1)
         /\ ~IsOriginal(c) => CellsOf(c) = ReplacementCells(c.text)
<1>1. /\ c.start \in Int /\ c.end \in Int /\ c.text \in Replacements \cup {<<>>}
      /\ ChunkLen(c) >= 0
      /\ IsOriginal(c) => Opening <= c.start /\ c.end <= Opening + Len(Source)
      /\ Opening \in Nat /\ Len(Source) \in Nat /\ Source \in Seq(Range(Source))
  BY OpeningAssumption, SourceAssumption DEF Placed, Chunk, InSentence, Closing
<1> DEFINE text == ChunkText(c)
<1>2. CASE IsOriginal(c)
  <2> DEFINE a == c.start - Opening
             n == c.end - c.start
  <2>1. a \in Nat /\ n \in Nat /\ a + n <= Len(Source) /\ ChunkLen(c) = n /\ c.end - Opening = a + n
    BY <1>1, <1>2 DEF ChunkLen
  <2>2. text = SubSeq(Source, a + 1, a + n)
    BY <1>2, <2>1 DEF ChunkText, Slice, Span
  <2> HIDE DEF a, n, text
  <2>3. /\ Len(text) = n
        /\ \A k \in 1 .. n : text[k] = Source[a + k] /\ text[k] \in Range(Source)
    <3>1. Len(text) = n /\ \A k \in 1 .. n : text[k] = Source[a + k]
      BY <1>1, <2>1, <2>2
    <3>2. \A k \in 1 .. n : a + k \in DOMAIN Source
      BY <1>1, <2>1
    <3> QED
      BY <3>1, <3>2 DEF Range
  <2>4. CellsOf(c) = [k \in 1 .. n |-> [sym |-> text[k], at |-> a + k - 1]]
    BY <1>2, <2>3 DEF CellsOf, text, a
  <2>5. \A k \in 1 .. n : CellsOf(c)[k] = [sym |-> text[k], at |-> a + k - 1]
    BY <2>4
  <2>6. \A k \in 1 .. n : [sym |-> text[k], at |-> a + k - 1] \in CellSet
    BY <2>1, <2>3 DEF CellSet
  <2>7. CellsOf(c) \in Seq(CellSet) /\ Len(CellsOf(c)) = n
    BY <2>1, <2>4, <2>6
  <2>8. \A k \in 1 .. n : CellsOf(c)[k] = Cell(Source[a + k], a + k - 1)
    BY <2>3, <2>5 DEF Cell
  <2>9. c.end - c.start = n /\ c.start - Opening = a
    BY DEF a, n
  <2> QED
    BY <1>2, <2>1, <2>7, <2>8, <2>9
<1>3. CASE ~IsOriginal(c)
  <2>1. text = c.text /\ ChunkLen(c) = Len(c.text)
    BY <1>3 DEF ChunkText, ChunkLen
  <2>2. c.text \in Seq(Range(c.text)) /\ Len(c.text) \in Nat
    <3>1. <<>> \in Seq(Range(<<>>))
      BY EmptySeq
    <3>2. c.text \in Seq(Range(c.text))
      BY <1>1, <3>1, ReplacementsAssumption
    <3> QED
      BY <3>2, LenProperties
  <2>3. CellsOf(c) = [k \in 1 .. Len(c.text) |-> [sym |-> c.text[k], at |-> -1]]
    BY <1>3, <2>1 DEF CellsOf
  <2>4. CellsOf(c) = ReplacementCells(c.text)
    BY <2>3 DEF ReplacementCells, Cell, NoOffset
  <2>5. \A k \in 1 .. Len(c.text) : [sym |-> c.text[k], at |-> -1] \in CellSet
    <3>1. ASSUME NEW k \in 1 .. Len(c.text) PROVE c.text[k] \in Range(c.text) /\ c.text \in Replacements
      BY <1>1, <2>2 DEF Range
    <3> QED
      BY <3>1 DEF CellSet
  <2>6. CellsOf(c) \in Seq(CellSet) /\ Len(CellsOf(c)) = Len(c.text)
    BY <2>2, <2>3, <2>5
  <2> QED
    BY <1>3, <2>1, <2>4, <2>6
<1> QED
  BY <1>2, <1>3

LEMMA FlatTrace ==
  ASSUME NEW s \in Seq(Placed)
  PROVE  \E g : /\ g[0] = <<>>
                /\ \A k \in 1 .. Len(s) : g[k] = g[k - 1] \o CellsOf(s[k])
                /\ \A k \in 0 .. Len(s) : g[k] \in Seq(CellSet)
                /\ Cells(s) = g[Len(s)]
<1>1. Len(s) \in Nat /\ DOMAIN s = 1 .. Len(s)
  OBVIOUS
<1> DEFINE I == [k \in 0 .. Len(s) |-> Seq(CellSet)]
<1>2. <<>> \in I[0]
  BY <1>1
<1>3. ASSUME NEW k \in 1 .. Len(s), NEW acc \in I[k - 1]
      PROVE  FlattenStep(0, acc, s[k]) \in I[k]
  <2>1. acc \in Seq(CellSet) /\ s[k] \in Placed /\ I[k] = Seq(CellSet)
    BY <1>1
  <2>2. CellsOf(s[k]) \in Seq(CellSet)
    BY <2>1, CellsOfPlaced
  <2>3. acc \o CellsOf(s[k]) \in Seq(CellSet)
    BY <2>1, <2>2, ConcatProperties
  <2> QED
    BY <2>1, <2>3 DEF FlattenStep
<1>4. \A k \in 0 .. Len(s) : I[k] = Seq(CellSet)
  OBVIOUS
<1> HIDE DEF I
<1>5. Flattening!IsPassedOn(0, <<>>, Len(s), s, I)
  BY <1>2, <1>3 DEF Flattening!IsPassedOn
<1>6. PICK g : /\ Flattening!IsTrace(0, <<>>, Len(s), s, g)
               /\ \A k \in 0 .. Len(s) : g[k] \in I[k]
               /\ Flattening!Folded(0, <<>>, s) = g[Len(s)]
  <2> DEFINE n == Len(s)
  <2>1. n \in Nat /\ DOMAIN s = 1 .. n /\ Flattening!IsPassedOn(0, <<>>, n, s, I)
    BY <1>1, <1>5
  <2> HIDE DEF n
  <2>2. Flattening!HasTraceIn(0, <<>>, n, s, I)
    BY <2>1, Flattening!FoldTrace, ChainInducts
  <2> QED
    BY <2>2 DEF n, Flattening!HasTraceIn
<1>7. /\ g[0] = <<>>
      /\ \A k \in 1 .. Len(s) : g[k] = g[k - 1] \o CellsOf(s[k])
  BY <1>6 DEF Flattening!IsTrace, FlattenStep
<1>8. Cells(s) = g[Len(s)]
  BY <1>6, CellsIsAFold
<1>9. \A k \in 0 .. Len(s) : g[k] \in Seq(CellSet)
  BY <1>4, <1>6
<1> QED
  BY <1>7, <1>8, <1>9

LEMMA CellsTyped ==
  ASSUME NEW s \in Seq(Placed)
  PROVE  Cells(s) \in Seq(CellSet)
<1>1. Len(s) \in Nat /\ Len(s) \in 0 .. Len(s)
  BY LenProperties
<1>2. PICK g : (\A k \in 0 .. Len(s) : g[k] \in Seq(CellSet)) /\ Cells(s) = g[Len(s)]
  BY FlatTrace
<1> QED
  BY <1>1, <1>2

(* The cells of a chain put behind another follow its cells. *)
LEMMA CellsConcat ==
  ASSUME NEW s \in Seq(Placed), NEW t \in Seq(Placed)
  PROVE  Cells(s \o t) = Cells(s) \o Cells(t)
<1>1. PICK g : /\ g[0] = <<>>
               /\ \A k \in 1 .. Len(s) : g[k] = g[k - 1] \o CellsOf(s[k])
               /\ \A k \in 0 .. Len(s) : g[k] \in Seq(CellSet)
               /\ Cells(s) = g[Len(s)]
  BY FlatTrace
<1>2. PICK h : /\ h[0] = <<>>
               /\ \A k \in 1 .. Len(t) : h[k] = h[k - 1] \o CellsOf(t[k])
               /\ \A k \in 0 .. Len(t) : h[k] \in Seq(CellSet)
               /\ Cells(t) = h[Len(t)]
  BY FlatTrace
<1> DEFINE m == Len(s)
           n == Len(t)
           G == [k \in 0 .. m + n |-> IF k <= m THEN g[k] ELSE g[m] \o h[k - m]]
           u == s \o t
<1>3. m \in Nat /\ n \in Nat
  OBVIOUS
<1>4. DOMAIN u = 1 .. m + n /\ Len(u) = m + n
      /\ (\A k \in 1 .. m : u[k] = s[k]) /\ (\A k \in 1 .. n : u[m + k] = t[k])
  OBVIOUS
<1> HIDE DEF m, n, u
<1>5. G[0] = <<>>
  BY <1>1, <1>3
<1>6. ASSUME NEW k \in 1 .. m + n PROVE G[k] = FlattenStep(0, G[k - 1], u[k])
  <2>1. CASE k <= m
    <3>1. k \in 1 .. m /\ k - 1 <= m /\ k \in 0 .. m + n /\ k - 1 \in 0 .. m + n
      BY <1>3, <2>1
    <3>2. G[k] = g[k] /\ G[k - 1] = g[k - 1] /\ u[k] = s[k]
      BY <1>4, <2>1, <3>1
    <3> QED
      BY <1>1, <3>1, <3>2 DEF FlattenStep, m
  <2>2. CASE k > m
    <3> DEFINE j == k - m
    <3>1. j \in 1 .. n /\ k = m + j /\ k \in 0 .. m + n /\ k - 1 \in 0 .. m + n /\ j - 1 \in 0 .. n
      BY <1>3, <2>2
    <3>2. u[k] = t[j] /\ G[k] = g[m] \o h[j]
      <4>1. G[k] = IF k <= m THEN g[k] ELSE g[m] \o h[k - m]
        BY <3>1
      <4>2. ~(k <= m)
        BY <1>3, <2>2
      <4>3. u[m + j] = t[j]
        BY <1>4, <3>1
      <4> QED
        BY <3>1, <4>1, <4>2, <4>3
    <3>3. G[k - 1] = g[m] \o h[j - 1]
      <4>1. CASE j = 1
        <5>1. k - 1 = m /\ j - 1 = 0 /\ m <= m
          BY <1>3, <3>1, <4>1
        <5>2. g[m] \in Seq(CellSet)
          BY <1>1, <1>3 DEF m
        <5>3. g[m] \o <<>> = g[m]
          BY <5>2
        <5>4. G[m] = g[m]
          BY <1>3
        <5> QED
          BY <1>2, <5>1, <5>3, <5>4
      <4>2. CASE j # 1
        <5>1. ~(k - 1 <= m) /\ (k - 1) - m = j - 1
          BY <1>3, <3>1, <4>2
        <5>2. G[k - 1] = IF k - 1 <= m THEN g[k - 1] ELSE g[m] \o h[(k - 1) - m]
          BY <3>1
        <5> QED
          BY <5>1, <5>2
      <4> QED
        BY <4>1, <4>2
    <3> HIDE DEF j, G
    <3>4. /\ h[j] = h[j - 1] \o CellsOf(t[j])
          /\ g[m] \in Seq(CellSet) /\ h[j - 1] \in Seq(CellSet) /\ CellsOf(t[j]) \in Seq(CellSet)
      <4>1. t[j] \in Placed
        BY <3>1, ElementOfSeq DEF n
      <4>2. CellsOf(t[j]) \in Seq(CellSet)
        BY <4>1, CellsOfPlaced
      <4>3. m \in 0 .. m
        BY <1>3
      <4>4. g[m] \in Seq(CellSet)
        BY <1>1, <4>3 DEF m
      <4>5. h[j - 1] \in Seq(CellSet) /\ h[j] = h[j - 1] \o CellsOf(t[j])
        BY <1>2, <3>1 DEF n
      <4> QED
        BY <4>2, <4>4, <4>5
    <3>5. g[m] \o (h[j - 1] \o CellsOf(t[j])) = (g[m] \o h[j - 1]) \o CellsOf(t[j])
      <4> DEFINE x == g[m]
                 y == h[j - 1]
                 z == CellsOf(t[j])
      <4>1. x \in Seq(CellSet) /\ y \in Seq(CellSet) /\ z \in Seq(CellSet)
        BY <3>4
      <4> HIDE DEF x, y, z
      <4>2. (x \o y) \o z = x \o (y \o z)
        BY <4>1, ConcatAssociative, SMTT(30)
      <4> QED
        BY <4>2 DEF x, y, z
    <3> QED
      BY <3>2, <3>3, <3>4, <3>5 DEF FlattenStep
  <2> QED
    BY <1>3, <2>1, <2>2
<1>7. G[m + n] = g[m] \o h[n]
  <2>0. G[m + n] = IF m + n <= m THEN g[m + n] ELSE g[m] \o h[(m + n) - m]
    BY <1>3
  <2>1. CASE n = 0
    <3>1. m + n <= m /\ m + n = m /\ m \in 0 .. m
      BY <1>3, <2>1
    <3>2. g[m] \in Seq(CellSet)
      BY <1>1, <3>1 DEF m
    <3>3. g[m] \o <<>> = g[m]
      BY <3>2, ConcatEmptySeq
    <3> QED
      BY <1>2, <2>0, <2>1, <3>1, <3>3
  <2>2. CASE n > 0
    <3>1. ~(m + n <= m) /\ (m + n) - m = n
      BY <1>3, <2>2
    <3>2. h[(m + n) - m] = h[n]
      BY <3>1
    <3> HIDE DEF G
    <3> QED
      BY <2>0, <3>1, <3>2
  <2>3. n = 0 \/ n > 0
    BY <1>3
  <2> HIDE DEF G
  <2> QED
    BY <2>1, <2>2, <2>3
<1>8. m + n \in Nat
  BY <1>3
<1> HIDE DEF G
<1>9. Flattening!IsTrace(0, <<>>, m + n, u, G)
  BY <1>5, <1>6 DEF Flattening!IsTrace
<1>10. Flattening!Folded(0, <<>>, u) = G[m + n]
  BY <1>4, <1>8, <1>9, Flattening!FoldUnique, ChainInducts
<1>11. Cells(u) = G[m + n]
  BY <1>10, CellsIsAFold
<1> QED
  BY <1>1, <1>2, <1>7, <1>11 DEF m, n, u

LEMMA CellsOfOne ==
  ASSUME NEW c \in Placed
  PROVE  Cells(<<c>>) = CellsOf(c) /\ Cells(<<>>) = <<>>
<1>1. <<c>> \in Seq(Placed) /\ Len(<<c>>) = 1 /\ <<c>>[1] = c /\ <<>> \in Seq(Placed) /\ Len(<<>>) = 0
  OBVIOUS
<1>2. Cells(<<>>) = <<>>
  BY <1>1, FlatTrace
<1>3. PICK g : /\ g[0] = <<>>
               /\ \A k \in 1 .. 1 : g[k] = g[k - 1] \o CellsOf(<<c>>[k])
               /\ Cells(<<c>>) = g[1]
  BY <1>1, FlatTrace
<1>4. g[1] = <<>> \o CellsOf(c)
  <2>1. 1 \in 1 .. 1 /\ 1 - 1 = 0
    OBVIOUS
  <2>2. g[1] = g[1 - 1] \o CellsOf(<<c>>[1])
    BY <1>3, <2>1
  <2> QED
    BY <1>1, <1>3, <2>1, <2>2
<1>5. <<>> \o CellsOf(c) = CellsOf(c)
  BY CellsOfPlaced, ConcatEmptySeq
<1> QED
  BY <1>2, <1>3, <1>4, <1>5

(* apply drops an empty piece: it has no cells. *)
LEMMA CellsOfPiece ==
  ASSUME NEW c \in Placed
  PROVE  Piece(c) \in Seq(Placed) /\ Cells(Piece(c)) = CellsOf(c)
<1>1. CASE ChunkLen(c) > 0
  BY <1>1, CellsOfOne DEF Piece
<1>2. CASE ~(ChunkLen(c) > 0)
  <2>1. ChunkLen(c) \in Int /\ ChunkLen(c) >= 0 /\ Len(CellsOf(c)) = ChunkLen(c) /\ CellsOf(c) \in Seq(CellSet)
    BY CellsOfPlaced DEF Placed
  <2>2. CellsOf(c) = <<>>
    BY <1>2, <2>1
  <2>3. Piece(c) = <<>>
    BY <1>2 DEF Piece
  <2>4. <<>> \in Seq(Placed)
    BY EmptySeq
  <2> QED
    BY <2>2, <2>3, <2>4, CellsOfOne
<1> QED
  BY <1>1, <1>2

(* The cursor of a chunk counts the cells before it. *)
LEMMA CursorCounts ==
  ASSUME NEW chain \in Seq(Placed), NEW i \in 1 .. Len(chain)
  PROVE  /\ Ahead(chain, i) \in Seq(Placed)
         /\ Cursor(chain, i) = Len(Cells(Ahead(chain, i)))
<1> DEFINE front == Ahead(chain, i)
<1>1. front \in Seq(Placed) /\ front = SubSeq(chain, 1, i - 1)
  BY DEF Ahead
<1> HIDE DEF front
<1>2. PICK g : /\ g[0] = <<>>
               /\ \A k \in 1 .. Len(front) : g[k] = g[k - 1] \o CellsOf(front[k])
               /\ \A k \in 0 .. Len(front) : g[k] \in Seq(CellSet)
               /\ Cells(front) = g[Len(front)]
  BY <1>1, FlatTrace
<1> DEFINE n == Len(front)
           L == [k \in 0 .. n |-> Len(g[k])]
<1>3. n \in Nat /\ DOMAIN front = 1 .. n
  BY <1>1
<1>4. L[0] = 0
  BY <1>2, <1>3
<1>5. ASSUME NEW k \in 1 .. n PROVE L[k] = MeasureStep(0, L[k - 1], front[k])
  <2>1. front[k] \in Placed /\ k \in 0 .. n /\ k - 1 \in 0 .. n
    BY <1>1, <1>3
  <2>2. CellsOf(front[k]) \in Seq(CellSet) /\ Len(CellsOf(front[k])) = ChunkLen(front[k])
    BY <2>1, CellsOfPlaced
  <2>3. g[k - 1] \in Seq(CellSet) /\ g[k] = g[k - 1] \o CellsOf(front[k])
    BY <1>2, <2>1
  <2>4. Len(g[k]) = Len(g[k - 1]) + Len(CellsOf(front[k]))
    BY <2>2, <2>3, ConcatProperties
  <2> QED
    BY <2>1, <2>2, <2>4 DEF MeasureStep
<1>6. L[n] = Len(Cells(front))
  BY <1>2, <1>3
<1> HIDE DEF n, L
<1>7. Measuring!IsTrace(0, 0, n, front, L)
  BY <1>4, <1>5 DEF Measuring!IsTrace
<1>8. Measuring!Folded(0, 0, front) = L[n]
  BY <1>3, <1>7, Measuring!FoldUnique, ChainInducts
<1> QED
  BY <1>1, <1>6, <1>8, CursorIsAFold DEF front

(***************************************************************************)
(* An accepted edit is a replacement in the working text.                  *)
(***************************************************************************)
(* What the cells of the three parts of a chain say of the whole. *)
LEMMA CellsAround ==
  ASSUME NEW chain \in Seq(Placed), NEW i \in 1 .. Len(chain)
  PROVE  /\ Behind(chain, i) \in Seq(Placed)
         /\ Cells(chain) = (Cells(Ahead(chain, i)) \o CellsOf(chain[i])) \o Cells(Behind(chain, i))
<1> DEFINE front == Ahead(chain, i)
           back == Behind(chain, i)
           c == chain[i]
<1>1. front \in Seq(Placed) /\ Len(front) = i - 1 /\ \A k \in 1 .. i - 1 : front[k] = chain[k]
  BY SubSeqProperties DEF Ahead
<1>2. /\ back \in Seq(Placed) /\ Len(back) = Len(chain) - i
      /\ \A k \in 1 .. Len(chain) - i : back[k] = chain[i + k]
  BY DEF Behind
<1>3. c \in Placed /\ i \in Nat /\ Len(chain) \in Nat /\ 1 <= i /\ i <= Len(chain)
  OBVIOUS
<1> HIDE DEF front, back
<1> DEFINE head == front \o <<c>>
<1>4. /\ head \in Seq(Placed) /\ Len(head) = i
      /\ \A k \in 1 .. i : head[k] = chain[k]
  <2>1. <<c>> \in Seq(Placed) /\ Len(<<c>>) = 1 /\ <<c>>[1] = c
    BY <1>3
  <2>2. /\ head \in Seq(Placed) /\ Len(head) = (i - 1) + 1
        /\ \A k \in 1 .. (i - 1) + 1 :
             head[k] = IF k <= i - 1 THEN front[k] ELSE <<c>>[k - (i - 1)]
    BY <1>1, <1>3, <2>1, ConcatProperties
  <2>3. ASSUME NEW k \in 1 .. i PROVE head[k] = chain[k]
    <3>1. k \in 1 .. (i - 1) + 1
      BY <1>3
    <3>2. CASE k <= i - 1
      BY <1>1, <2>2, <3>1, <3>2
    <3>3. CASE k = i
      <4>1. k - (i - 1) = 1 /\ ~(k <= i - 1)
        BY <1>3, <3>3
      <4> QED
        BY <2>1, <2>2, <3>1, <3>3, <4>1
    <3>4. k <= i - 1 \/ k = i
      BY <1>3
    <3> HIDE DEF head
    <3> QED
      BY <3>2, <3>3, <3>4
  <2>4. (i - 1) + 1 = i
    BY <1>3
  <2> HIDE DEF head
  <2> QED
    BY <2>2, <2>3, <2>4
<1>5. chain = head \o back
  <2> HIDE DEF head
  <2>1. /\ head \o back \in Seq(Placed) /\ Len(head \o back) = i + (Len(chain) - i)
        /\ \A k \in 1 .. i + (Len(chain) - i) :
             (head \o back)[k] = IF k <= i THEN head[k] ELSE back[k - i]
    <3>1. /\ head \o back \in Seq(Placed) /\ Len(head \o back) = Len(head) + Len(back)
          /\ \A k \in 1 .. Len(head) + Len(back) :
               (head \o back)[k] = IF k <= Len(head) THEN head[k] ELSE back[k - Len(head)]
      BY <1>2, <1>4, ConcatProperties
    <3>2. Len(head) = i /\ Len(back) = Len(chain) - i
      BY <1>2, <1>4
    <3> QED
      BY <3>1, <3>2
  <2>2. i + (Len(chain) - i) = Len(chain)
    BY <1>3
  <2>3. ASSUME NEW k \in 1 .. Len(chain) PROVE (head \o back)[k] = chain[k]
    <3>1. CASE k <= i
      BY <1>3, <1>4, <2>1, <2>2, <3>1
    <3>2. CASE k > i
      <4>1. k - i \in 1 .. Len(chain) - i /\ i + (k - i) = k /\ ~(k <= i)
        BY <1>3, <3>2
      <4>2. back[k - i] = chain[k]
        BY <1>2, <4>1
      <4> QED
        BY <2>1, <2>2, <4>1, <4>2
    <3>3. k <= i \/ k > i
      BY <1>3
    <3> QED
      BY <3>1, <3>2, <3>3
  <2> QED
    BY <2>1, <2>2, <2>3, SeqEqual
<1>6. Cells(head) = Cells(front) \o CellsOf(c)
  <2>1. <<c>> \in Seq(Placed)
    BY <1>3
  <2> QED
    BY <1>1, <1>3, <2>1, CellsConcat, CellsOfOne
<1> HIDE DEF head
<1> QED
  BY <1>2, <1>4, <1>5, <1>6, CellsConcat DEF front, back

(* A chunk sound for the invariant is placed. *)
LEMMA SoundIsPlaced == IInv => chunks \in Seq(Placed)
<1> SUFFICES ASSUME IInv PROVE chunks \in Seq(Placed)
  OBVIOUS
<1>1. chunks \in Seq(SoundChunk(patches))
  BY DEF IInv
<1>2. ASSUME NEW c \in SoundChunk(patches) PROVE c \in Placed
  <2>1. c \in Chunk /\ ChunkLen(c) > 0 /\ InSentence(c)
    BY DEF SoundChunk
  <2>2. ChunkLen(c) \in Int
    <3>1. c.start \in Int /\ c.end \in Int /\ c.text \in Replacements \cup {<<>>}
      BY <2>1 DEF Chunk
    <3>2. Len(c.text) \in Nat
      <4>1. <<>> \in Seq(Range(<<>>))
        BY EmptySeq
      <4>2. c.text \in Seq(Range(c.text))
        BY <3>1, <4>1, ReplacementsAssumption
      <4> QED
        BY <4>2, LenProperties
    <3> QED
      BY <3>1, <3>2 DEF ChunkLen
  <2> QED
    BY <2>1, <2>2 DEF Placed
<1> QED
  BY <1>1, <1>2, SeqMonotonic

(* Concatenation as an operator the provers leave as it is. *)
Join(s, t) == s \o t

(* A span x .. y of the middle part C of a text leaves P before and Q after it ... *)
Leaves(S, F, C, x, y, P, Q) ==
  /\ F \in Seq(S) /\ C \in Seq(S) /\ P \in Seq(S) /\ Q \in Seq(S)
  /\ x \in Nat /\ y \in Nat /\ Len(F) <= x /\ x <= y /\ y <= Len(F) + Len(C)
  /\ Len(P) = x - Len(F) /\ \A k \in 1 .. x - Len(F) : P[k] = C[k]
  /\ Len(Q) = Len(F) + Len(C) - y
  /\ \A k \in 1 .. Len(F) + Len(C) - y : Q[k] = C[(y - Len(F)) + k]

(* ... and the two ends of the whole text are those of the parts around it. *)
(* Concatenation is associative, through the operator the lemmas above keep closed. *)
LEMMA JoinAssociates ==
  ASSUME NEW S, NEW s1 \in Seq(S), NEW s2 \in Seq(S), NEW s3 \in Seq(S)
  PROVE  Join(s1, s2) \in Seq(S) /\ Join(Join(s1, s2), s3) = Join(s1, Join(s2, s3))
<1>1. s1 \o s2 \in Seq(S)
  BY ConcatProperties
<1>2. (s1 \o s2) \o s3 = s1 \o (s2 \o s3)
  BY ConcatAssociative
<1> QED
  BY <1>1, <1>2 DEF Join

LEMMA EndsOfText ==
  ASSUME NEW S, NEW F, NEW C, NEW x, NEW y, NEW P, NEW Q, Leaves(S, F, C, x, y, P, Q),
         NEW B \in Seq(S)
  PROVE  LET w == Join(Join(F, C), B)
         IN  /\ w \in Seq(S) /\ Len(w) = Len(F) + Len(C) + Len(B)
             /\ \A k \in 1 .. Len(C) : w[Len(F) + k] = C[k]
             /\ SubSeq(w, 1, x) = Join(F, P)
             /\ SubSeq(w, y + 1, Len(w)) = Join(Q, B)
<1> DEFINE f == Len(F)
           m == Len(C)
           b == Len(B)
           u == F \o C
           w == u \o B
<1>00. /\ F \in Seq(S) /\ C \in Seq(S) /\ P \in Seq(S) /\ Q \in Seq(S)
       /\ x \in Nat /\ y \in Nat /\ f <= x /\ x <= y /\ y <= f + m
       /\ Len(P) = x - f /\ Len(Q) = f + m - y
       /\ (\A k \in 1 .. x - f : P[k] = C[k])
       /\ \A k \in 1 .. f + m - y : Q[k] = C[(y - f) + k]
  BY DEF Leaves
<1>0. f \in Nat /\ m \in Nat /\ b \in Nat
  BY <1>00, LenProperties
<1>1. /\ f \in Nat /\ m \in Nat /\ b \in Nat /\ x \in Nat /\ y \in Nat
      /\ f <= x /\ x <= y /\ y <= f + m
  BY <1>00, <1>0
<1>2. u \in Seq(S) /\ Len(u) = f + m
      /\ \A k \in 1 .. f + m : u[k] = IF k <= f THEN F[k] ELSE C[k - f]
  BY <1>00, ConcatProperties
<1>3. Len(P) = x - f /\ Len(Q) = f + m - y
      /\ (\A k \in 1 .. x - f : P[k] = C[k]) /\ \A k \in 1 .. f + m - y : Q[k] = C[(y - f) + k]
  BY <1>00
<1> HIDE DEF u
<1>4. w \in Seq(S) /\ Len(w) = (f + m) + b
      /\ \A k \in 1 .. (f + m) + b : w[k] = IF k <= f + m THEN u[k] ELSE B[k - (f + m)]
  <2>1. w \in Seq(S) /\ Len(w) = Len(u) + b
        /\ \A k \in 1 .. Len(u) + b : w[k] = IF k <= Len(u) THEN u[k] ELSE B[k - Len(u)]
    <3>1. u \in Seq(S) /\ B \in Seq(S)
      BY <1>2
    <3> QED
      BY ONLY <3>1, ConcatProperties
  <2>2. Len(u) = f + m
    BY <1>2
  <2> HIDE DEF w, f, m, b
  <2> QED
    BY <2>1, <2>2
<1>5. /\ F \o P \in Seq(S) /\ Len(F \o P) = f + (x - f)
      /\ \A k \in 1 .. f + (x - f) : (F \o P)[k] = IF k <= f THEN F[k] ELSE P[k - f]
  <2>1. /\ F \o P \in Seq(S) /\ Len(F \o P) = f + Len(P)
        /\ \A k \in 1 .. f + Len(P) : (F \o P)[k] = IF k <= f THEN F[k] ELSE P[k - f]
    BY <1>00, ConcatProperties
  <2> QED
    BY <1>3, <2>1
<1>6. /\ Q \o B \in Seq(S) /\ Len(Q \o B) = (f + m - y) + b
      /\ \A k \in 1 .. (f + m - y) + b :
           (Q \o B)[k] = IF k <= f + m - y THEN Q[k] ELSE B[k - (f + m - y)]
  <2>1. /\ Q \o B \in Seq(S) /\ Len(Q \o B) = Len(Q) + b
        /\ \A k \in 1 .. Len(Q) + b : (Q \o B)[k] = IF k <= Len(Q) THEN Q[k] ELSE B[k - Len(Q)]
    BY <1>00, ConcatProperties
  <2> QED
    BY <1>3, <2>1
<1>7. \A k \in 1 .. (f + m) + b : w[k] \in S
  BY <1>4, ElementOfSeq
<1> DEFINE left == F \o P
           right == Q \o B
<1> HIDE DEF f, m, b, w, left, right
<1>8. SubSeq(w, 1, x) = left
  <2>1. SubSeq(w, 1, x) \in Seq(S) /\ Len(SubSeq(w, 1, x)) = x
        /\ \A k \in 1 .. x : SubSeq(w, 1, x)[k] = w[k]
    <3>1. \A k \in 1 .. x : w[k] \in S
      <4>1. \A k \in 1 .. x : k \in 1 .. (f + m) + b
        BY <1>1
      <4> QED
        BY <1>7, <4>1
    <3> DEFINE v == SubSeq(w, 1, x)
    <3> HIDE DEF v
    <3>2. /\ v \in Seq(S)
          /\ Len(v) = IF 1 <= x THEN x - 1 + 1 ELSE 0
          /\ \A k \in 1 .. x - 1 + 1 : v[k] = w[1 + k - 1]
      BY <1>1, <3>1, SubSeqProperties DEF v
    <3>3. /\ x - 1 + 1 = x /\ (~(1 <= x) => x = 0)
          /\ \A k \in 1 .. x : k \in 1 .. x - 1 + 1 /\ 1 + k - 1 = k
      BY <1>1
    <3>4. Len(v) = x
      BY <3>2, <3>3
    <3>5. \A k \in 1 .. x : v[k] = w[k]
      BY <3>2, <3>3
    <3> QED
      BY <3>2, <3>4, <3>5 DEF v
  <2>2. left \in Seq(S) /\ Len(left) = x
    BY <1>1, <1>3, <1>5 DEF left
  <2>3. ASSUME NEW k \in 1 .. x PROVE left[k] = w[k]
    <3>1. /\ k \in 1 .. f + (x - f) /\ k \in 1 .. (f + m) + b /\ k \in 1 .. f + m /\ k <= f + m
      BY <1>1, <1>3
    <3>2. w[k] = IF k <= f THEN F[k] ELSE C[k - f]
      BY <1>2, <1>4, <3>1
    <3>3. left[k] = IF k <= f THEN F[k] ELSE P[k - f]
      BY <1>5, <3>1 DEF left
    <3>4. CASE k <= f
      BY <3>2, <3>3, <3>4
    <3>5. CASE k > f
      <4>1. k - f \in 1 .. x - f /\ ~(k <= f)
        BY <1>1, <3>5
      <4> QED
        BY <1>3, <3>2, <3>3, <4>1
    <3>6. k <= f \/ k > f
      BY <1>1
    <3> QED
      BY <3>4, <3>5, <3>6
  <2> QED
    BY <2>1, <2>2, <2>3, SeqEqual
<1>9. SubSeq(w, y + 1, (f + m) + b) = right
  <2> DEFINE n == (f + m - y) + b
             v == SubSeq(w, y + 1, (f + m) + b)
  <2>1. v \in Seq(S) /\ Len(v) = n /\ \A k \in 1 .. n : v[k] = w[y + k]
    <3>1. \A k \in y + 1 .. (f + m) + b : w[k] \in S
      <4>1. \A k \in y + 1 .. (f + m) + b : k \in 1 .. (f + m) + b
        BY <1>1
      <4> QED
        BY <1>7, <4>1
    <3> DEFINE first == y + 1
               last == (f + m) + b
    <3>2. /\ last \in Int /\ first \in Int /\ v = SubSeq(w, first, last)
          /\ \A k \in first .. last : w[k] \in S
      BY <1>1, <3>1
    <3>3. /\ last - first + 1 = n
          /\ ~(first <= last) => n = 0
          /\ \A k \in 1 .. n : first + k - 1 = y + k
      BY <1>1
    <3> HIDE DEF first, last, v, n
    <3>4. /\ v \in Seq(S)
          /\ Len(v) = IF first <= last THEN last - first + 1 ELSE 0
          /\ \A k \in 1 .. last - first + 1 : v[k] = w[first + k - 1]
      BY <3>2, SubSeqProperties
    <3>5. Len(v) = n
      BY <3>3, <3>4
    <3> QED
      BY <3>3, <3>4, <3>5
  <2>2. right \in Seq(S) /\ Len(right) = n
    BY <1>6 DEF right
  <2>3. ASSUME NEW k \in 1 .. n PROVE right[k] = w[y + k]
    <3>1. y + k \in 1 .. (f + m) + b
      BY <1>1
    <3>2. right[k] = IF k <= f + m - y THEN Q[k] ELSE B[k - (f + m - y)]
      BY <1>6 DEF right
    <3>3. w[y + k] = IF y + k <= f + m THEN u[y + k] ELSE B[(y + k) - (f + m)]
      BY <1>4, <3>1
    <3>4. CASE k <= f + m - y
      <4>1. /\ y + k \in 1 .. f + m /\ y + k <= f + m /\ ~(y + k <= f)
            /\ (y + k) - f = (y - f) + k /\ k \in 1 .. f + m - y
        BY <1>1, <3>4
      <4>2. u[y + k] = C[(y - f) + k]
        BY <1>2, <4>1
      <4>3. right[k] = Q[k] /\ w[y + k] = u[y + k]
        BY <3>2, <3>3, <3>4, <4>1
      <4> QED
        BY <1>3, <4>1, <4>2, <4>3
    <3>5. CASE k > f + m - y
      <4>1. ~(k <= f + m - y) /\ ~(y + k <= f + m) /\ (y + k) - (f + m) = k - (f + m - y)
        BY <1>1, <3>5
      <4> QED
        BY <3>2, <3>3, <4>1
    <3>6. k <= f + m - y \/ k > f + m - y
      BY <1>1
    <3> QED
      BY <3>4, <3>5, <3>6
  <2> HIDE DEF v, n
  <2> QED
    BY <2>1, <2>2, <2>3, SeqEqual DEF v
<1>10. ASSUME NEW k \in 1 .. m PROVE w[f + k] = C[k]
  <2>1. /\ f + k \in 1 .. (f + m) + b /\ f + k \in 1 .. f + m /\ f + k <= f + m
        /\ ~(f + k <= f) /\ (f + k) - f = k
    BY <1>1
  <2> QED
    BY <1>2, <1>4, <2>1
<1> QED
  BY <1>4, <1>8, <1>9, <1>10 DEF f, m, b, w, u, left, right, Join

LEMMA FiveParts ==
  ASSUME NEW S, NEW f \in Seq(S), NEW p \in Seq(S), NEW t \in Seq(S), NEW q \in Seq(S), NEW b \in Seq(S)
  PROVE  Join(Join(f, Join(Join(p, t), q)), b) = Join(Join(Join(f, p), t), Join(q, b))
<1>2. Join(p, t) \in Seq(S) /\ Join(f, p) \in Seq(S) /\ Join(Join(f, p), t) \in Seq(S)
  BY JoinAssociates
<1>3. /\ Join(Join(f, Join(Join(p, t), q)), b) = Join(f, Join(Join(Join(p, t), q), b))
      /\ Join(Join(Join(p, t), q), b) = Join(Join(p, t), Join(q, b))
      /\ Join(f, Join(Join(p, t), Join(q, b))) = Join(Join(f, Join(p, t)), Join(q, b))
      /\ Join(f, Join(p, t)) = Join(Join(f, p), t)
  <2>1. Join(Join(p, t), q) \in Seq(S) /\ Join(q, b) \in Seq(S)
    BY <1>2, JoinAssociates
  <2> QED
    BY <1>2, <2>1, JoinAssociates
<1> QED
  BY <1>3

(* What replaces the chunk an edit stops at, in cells. *)
LEMMA CellsOfPieces ==
  ASSUME NEW c \in Placed, IsOriginal(c), NEW target \in [start : Int, end : Int],
         c.start <= target.start, target.start < target.end, target.end <= c.end,
         NEW text \in Replacements
  PROVE  LET before == Original(c.start, target.start)
             after == Original(target.end, c.end)
         IN  /\ before \in Placed /\ after \in Placed
             /\ IsOriginal(before) /\ IsOriginal(after)
             /\ ReplacementCells(text) \in Seq(CellSet)
             /\ Pieces(c, target, text) \in Seq(Placed)
             /\ Cells(Pieces(c, target, text)) =
                  (CellsOf(before) \o ReplacementCells(text)) \o CellsOf(after)
<1> DEFINE before == Original(c.start, target.start)
           middle == Replaced(text)
           after == Original(target.end, c.end)
<1>1. c.start \in Int /\ c.end \in Int /\ Opening <= c.start /\ c.end <= Closing
  BY DEF Placed, Chunk, InSentence
<1>2. Opening \in Int /\ Closing \in Int
  BY OpeningAssumption, SourceAssumption, LenProperties DEF Closing
<1>3. before \in Placed /\ IsOriginal(before)
  BY <1>1, <1>2 DEF Original, Placed, Chunk, ChunkLen, InSentence, IsOriginal
<1>4. after \in Placed /\ IsOriginal(after)
  BY <1>1, <1>2 DEF Original, Placed, Chunk, ChunkLen, InSentence, IsOriginal
<1>5. middle \in Placed /\ ~IsOriginal(middle) /\ middle.text = text
  <2>1. Len(text) \in Nat
    BY ReplacementsAssumption, LenProperties
  <2> QED
    BY <2>1 DEF Replaced, Placed, Chunk, ChunkLen, InSentence, IsOriginal
<1> HIDE DEF before, middle, after
<1>6. CellsOf(middle) = ReplacementCells(text) /\ ReplacementCells(text) \in Seq(CellSet)
  BY <1>5, CellsOfPlaced
<1>7. /\ Piece(before) \in Seq(Placed) /\ Cells(Piece(before)) = CellsOf(before)
      /\ Piece(middle) \in Seq(Placed) /\ Cells(Piece(middle)) = CellsOf(middle)
      /\ Piece(after) \in Seq(Placed) /\ Cells(Piece(after)) = CellsOf(after)
  BY <1>3, <1>4, <1>5, CellsOfPiece
<1>8. /\ Piece(before) \o Piece(middle) \in Seq(Placed)
      /\ Cells(Piece(before) \o Piece(middle)) = CellsOf(before) \o ReplacementCells(text)
  BY <1>6, <1>7, CellsConcat, ConcatProperties
<1>9. /\ (Piece(before) \o Piece(middle)) \o Piece(after) \in Seq(Placed)
      /\ Cells((Piece(before) \o Piece(middle)) \o Piece(after)) =
           (CellsOf(before) \o ReplacementCells(text)) \o CellsOf(after)
  BY <1>7, <1>8, CellsConcat, ConcatProperties
<1>10. Pieces(c, target, text) = (Piece(before) \o Piece(middle)) \o Piece(after)
  BY DEF Pieces, before, middle, after
<1> QED
  BY <1>3, <1>4, <1>6, <1>9, <1>10 DEF before, after

LEMMA EditReplaces ==
  ASSUME IInv, NEW r \in [start : Nat, end : Nat], r.start < r.end,
         NEW text \in Replacements, Edit(r, text)
  PROVE  /\ r.end <= Len(Cells(chunks))
         /\ Abstract!Replace(r, text)
<1>1. PICK i \in DOMAIN chunks :
        /\ CanApplyAt(chunks, i, r)
        /\ LET after == ApplyAt([chunks |-> chunks, patches |-> patches], i, r, text)
           IN  chunks' = after.chunks /\ patches' = after.patches
  BY DEF Edit
<1> DEFINE c == chunks[i]
           cursor == Cursor(chunks, i)
           target == Target(chunks, i, r)
           p == Patch(target.start, target.end, text, 0)
           F == Cells(Ahead(chunks, i))
           C == CellsOf(c)
           B == Cells(Behind(chunks, i))
           w == Cells(chunks)
           x == r.start
           y == r.end
           a == c.start - Opening
           m == c.end - c.start
<1>2. chunks \in Seq(Placed) /\ patches \in Seq(SoundPatch) /\ i \in 1 .. Len(chunks)
  BY SoundIsPlaced, LenProperties DEF IInv
<1>3. /\ cursor <= x /\ y <= cursor + ChunkLen(c) /\ IsOriginal(c) /\ cursor \in Nat
      /\ c \in Placed
  BY <1>1, <1>2, ElementOfSeq DEF CanApplyAt, StopsAt, Holds
<1>4. /\ chunks' = (Ahead(chunks, i) \o Pieces(c, target, text)) \o Behind(chunks, i)
      /\ patches' = Append(patches, p)
  BY <1>1 DEF ApplyAt, Reshaped, Ahead, Behind
<1>5. /\ x \in Nat /\ y \in Nat /\ x < y /\ a \in Nat /\ m \in Nat /\ ChunkLen(c) = m
      /\ c.start \in Int /\ c.end \in Int /\ Opening \in Nat
  <2>1. c.start \in Int /\ c.end \in Int /\ ChunkLen(c) >= 0 /\ Opening <= c.start
    BY <1>3 DEF Placed, Chunk, InSentence
  <2> QED
    BY <1>3, <2>1, OpeningAssumption DEF ChunkLen
<1>6. /\ Ahead(chunks, i) \in Seq(Placed) /\ cursor = Len(F)
      /\ Behind(chunks, i) \in Seq(Placed)
      /\ w = Join(Join(F, C), B)
  BY <1>2, CursorCounts, CellsAround DEF Join
<1>7. F \in Seq(CellSet) /\ B \in Seq(CellSet)
  BY <1>6, CellsTyped
<1>8. /\ C \in Seq(CellSet) /\ Len(C) = m
      /\ \A k \in 1 .. m : C[k] = Cell(Source[a + k], a + k - 1)
  BY <1>3, <1>5, CellsOfPlaced
<1>9. target = Span(c.start + (x - cursor), c.start + (y - cursor))
  BY DEF Target
<1>10. /\ target \in [start : Int, end : Int]
       /\ target.start = c.start + (x - cursor) /\ target.end = c.start + (y - cursor)
  <2>1. c.start + (x - cursor) \in Int /\ c.start + (y - cursor) \in Int
    BY <1>3, <1>5
  <2> HIDE DEF target, x, y, c, cursor
  <2> QED
    BY <1>9, <2>1 DEF Span
<1> HIDE DEF x, y, w, F, B, cursor, target
<1>11. /\ c.start <= target.start /\ target.start < target.end /\ target.end <= c.end
       /\ target.start - c.start = x - cursor /\ c.end - target.end = cursor + m - y
       /\ target.end - Opening = a + (y - cursor)
  BY <1>3, <1>5, <1>10
<1> DEFINE before == Original(c.start, target.start)
           after == Original(target.end, c.end)
           P == CellsOf(before)
           Q == CellsOf(after)
           R == ReplacementCells(text)
<1>12. /\ before \in Placed /\ after \in Placed /\ IsOriginal(before) /\ IsOriginal(after)
       /\ R \in Seq(CellSet)
       /\ Pieces(c, target, text) \in Seq(Placed)
       /\ Cells(Pieces(c, target, text)) = Join(Join(P, R), Q)
  BY <1>3, <1>10, <1>11, CellsOfPieces DEF Join
<1>13. /\ before.start = c.start /\ before.end = target.start
       /\ after.start = target.end /\ after.end = c.end
  BY DEF Original
<1> HIDE DEF before, after, c, a, m, C
<1>14. /\ P \in Seq(CellSet) /\ Len(P) = x - cursor
       /\ \A k \in 1 .. x - cursor : P[k] = C[k]
  <2>1. /\ P \in Seq(CellSet) /\ Len(P) = x - cursor
        /\ \A k \in 1 .. x - cursor : P[k] = Cell(Source[a + k], a + k - 1)
    <3>1. ChunkLen(before) = x - cursor /\ before.end - before.start = x - cursor
      BY <1>11, <1>12, <1>13 DEF ChunkLen
    <3>2. before.start - Opening = a
      BY <1>13 DEF a
    <3> QED
      BY <1>12, <3>1, <3>2, CellsOfPlaced
  <2>2. \A k \in 1 .. x - cursor : k \in 1 .. m
    BY <1>3, <1>5
  <2> QED
    BY <1>8, <2>1, <2>2
<1>15. /\ Q \in Seq(CellSet) /\ Len(Q) = cursor + m - y
       /\ \A k \in 1 .. cursor + m - y : Q[k] = C[(y - cursor) + k]
  <2>1. /\ Q \in Seq(CellSet) /\ Len(Q) = cursor + m - y
        /\ \A k \in 1 .. cursor + m - y :
             Q[k] = Cell(Source[a + (y - cursor) + k], a + (y - cursor) + k - 1)
    <3>1. ChunkLen(after) = cursor + m - y /\ after.end - after.start = cursor + m - y
      BY <1>11, <1>12, <1>13 DEF ChunkLen
    <3>2. after.start - Opening = a + (y - cursor)
      BY <1>11, <1>13
    <3> QED
      BY <1>12, <3>1, <3>2, CellsOfPlaced
  <2>2. ASSUME NEW k \in 1 .. cursor + m - y PROVE Q[k] = C[(y - cursor) + k]
    <3>1. /\ (y - cursor) + k \in 1 .. m /\ a + ((y - cursor) + k) = a + (y - cursor) + k
          /\ a + ((y - cursor) + k) - 1 = a + (y - cursor) + k - 1
      BY <1>3, <1>5
    <3>2. C[(y - cursor) + k] = Cell(Source[a + ((y - cursor) + k)], a + ((y - cursor) + k) - 1)
      BY <1>8, <3>1
    <3> QED
      BY <2>1, <3>1, <3>2
  <2> QED
    BY <2>1, <2>2
<1>16. /\ w \in Seq(CellSet) /\ Len(w) = cursor + m + Len(B)
       /\ \A k \in 1 .. m : w[cursor + k] = C[k]
       /\ SubSeq(w, 1, x) = Join(F, P)
       /\ SubSeq(w, y + 1, Len(w)) = Join(Q, B)
  <2>1. /\ cursor = Len(F) /\ m = Len(C)
        /\ cursor <= x /\ x <= y /\ y <= cursor + m /\ x \in Nat /\ y \in Nat
    BY <1>3, <1>5, <1>6, <1>8
  <2> HIDE DEF P, Q, R
  <2>2. Leaves(CellSet, F, C, x, y, P, Q)
    BY <1>7, <1>8, <1>14, <1>15, <2>1 DEF Leaves
  <2>3. LET v == Join(Join(F, C), B)
        IN  /\ v \in Seq(CellSet) /\ Len(v) = Len(F) + Len(C) + Len(B)
            /\ \A k \in 1 .. Len(C) : v[Len(F) + k] = C[k]
            /\ SubSeq(v, 1, x) = Join(F, P)
            /\ SubSeq(v, y + 1, Len(v)) = Join(Q, B)
    <3>1. B \in Seq(CellSet)
      BY <1>7
    <3> HIDE DEF F, C, B
    <3> QED
      BY <2>2, <3>1, EndsOfText, SMTT(30)
  <2> QED
    BY <1>6, <2>1, <2>3
<1>17. Len(B) \in Nat
  BY <1>7, LenProperties
<1>18. y <= Len(w)
  BY <1>3, <1>5, <1>16, <1>17
<1>19. ASSUME NEW k \in x + 1 .. y PROVE w[k].at = a + (k - cursor) - 1
  <2>1. k - cursor \in 1 .. m /\ cursor + (k - cursor) = k
    BY <1>3, <1>5
  <2>2. w[k] = Cell(Source[a + (k - cursor)], a + (k - cursor) - 1)
    BY <1>8, <1>16, <2>1
  <2> QED
    BY <2>2 DEF Cell
<1>20. w[x + 1].at = a + (x - cursor) /\ w[y].at = a + (y - cursor) - 1
  <2>1. x + 1 \in x + 1 .. y /\ y \in x + 1 .. y /\ a + ((x + 1) - cursor) - 1 = a + (x - cursor)
    BY <1>3, <1>5
  <2> QED
    BY <1>19, <2>1
<1>21. Abstract!CanEdit(w, r)
  <2>1. w[x + 1].at # -1
    BY <1>3, <1>5, <1>20
  <2>2. ASSUME NEW k \in x + 1 .. y PROVE w[k].at = w[x + 1].at + (k - x - 1)
    BY <1>3, <1>5, <1>19, <1>20
  <2> QED
    BY <1>5, <1>18, <2>1, <2>2 DEF Abstract!CanEdit, Abstract!NoOffset, x, y
<1>22. Cells(chunks') = Abstract!Edited(w, r, text)
  <2>1. Cells(chunks') = Join(Join(F, Join(Join(P, R), Q)), B)
    <3> DEFINE pieces == Pieces(c, target, text)
               front == Ahead(chunks, i)
               back == Behind(chunks, i)
    <3>1. pieces \in Seq(Placed) /\ Cells(pieces) = Join(Join(P, R), Q)
      BY <1>12
    <3>2. chunks' = (front \o pieces) \o back /\ front \in Seq(Placed) /\ back \in Seq(Placed)
      BY <1>4, <1>6
    <3>3. F = Cells(front) /\ B = Cells(back)
      BY DEF F, B
    <3> HIDE DEF pieces, front, back, P, Q, R
    <3>4. front \o pieces \in Seq(Placed) /\ Cells(front \o pieces) = Cells(front) \o Cells(pieces)
      BY <3>1, <3>2, CellsConcat, ConcatProperties
    <3>5. Cells((front \o pieces) \o back) = Cells(front \o pieces) \o Cells(back)
      BY <3>2, <3>4, CellsConcat
    <3>6. Cells(front \o pieces) = Join(F, Cells(pieces))
      BY <3>3, <3>4 DEF Join
    <3>7. Cells((front \o pieces) \o back) = Join(Cells(front \o pieces), B)
      BY <3>3, <3>5 DEF Join
    <3> QED
      BY <3>1, <3>2, <3>6, <3>7
  <2>2. Join(Join(F, Join(Join(P, R), Q)), B) = Join(Join(Join(F, P), R), Join(Q, B))
    <3>1. F \in Seq(CellSet) /\ P \in Seq(CellSet) /\ R \in Seq(CellSet) /\ Q \in Seq(CellSet) /\ B \in Seq(CellSet)
      BY <1>7, <1>12, <1>14, <1>15
    <3> HIDE DEF P, Q, R
    <3> QED
      BY <3>1, FiveParts
  <2>3. Abstract!Edited(w, r, text) = Join(Join(SubSeq(w, 1, x), R), SubSeq(w, y + 1, Len(w)))
    BY DEF Join, Abstract!Edited, Abstract!ReplacementCells, Abstract!Cell, Abstract!NoOffset,
           ReplacementCells, Cell, NoOffset, x, y
  <2> QED
    BY <1>16, <2>1, <2>2, <2>3
<1>23. /\ {Removal(patches[k]) : k \in DOMAIN patches}' =
            {Removal(patches[k]) : k \in DOMAIN patches} \cup {Removal(p)}
       /\ Removal(p) = [start |-> Abstract!RemovedSpan(w, r).start,
                        end |-> Abstract!RemovedSpan(w, r).end, text |-> text]
  <2>1. /\ DOMAIN patches' = DOMAIN patches \cup {Len(patches) + 1}
        /\ \A k \in DOMAIN patches : patches'[k] = patches[k]
        /\ patches'[Len(patches) + 1] = p
    <3>1. p \in {p} \cup SoundPatch /\ patches \in Seq({p} \cup SoundPatch)
      BY <1>2, SeqMonotonic
    <3> HIDE DEF p
    <3> QED
      BY <1>4, <3>1, AppendFacts
  <2>2. {Removal(patches[k]) : k \in DOMAIN patches}' =
            {Removal(patches[k]) : k \in DOMAIN patches} \cup {Removal(p)}
    <3> HIDE DEF p
    <3>1. {Removal(patches[k]) : k \in DOMAIN patches}' = {Removal(patches'[k]) : k \in DOMAIN patches'}
      BY DEF Removal
    <3> QED
      BY <2>1, <3>1
  <2>3. Abstract!RemovedSpan(w, r) = [start |-> a + (x - cursor), end |-> a + (y - cursor) - 1 + 1]
    BY <1>20 DEF Abstract!RemovedSpan, Abstract!Span, x, y
  <2>4. a + (y - cursor) - 1 + 1 = a + (y - cursor) /\ target.start - Opening = a + (x - cursor)
    BY <1>3, <1>5, <1>10 DEF a
  <2>5. Removal(p) = [start |-> target.start - Opening, end |-> target.end - Opening, text |-> text]
    BY DEF Removal, Patch
  <2> HIDE DEF p
  <2> QED
    BY <1>11, <2>2, <2>3, <2>4, <2>5
<1> QED
  BY <1>18, <1>21, <1>22, <1>23 DEF Abstract!Replace, w, y

LEMMA InitImplements == Init => Abstract!Init
<1> SUFFICES ASSUME Init PROVE Abstract!Init
  OBVIOUS
<1> DEFINE c == Original(Opening, Closing)
<1>1. chunks = <<c>> /\ patches = <<>>
  BY DEF Init, Seeded
<1>2. Len(Source) \in Nat /\ Opening \in Nat /\ Closing = Opening + Len(Source)
  BY SourceAssumption, OpeningAssumption, LenProperties DEF Closing
<1>3. /\ c \in Placed /\ IsOriginal(c) /\ ChunkLen(c) = Len(Source)
      /\ c.start - Opening = 0 /\ c.end - c.start = Len(Source)
  BY <1>2 DEF Original, Placed, Chunk, ChunkLen, InSentence, IsOriginal
<1> HIDE DEF c
<1>4. /\ CellsOf(c) \in Seq(CellSet) /\ Len(CellsOf(c)) = Len(Source)
      /\ \A k \in 1 .. Len(Source) : CellsOf(c)[k] = Cell(Source[0 + k], 0 + k - 1)
  BY <1>3, CellsOfPlaced
<1>5. CellsOf(c) = [k \in 1 .. Len(Source) |-> CellsOf(c)[k]]
  BY <1>4, LenProperties
<1>6. \A k \in 1 .. Len(Source) : CellsOf(c)[k] = [sym |-> Source[k], at |-> k - 1]
  <2> TAKE k \in 1 .. Len(Source)
  <2>1. 0 + k = k
    BY <1>2
  <2> QED
    BY <1>4, <2>1 DEF Cell
<1>7. CellsOf(c) = [k \in 1 .. Len(Source) |-> [sym |-> Source[k], at |-> k - 1]]
  BY <1>5, <1>6
<1>8. Cells(chunks) = CellsOf(c)
  BY <1>1, <1>3, CellsOfOne
<1>9. {Removal(patches[k]) : k \in DOMAIN patches} = {}
  BY <1>1
<1> QED
  BY <1>7, <1>8, <1>9 DEF Abstract!Init, Abstract!OriginalCells, Abstract!Cell

LEMMA StepImplements == IInv /\ [Next]_vars => [Abstract!Next]_Abstract!vars
<1>1. ASSUME IInv, Next, Abstract!vars' # Abstract!vars PROVE Abstract!Next
  <2>1. PICK text \in Replacements, s \in 0..Len(WorkingText(chunks)) :
          \E e \in s + 1 .. Len(WorkingText(chunks)) : Edit(Span(s, e), text)
    BY <1>1 DEF Next
  <2>2. PICK e \in s + 1 .. Len(WorkingText(chunks)) : Edit(Span(s, e), text)
    BY <2>1
  <2>3. /\ Span(s, e) \in [start : Nat, end : Nat] /\ Span(s, e).start < Span(s, e).end
        /\ Span(s, e).end = e /\ s \in Nat /\ e \in Nat /\ s < e
    BY <2>1, <2>2 DEF Span
  <2>4. e <= Len(Cells(chunks)) /\ Abstract!Replace(Span(s, e), text)
    BY <1>1, <2>2, <2>3, EditReplaces
  <2>5. Len(Cells(chunks)) \in Nat
    BY <1>1, SoundIsPlaced, CellsTyped, LenProperties
  <2>6. s \in 0 .. Len(Cells(chunks)) /\ e \in s .. Len(Cells(chunks))
    BY <2>3, <2>4, <2>5
  <2>7. Abstract!Replace(Abstract!Span(s, e), text)
    BY <2>4 DEF Span, Abstract!Span
  <2> QED
    BY <1>1, <2>6, <2>7 DEF Abstract!Next
<1>2. ASSUME UNCHANGED vars PROVE UNCHANGED Abstract!vars
  BY <1>2 DEF vars, Abstract!vars
<1> QED
  BY <1>1, <1>2

(* Whatever edits are accepted, the chain of chunks reads like one text that *)
(* every accepted edit replaces a contiguous run of, and its patch names the *)
(* bytes of the original that run consisted of (splice.rs, module docs).     *)
THEOREM SplicerImplementsWorkingText == Spec => ImplementsWorkingText
<1>1. Spec => []IInv
  BY Inductive
<1> QED
  BY <1>1, InitImplements, StepImplements, PTL DEF Spec, ImplementsWorkingText, Abstract!Spec

(***************************************************************************)
(* Resolution: the sort and the greedy scan, as folds.                     *)
(***************************************************************************)

SortStep(source, sorted, p) == SortValid(source, sorted, p)
KeepStep(source, kept, p) == KeepDisjoint(kept, p)
Sorting == INSTANCE FoldFacts WITH Op <- SortStep
Keeping == INSTANCE FoldFacts WITH Op <- KeepStep

LEMMA ResolveInducts ==
  Sorting!Inductive /\ Keeping!Inductive
BY NatInduct DEF Sorting!Inductive, Keeping!Inductive

(* The patches a pass or a splicer may propose. *)
PatchSet == [start : Int, end : Int, text : {edit.text : edit \in Proposals} \cup Replacements, rule : Nat]
Ascending(w) == \A i, j \in DOMAIN w : i < j => ~ResolveBefore(w[j], w[i])

LEMMA OrderedIsAFold ==
  ASSUME NEW source, NEW w
  PROVE  Ordered(source, w) = Sorting!Folded(source, <<>>, w)
  BY DEF Ordered, Sorting!Folded, SortStep, FoldLeft, MapThenFoldSet, Max

LEMMA ResolveIsAFold ==
  ASSUME NEW source, NEW w
  PROVE  Resolve(source, w) = Keeping!Folded(source, <<>>, Ordered(source, w))
<1> DEFINE ordered == Ordered(source, w)
<1> HIDE DEF ordered
<1>1. FoldLeft(KeepDisjoint, <<>>, ordered) = Keeping!Folded(source, <<>>, ordered)
  BY DEF Keeping!Folded, KeepStep, FoldLeft, MapThenFoldSet, Max
<1> QED
  BY <1>1 DEF Resolve, ordered

\* v is w with x put in behind its first `at' elements.
IsInserted(v, w, at, x) ==
  /\ Len(v) = Len(w) + 1
  /\ \A i \in 1 .. Len(w) + 1 :
       v[i] = IF i <= at THEN w[i] ELSE IF i = at + 1 THEN x ELSE w[i - 1]

LEMMA InsertedIs ==
  ASSUME NEW S, NEW w \in Seq(S), NEW x \in S, NEW at \in 0 .. Len(w)
  PROVE  InsertAt(w, at + 1, x) \in Seq(S) /\ IsInserted(InsertAt(w, at + 1, x), w, at, x)
<1> DEFINE before == SubSeq(w, 1, at)
           after == SubSeq(w, at + 1, Len(w))
<1>1. /\ before \in Seq(S) /\ Len(before) = at
      /\ \A i \in 1 .. at : before[i] = w[i]
  OBVIOUS
<1>2. /\ after \in Seq(S) /\ Len(after) = Len(w) - at
      /\ \A i \in 1 .. Len(w) - at : after[i] = w[at + i]
  OBVIOUS
<1>3. InsertAt(w, at + 1, x) = (before \o <<x>>) \o after
  <2>1. (at + 1) - 1 = at
    OBVIOUS
  <2>2. InsertAt(w, at + 1, x) = SubSeq(w, 1, (at + 1) - 1) \o <<x>> \o SubSeq(w, at + 1, Len(w))
    BY DEF InsertAt
  <2> QED
    BY <2>1, <2>2
<1>7. at \in Nat /\ Len(w) \in Nat /\ at <= Len(w)
  OBVIOUS
<1> HIDE DEF before, after
<1> DEFINE head == before \o <<x>>
<1>4. /\ head \in Seq(S) /\ Len(head) = at + 1 /\ head[at + 1] = x
      /\ \A i \in 1 .. at : head[i] = w[i]
  BY <1>1
<1> HIDE DEF head
<1>5. /\ head \o after \in Seq(S) /\ Len(head \o after) = Len(w) + 1
      /\ \A i \in 1 .. Len(w) + 1 :
           (head \o after)[i] = IF i <= at + 1 THEN head[i] ELSE after[i - (at + 1)]
  <2>1. Len(head) + Len(after) = Len(w) + 1
    BY <1>2, <1>4, <1>7
  <2> QED
    BY <1>2, <1>4, <2>1, ConcatProperties
<1>6. ASSUME NEW i \in 1 .. Len(w) + 1
      PROVE  (head \o after)[i] =
               IF i <= at THEN w[i] ELSE IF i = at + 1 THEN x ELSE w[i - 1]
  <2>0. (head \o after)[i] = IF i <= at + 1 THEN head[i] ELSE after[i - (at + 1)]
    BY <1>5
  <2>1. CASE i > at + 1
    <3>1. i - (at + 1) \in 1 .. Len(w) - at /\ at + (i - (at + 1)) = i - 1
      BY <1>7, <2>1
    <3>2. after[i - (at + 1)] = w[i - 1]
      BY <1>2, <3>1
    <3> QED
      BY <1>7, <2>0, <2>1, <3>2
  <2>2. CASE i = at + 1
    BY <1>4, <1>7, <2>0, <2>2
  <2>3. CASE i <= at
    <3>1. i \in 1 .. at
      BY <1>7, <2>3
    <3> QED
      BY <1>4, <1>7, <2>0, <2>3, <3>1
  <2>4. i > at + 1 \/ i = at + 1 \/ i <= at
    BY <1>7
  <2> QED
    BY <2>1, <2>2, <2>3, <2>4
<1>8. InsertAt(w, at + 1, x) = head \o after
  BY <1>3 DEF head
<1> DEFINE inserted == head \o after
<1>9. /\ inserted \in Seq(S) /\ Len(inserted) = Len(w) + 1
      /\ \A i \in 1 .. Len(w) + 1 :
           inserted[i] = IF i <= at THEN w[i] ELSE IF i = at + 1 THEN x ELSE w[i - 1]
  BY <1>5, <1>6
<1>10. InsertAt(w, at + 1, x) = inserted
  BY <1>8
<1> HIDE DEF inserted
<1>11. inserted \in Seq(S) /\ IsInserted(inserted, w, at, x)
  BY <1>9 DEF IsInserted
<1> QED
  BY <1>10, <1>11

LEMMA InsertFacts ==
  ASSUME NEW S, NEW w \in Seq(S), NEW x \in S, NEW at \in 0 .. Len(w)
  PROVE  /\ InsertAt(w, at + 1, x) \in Seq(S)
         /\ Len(InsertAt(w, at + 1, x)) = Len(w) + 1
         /\ \A i \in 1 .. Len(w) + 1 :
              InsertAt(w, at + 1, x)[i] =
                IF i <= at THEN w[i] ELSE IF i = at + 1 THEN x ELSE w[i - 1]
<1> DEFINE inserted == InsertAt(w, at + 1, x)
<1>1. inserted \in Seq(S) /\ IsInserted(inserted, w, at, x)
  BY InsertedIs
<1> HIDE DEF inserted
<1>2. /\ inserted \in Seq(S) /\ Len(inserted) = Len(w) + 1
      /\ \A i \in 1 .. Len(w) + 1 :
           inserted[i] = IF i <= at THEN w[i] ELSE IF i = at + 1 THEN x ELSE w[i - 1]
  BY <1>1 DEF IsInserted
<1> QED
  BY <1>2 DEF inserted

(* The place SortInto puts a patch: after the last one it does not precede. *)
LEMMA PlaceExists ==
  ASSUME NEW n \in Nat, NEW D, D \subseteq 1 .. n
  PROVE  /\ Max({0} \cup D) \in {0} \cup D
         /\ \A i \in D : i <= Max({0} \cup D)
<1> DEFINE gaps == {n - i : i \in {0} \cup D}
<1>1. gaps \subseteq Nat /\ gaps # {}
  OBVIOUS
<1> HIDE DEF gaps
<1>2. PICK g \in gaps : \A h \in gaps : g <= h
  BY <1>1, LeastNat
<1>3. PICK m \in {0} \cup D : g = n - m
  BY <1>2 DEF gaps
<1>4. \A i \in {0} \cup D : i <= m
  <2>1. TAKE i \in {0} \cup D
  <2>2. n - m <= n - i
    BY <1>2, <1>3 DEF gaps
  <2> QED
    BY <2>2
<1>5. {0} \cup D \subseteq Int
  OBVIOUS
<1>6. Max({0} \cup D) = m
  <2> DEFINE t == {0} \cup D
  <2>1. m \in t /\ t \subseteq Int /\ \A i \in t : i <= m
    BY <1>3, <1>4, <1>5
  <2> HIDE DEF t
  <2>2. Max(t) = m
    BY <2>1, Sorting!MaxIs DEF Max, Sorting!Greatest
  <2> QED
    BY <2>2 DEF t
<1> QED
  BY <1>3, <1>4, <1>6

(* The order of resolve is a strict order in which incomparable patches differ *)
(* in their text only.                                                         *)
LEMMA BeforeIsTotal ==
  ASSUME NEW a \in PatchSet, NEW b \in PatchSet
  PROVE  /\ ~ResolveBefore(a, a)
         /\ ResolveBefore(a, b) => ~ResolveBefore(b, a)
         /\ \A c \in PatchSet : ~ResolveBefore(a, b) /\ ~ResolveBefore(b, c) => ~ResolveBefore(a, c)
<1>1. \A x \in PatchSet : x.start \in Int /\ x.end \in Int /\ x.rule \in Int
  BY DEF PatchSet
<1>2. ~ResolveBefore(a, a)
  BY <1>1 DEF ResolveBefore
<1>3. ResolveBefore(a, b) => ~ResolveBefore(b, a)
  BY <1>1 DEF ResolveBefore
<1>4. ASSUME NEW c \in PatchSet, ~ResolveBefore(a, b), ~ResolveBefore(b, c)
      PROVE  ~ResolveBefore(a, c)
  BY <1>1, <1>4 DEF ResolveBefore
<1> QED
  BY <1>2, <1>3, <1>4

LEMMA SortIntoKeeps ==
  ASSUME NEW w \in Seq(PatchSet), NEW p \in PatchSet, Ascending(w)
  PROVE  /\ SortInto(w, p, ResolveBefore) \in Seq(PatchSet)
         /\ Ascending(SortInto(w, p, ResolveBefore))
         /\ Elements(SortInto(w, p, ResolveBefore)) = Elements(w) \cup {p}
<1> DEFINE D == {i \in DOMAIN w : ~ResolveBefore(p, w[i])}
           at == Max({0} \cup D)
           v == InsertAt(w, at + 1, p)
<1>1. SortInto(w, p, ResolveBefore) = v
  BY DEF SortInto
<1>2. Len(w) \in Nat /\ D \subseteq 1 .. Len(w)
  OBVIOUS
<1>3. at \in {0} \cup D /\ \A i \in D : i <= at
  <2> HIDE DEF D
  <2> QED
    BY <1>2, PlaceExists
<1> HIDE DEF at
<1>4. at \in 0 .. Len(w)
  BY <1>2, <1>3
<1>5. /\ v \in Seq(PatchSet) /\ Len(v) = Len(w) + 1
      /\ \A i \in 1 .. Len(w) + 1 :
           v[i] = IF i <= at THEN w[i] ELSE IF i = at + 1 THEN p ELSE w[i - 1]
  BY <1>4, InsertFacts
<1> HIDE DEF v
<1>6. ASSUME NEW i \in 1 .. at PROVE ~ResolveBefore(p, w[i])
  <2>1. at \in D /\ i \in DOMAIN w /\ at \in DOMAIN w
    BY <1>2, <1>3, <1>4
  <2>2. w[i] \in PatchSet /\ w[at] \in PatchSet
    BY <2>1
  <2>3. ~ResolveBefore(p, w[at])
    BY <2>1
  <2>4. i # at => ~ResolveBefore(w[at], w[i])
    BY <2>1 DEF Ascending
  <2>5. CASE i # at
    <3> DEFINE a == w[i]
               b == w[at]
    <3>1. a \in PatchSet /\ b \in PatchSet /\ ~ResolveBefore(p, b) /\ ~ResolveBefore(b, a)
      BY <2>2, <2>3, <2>4, <2>5
    <3> HIDE DEF a, b
    <3>2. ~ResolveBefore(p, a)
      BY <3>1, BeforeIsTotal
    <3> QED
      BY <3>2 DEF a
  <2> QED
    BY <2>3, <2>5
<1>7. ASSUME NEW i \in at + 1 .. Len(w) PROVE ~ResolveBefore(w[i], p)
  <2>1. i \in DOMAIN w /\ i \notin D /\ w[i] \in PatchSet
    BY <1>2, <1>3, <1>4
  <2>2. ResolveBefore(p, w[i])
    BY <2>1
  <2> QED
    BY <2>1, <2>2, BeforeIsTotal
<1>8. ASSUME NEW i \in 1 .. Len(w) + 1, NEW j \in 1 .. Len(w) + 1, i < j
      PROVE  ~ResolveBefore(v[j], v[i])
  <2>0. /\ v[i] = IF i <= at THEN w[i] ELSE IF i = at + 1 THEN p ELSE w[i - 1]
        /\ v[j] = IF j <= at THEN w[j] ELSE IF j = at + 1 THEN p ELSE w[j - 1]
    BY <1>5
  <2>1. CASE j <= at
    <3>1. i \in DOMAIN w /\ j \in DOMAIN w /\ v[i] = w[i] /\ v[j] = w[j]
      BY <1>2, <1>4, <1>8, <2>0, <2>1
    <3> QED
      BY <1>8, <3>1 DEF Ascending
  <2>2. CASE j = at + 1
    <3>1. i \in 1 .. at /\ v[i] = w[i] /\ v[j] = p
      BY <1>4, <1>8, <2>0, <2>2
    <3> QED
      BY <1>6, <3>1
  <2>3. CASE i = at + 1
    <3>1. j - 1 \in at + 1 .. Len(w) /\ v[i] = p /\ v[j] = w[j - 1]
      BY <1>2, <1>4, <1>8, <2>0, <2>3
    <3> QED
      BY <1>7, <3>1
  <2>4. CASE i <= at /\ j > at + 1
    <3>1. CASE j = at + 1
      BY <2>2, <3>1
    <3>2. CASE j # at + 1
      <4>1. i \in DOMAIN w /\ j - 1 \in DOMAIN w /\ i < j - 1 /\ v[i] = w[i] /\ v[j] = w[j - 1]
        BY <1>2, <1>4, <2>0, <2>4, <3>2
      <4> QED
        BY <4>1 DEF Ascending
    <3> QED
      BY <3>1, <3>2
  <2>5. CASE i > at + 1
    <3>1. /\ i - 1 \in DOMAIN w /\ j - 1 \in DOMAIN w /\ i - 1 < j - 1
          /\ v[i] = w[i - 1] /\ v[j] = w[j - 1]
      BY <1>2, <1>4, <1>8, <2>0, <2>5
    <3> QED
      BY <3>1 DEF Ascending
  <2> QED
    BY <1>2, <1>4, <1>8, <2>1, <2>2, <2>3, <2>4, <2>5
<1>9. Elements(v) = Elements(w) \cup {p}
  <2>1. DOMAIN v = 1 .. Len(w) + 1 /\ DOMAIN w = 1 .. Len(w)
    BY <1>5
  <2>2. ASSUME NEW i \in DOMAIN w PROVE \E j \in DOMAIN v : v[j] = w[i]
    <3>1. CASE i <= at
      BY <1>5, <2>1, <3>1
    <3>2. CASE i > at
      <4>1. i + 1 \in DOMAIN v /\ v[i + 1] = w[i]
        BY <1>4, <1>5, <2>1, <3>2
      <4> QED
        BY <4>1
    <3> QED
      BY <1>4, <2>1, <3>1, <3>2
  <2>3. at + 1 \in DOMAIN v /\ v[at + 1] = p
    BY <1>4, <1>5, <2>1
  <2>4. ASSUME NEW j \in DOMAIN v PROVE v[j] \in Elements(w) \cup {p}
    <3>1. CASE j <= at
      BY <1>4, <1>5, <2>1, <3>1 DEF Elements
    <3>2. CASE j > at + 1
      <4>1. j - 1 \in DOMAIN w /\ v[j] = w[j - 1]
        BY <1>4, <1>5, <2>1, <3>2
      <4> QED
        BY <4>1 DEF Elements
    <3>3. CASE j = at + 1
      BY <2>3, <3>3
    <3> QED
      BY <1>2, <1>4, <2>1, <3>1, <3>2, <3>3
  <2> QED
    BY <2>2, <2>3, <2>4 DEF Elements
<1> QED
  BY <1>1, <1>5, <1>8, <1>9 DEF Ascending

(***************************************************************************)
(* What resolve looks at: the valid candidates, in the order of the key.   *)
(***************************************************************************)
LEMMA OrderedKeeps ==
  ASSUME NEW source, NEW w \in Seq(PatchSet)
  PROVE  /\ Ordered(source, w) \in Seq(PatchSet)
         /\ Ascending(Ordered(source, w))
         /\ Elements(Ordered(source, w)) = {p \in Elements(w) : ValidPatch(source, p)}
<1> DEFINE seen(k) == {w[i] : i \in 1 .. k}
           I == [k \in 0 .. Len(w) |->
                  {v \in Seq(PatchSet) : /\ Ascending(v)
                                         /\ Elements(v) = {p \in seen(k) : ValidPatch(source, p)}}]
<1>1. Len(w) \in Nat /\ DOMAIN w = 1 .. Len(w)
  OBVIOUS
<1>2. <<>> \in I[0]
  <2>1. Elements(<<>>) = {} /\ Ascending(<<>>) /\ <<>> \in Seq(PatchSet) /\ seen(0) = {}
    BY DEF Elements, Ascending
  <2> QED
    BY <1>1, <2>1
<1>3. ASSUME NEW k \in 1 .. Len(w), NEW acc \in I[k - 1]
      PROVE  SortStep(source, acc, w[k]) \in I[k]
  <2>1. /\ acc \in Seq(PatchSet) /\ Ascending(acc)
        /\ Elements(acc) = {p \in seen(k - 1) : ValidPatch(source, p)}
    BY <1>1, <1>3
  <2>2. w[k] \in PatchSet
    BY <1>1
  <2>3. seen(k) = seen(k - 1) \cup {w[k]}
    <3>1. 1 .. k = (1 .. k - 1) \cup {k}
      BY <1>1
    <3> QED
      BY <3>1
  <2> HIDE DEF seen
  <2>4. CASE ValidPatch(source, w[k])
    <3>1. SortStep(source, acc, w[k]) = SortInto(acc, w[k], ResolveBefore)
      BY <2>4 DEF SortStep, SortValid
    <3> DEFINE v == SortStep(source, acc, w[k])
    <3>2. v \in Seq(PatchSet) /\ Ascending(v) /\ Elements(v) = Elements(acc) \cup {w[k]}
      BY <2>1, <2>2, <3>1, SortIntoKeeps
    <3>3. Elements(v) = {p \in seen(k) : ValidPatch(source, p)}
      BY <2>1, <2>3, <2>4, <3>2
    <3> HIDE DEF v
    <3>4. v \in I[k]
      BY <3>2, <3>3, <1>1
    <3> QED
      BY <3>4 DEF v
  <2>5. CASE ~ValidPatch(source, w[k])
    <3>1. SortStep(source, acc, w[k]) = acc
      BY <2>5 DEF SortStep, SortValid
    <3>2. Elements(acc) = {p \in seen(k) : ValidPatch(source, p)}
      BY <2>1, <2>3, <2>5
    <3>3. acc \in I[k]
      BY <2>1, <3>2, <1>1
    <3> QED
      BY <3>1, <3>3
  <2> QED
    BY <2>4, <2>5
<1> HIDE DEF I
<1>4. Sorting!Folded(source, <<>>, w) \in I[Len(w)]
  BY <1>1, <1>2, <1>3, Sorting!FoldInvariant, ResolveInducts DEF Sorting!IsPassedOn
<1>5. Elements(w) = seen(Len(w))
  BY <1>1 DEF Elements
<1> HIDE DEF seen
<1> QED
  BY <1>1, <1>4, <1>5, OrderedIsAFold DEF I

(***************************************************************************)
(* What resolve keeps of it: patches apart from each other, and for every  *)
(* patch dropped an overlapping one that was looked at before.             *)
(***************************************************************************)
KeptApart(w) == \A i, j \in DOMAIN w : i < j => ~RangesOverlap(w[i], w[j])
Shadowed(p, w) == \E q \in Elements(w) : RangesOverlap(q, p) /\ ~ResolveBefore(p, q)

LEMMA ResolveKeeps ==
  ASSUME NEW source, NEW w \in Seq(PatchSet)
  PROVE  LET kept == Resolve(source, w)
         IN  /\ kept \in Seq(PatchSet)
             /\ Ascending(kept) /\ KeptApart(kept)
             /\ Elements(kept) \subseteq Elements(Ordered(source, w))
             /\ \A p \in Elements(Ordered(source, w)) : p \in Elements(kept) \/ Shadowed(p, kept)
<1> DEFINE ordered == Ordered(source, w)
<1>1. ordered \in Seq(PatchSet) /\ Ascending(ordered)
  BY OrderedKeeps
<1>2. Resolve(source, w) = Keeping!Folded(source, <<>>, ordered)
  BY ResolveIsAFold
<1> HIDE DEF ordered
<1> DEFINE seen(k) == {ordered[i] : i \in 1 .. k}
           J == [k \in 0 .. Len(ordered) |->
                  {v \in Seq(PatchSet) :
                     /\ Ascending(v) /\ KeptApart(v)
                     /\ Elements(v) \subseteq seen(k)
                     /\ \A p \in seen(k) : p \in Elements(v) \/ Shadowed(p, v)}]
<1>3. Len(ordered) \in Nat /\ DOMAIN ordered = 1 .. Len(ordered)
  BY <1>1
<1>4. <<>> \in J[0]
  <2>1. Elements(<<>>) = {} /\ Ascending(<<>>) /\ KeptApart(<<>>) /\ <<>> \in Seq(PatchSet) /\ seen(0) = {}
    BY DEF Elements, Ascending, KeptApart
  <2> QED
    BY <1>3, <2>1
<1>5. ASSUME NEW k \in 1 .. Len(ordered), NEW acc \in J[k - 1]
      PROVE  KeepStep(source, acc, ordered[k]) \in J[k]
  <2>1. /\ acc \in Seq(PatchSet) /\ Ascending(acc) /\ KeptApart(acc)
        /\ Elements(acc) \subseteq seen(k - 1)
        /\ \A p \in seen(k - 1) : p \in Elements(acc) \/ Shadowed(p, acc)
    BY <1>3, <1>5
  <2> DEFINE x == ordered[k]
  <2>2. x \in PatchSet
    BY <1>1, <1>3
  <2>3. seen(k) = seen(k - 1) \cup {x}
    <3>1. 1 .. k = (1 .. k - 1) \cup {k}
      BY <1>3
    <3> QED
      BY <3>1
  <2>4. \A q \in seen(k - 1) : ~ResolveBefore(x, q)
    <3> TAKE q \in seen(k - 1)
    <3>1. PICK i \in 1 .. k - 1 : q = ordered[i]
      OBVIOUS
    <3>2. i \in DOMAIN ordered /\ k \in DOMAIN ordered /\ i < k
      BY <1>3, <3>1
    <3> QED
      BY <1>1, <3>1, <3>2 DEF Ascending
  <2> HIDE DEF seen, x
  <2>5. \A i \in DOMAIN acc : acc[i] \in Elements(acc) /\ ~ResolveBefore(x, acc[i])
    BY <2>1, <2>4 DEF Elements
  <2>6. CASE \E i \in DOMAIN acc : RangesOverlap(acc[i], x)
    <3>1. KeepStep(source, acc, x) = acc
      BY <2>6 DEF KeepStep, KeepDisjoint
    <3>2. Shadowed(x, acc)
      BY <2>5, <2>6 DEF Shadowed
    <3>3. acc \in J[k]
      BY <1>3, <2>1, <2>3, <3>2
    <3> QED
      BY <3>1, <3>3 DEF x
  <2>7. CASE ~ \E i \in DOMAIN acc : RangesOverlap(acc[i], x)
    <3> DEFINE v == Append(acc, x)
    <3>1. KeepStep(source, acc, x) = v
      BY <2>7 DEF KeepStep, KeepDisjoint
    <3>2. /\ v \in Seq(PatchSet) /\ Elements(v) = Elements(acc) \cup {x}
          /\ DOMAIN v = DOMAIN acc \cup {Len(acc) + 1}
          /\ \A i \in DOMAIN acc : v[i] = acc[i]
          /\ v[Len(acc) + 1] = x
          /\ \A i \in DOMAIN acc : i < Len(acc) + 1 /\ i \in Nat
          /\ Len(acc) \in Nat
      BY <2>1, <2>2, AppendFacts
    <3> HIDE DEF v
    <3>3. Ascending(v)
      BY <2>1, <2>5, <3>2 DEF Ascending
    <3>4. KeptApart(v)
      BY <2>1, <2>7, <3>2 DEF KeptApart
    <3>5. Elements(v) \subseteq seen(k)
      BY <2>1, <2>3, <3>2
    <3>6. ASSUME NEW p \in seen(k) PROVE p \in Elements(v) \/ Shadowed(p, v)
      BY <2>1, <2>3, <3>2 DEF Shadowed
    <3>7. v \in J[k]
      BY <1>3, <3>2, <3>3, <3>4, <3>5, <3>6
    <3> QED
      BY <3>1, <3>7 DEF x
  <2> QED
    BY <2>6, <2>7
<1> HIDE DEF J
<1>6. Keeping!Folded(source, <<>>, ordered) \in J[Len(ordered)]
  BY <1>3, <1>4, <1>5, Keeping!FoldInvariant, ResolveInducts DEF Keeping!IsPassedOn
<1>7. Elements(ordered) = seen(Len(ordered))
  BY <1>3 DEF Elements
<1> HIDE DEF seen
<1>8. /\ Resolve(source, w) \in Seq(PatchSet)
      /\ Ascending(Resolve(source, w)) /\ KeptApart(Resolve(source, w))
      /\ Elements(Resolve(source, w)) \subseteq seen(Len(ordered))
      /\ \A p \in seen(Len(ordered)) : p \in Elements(Resolve(source, w)) \/ Shadowed(p, Resolve(source, w))
  BY <1>2, <1>3, <1>6 DEF J
<1> QED
  BY <1>7, <1>8 DEF ordered

(* Overlapping does not depend on the order the two spans are named in. *)
LEMMA OverlapIsSymmetric ==
  ASSUME NEW p \in PatchSet, NEW q \in PatchSet, RangesOverlap(p, q)
  PROVE  RangesOverlap(q, p)
<1>1. p.start \in Int /\ p.end \in Int /\ q.start \in Int /\ q.end \in Int
  BY DEF PatchSet
<1> QED
  BY <1>1 DEF RangesOverlap, IsEmptySpan

(***************************************************************************)
(* The specification: only patches are proposed.                           *)
(***************************************************************************)
ProposedTyped == candidates \in Seq(PatchSet)

LEMMA ProposesPatches == ResolutionSpec => []ProposedTyped
<1>1. ResolutionInit => ProposedTyped
  BY DEF ResolutionInit, ProposedTyped
<1>2. ProposedTyped /\ [ResolutionNext]_candidates => ProposedTyped'
  <2>1. SUFFICES ASSUME ProposedTyped, ResolutionNext PROVE ProposedTyped'
    BY DEF ProposedTyped
  <2>2. PICK s \in Offsets, edit \in Proposals, e \in Offsets : Propose(Patch(s, e, edit.text, edit.rule))
    BY <2>1 DEF ResolutionNext
  <2>3. Patch(s, e, edit.text, edit.rule) \in PatchSet
    BY ProposalsAssumption DEF Patch, PatchSet, Offsets
  <2> QED
    BY <2>1, <2>2, <2>3 DEF ProposedTyped, Propose
<1> QED
  BY <1>1, <1>2, PTL DEF ResolutionSpec

(* For every text, every set of edits and every number of candidates: resolve *)
(* accepts patches in byte order that do not overlap, and drops a valid one   *)
(* only for an accepted one that comes before it.                             *)
THEOREM ResolutionIsLeftmostFirst == ResolutionSpec => []OnlyAcceptedShadow
<1>1. ProposedTyped => OnlyAcceptedShadow
  <2> SUFFICES ASSUME ProposedTyped PROVE OnlyAcceptedShadow
    OBVIOUS
  <2> DEFINE accepted == Accepted
             ordered == Ordered(Bytes, candidates)
  <2>1. /\ accepted \in Seq(PatchSet) /\ Ascending(accepted) /\ KeptApart(accepted)
        /\ Elements(accepted) \subseteq Elements(ordered)
        /\ \A p \in Elements(ordered) : p \in Elements(accepted) \/ Shadowed(p, accepted)
    BY ResolveKeeps DEF ProposedTyped, Accepted
  <2>2. Elements(ordered) = {p \in Proposed : ValidPatch(Bytes, p)}
    BY OrderedKeeps DEF ProposedTyped, Proposed, Elements
  <2>3. Range(accepted) = Elements(accepted)
    BY DEF Range, Elements
  <2>4. Proposed \subseteq PatchSet
    BY DEF ProposedTyped, Proposed
  <2> HIDE DEF accepted, ordered
  <2>5. DOMAIN accepted = 1 .. Len(accepted) /\ Len(accepted) \in Nat
    BY <2>1
  <2>6. ASSUME NEW i \in DOMAIN accepted, NEW j \in DOMAIN accepted, i < j
        PROVE  accepted[i].start <= accepted[j].start /\ ~RangesOverlap(accepted[i], accepted[j])
    <3>1. accepted[i] \in PatchSet /\ accepted[j] \in PatchSet
      BY <2>1
    <3>2. ~ResolveBefore(accepted[j], accepted[i]) /\ ~RangesOverlap(accepted[i], accepted[j])
      BY <2>1, <2>6 DEF Ascending, KeptApart
    <3> QED
      BY <3>1, <3>2 DEF ResolveBefore, PatchSet
  <2>7. ASSUME NEW p \in Elements(accepted), NEW q \in Elements(accepted), q # p, RangesOverlap(q, p)
        PROVE  FALSE
    <3>1. PICK i \in DOMAIN accepted, j \in DOMAIN accepted : accepted[i] = p /\ accepted[j] = q
      BY DEF Elements
    <3>2. p \in PatchSet /\ q \in PatchSet
      BY <2>1, <3>1
    <3>3. i < j \/ j < i
      BY <2>5, <2>7, <3>1
    <3> QED
      BY <2>1, <2>7, <3>1, <3>2, <3>3, OverlapIsSymmetric DEF KeptApart
  <2>8. ASSUME NEW p \in Proposed
        PROVE  p \in Elements(accepted) <=>
                 /\ ValidPatch(Bytes, p)
                 /\ \A q \in Elements(accepted) : q # p /\ RangesOverlap(q, p) => ResolveBefore(p, q)
    <3>1. CASE p \in Elements(accepted)
      BY <2>1, <2>2, <2>7, <3>1
    <3>2. CASE p \notin Elements(accepted)
      <4>1. ASSUME ValidPatch(Bytes, p)
            PROVE  \E q \in Elements(accepted) : q # p /\ RangesOverlap(q, p) /\ ~ResolveBefore(p, q)
        <5>1. Shadowed(p, accepted)
          BY <2>1, <2>2, <3>2, <4>1
        <5> QED
          BY <3>2, <5>1 DEF Shadowed
      <4> QED
        BY <3>2, <4>1
    <3> QED
      BY <3>1, <3>2
  <2> QED
    BY <2>3, <2>6, <2>8 DEF OnlyAcceptedShadow, accepted
<1> QED
  BY <1>1, ProposesPatches, PTL

(***************************************************************************)
(* The order patches are spliced in: later starts first.                   *)
(***************************************************************************)
SpliceStep(nothing, sorted, p) == SortInto(sorted, p, LaterStart)
Splicing == INSTANCE FoldFacts WITH Op <- SpliceStep

LEMMA OrderInducts ==
  Splicing!Inductive
BY NatInduct DEF Splicing!Inductive

Started(S) == \A p \in S : p.start \in Int
Descending(w) == \A i, j \in DOMAIN w : i < j => w[j].start < w[i].start
StartsDiffer(w) == \A i, j \in DOMAIN w : i # j => w[i].start # w[j].start

LEMMA SpliceOrderIsAFold ==
  ASSUME NEW w
  PROVE  SpliceOrder(w) = Splicing!Folded(0, <<>>, w)
BY DEF SpliceOrder, Splicing!Folded, SpliceStep, FoldLeft, MapThenFoldSet, Max

\* The place of a patch in the order: between later and earlier starts.
IsPlace(w, p, at) ==
  /\ \A i \in 1 .. at : p.start < w[i].start
  /\ \A i \in at + 1 .. Len(w) : w[i].start < p.start

LEMMA LaterInserts ==
  ASSUME NEW S, Started(S), NEW w \in Seq(S), Descending(w), NEW p \in S,
         \A i \in DOMAIN w : w[i].start # p.start
  PROVE  \E at \in 0 .. Len(w) : /\ SortInto(w, p, LaterStart) = InsertAt(w, at + 1, p)
                                 /\ IsPlace(w, p, at)
<1> DEFINE D == {i \in DOMAIN w : ~LaterStart(p, w[i])}
           at == Max({0} \cup D)
<1>1. SortInto(w, p, LaterStart) = InsertAt(w, at + 1, p)
  BY DEF SortInto
<1>2. Len(w) \in Nat /\ D \subseteq 1 .. Len(w) /\ DOMAIN w = 1 .. Len(w)
  OBVIOUS
<1>3. at \in {0} \cup D /\ \A i \in D : i <= at
  <2> HIDE DEF D
  <2> QED
    BY <1>2, PlaceExists
<1> HIDE DEF at
<1>4. at \in 0 .. Len(w)
  BY <1>2, <1>3
<1>5. p.start \in Int /\ \A i \in DOMAIN w : w[i].start \in Int
  BY DEF Started
<1>6. ASSUME NEW i \in 1 .. at PROVE p.start < w[i].start
  <2>1. at \in D /\ i \in DOMAIN w /\ at \in DOMAIN w
    BY <1>2, <1>3, <1>4
  <2>2. ~(p.start > w[at].start) /\ w[at].start # p.start
    BY <2>1 DEF LaterStart
  <2>3. i # at => w[at].start < w[i].start
    BY <1>4, <2>1 DEF Descending
  <2> QED
    BY <1>5, <2>1, <2>2, <2>3
<1>7. ASSUME NEW i \in at + 1 .. Len(w) PROVE w[i].start < p.start
  <2>1. i \in DOMAIN w /\ i \notin D
    BY <1>2, <1>3, <1>4
  <2>2. p.start > w[i].start
    BY <2>1 DEF LaterStart
  <2> QED
    BY <1>5, <2>1, <2>2
<1> QED
  BY <1>1, <1>4, <1>6, <1>7 DEF IsPlace

LEMMA InsertedDescends ==
  ASSUME NEW S, Started(S), NEW w \in Seq(S), Descending(w), NEW p \in S,
         NEW at \in 0 .. Len(w), IsPlace(w, p, at)
  PROVE  LET v == InsertAt(w, at + 1, p)
         IN  v \in Seq(S) /\ Len(v) = Len(w) + 1 /\ Descending(v) /\ Elements(v) = Elements(w) \cup {p}
<1> DEFINE v == InsertAt(w, at + 1, p)
<1>1. /\ v \in Seq(S) /\ Len(v) = Len(w) + 1
      /\ \A i \in 1 .. Len(w) + 1 :
           v[i] = IF i <= at THEN w[i] ELSE IF i = at + 1 THEN p ELSE w[i - 1]
  BY InsertFacts
<1> HIDE DEF v
<1>2. /\ DOMAIN v = 1 .. Len(w) + 1 /\ DOMAIN w = 1 .. Len(w) /\ Len(w) \in Nat
      /\ at \in Nat /\ at <= Len(w)
  BY <1>1
<1>3. /\ \A i \in 1 .. at : i \in DOMAIN w /\ i \in DOMAIN v /\ v[i] = w[i]
      /\ at + 1 \in DOMAIN v /\ v[at + 1] = p
      /\ \A i \in at + 2 .. Len(w) + 1 : i - 1 \in at + 1 .. Len(w) /\ i - 1 \in DOMAIN w /\ v[i] = w[i - 1]
  <2>1. ASSUME NEW i \in 1 .. at PROVE i \in DOMAIN w /\ i \in DOMAIN v /\ v[i] = w[i]
    <3>1. i \in DOMAIN w /\ i \in 1 .. Len(w) + 1 /\ i <= at
      BY <1>2
    <3> QED
      BY <1>1, <1>2, <3>1
  <2>2. at + 1 \in DOMAIN v /\ v[at + 1] = p
    <3>1. at + 1 \in 1 .. Len(w) + 1 /\ ~(at + 1 <= at)
      BY <1>2
    <3> QED
      BY <1>1, <1>2, <3>1
  <2>3. ASSUME NEW i \in at + 2 .. Len(w) + 1
        PROVE  i - 1 \in at + 1 .. Len(w) /\ i - 1 \in DOMAIN w /\ v[i] = w[i - 1]
    <3>1. /\ i \in 1 .. Len(w) + 1 /\ ~(i <= at) /\ i # at + 1
          /\ i - 1 \in at + 1 .. Len(w) /\ i - 1 \in DOMAIN w
      BY <1>2
    <3> QED
      BY <1>1, <3>1
  <2> QED
    BY <2>1, <2>2, <2>3
<1>4. \A i \in DOMAIN v : i \in 1 .. at \/ i = at + 1 \/ i \in at + 2 .. Len(w) + 1
  BY <1>2
<1>5. p.start \in Int /\ \A i \in DOMAIN w : w[i].start \in Int
  BY DEF Started
<1>6. ASSUME NEW i \in DOMAIN v, NEW j \in DOMAIN v, i < j PROVE v[j].start < v[i].start
  <2>1. CASE i \in 1 .. at
    <3>1. v[i] = w[i] /\ p.start < w[i].start /\ i \in DOMAIN w
      BY <1>3, <2>1 DEF IsPlace
    <3>2. CASE j \in 1 .. at
      <4>1. v[j] = w[j] /\ j \in DOMAIN w
        BY <1>3, <3>2
      <4> QED BY <1>6, <3>1, <4>1 DEF Descending
    <3>3. CASE j = at + 1
      BY <1>3, <3>1, <3>3
    <3>4. CASE j \in at + 2 .. Len(w) + 1
      <4>1. v[j] = w[j - 1] /\ w[j - 1].start < p.start /\ j - 1 \in DOMAIN w
        BY <1>3, <3>4 DEF IsPlace
      <4> QED BY <1>5, <3>1, <4>1
    <3> QED BY <1>4, <3>2, <3>3, <3>4
  <2>2. CASE i = at + 1
    <3>1. j \in at + 2 .. Len(w) + 1
      BY <1>2, <1>6, <2>2
    <3>2. v[j] = w[j - 1] /\ w[j - 1].start < p.start
      BY <1>3, <3>1 DEF IsPlace
    <3> QED BY <1>3, <2>2, <3>2
  <2>3. CASE i \in at + 2 .. Len(w) + 1
    <3>1. j \in at + 2 .. Len(w) + 1 /\ i - 1 < j - 1
      BY <1>2, <1>6, <2>3
    <3>2. v[i] = w[i - 1] /\ v[j] = w[j - 1] /\ i - 1 \in DOMAIN w /\ j - 1 \in DOMAIN w
      BY <1>3, <2>3, <3>1
    <3> QED BY <3>1, <3>2 DEF Descending
  <2> QED BY <1>4, <2>1, <2>2, <2>3
<1>7. Elements(v) = Elements(w) \cup {p}
  <2>1. ASSUME NEW i \in DOMAIN v PROVE v[i] \in Elements(w) \cup {p}
    BY <1>3, <1>4 DEF Elements
  <2>2. ASSUME NEW i \in DOMAIN w PROVE \E j \in DOMAIN v : v[j] = w[i]
    <3>1. CASE i <= at
      <4>1. i \in 1 .. at
        BY <1>2, <3>1
      <4> QED BY <1>3, <4>1
    <3>2. CASE ~(i <= at)
      <4>1. i + 1 \in at + 2 .. Len(w) + 1 /\ i + 1 \in DOMAIN v /\ (i + 1) - 1 = i
        BY <1>2, <3>2
      <4> QED BY <1>3, <4>1
    <3> QED BY <3>1, <3>2
  <2> QED BY <1>3, <2>1, <2>2 DEF Elements
<1> QED BY <1>1, <1>6, <1>7 DEF Descending, v

LEMMA SpliceOrderIs ==
  ASSUME NEW S, Started(S), NEW w \in Seq(S), StartsDiffer(w)
  PROVE  /\ SpliceOrder(w) \in Seq(S) /\ Len(SpliceOrder(w)) = Len(w)
         /\ Descending(SpliceOrder(w)) /\ Elements(SpliceOrder(w)) = Elements(w)
<1> DEFINE n == Len(w)
           seen(k) == {w[i] : i \in 1 .. k}
           I == [k \in 0 .. n |->
                  {v \in Seq(S) : Len(v) = k /\ Descending(v) /\ Elements(v) = seen(k)}]
<1>1. n \in Nat /\ DOMAIN w = 1 .. n /\ \A i \in 1 .. n : w[i] \in S
  OBVIOUS
<1>2. Elements(w) = seen(n)
  BY <1>1 DEF Elements
<1>3. <<>> \in I[0]
  <2>1. Elements(<<>>) = {} /\ Descending(<<>>) /\ <<>> \in Seq(S) /\ seen(0) = {} /\ Len(<<>>) = 0
    BY DEF Elements, Descending
  <2> QED
    BY <1>1, <2>1
<1> HIDE DEF n
<1>4. ASSUME NEW k \in 1 .. n, NEW acc \in I[k - 1]
      PROVE  SpliceStep(0, acc, w[k]) \in I[k]
  <2>0. k \in 0 .. n /\ k - 1 \in 0 .. n /\ k \in Nat
    BY <1>1
  <2>1. acc \in Seq(S) /\ Len(acc) = k - 1 /\ Descending(acc) /\ Elements(acc) = seen(k - 1)
    BY <1>4, <2>0
  <2>2. w[k] \in S
    BY <1>1
  <2>3. seen(k) = seen(k - 1) \cup {w[k]}
    <3>1. 1 .. k = (1 .. k - 1) \cup {k}
      BY <1>1
    <3> QED
      BY <3>1
  <2>4. \A i \in DOMAIN acc : acc[i].start # w[k].start
    <3> TAKE i \in DOMAIN acc
    <3>1. acc[i] \in seen(k - 1)
      BY <2>1 DEF Elements
    <3>2. PICK j \in 1 .. k - 1 : acc[i] = w[j]
      BY <3>1
    <3>3. j \in DOMAIN w /\ k \in DOMAIN w /\ j # k
      BY <1>1, <2>0, <3>2
    <3> QED
      BY <3>2, <3>3 DEF StartsDiffer
  <2> HIDE DEF seen
  <2>5. PICK at \in 0 .. Len(acc) : /\ SortInto(acc, w[k], LaterStart) = InsertAt(acc, at + 1, w[k])
                                    /\ IsPlace(acc, w[k], at)
    BY <2>1, <2>2, <2>4, LaterInserts
  <2> DEFINE p == w[k]
             v == InsertAt(acc, at + 1, p)
  <2>6. v \in Seq(S) /\ Len(v) = Len(acc) + 1 /\ Descending(v) /\ Elements(v) = Elements(acc) \cup {w[k]}
    <3>1. p \in S /\ IsPlace(acc, p, at) /\ acc \in Seq(S) /\ Descending(acc)
      BY <2>1, <2>2, <2>5
    <3> HIDE DEF p
    <3>2. v \in Seq(S) /\ Len(v) = Len(acc) + 1 /\ Descending(v) /\ Elements(v) = Elements(acc) \cup {p}
      BY <3>1, InsertedDescends
    <3> QED
      BY <3>2 DEF p
  <2>8. SpliceStep(0, acc, w[k]) = v
    BY <2>5 DEF SpliceStep
  <2> HIDE DEF v
  <2>9. Len(v) = k
    BY <2>0, <2>1, <2>6
  <2>7. v \in I[k]
    BY <2>0, <2>1, <2>3, <2>6, <2>9
  <2> QED
    BY <2>7, <2>8
<1> HIDE DEF I
<1>5. Splicing!Folded(0, <<>>, w) \in I[n]
  BY <1>1, <1>3, <1>4, Splicing!FoldInvariant, OrderInducts DEF Splicing!IsPassedOn
<1> HIDE DEF seen
<1>6. n \in 0 .. n
  BY <1>1
<1> QED
  BY <1>2, <1>5, <1>6, SpliceOrderIsAFold DEF I, n

\* A patch recorded last is put in its place in the order.
LEMMA SpliceOrderGrows ==
  ASSUME NEW S, NEW w \in Seq(S), NEW p \in S
  PROVE  SpliceOrder(Append(w, p)) = SortInto(SpliceOrder(w), p, LaterStart)
<1> DEFINE n == Len(w)
           v == Append(w, p)
<1>1. /\ n \in Nat /\ DOMAIN w = 1 .. n /\ DOMAIN v = 1 .. n + 1
      /\ v[n + 1] = p /\ \A i \in 1 .. n : v[i] = w[i]
  OBVIOUS
<1> HIDE DEF n, v
<1>2. PICK g : Splicing!IsTrace(0, <<>>, n, w, g) /\ Splicing!Folded(0, <<>>, w) = g[n]
  BY <1>1, Splicing!FoldHasTrace, OrderInducts
<1> DEFINE m == n + 1
           h == [k \in 0 .. m |-> IF k <= n THEN g[k] ELSE SortInto(g[n], p, LaterStart)]
<1>3. m \in Nat /\ DOMAIN v = 1 .. m /\ m = n + 1
  BY <1>1
<1>4. h[m] = SortInto(g[n], p, LaterStart)
  BY <1>1
<1>5. Splicing!IsTrace(0, <<>>, m, v, h)
  <2>1. h[0] = <<>>
    BY <1>1, <1>2 DEF Splicing!IsTrace
  <2>2. ASSUME NEW k \in 1 .. m PROVE h[k] = SpliceStep(0, h[k - 1], v[k])
    <3>1. CASE k <= n
      <4>1. k \in 1 .. n /\ k \in 0 .. m /\ k - 1 \in 0 .. m /\ k - 1 <= n
        BY <1>1, <3>1
      <4>2. h[k] = g[k] /\ h[k - 1] = g[k - 1] /\ v[k] = w[k]
        BY <1>1, <3>1, <4>1
      <4> QED
        BY <1>2, <4>1, <4>2 DEF Splicing!IsTrace
    <3>2. CASE ~(k <= n)
      <4>1. k = n + 1 /\ k - 1 = n /\ n \in 0 .. m /\ k = m
        BY <1>1, <3>2
      <4>2. h[k - 1] = g[n] /\ v[k] = p
        BY <1>1, <4>1
      <4> QED
        BY <1>4, <4>1, <4>2 DEF SpliceStep
    <3> QED
      BY <3>1, <3>2
  <2> HIDE DEF m, h
  <2> QED
    BY <2>1, <2>2 DEF Splicing!IsTrace
<1> HIDE DEF m, h
<1>6. Splicing!Folded(0, <<>>, v) = h[m]
  BY <1>3, <1>5, Splicing!FoldUnique, OrderInducts
<1> QED
  BY <1>2, <1>4, <1>6, SpliceOrderIsAFold DEF v

\* There is one descending order of a set of patches.
LEMMA OneOrder ==
  ASSUME NEW S, Started(S), NEW v \in Seq(S), NEW w \in Seq(S),
         Descending(v), Descending(w), Elements(v) = Elements(w)
  PROVE  v = w
<1> DEFINE T == {k \in Nat : \A i \in 1 .. k : (i \in DOMAIN v <=> i \in DOMAIN w)
                                                /\ (i \in DOMAIN v => v[i] = w[i])}
<1>1. /\ DOMAIN v = 1 .. Len(v) /\ Len(v) \in Nat /\ DOMAIN w = 1 .. Len(w) /\ Len(w) \in Nat
      /\ \A i \in DOMAIN v : v[i].start \in Int
      /\ \A i \in DOMAIN w : w[i].start \in Int
  BY DEF Started
<1>2. 0 \in T
  OBVIOUS
<1>3. ASSUME NEW k \in Nat, k \in T PROVE k + 1 \in T
  <2>1. \A i \in 1 .. k : (i \in DOMAIN v <=> i \in DOMAIN w) /\ (i \in DOMAIN v => v[i] = w[i])
    BY <1>3
  <2> DEFINE x == k + 1
  <2>2. x \in Nat /\ x > 0 /\ \A i \in Nat : i < x /\ i > 0 => i \in 1 .. k
    OBVIOUS
  <2> HIDE DEF x
  <2>3. ASSUME x \in DOMAIN v
        PROVE  \E j \in DOMAIN w : w[j] = v[x] /\ x <= j
    <3>1. v[x] \in Elements(w)
      BY <2>3 DEF Elements
    <3>2. PICK j \in DOMAIN w : w[j] = v[x]
      BY <3>1 DEF Elements
    <3>3. ASSUME j < x PROVE FALSE
      <4>0. j \in Nat /\ j > 0
        BY <1>1
      <4>1. j \in 1 .. k /\ j \in Nat
        BY <2>2, <3>3, <4>0
      <4>2. j \in DOMAIN v /\ v[j] = w[j]
        BY <2>1, <4>1
      <4>3. v[x].start < v[j].start
        BY <2>3, <3>3, <4>2 DEF Descending
      <4> QED
        BY <1>1, <2>3, <3>2, <4>2, <4>3
    <3> QED
      BY <1>1, <2>2, <3>2, <3>3
  <2>4. ASSUME x \in DOMAIN w
        PROVE  \E j \in DOMAIN v : v[j] = w[x] /\ x <= j
    <3>1. w[x] \in Elements(v)
      BY <2>4 DEF Elements
    <3>2. PICK j \in DOMAIN v : v[j] = w[x]
      BY <3>1 DEF Elements
    <3>3. ASSUME j < x PROVE FALSE
      <4>0. j \in Nat /\ j > 0
        BY <1>1
      <4>1. j \in 1 .. k /\ j \in Nat
        BY <2>2, <3>3, <4>0
      <4>2. j \in DOMAIN w /\ w[j] = v[j]
        BY <2>1, <3>2, <4>1
      <4>3. w[x].start < w[j].start
        BY <2>4, <3>3, <4>2 DEF Descending
      <4> QED
        BY <1>1, <2>4, <3>2, <4>2, <4>3
    <3> QED
      BY <1>1, <2>2, <3>2, <3>3
  <2>5. x \in DOMAIN v <=> x \in DOMAIN w
    <3>1. ASSUME x \in DOMAIN v PROVE x \in DOMAIN w
      BY <1>1, <2>2, <2>3, <3>1
    <3>2. ASSUME x \in DOMAIN w PROVE x \in DOMAIN v
      BY <1>1, <2>2, <2>4, <3>2
    <3> QED
      BY <3>1, <3>2
  <2>6. ASSUME x \in DOMAIN v PROVE v[x] = w[x]
    <3>1. PICK j \in DOMAIN w : w[j] = v[x] /\ x <= j
      BY <2>3, <2>6
    <3>2. PICK i \in DOMAIN v : v[i] = w[x] /\ x <= i
      BY <2>4, <2>5, <2>6
    <3>0. x \in DOMAIN w /\ (j # x => x < j) /\ (i # x => x < i)
      BY <1>1, <2>2, <2>5, <2>6, <3>1, <3>2
    <3>3. j # x => w[j].start < w[x].start
      BY <3>0 DEF Descending
    <3>4. i # x => v[i].start < v[x].start
      BY <2>6, <3>0 DEF Descending
    <3>5. j = x \/ i = x
      BY <1>1, <2>5, <2>6, <3>1, <3>2, <3>3, <3>4
    <3> QED
      BY <3>1, <3>2, <3>5
  <2>7. ASSUME NEW i \in 1 .. x
        PROVE  (i \in DOMAIN v <=> i \in DOMAIN w) /\ (i \in DOMAIN v => v[i] = w[i])
    <3>1. i = x \/ i \in 1 .. k
      BY <2>2
    <3> QED
      BY <2>1, <2>5, <2>6, <3>1
  <2> QED
    BY <2>2, <2>7 DEF x
<1> HIDE DEF T
<1>4. Nat \subseteq T
  BY <1>2, <1>3, NatInduct
<1>5. ASSUME NEW i \in Nat, i > 0
      PROVE  (i \in DOMAIN v <=> i \in DOMAIN w) /\ (i \in DOMAIN v => v[i] = w[i])
  <2>1. i \in T /\ i \in 1 .. i
    BY <1>4, <1>5
  <2> QED
    BY <2>1 DEF T
<1>6. DOMAIN v = DOMAIN w
  <2>1. \A i \in DOMAIN v \cup DOMAIN w : i \in Nat /\ i > 0
    BY <1>1
  <2>2. \A i \in DOMAIN v \cup DOMAIN w : i \in DOMAIN v <=> i \in DOMAIN w
    BY <1>5, <2>1
  <2> QED
    BY <2>2
<1>7. Len(v) = Len(w) /\ \A i \in 1 .. Len(v) : v[i] = w[i]
  <2>1. Len(v) = Len(w)
    <3>1. \A a, b \in Nat : 1 .. a = 1 .. b => a <= b
      <4> SUFFICES ASSUME NEW a \in Nat, NEW b \in Nat, 1 .. a = 1 .. b, a > b PROVE FALSE
        OBVIOUS
      <4>1. a \in 1 .. a /\ a \notin 1 .. b
        OBVIOUS
      <4> QED
        BY <4>1
    <3> DEFINE a == Len(v)
               b == Len(w)
    <3>2. a \in Nat /\ b \in Nat /\ 1 .. a = 1 .. b
      BY <1>1, <1>6
    <3> HIDE DEF a, b
    <3>3. a <= b /\ b <= a
      BY <3>1, <3>2
    <3>4. a = b
      BY <3>2, <3>3
    <3> QED
      BY <3>4 DEF a, b
  <2>2. \A i \in 1 .. Len(v) : i \in Nat /\ i > 0 /\ i \in DOMAIN v
    BY <1>1
  <2> QED
    BY <1>5, <1>6, <2>1, <2>2
<1> QED
  BY <1>7, SeqEqual

(***************************************************************************)
(* The chain a set of patches stands for, composed from the right: after   *)
(* each patch, the chunks from its start on and where they begin.          *)
(***************************************************************************)
Rest(chain, begin) == [chain |-> chain, begin |-> begin]
Laid(acc, p) ==
  Join(Join(Piece(Replaced(p.text)), Piece(Original(p.end, acc.begin))), acc.chain)
ComposeStep(nothing, acc, p) == Rest(Laid(acc, p), p.start)
Composing == INSTANCE FoldFacts WITH Op <- ComposeStep

LEMMA ComposeInducts ==
  Composing!Inductive
BY NatInduct DEF Composing!Inductive

Composed(w) == Composing!Folded(0, Rest(<<>>, Closing), w)
From(begin, acc) == Join(Piece(Original(begin, acc.begin)), acc.chain)

\* Every patch ends before the one to its left in the order starts.
Tiled(w) == \A i, j \in DOMAIN w : i < j => w[j].end <= w[i].start

Boundary(w, k) == IF k = 0 THEN Closing ELSE w[k].start
Rests == [chain : Seq(Placed), begin : Int]

LEMMA SpanIsPlaced ==
  ASSUME NEW a \in Int, NEW b \in Int, Opening <= a, a <= b, b <= Closing
  PROVE  /\ Original(a, b) \in Placed /\ IsOriginal(Original(a, b)) /\ ChunkLen(Original(a, b)) = b - a
         /\ Piece(Original(a, b)) \in Seq(Placed)
<1>1. Opening \in Int /\ Closing \in Int
  BY OpeningAssumption, SourceAssumption, LenProperties DEF Closing
<1>2. /\ Original(a, b) \in Placed /\ IsOriginal(Original(a, b)) /\ ChunkLen(Original(a, b)) = b - a
  BY <1>1 DEF Original, Placed, Chunk, ChunkLen, InSentence, IsOriginal
<1> QED
  BY <1>2, CellsOfPiece

LEMMA TextIsPlaced ==
  ASSUME NEW text \in Replacements
  PROVE  /\ Replaced(text) \in Placed /\ ~IsOriginal(Replaced(text))
         /\ Piece(Replaced(text)) \in Seq(Placed)
<1>1. Len(text) \in Nat
  BY ReplacementsAssumption, LenProperties
<1>2. Replaced(text) \in Placed /\ ~IsOriginal(Replaced(text))
  BY <1>1 DEF Replaced, Placed, Chunk, ChunkLen, InSentence, IsOriginal
<1> QED
  BY <1>2, CellsOfPiece

LEMMA RestFields ==
  ASSUME NEW chain, NEW begin
  PROVE  /\ Rest(chain, begin).chain = chain /\ Rest(chain, begin).begin = begin
         /\ chain \in Seq(Placed) /\ begin \in Int => Rest(chain, begin) \in Rests
BY DEF Rest, Rests

LEMMA LaidIsPlaced ==
  ASSUME NEW acc \in Rests, NEW p \in SoundPatch, p.end <= acc.begin, acc.begin <= Closing
  PROVE  Laid(acc, p) \in Seq(Placed) /\ ComposeStep(0, acc, p) \in Rests
<1>1. /\ p.start \in Int /\ p.end \in Int /\ p.text \in Replacements
      /\ Opening <= p.start /\ p.start < p.end /\ acc.begin \in Int /\ acc.chain \in Seq(Placed)
  BY DEF SoundPatch, PatchRecord, Rests
<1>2. Opening <= p.end
  BY <1>1, OpeningAssumption
<1> DEFINE x == Piece(Replaced(p.text))
           y == Piece(Original(p.end, acc.begin))
<1>3. x \in Seq(Placed) /\ y \in Seq(Placed)
  BY <1>1, <1>2, SpanIsPlaced, TextIsPlaced
<1>4. Laid(acc, p) = Join(Join(x, y), acc.chain)
  BY DEF Laid
<1> HIDE DEF x, y
<1>5. Laid(acc, p) \in Seq(Placed)
  <2>1. Join(x, y) \in Seq(Placed)
    BY <1>3, JoinAssociates
  <2>2. Join(Join(x, y), acc.chain) \in Seq(Placed)
    BY <1>1, <2>1, JoinAssociates
  <2> QED
    BY <1>4, <2>2
<1> QED
  BY <1>1, <1>5, RestFields DEF ComposeStep

IsComposed(w, g) ==
  /\ g[0] = Rest(<<>>, Closing)
  /\ \A k \in 1 .. Len(w) : g[k] = ComposeStep(0, g[k - 1], w[k]) /\ w[k].end <= g[k - 1].begin
  /\ \A k \in 0 .. Len(w) : g[k] \in Rests /\ g[k].begin = Boundary(w, k)
  /\ \A k \in 0 .. Len(w) : Opening <= g[k].begin /\ g[k].begin <= Closing
  /\ Composed(w) = g[Len(w)]

LEMMA ComposedHasTrace ==
  ASSUME NEW w \in Seq(SoundPatch), Tiled(w)
  PROVE  \E g : IsComposed(w, g)
<1> DEFINE n == Len(w)
           I == [k \in 0 .. n |-> {acc \in Rests : acc.begin = Boundary(w, k)}]
<1>1. n \in Nat /\ DOMAIN w = 1 .. n /\ \A k \in 1 .. n : w[k] \in SoundPatch
  OBVIOUS
<1>2. Opening \in Int /\ Closing \in Int /\ Opening <= Closing
  BY OpeningAssumption, SourceAssumption, LenProperties DEF Closing
<1>3. \A k \in 1 .. n : /\ w[k].start \in Int /\ w[k].end \in Int
                        /\ Opening <= w[k].start /\ w[k].start < w[k].end /\ w[k].end <= Closing
  BY <1>1 DEF SoundPatch, PatchRecord
<1> HIDE DEF n
<1>4. \A k \in 0 .. n : Boundary(w, k) \in Int /\ Opening <= Boundary(w, k) /\ Boundary(w, k) <= Closing
  <2> TAKE k \in 0 .. n
  <2>1. CASE k = 0
    BY <1>2, <2>1 DEF Boundary
  <2>2. CASE k # 0
    <3>1. k \in 1 .. n
      BY <1>1, <2>2
    <3>2. w[k].start <= Closing
      BY <1>2, <1>3, <3>1
    <3> QED
      BY <1>3, <2>2, <3>1, <3>2 DEF Boundary
  <2> QED
    BY <2>1, <2>2
<1>5. \A k \in 1 .. n : w[k].end <= Boundary(w, k - 1)
  <2> TAKE k \in 1 .. n
  <2>1. CASE k = 1
    BY <1>3, <2>1 DEF Boundary
  <2>2. CASE k # 1
    <3>1. k - 1 \in DOMAIN w /\ k \in DOMAIN w /\ k - 1 < k /\ k - 1 # 0
      BY <1>1, <2>2
    <3> QED
      BY <3>1 DEF Tiled, Boundary
  <2> QED
    BY <2>1, <2>2
<1>6. Rest(<<>>, Closing) \in I[0]
  <2>1. 0 \in 0 .. n /\ <<>> \in Seq(Placed)
    BY <1>1, EmptySeq
  <2> QED
    BY <1>2, <2>1, RestFields DEF Boundary
<1>7. ASSUME NEW k \in 1 .. n, NEW acc \in I[k - 1]
      PROVE  ComposeStep(0, acc, w[k]) \in I[k]
  <2>1. k - 1 \in 0 .. n /\ k \in 0 .. n /\ k # 0
    BY <1>1
  <2>2. acc \in Rests /\ acc.begin = Boundary(w, k - 1)
    BY <1>7, <2>1
  <2>3. w[k].end <= acc.begin /\ acc.begin <= Closing
    BY <1>4, <1>5, <2>1, <2>2
  <2>4. ComposeStep(0, acc, w[k]) \in Rests
    BY <1>1, <2>2, <2>3, LaidIsPlaced
  <2>5. ComposeStep(0, acc, w[k]).begin = Boundary(w, k)
    BY <2>1, RestFields DEF ComposeStep, Boundary
  <2> QED
    BY <2>1, <2>4, <2>5
<1>8. \A k \in 0 .. n : \A acc \in I[k] : acc \in Rests /\ acc.begin = Boundary(w, k)
  OBVIOUS
<1> HIDE DEF I
<1>9. Composing!HasTraceIn(0, Rest(<<>>, Closing), n, w, I)
  BY <1>1, <1>6, <1>7, Composing!FoldTrace, ComposeInducts DEF Composing!IsPassedOn
<1>10. PICK g : /\ Composing!IsTrace(0, Rest(<<>>, Closing), n, w, g)
                /\ \A k \in 0 .. n : g[k] \in I[k]
                /\ Composing!Folded(0, Rest(<<>>, Closing), w) = g[n]
  BY <1>9 DEF Composing!HasTraceIn
<1>11. \A k \in 0 .. n : g[k] \in Rests /\ g[k].begin = Boundary(w, k)
  BY <1>8, <1>10
<1>12. \A k \in 1 .. n : g[k] = ComposeStep(0, g[k - 1], w[k]) /\ w[k].end <= g[k - 1].begin
  <2> TAKE k \in 1 .. n
  <2>1. k - 1 \in 0 .. n
    BY <1>1
  <2> QED
    BY <1>5, <1>10, <1>11, <2>1 DEF Composing!IsTrace
<1>13. \A k \in 0 .. n : Opening <= g[k].begin /\ g[k].begin <= Closing
  BY <1>4, <1>11
<1>14. g[0] = Rest(<<>>, Closing) /\ Composed(w) = g[n]
  BY <1>10 DEF Composing!IsTrace, Composed
<1> QED
  BY <1>11, <1>12, <1>13, <1>14 DEF IsComposed, n

(***************************************************************************)
(* apply_recapitalize's replay composes that very chain: every patch finds *)
(* its span in the first chunk, which is still original.                   *)
(***************************************************************************)
ReplayStep(nothing, splicer, p) == Apply(splicer, Span(p.start - Opening, p.end - Opening), p.text)
Replaying == INSTANCE FoldFacts WITH Op <- ReplayStep

LEMMA ReplayInducts ==
  Replaying!Inductive
BY NatInduct DEF Replaying!Inductive

LEMMA ReplayIsAFold ==
  ASSUME NEW recorded
  PROVE  Replayed(recorded) = Replaying!Folded(0, Seeded, SpliceOrder(recorded))
<1> DEFINE order == SpliceOrder(recorded)
<1> HIDE DEF order
<1>1. FoldLeft(LAMBDA splicer, p : Apply(splicer, Span(p.start - Opening, p.end - Opening), p.text), Seeded, order)
        = Replaying!Folded(0, Seeded, order)
  BY DEF Replaying!Folded, ReplayStep, FoldLeft, MapThenFoldSet, Max
<1> QED
  BY <1>1 DEF Replayed, ReplayOrder, order

LEMMA SplitsFirst ==
  ASSUME NEW c \in Placed, NEW X \in Seq(Placed), NEW pieces \in Seq(Placed)
  PROVE  LET chain == Join(<<c>>, X)
         IN  /\ chain \in Seq(Placed) /\ Len(chain) = Len(X) + 1 /\ chain[1] = c
             /\ Cursor(chain, 1) = 0
             /\ Reshaped(chain, 1, pieces) = Join(pieces, X)
<1> DEFINE chain == <<c>> \o X
<1>1. /\ chain \in Seq(Placed) /\ Len(chain) = Len(X) + 1 /\ chain[1] = c /\ Len(X) \in Nat
      /\ \A k \in 1 .. Len(X) : chain[k + 1] = X[k]
  OBVIOUS
<1> HIDE DEF chain
<1>2. 1 \in 1 .. Len(chain) /\ 1 - 1 = 0 /\ 1 + 1 = 2
  BY <1>1
<1>3. SubSeq(chain, 1, 0) = <<>>
  BY <1>1
<1>4. Cursor(chain, 1) = 0
  <2>1. Ahead(chain, 1) = <<>>
    BY <1>2, <1>3 DEF Ahead
  <2>2. Len(Cells(<<>>)) = 0
    <3>1. Cells(<<>>) = <<>>
      BY CellsOfOne
    <3>2. Len(<<>>) = 0
      OBVIOUS
    <3> QED
      BY <3>1, <3>2
  <2> QED
    BY <1>1, <1>2, <2>1, <2>2, CursorCounts
<1>5. SubSeq(chain, 2, Len(chain)) = X
  <2> DEFINE u == SubSeq(chain, 2, Len(chain))
  <2>1. u \in Seq(Placed) /\ Len(u) = Len(X) /\ \A k \in 1 .. Len(X) : u[k] = chain[k + 1]
    BY <1>1
  <2> HIDE DEF u
  <2>2. u = X
    BY <1>1, <2>1, SeqEqual
  <2> QED
    BY <2>2 DEF u
<1>6. Reshaped(chain, 1, pieces) = pieces \o X
  <2>1. Reshaped(chain, 1, pieces) = <<>> \o pieces \o X
    BY <1>2, <1>3, <1>5 DEF Reshaped
  <2>2. <<>> \o pieces = pieces
    BY ConcatEmptySeq
  <2> QED
    BY <2>1, <2>2
<1> QED
  BY <1>1, <1>4, <1>6 DEF Join, chain

LEMMA ReplaysOne ==
  ASSUME NEW acc \in Rests, NEW p \in SoundPatch, p.end <= acc.begin, acc.begin <= Closing,
         NEW splicer, splicer.chunks = From(Opening, acc)
  PROVE  ReplayStep(0, splicer, p).chunks = From(Opening, ComposeStep(0, acc, p))
<1> DEFINE c == Original(Opening, acc.begin)
           X == acc.chain
           chain == Join(<<c>>, X)
           r == Span(p.start - Opening, p.end - Opening)
           target == Target(chain, 1, r)
           pieces == Pieces(c, Span(p.start, p.end), p.text)
<1>1. /\ p.start \in Int /\ p.end \in Int /\ p.text \in Replacements
      /\ Opening <= p.start /\ p.start < p.end /\ acc.begin \in Int /\ X \in Seq(Placed)
      /\ Opening \in Nat
  BY OpeningAssumption DEF SoundPatch, PatchRecord, Rests
<1>2. Opening <= acc.begin /\ acc.begin - Opening > 0 /\ Opening <= p.end
  BY <1>1
<1>3. c \in Placed /\ IsOriginal(c) /\ ChunkLen(c) = acc.begin - Opening
  BY <1>1, <1>2, SpanIsPlaced
<1>4. From(Opening, acc) = chain
  BY <1>2, <1>3 DEF From, Piece
<1>5. /\ Piece(Original(Opening, p.start)) \in Seq(Placed)
      /\ Piece(Replaced(p.text)) \in Seq(Placed)
      /\ Piece(Original(p.end, acc.begin)) \in Seq(Placed)
  <2>1. p.start <= Closing /\ Opening \in Int
    BY <1>1, OpeningAssumption, SourceAssumption, LenProperties DEF Closing
  <2>2. Piece(Original(Opening, p.start)) \in Seq(Placed)
    BY <1>1, <2>1, SpanIsPlaced
  <2>3. Piece(Original(p.end, acc.begin)) \in Seq(Placed)
    BY <1>1, <1>2, SpanIsPlaced
  <2> QED
    BY <1>1, <2>2, <2>3, TextIsPlaced
<1>6. c.start = Opening /\ c.end = acc.begin
  BY DEF Original
<1>7. pieces = Join(Join(Piece(Original(Opening, p.start)), Piece(Replaced(p.text))), Piece(Original(p.end, acc.begin)))
  BY <1>6 DEF Pieces, Join, Span
<1>8. Join(Piece(Original(Opening, p.start)), Piece(Replaced(p.text))) \in Seq(Placed)
  BY <1>5, JoinAssociates
<1>9. pieces \in Seq(Placed)
  BY <1>5, <1>7, <1>8, JoinAssociates
<1>10. r.start = p.start - Opening /\ r.end = p.end - Opening
  BY DEF Span
<1> HIDE DEF c, r, pieces, X
<1>11. /\ chain \in Seq(Placed) /\ Len(chain) = Len(X) + 1 /\ chain[1] = c
       /\ Cursor(chain, 1) = 0
       /\ Reshaped(chain, 1, pieces) = Join(pieces, X)
  BY <1>1, <1>3, <1>9, SplitsFirst
<1> HIDE DEF chain
<1>12. 1 \in DOMAIN chain /\ DOMAIN chain = 1 .. Len(chain) /\ 1 - 1 = 0
  BY <1>1, <1>11, LenProperties
<1>13. Holds(chain, 1, r)
  BY <1>1, <1>3, <1>10, <1>11 DEF Holds
<1>14. CanApplyAt(chain, 1, r)
  <2>1. \A j \in 1 .. 1 - 1 : FALSE
    OBVIOUS
  <2> QED
    BY <1>3, <1>11, <1>13, <2>1 DEF CanApplyAt, StopsAt
<1>15. ASSUME NEW i \in DOMAIN chain, CanApplyAt(chain, i, r) PROVE i = 1
  <2>1. i # 1 => 1 \in 1 .. i - 1
    BY <1>11, <1>12
  <2> QED
    BY <1>13, <1>15, <2>1 DEF CanApplyAt, StopsAt
<1>16. (CHOOSE i \in DOMAIN chain : CanApplyAt(chain, i, r)) = 1
  BY <1>12, <1>14, <1>15
<1>17. splicer.chunks = chain /\ CanApply(chain, r)
  BY <1>4, <1>12, <1>14 DEF CanApply
<1>18. Apply(splicer, r, p.text) = ApplyAt(splicer, 1, r, p.text)
  BY <1>16, <1>17 DEF Apply
<1>19. target = Span(p.start, p.end)
  <2>1. Opening + (r.start - 0) = p.start /\ Opening + (r.end - 0) = p.end
    BY <1>1, <1>10
  <2> QED
    BY <1>6, <1>11, <2>1 DEF Target
<1>20. ApplyAt(splicer, 1, r, p.text).chunks = Join(pieces, X)
  BY <1>11, <1>17, <1>19 DEF ApplyAt, pieces
<1>21. Join(pieces, X) = Join(Piece(Original(Opening, p.start)), Laid(acc, p))
  <2> DEFINE a == Piece(Original(Opening, p.start))
             b == Piece(Replaced(p.text))
             d == Piece(Original(p.end, acc.begin))
  <2>1. a \in Seq(Placed) /\ b \in Seq(Placed) /\ d \in Seq(Placed) /\ X \in Seq(Placed)
    BY <1>1, <1>5
  <2>2. pieces = Join(Join(a, b), d) /\ Laid(acc, p) = Join(Join(b, d), X)
    BY <1>7 DEF Laid, X
  <2> HIDE DEF a, b, d
  <2>3. Join(Join(a, b), d) = Join(a, Join(b, d)) /\ Join(b, d) \in Seq(Placed)
    BY <2>1, JoinAssociates
  <2>4. Join(Join(a, Join(b, d)), X) = Join(a, Join(Join(b, d), X))
    BY <2>1, <2>3, JoinAssociates
  <2> QED
    BY <2>2, <2>3, <2>4 DEF a
<1>22. From(Opening, ComposeStep(0, acc, p)) = Join(Piece(Original(Opening, p.start)), Laid(acc, p))
  BY RestFields DEF From, ComposeStep
<1> QED
  BY <1>18, <1>20, <1>21, <1>22 DEF ReplayStep, r

LEMMA ReplayComposes ==
  ASSUME NEW recorded, NEW w \in Seq(SoundPatch), Tiled(w), w = SpliceOrder(recorded)
  PROVE  Replayed(recorded).chunks = From(Opening, Composed(w))
<1> DEFINE n == Len(w)
<1>1. n \in Nat /\ DOMAIN w = 1 .. n /\ \A k \in 1 .. n : w[k] \in SoundPatch
  OBVIOUS
<1>2. PICK g : IsComposed(w, g)
  BY ComposedHasTrace
<1>3. /\ g[0] = Rest(<<>>, Closing) /\ Composed(w) = g[n]
      /\ \A k \in 0 .. n : g[k] \in Rests /\ g[k].begin <= Closing
      /\ \A k \in 1 .. n : g[k] = ComposeStep(0, g[k - 1], w[k]) /\ w[k].end <= g[k - 1].begin
  BY <1>2 DEF IsComposed
<1> HIDE DEF n
<1>4. PICK h : Replaying!IsTrace(0, Seeded, n, w, h) /\ Replaying!Folded(0, Seeded, w) = h[n]
  BY <1>1, Replaying!FoldHasTrace, ReplayInducts
<1> DEFINE T == {k \in Nat : k <= n => h[k].chunks = From(Opening, g[k])}
<1>5. 0 \in T
  <2>1. Seeded.chunks = <<Original(Opening, Closing)>>
    BY DEF Seeded
  <2>2. /\ Original(Opening, Closing) \in Placed
        /\ Piece(Original(Opening, Closing)) = <<Original(Opening, Closing)>>
    <3>1. Opening \in Int /\ Closing \in Int /\ Opening < Closing
      BY OpeningAssumption, SourceAssumption, LenProperties DEF Closing
    <3>2. Closing - Opening > 0
      BY <3>1
    <3> QED
      BY <3>1, <3>2, SpanIsPlaced DEF Piece
  <2>3. From(Opening, g[0]) = Join(<<Original(Opening, Closing)>>, <<>>)
    BY <1>3, <2>2, RestFields DEF From
  <2>4. Join(<<Original(Opening, Closing)>>, <<>>) = <<Original(Opening, Closing)>>
    BY DEF Join
  <2> QED
    BY <1>4, <2>1, <2>3, <2>4 DEF Replaying!IsTrace
<1>6. ASSUME NEW k \in Nat, k \in T PROVE k + 1 \in T
  <2>1. SUFFICES ASSUME k + 1 <= n PROVE h[k + 1].chunks = From(Opening, g[k + 1])
    OBVIOUS
  <2> DEFINE x == k + 1
  <2>2. x \in 1 .. n /\ x - 1 = k /\ k \in 0 .. n /\ h[k].chunks = From(Opening, g[k])
    BY <1>1, <1>6, <2>1
  <2> HIDE DEF x
  <2>3. h[x] = ReplayStep(0, h[k], w[x])
    BY <1>4, <2>2 DEF Replaying!IsTrace
  <2>4. g[x] = ComposeStep(0, g[k], w[x]) /\ w[x].end <= g[k].begin /\ w[x] \in SoundPatch
    BY <1>1, <1>3, <2>2
  <2>5. g[k] \in Rests /\ g[k].begin <= Closing
    BY <1>3, <2>2
  <2>6. h[x].chunks = From(Opening, g[x])
    BY <2>2, <2>3, <2>4, <2>5, ReplaysOne
  <2> QED
    BY <2>6 DEF x
<1> HIDE DEF T
<1>7. n \in T
  BY <1>1, <1>5, <1>6, NatInduct
<1>8. h[n].chunks = From(Opening, g[n])
  BY <1>1, <1>7 DEF T
<1> QED
  BY <1>3, <1>4, <1>8, ReplayIsAFold

(***************************************************************************)
(* A patch put in its place among the others splits one original chunk of  *)
(* the chain they stand for, as an accepted edit does, and nothing else.   *)
(***************************************************************************)
SplitBy(u, v, p) ==
  \E F \in Seq(Placed), T \in Seq(Placed), lo \in Int, hi \in Int :
    /\ Opening <= lo /\ lo <= p.start /\ p.end <= hi /\ hi <= Closing
    /\ u = Join(Join(F, <<Original(lo, hi)>>), T)
    /\ v = Join(Join(F, Pieces(Original(lo, hi), Span(p.start, p.end), p.text)), T)

Parted(acc, bcc, p) ==
  \A lo \in Int : Opening <= lo /\ lo <= bcc.begin => SplitBy(From(lo, acc), From(lo, bcc), p)

LEMMA PiecesAre ==
  ASSUME NEW lo \in Int, NEW hi \in Int, NEW p \in SoundPatch,
         Opening <= lo, lo <= p.start, p.end <= hi, hi <= Closing
  PROVE  /\ Original(lo, hi) \in Placed /\ Piece(Original(lo, hi)) = <<Original(lo, hi)>>
         /\ Piece(Original(lo, p.start)) \in Seq(Placed)
         /\ Piece(Replaced(p.text)) \in Seq(Placed)
         /\ Piece(Original(p.end, hi)) \in Seq(Placed)
         /\ Pieces(Original(lo, hi), Span(p.start, p.end), p.text) =
              Join(Join(Piece(Original(lo, p.start)), Piece(Replaced(p.text))), Piece(Original(p.end, hi)))
         /\ Pieces(Original(lo, hi), Span(p.start, p.end), p.text) \in Seq(Placed)
<1>1. /\ p.start \in Int /\ p.end \in Int /\ p.text \in Replacements
      /\ Opening <= p.start /\ p.start < p.end /\ Opening \in Int /\ Closing \in Int /\ p.end <= Closing
  BY OpeningAssumption, SourceAssumption, LenProperties DEF SoundPatch, PatchRecord, Closing
<1>2. lo <= hi /\ hi - lo > 0 /\ Opening <= p.end /\ p.start <= Closing
  BY <1>1
<1>3. Original(lo, hi) \in Placed /\ Piece(Original(lo, hi)) = <<Original(lo, hi)>>
  BY <1>1, <1>2, SpanIsPlaced DEF Piece
<1>4. /\ Piece(Original(lo, p.start)) \in Seq(Placed)
      /\ Piece(Replaced(p.text)) \in Seq(Placed)
      /\ Piece(Original(p.end, hi)) \in Seq(Placed)
  BY <1>1, <1>2, SpanIsPlaced, TextIsPlaced
<1>5. /\ Original(lo, hi).start = lo /\ Original(lo, hi).end = hi
      /\ Span(p.start, p.end).start = p.start /\ Span(p.start, p.end).end = p.end
  BY DEF Original, Span
<1>6. Pieces(Original(lo, hi), Span(p.start, p.end), p.text) =
        Join(Join(Piece(Original(lo, p.start)), Piece(Replaced(p.text))), Piece(Original(p.end, hi)))
  BY <1>5 DEF Pieces, Join
<1>7. Join(Piece(Original(lo, p.start)), Piece(Replaced(p.text))) \in Seq(Placed)
  BY <1>4, JoinAssociates
<1>8. Join(Join(Piece(Original(lo, p.start)), Piece(Replaced(p.text))), Piece(Original(p.end, hi))) \in Seq(Placed)
  BY <1>4, <1>7, JoinAssociates
<1> QED
  BY <1>3, <1>4, <1>6, <1>8

LEMMA SplitBehind ==
  ASSUME NEW u, NEW v, NEW p \in SoundPatch, SplitBy(u, v, p), NEW X \in Seq(Placed)
  PROVE  SplitBy(Join(X, u), Join(X, v), p)
<1>1. PICK F \in Seq(Placed), T \in Seq(Placed), lo \in Int, hi \in Int :
        /\ Opening <= lo /\ lo <= p.start /\ p.end <= hi /\ hi <= Closing
        /\ u = Join(Join(F, <<Original(lo, hi)>>), T)
        /\ v = Join(Join(F, Pieces(Original(lo, hi), Span(p.start, p.end), p.text)), T)
  BY DEF SplitBy
<1> DEFINE c == <<Original(lo, hi)>>
           d == Pieces(Original(lo, hi), Span(p.start, p.end), p.text)
<1>2. c \in Seq(Placed) /\ d \in Seq(Placed)
  BY <1>1, PiecesAre
<1>3. Join(X, F) \in Seq(Placed)
  BY JoinAssociates
<1>4. ASSUME NEW m \in Seq(Placed)
      PROVE  Join(X, Join(Join(F, m), T)) = Join(Join(Join(X, F), m), T)
  <2>1. Join(F, m) \in Seq(Placed)
    BY <1>4, JoinAssociates
  <2>2. Join(X, Join(Join(F, m), T)) = Join(Join(X, Join(F, m)), T)
    BY <2>1, JoinAssociates
  <2>3. Join(X, Join(F, m)) = Join(Join(X, F), m)
    BY <1>4, JoinAssociates
  <2> QED
    BY <2>2, <2>3
<1> HIDE DEF c, d
<1>5. Join(X, u) = Join(Join(Join(X, F), c), T) /\ Join(X, v) = Join(Join(Join(X, F), d), T)
  BY <1>1, <1>2, <1>4 DEF c, d
<1> QED
  BY <1>1, <1>3, <1>5 DEF SplitBy, c, d

LEMMA PartsHere ==
  ASSUME NEW acc \in Rests, NEW p \in SoundPatch, p.end <= acc.begin, acc.begin <= Closing
  PROVE  Parted(acc, ComposeStep(0, acc, p), p)
<1> DEFINE bcc == ComposeStep(0, acc, p)
<1>1. bcc.begin = p.start /\ bcc.chain = Laid(acc, p)
  BY RestFields DEF ComposeStep
<1>2. SUFFICES ASSUME NEW lo \in Int, Opening <= lo, lo <= p.start
               PROVE  SplitBy(From(lo, acc), From(lo, bcc), p)
  BY <1>1 DEF Parted
<1> DEFINE hi == acc.begin
           X == acc.chain
           a == Piece(Original(lo, p.start))
           b == Piece(Replaced(p.text))
           d == Piece(Original(p.end, hi))
           c == <<Original(lo, hi)>>
           pieces == Pieces(Original(lo, hi), Span(p.start, p.end), p.text)
<1>3. hi \in Int /\ X \in Seq(Placed)
  BY DEF Rests
<1>4. /\ c \in Seq(Placed) /\ Piece(Original(lo, hi)) = c
      /\ a \in Seq(Placed) /\ b \in Seq(Placed) /\ d \in Seq(Placed)
      /\ pieces = Join(Join(a, b), d) /\ pieces \in Seq(Placed)
  <2>1. Original(lo, hi) \in Placed
    BY <1>2, <1>3, PiecesAre
  <2>2. c \in Seq(Placed)
    BY <2>1
  <2>3. Piece(Original(lo, hi)) = c /\ a \in Seq(Placed) /\ b \in Seq(Placed) /\ d \in Seq(Placed)
    BY <1>2, <1>3, PiecesAre
  <2>4. pieces = Join(Join(a, b), d) /\ pieces \in Seq(Placed)
    BY <1>2, <1>3, PiecesAre
  <2> QED
    BY <2>2, <2>3, <2>4
<1>5. From(lo, acc) = Join(c, X)
  BY <1>4 DEF From
<1>6. From(lo, bcc) = Join(a, Join(Join(b, d), X))
  BY <1>1 DEF From, Laid
<1>7. <<>> \in Seq(Placed) /\ Join(<<>>, c) = c /\ Join(<<>>, pieces) = pieces
  BY <1>4, EmptySeq, ConcatEmptySeq DEF Join
<1> HIDE DEF a, b, d, c, pieces, X, bcc
<1>8. Join(a, Join(Join(b, d), X)) = Join(pieces, X)
  <2>1. Join(Join(a, b), d) = Join(a, Join(b, d)) /\ Join(b, d) \in Seq(Placed)
    BY <1>4, JoinAssociates
  <2>2. Join(Join(a, Join(b, d)), X) = Join(a, Join(Join(b, d), X))
    BY <1>3, <1>4, <2>1, JoinAssociates
  <2> QED
    BY <1>4, <2>1, <2>2
<1>9. /\ From(lo, acc) = Join(Join(<<>>, c), X)
      /\ From(lo, bcc) = Join(Join(<<>>, pieces), X)
  BY <1>5, <1>6, <1>7, <1>8
<1> QED
  BY <1>2, <1>3, <1>7, <1>9 DEF SplitBy, c, pieces

LEMMA PartsOn ==
  ASSUME NEW acc \in Rests, NEW bcc \in Rests, NEW p \in SoundPatch, NEW q \in SoundPatch,
         Parted(acc, bcc, p), q.end <= acc.begin, acc.begin <= Closing,
         q.end <= bcc.begin, bcc.begin <= Closing
  PROVE  Parted(ComposeStep(0, acc, q), ComposeStep(0, bcc, q), p)
<1>1. /\ q.start \in Int /\ q.end \in Int /\ Opening <= q.start /\ q.start < q.end
      /\ q.text \in Replacements /\ Opening \in Int /\ q.end <= Closing /\ Closing \in Int
  BY OpeningAssumption, SourceAssumption, LenProperties DEF SoundPatch, PatchRecord, Closing
<1>2. SplitBy(From(q.end, acc), From(q.end, bcc), p)
  BY <1>1 DEF Parted
<1>3. ASSUME NEW x \in Rests, q.end <= x.begin, x.begin <= Closing, NEW lo \in Int
      PROVE  /\ ComposeStep(0, x, q).begin = q.start
             /\ Opening <= lo /\ lo <= q.start =>
                  From(lo, ComposeStep(0, x, q)) =
                    Join(Piece(Original(lo, q.start)), Join(Piece(Replaced(q.text)), From(q.end, x)))
  <2>1. ComposeStep(0, x, q).begin = q.start /\ ComposeStep(0, x, q).chain = Laid(x, q)
    BY RestFields DEF ComposeStep
  <2>2. x.begin \in Int /\ x.chain \in Seq(Placed) /\ Opening <= q.end
    BY <1>1, <1>3 DEF Rests
  <2>3. Piece(Replaced(q.text)) \in Seq(Placed) /\ Piece(Original(q.end, x.begin)) \in Seq(Placed)
    BY <1>1, <1>3, <2>2, SpanIsPlaced, TextIsPlaced
  <2>4. Laid(x, q) = Join(Piece(Replaced(q.text)), From(q.end, x))
    <3> DEFINE a == Piece(Replaced(q.text))
               b == Piece(Original(q.end, x.begin))
               d == x.chain
    <3>1. a \in Seq(Placed) /\ b \in Seq(Placed) /\ d \in Seq(Placed)
      BY <2>2, <2>3
    <3>2. Laid(x, q) = Join(Join(a, b), d) /\ From(q.end, x) = Join(b, d)
      BY DEF Laid, From
    <3> HIDE DEF a, b, d
    <3>3. Join(Join(a, b), d) = Join(a, Join(b, d))
      BY <3>1, JoinAssociates
    <3> QED
      BY <3>2, <3>3 DEF a
  <2> QED
    BY <2>1, <2>4 DEF From
<1>4. SUFFICES ASSUME NEW lo \in Int, Opening <= lo, lo <= q.start
               PROVE  SplitBy(From(lo, ComposeStep(0, acc, q)), From(lo, ComposeStep(0, bcc, q)), p)
  BY <1>3 DEF Parted
<1>5. Piece(Original(lo, q.start)) \in Seq(Placed) /\ Piece(Replaced(q.text)) \in Seq(Placed)
  <2>1. q.start <= Closing
    BY <1>1
  <2> QED
    BY <1>1, <1>4, <2>1, SpanIsPlaced, TextIsPlaced
<1>6. SplitBy(Join(Piece(Replaced(q.text)), From(q.end, acc)), Join(Piece(Replaced(q.text)), From(q.end, bcc)), p)
  BY <1>2, <1>5, SplitBehind
<1>7. SplitBy(Join(Piece(Original(lo, q.start)), Join(Piece(Replaced(q.text)), From(q.end, acc))),
              Join(Piece(Original(lo, q.start)), Join(Piece(Replaced(q.text)), From(q.end, bcc))), p)
  BY <1>5, <1>6, SplitBehind
<1> QED
  BY <1>3, <1>4, <1>7

LEMMA ComposedInserts ==
  ASSUME NEW w \in Seq(SoundPatch), Tiled(w), NEW p \in SoundPatch, NEW at \in 0 .. Len(w),
         NEW v \in Seq(SoundPatch), Tiled(v), Len(v) = Len(w) + 1,
         \A k \in 1 .. Len(w) + 1 :
           v[k] = IF k <= at THEN w[k] ELSE IF k = at + 1 THEN p ELSE w[k - 1]
  PROVE  SplitBy(From(Opening, Composed(w)), From(Opening, Composed(v)), p)
<1> DEFINE n == Len(w)
           m == Len(v)
<1>1. /\ n \in Nat /\ at \in Nat /\ at <= n /\ m = n + 1
      /\ \A k \in 1 .. n + 1 : v[k] = IF k <= at THEN w[k] ELSE IF k = at + 1 THEN p ELSE w[k - 1]
      /\ \A k \in 1 .. n : w[k] \in SoundPatch
  OBVIOUS
<1>2. PICK g : IsComposed(w, g)
  BY ComposedHasTrace
<1>3. PICK h : IsComposed(v, h)
  BY ComposedHasTrace
<1>4. /\ g[0] = Rest(<<>>, Closing) /\ Composed(w) = g[n]
      /\ \A k \in 0 .. n : g[k] \in Rests /\ g[k].begin <= Closing
      /\ \A k \in 1 .. n : g[k] = ComposeStep(0, g[k - 1], w[k]) /\ w[k].end <= g[k - 1].begin
  BY <1>2 DEF IsComposed
<1>5. /\ h[0] = Rest(<<>>, Closing) /\ Composed(v) = h[m]
      /\ \A k \in 0 .. m : h[k] \in Rests /\ h[k].begin <= Closing /\ Opening <= h[k].begin
      /\ \A k \in 1 .. m : h[k] = ComposeStep(0, h[k - 1], v[k]) /\ v[k].end <= h[k - 1].begin
  BY <1>3 DEF IsComposed
<1> HIDE DEF n, m
<1> DEFINE T == {k \in Nat : k <= at => h[k] = g[k]}
<1>6. 0 \in T
  BY <1>4, <1>5
<1>7. ASSUME NEW k \in Nat, k \in T PROVE k + 1 \in T
  <2>1. SUFFICES ASSUME k + 1 <= at PROVE h[k + 1] = g[k + 1]
    OBVIOUS
  <2> DEFINE x == k + 1
  <2>2. x \in 1 .. n /\ x \in 1 .. m /\ x \in 1 .. n + 1 /\ x <= at /\ x - 1 = k /\ h[k] = g[k]
    BY <1>1, <1>7, <2>1
  <2> HIDE DEF x
  <2>3. v[x] = w[x]
    BY <1>1, <2>2
  <2>4. h[x] = g[x]
    BY <1>4, <1>5, <2>2, <2>3
  <2> QED
    BY <2>4 DEF x
<1> HIDE DEF T
<1>8. at \in T
  BY <1>1, <1>6, <1>7, NatInduct
<1>9. h[at] = g[at]
  BY <1>1, <1>8 DEF T
<1> DEFINE x == at + 1
<1>10. Parted(g[at], h[x], p)
  <2>1. x \in 1 .. m /\ x \in 1 .. n + 1 /\ x - 1 = at /\ at \in 0 .. n /\ ~(x <= at)
    BY <1>1
  <2>2. v[x] = p
    BY <1>1, <2>1
  <2>3. h[x] = ComposeStep(0, g[at], p) /\ p.end <= g[at].begin
    BY <1>5, <1>9, <2>1, <2>2
  <2>4. g[at] \in Rests /\ g[at].begin <= Closing
    BY <1>4, <2>1
  <2> QED
    BY <2>3, <2>4, PartsHere
<1> DEFINE U == {k \in Nat : at + k <= n => Parted(g[at + k], h[at + k + 1], p)}
<1>11. 0 \in U
  <2>1. at + 0 = at /\ at + 0 + 1 = x
    BY <1>1
  <2> QED
    BY <1>10, <2>1
<1>12. ASSUME NEW k \in Nat, k \in U PROVE k + 1 \in U
  <2>1. SUFFICES ASSUME at + (k + 1) <= n PROVE Parted(g[at + (k + 1)], h[at + (k + 1) + 1], p)
    OBVIOUS
  <2> DEFINE i == at + k
             y == at + (k + 1)
             z == y + 1
  <2>2. /\ y \in 1 .. n /\ y - 1 = i /\ i \in 0 .. n
        /\ z \in 1 .. m /\ z \in 1 .. n + 1 /\ z - 1 = y /\ y \in 0 .. m
        /\ ~(z <= at) /\ z # at + 1 /\ i + 1 = y
    BY <1>1, <1>12, <2>1
  <2>3. Parted(g[i], h[i + 1], p)
    BY <1>12, <2>2
  <2> HIDE DEF i, y, z
  <2>4. v[z] = w[y]
    BY <1>1, <2>2
  <2>5. g[y] = ComposeStep(0, g[i], w[y]) /\ w[y].end <= g[i].begin /\ g[i] \in Rests /\ g[i].begin <= Closing
    BY <1>4, <2>2
  <2>6. h[z] = ComposeStep(0, h[y], w[y]) /\ w[y].end <= h[y].begin /\ h[y] \in Rests /\ h[y].begin <= Closing
    BY <1>5, <2>2, <2>4
  <2>7. w[y] \in SoundPatch /\ Parted(g[i], h[y], p)
    BY <1>1, <2>2, <2>3
  <2>8. Parted(g[y], h[z], p)
    BY <2>5, <2>6, <2>7, PartsOn
  <2> QED
    BY <2>8 DEF y, z
<1> HIDE DEF U, x
<1>13. n - at \in U
  <2>1. n - at \in Nat
    BY <1>1
  <2> QED
    BY <1>11, <1>12, <2>1, NatInduct
<1>14. Parted(g[n], h[m], p)
  <2>1. at + (n - at) = n /\ n <= n /\ at + (n - at) + 1 = m
    BY <1>1
  <2> QED
    BY <1>13, <2>1 DEF U
<1>15. m \in 0 .. m /\ Opening \in Int
  BY <1>1, OpeningAssumption
<1> QED
  BY <1>4, <1>5, <1>14, <1>15 DEF Parted

(***************************************************************************)
(* The chain is always the one its patches stand for.                      *)
(***************************************************************************)
LEMMA SplitIsEdit ==
  ASSUME NEW chain \in Seq(Placed), AllApart(chain), NEW p \in SoundPatch, NEW u, SplitBy(chain, u, p),
         NEW i \in DOMAIN chain, IsOriginal(chain[i]),
         chain[i].start <= p.start, p.end <= chain[i].end
  PROVE  u = Reshaped(chain, i, Pieces(chain[i], Span(p.start, p.end), p.text))
<1>1. PICK F \in Seq(Placed), T \in Seq(Placed), lo \in Int, hi \in Int :
        /\ Opening <= lo /\ lo <= p.start /\ p.end <= hi /\ hi <= Closing
        /\ chain = Join(Join(F, <<Original(lo, hi)>>), T)
        /\ u = Join(Join(F, Pieces(Original(lo, hi), Span(p.start, p.end), p.text)), T)
  BY DEF SplitBy
<1> DEFINE c == Original(lo, hi)
           n == Len(F)
           x == n + 1
           pieces == Pieces(c, Span(p.start, p.end), p.text)
<1>2. c \in Placed /\ c.start = lo /\ c.end = hi /\ IsOriginal(c)
  <2>1. c \in Placed
    BY <1>1, PiecesAre
  <2> QED
    BY <2>1 DEF Original, IsOriginal
<1>3. chain = (F \o <<c>>) \o T /\ u = (F \o pieces) \o T
  BY <1>1 DEF Join
<1> HIDE DEF c, pieces
<1>4. /\ n \in Nat /\ Len(T) \in Nat /\ Len(chain) = n + 1 + Len(T)
      /\ chain[n + 1] = c
      /\ \A k \in 1 .. n : chain[k] = F[k]
      /\ \A k \in 1 .. Len(T) : chain[(n + 1) + k] = T[k]
  <2>1. F \o <<c>> \in Seq(Placed) /\ Len(F \o <<c>>) = n + 1 /\ (F \o <<c>>)[n + 1] = c
        /\ \A k \in 1 .. n : (F \o <<c>>)[k] = F[k]
    BY <1>2
  <2> DEFINE G == F \o <<c>>
  <2>2. G \in Seq(Placed) /\ Len(G) = n + 1 /\ G[n + 1] = c /\ \A k \in 1 .. n : G[k] = F[k]
    BY <2>1
  <2>3. chain = G \o T
    BY <1>3
  <2> HIDE DEF G
  <2>4. /\ n \in Nat /\ Len(T) \in Nat /\ Len(chain) = Len(G) + Len(T)
        /\ \A k \in 1 .. Len(G) : chain[k] = G[k]
        /\ \A k \in 1 .. Len(T) : chain[Len(G) + k] = T[k]
    <3>1. Len(G) \in Nat /\ Len(T) \in Nat /\ Len(G \o T) = Len(G) + Len(T)
      BY <2>2, ConcatProperties, LenProperties
    <3>2. \A k \in 1 .. Len(G) + Len(T) : (G \o T)[k] = IF k <= Len(G) THEN G[k] ELSE T[k - Len(G)]
      BY <2>2, ConcatProperties
    <3>3. \A k \in 1 .. Len(G) : (G \o T)[k] = G[k]
      BY <3>1, <3>2
    <3>4. \A k \in 1 .. Len(T) : (G \o T)[Len(G) + k] = T[k]
      <4> TAKE k \in 1 .. Len(T)
      <4>1. Len(G) + k \in 1 .. Len(G) + Len(T) /\ ~(Len(G) + k <= Len(G)) /\ (Len(G) + k) - Len(G) = k
        BY <3>1
      <4> QED
        BY <3>2, <4>1
    <3> QED
      BY <2>3, <3>1, <3>3, <3>4
  <2> HIDE DEF n
  <2>5. n + 1 \in 1 .. n + 1 /\ \A k \in 1 .. n : k \in 1 .. n + 1
    BY <2>4
  <2> QED
    BY <2>2, <2>4, <2>5
<1>5. x \in DOMAIN chain /\ chain[x] = c
  BY <1>4
<1>6. i = x
  <2>1. SUFFICES ASSUME i # x PROVE FALSE
    OBVIOUS
  <2>2. Apart(chain[i], c)
    BY <1>2, <1>5, <2>1 DEF AllApart, OriginalsApart
  <2>3. /\ p.start \in Int /\ p.end \in Int /\ p.start < p.end
        /\ chain[i].start \in Int /\ chain[i].end \in Int
    BY DEF SoundPatch, PatchRecord, Placed, Chunk
  <2> QED
    BY <1>1, <1>2, <2>2, <2>3 DEF Apart
<1>7. SubSeq(chain, 1, x - 1) = F
  <2> DEFINE a == SubSeq(chain, 1, x - 1)
  <2>1. x - 1 = n /\ n <= Len(chain)
    BY <1>4
  <2>2. a \in Seq(Placed) /\ Len(a) = n /\ \A k \in 1 .. n : a[k] = chain[k]
    BY <1>4, <2>1
  <2> HIDE DEF a
  <2>3. a = F
    BY <1>4, <2>2, SeqEqual
  <2> QED
    BY <2>3 DEF a
<1>8. SubSeq(chain, x + 1, Len(chain)) = T
  <2> DEFINE a == SubSeq(chain, x + 1, Len(chain))
  <2> HIDE DEF n
  <2>1. a \in Seq(Placed) /\ Len(a) = Len(T) /\ \A k \in 1 .. Len(T) : a[k] = chain[x + k]
    BY <1>4
  <2> HIDE DEF a
  <2>2. a = T
    BY <1>4, <2>1, SeqEqual
  <2> QED
    BY <2>2 DEF a
<1>9. Reshaped(chain, x, pieces) = (F \o pieces) \o T
  BY <1>7, <1>8 DEF Reshaped
<1> QED
  BY <1>3, <1>5, <1>6, <1>9 DEF pieces

LEMMA OrderOfPatches ==
  ASSUME NEW w \in Seq(SoundPatch), PatchesApart(w)
  PROVE  /\ Started(SoundPatch) /\ StartsDiffer(w)
         /\ SpliceOrder(w) \in Seq(SoundPatch) /\ Len(SpliceOrder(w)) = Len(w)
         /\ Descending(SpliceOrder(w)) /\ Elements(SpliceOrder(w)) = Elements(w)
         /\ Tiled(SpliceOrder(w))
<1>1. \A p \in SoundPatch : p.start \in Int /\ p.end \in Int /\ p.start < p.end
  BY DEF SoundPatch, PatchRecord
<1>2. Started(SoundPatch)
  BY <1>1 DEF Started
<1>3. \A i \in DOMAIN w : w[i] \in SoundPatch
  OBVIOUS
<1>4. StartsDiffer(w)
  BY <1>1, <1>3 DEF StartsDiffer, PatchesApart, Apart
<1> DEFINE o == SpliceOrder(w)
<1>5. o \in Seq(SoundPatch) /\ Len(o) = Len(w) /\ Descending(o) /\ Elements(o) = Elements(w)
  BY <1>2, <1>4, SpliceOrderIs
<1> HIDE DEF o
<1>6. ASSUME NEW i \in DOMAIN o, NEW j \in DOMAIN o, i < j PROVE o[j].end <= o[i].start
  <2>1. o[i] \in SoundPatch /\ o[j] \in SoundPatch /\ o[j].start < o[i].start
    BY <1>5, <1>6 DEF Descending
  <2>2. o[i] \in Elements(w) /\ o[j] \in Elements(w)
    BY <1>5 DEF Elements
  <2>3. PICK a \in DOMAIN w, b \in DOMAIN w : w[a] = o[i] /\ w[b] = o[j]
    BY <2>2 DEF Elements
  <2>4. Apart(o[j], o[i])
    BY <1>1, <2>1, <2>3 DEF PatchesApart
  <2> QED
    BY <1>1, <2>1, <2>4 DEF Apart
<1>7. Tiled(o)
  BY <1>6 DEF Tiled
<1> QED
  BY <1>2, <1>4, <1>5, <1>7 DEF o

\* The chain is told by its patches: it is the one they compose from the right.
Canonical == chunks = From(Opening, Composed(SpliceOrder(patches)))

LEMMA EditStaysCanonical ==
  ASSUME IInv, Canonical, NEW r \in [start : Nat, end : Nat], r.start < r.end,
         NEW text \in Replacements, Edit(r, text)
  PROVE  Canonical'
<1>1. PICK i \in DOMAIN chunks :
        /\ CanApplyAt(chunks, i, r)
        /\ LET after == ApplyAt([chunks |-> chunks, patches |-> patches], i, r, text)
           IN  chunks' = after.chunks /\ patches' = after.patches
  BY DEF Edit
<1> DEFINE c == chunks[i]
           cursor == Cursor(chunks, i)
           target == Target(chunks, i, r)
           p == Patch(target.start, target.end, text, 0)
<1>2. /\ chunks' = Reshaped(chunks, i, Pieces(c, target, text))
      /\ patches' = Append(patches, p)
  BY <1>1 DEF ApplyAt
<1>3. /\ cursor \in Nat /\ cursor <= r.start /\ r.end <= cursor + ChunkLen(c)
      /\ IsOriginal(c)
  BY <1>1 DEF CanApplyAt, StopsAt, Holds
<1>4. IInv' /\ chunks \in Seq(Placed) /\ AllApart(chunks) /\ PatchesApart(patches) /\ patches \in Seq(SoundPatch)
  BY EditSound, SoundIsPlaced DEF IInv
<1>5. c \in Placed /\ c.start \in Int /\ c.end \in Int
  <2>1. c \in Placed
    BY <1>4
  <2> QED
    BY <2>1 DEF Placed, Chunk
<1>6. target = Span(c.start + (r.start - cursor), c.start + (r.end - cursor))
  BY DEF Target
<1>7. /\ target = Span(target.start, target.end)
      /\ target.start = c.start + (r.start - cursor) /\ target.end = c.start + (r.end - cursor)
  <2>1. \A a, b : Span(a, b).start = a /\ Span(a, b).end = b
    BY DEF Span
  <2> HIDE DEF target
  <2> QED
    BY <1>6, <2>1
<1>8. ChunkLen(c) = c.end - c.start
  BY <1>3 DEF ChunkLen
<1>9. p.start = target.start /\ p.end = target.end /\ p.text = text
  BY DEF Patch
<1> HIDE DEF c, cursor, target, p
<1>10. c.start <= p.start /\ p.end <= c.end
  <2>1. r.start \in Nat /\ r.end \in Nat
    OBVIOUS
  <2> QED
    BY <1>3, <1>5, <1>7, <1>8, <1>9, <2>1
<1> DEFINE n == Len(patches)
           o == SpliceOrder(patches)
<1>11. patches' \in Seq(SoundPatch) /\ PatchesApart(patches')
  BY <1>4 DEF IInv
<1>12. /\ p \in SoundPatch /\ n \in Nat /\ DOMAIN patches = 1 .. n
       /\ n + 1 \in DOMAIN Append(patches, p) /\ Append(patches, p)[n + 1] = p
       /\ \A k \in 1 .. n : k \in DOMAIN Append(patches, p) /\ Append(patches, p)[k] = patches[k]
  <2>1. /\ Len(Append(patches, p)) = n + 1 /\ n \in Nat /\ DOMAIN patches = 1 .. n
        /\ Append(patches, p)[n + 1] = p
        /\ \A k \in 1 .. n : Append(patches, p)[k] = patches[k]
        /\ DOMAIN Append(patches, p) = 1 .. n + 1
    BY <1>4, LenProperties, AppendProperties
  <2>2. p \in SoundPatch
    <3>1. n + 1 \in DOMAIN patches'
      BY <1>2, <2>1
    <3>2. patches'[n + 1] \in SoundPatch
      BY <1>11, <3>1
    <3> QED
      BY <1>2, <2>1, <3>2
  <2> QED
    BY <2>1, <2>2
<1>13. /\ Started(SoundPatch) /\ o \in Seq(SoundPatch) /\ Len(o) = n /\ Descending(o)
       /\ Elements(o) = Elements(patches) /\ Tiled(o)
  BY <1>4, OrderOfPatches
<1>14. StartsDiffer(patches') /\ SpliceOrder(patches') \in Seq(SoundPatch) /\ Tiled(SpliceOrder(patches'))
  BY <1>11, OrderOfPatches
<1>15. SpliceOrder(patches') = SortInto(o, p, LaterStart)
  BY <1>2, <1>4, <1>12, SpliceOrderGrows
<1> HIDE DEF n, o
<1>16. \A k \in DOMAIN o : o[k].start # p.start
  <2> TAKE k \in DOMAIN o
  <2>1. PICK j \in DOMAIN patches : o[k] = patches[j]
    <3>1. o[k] \in Elements(patches)
      BY <1>13 DEF Elements
    <3> QED
      BY <3>1 DEF Elements
  <2>2. j # n + 1 /\ j \in DOMAIN patches' /\ n + 1 \in DOMAIN patches'
    BY <1>2, <1>12
  <2>3. patches'[j].start # patches'[n + 1].start
    BY <1>14, <2>2 DEF StartsDiffer
  <2>4. patches'[j] = patches[j] /\ patches'[n + 1] = p
    BY <1>2, <1>12
  <2> QED
    BY <2>1, <2>3, <2>4
<1>17. PICK at \in 0 .. Len(o) : SortInto(o, p, LaterStart) = InsertAt(o, at + 1, p) /\ IsPlace(o, p, at)
  BY <1>12, <1>13, <1>16, LaterInserts
<1> DEFINE v == InsertAt(o, at + 1, p)
<1>18. /\ Len(v) = Len(o) + 1
       /\ \A k \in 1 .. Len(o) + 1 :
            v[k] = IF k <= at THEN o[k] ELSE IF k = at + 1 THEN p ELSE o[k - 1]
  <2>1. IsInserted(v, o, at, p)
    BY <1>12, <1>13, InsertedIs
  <2> QED
    BY <2>1 DEF IsInserted
<1>19. SpliceOrder(patches') = v
  BY <1>15, <1>17
<1> HIDE DEF v
<1>20. v \in Seq(SoundPatch) /\ Tiled(v)
  BY <1>14, <1>19
<1>21. SplitBy(From(Opening, Composed(o)), From(Opening, Composed(v)), p)
  BY <1>12, <1>13, <1>18, <1>20, ComposedInserts
<1>22. chunks = From(Opening, Composed(o))
  BY DEF Canonical, o
<1>23. From(Opening, Composed(v)) = Reshaped(chunks, i, Pieces(c, Span(p.start, p.end), p.text))
  <2>1. SplitBy(chunks, From(Opening, Composed(v)), p)
    BY <1>21, <1>22
  <2> QED
    BY <1>3, <1>4, <1>10, <1>12, <2>1, SplitIsEdit DEF c
<1>24. Span(p.start, p.end) = target
  BY <1>7, <1>9
<1>25. chunks' = From(Opening, Composed(v))
  BY <1>2, <1>9, <1>23, <1>24
<1> QED
  BY <1>19, <1>25 DEF Canonical

LEMMA InitCanonical == Init => Canonical
<1> SUFFICES ASSUME Init PROVE Canonical
  OBVIOUS
<1>1. chunks = <<Original(Opening, Closing)>> /\ patches = <<>>
  BY DEF Init, Seeded
<1>2. <<>> \in Seq(SoundPatch) /\ PatchesApart(<<>>) /\ Len(<<>>) = 0
  BY DEF PatchesApart
<1> DEFINE o == SpliceOrder(<<>>)
<1>3. o \in Seq(SoundPatch) /\ Len(o) = 0 /\ Tiled(o)
  BY <1>2, OrderOfPatches
<1> HIDE DEF o
<1>4. PICK g : IsComposed(o, g)
  BY <1>3, ComposedHasTrace
<1>5. Composed(o) = Rest(<<>>, Closing)
  BY <1>3, <1>4 DEF IsComposed
<1>6. Piece(Original(Opening, Closing)) = <<Original(Opening, Closing)>>
  <2>1. Opening \in Int /\ Closing \in Int /\ Opening < Closing
    BY OpeningAssumption, SourceAssumption, LenProperties DEF Closing
  <2>2. Closing - Opening > 0
    BY <2>1
  <2> QED
    BY <2>1, <2>2, SpanIsPlaced DEF Piece
<1>7. From(Opening, Rest(<<>>, Closing)) = Join(<<Original(Opening, Closing)>>, <<>>)
  BY <1>6, RestFields DEF From
<1>8. Join(<<Original(Opening, Closing)>>, <<>>) = <<Original(Opening, Closing)>>
  BY DEF Join
<1> QED
  BY <1>1, <1>5, <1>7, <1>8 DEF Canonical, o

LEMMA StepStaysCanonical == IInv /\ Canonical /\ [Next]_vars => Canonical'
<1>1. ASSUME IInv, Canonical, Next PROVE Canonical'
  <2>1. PICK text \in Replacements, s \in 0..Len(WorkingText(chunks)) :
          \E e \in s + 1 .. Len(WorkingText(chunks)) : Edit(Span(s, e), text)
    BY <1>1 DEF Next
  <2>2. PICK e \in s + 1 .. Len(WorkingText(chunks)) : Edit(Span(s, e), text)
    BY <2>1
  <2>3. Span(s, e) \in [start : Nat, end : Nat] /\ Span(s, e).start < Span(s, e).end
    BY <2>1, <2>2 DEF Span
  <2> QED
    BY <1>1, <2>2, <2>3, EditStaysCanonical
<1>2. ASSUME Canonical, UNCHANGED vars PROVE Canonical'
  BY <1>2 DEF vars, Canonical
<1> QED
  BY <1>1, <1>2

(* Whatever order the edits of a sentence came in, its chain is the one its  *)
(* patches compose from the right: what apply_recapitalize, which has only   *)
(* the patches, relies on when it replays them.                              *)
THEOREM ChainIsCanonical == Spec => []Canonical
<1>1. Spec => []IInv
  BY Inductive
<1> QED
  BY <1>1, InitCanonical, StepStaysCanonical, PTL DEF Spec

\* apply_recapitalize rebuilds the chain, whatever order the patches came in.
LEMMA ReplayRebuilds ==
  ASSUME IInv, Canonical
  PROVE  Replayed(patches).chunks = chunks
<1> DEFINE o == SpliceOrder(patches)
<1>1. o \in Seq(SoundPatch) /\ Tiled(o)
  BY OrderOfPatches DEF IInv
<1>2. chunks = From(Opening, Composed(o)) /\ o = SpliceOrder(patches)
  BY DEF Canonical
<1> HIDE DEF o
<1>3. Replayed(patches).chunks = From(Opening, Composed(o))
  BY <1>1, <1>2, ReplayComposes
<1> QED
  BY <1>2, <1>3

\* opening_intact: the first byte is where it was unless a patch took it.
LEMMA OpeningIsTold ==
  ASSUME IInv, Canonical
  PROVE  OpeningIntact(chunks) <=> \A i \in DOMAIN patches : patches[i].start > Opening
<1>1. /\ chunks \in Seq(SoundChunk(patches)) /\ patches \in Seq(SoundPatch) /\ PatchesApart(patches)
      /\ Opening \in Int /\ Closing \in Int /\ Opening < Closing
  BY OpeningAssumption, SourceAssumption, LenProperties DEF IInv, Closing
<1>2. \A i \in DOMAIN patches :
        /\ patches[i].start \in Int /\ patches[i].end \in Int
        /\ Opening <= patches[i].start /\ patches[i].start < patches[i].end
  BY <1>1 DEF SoundPatch, PatchRecord
<1>3. ASSUME OpeningIntact(chunks), NEW k \in DOMAIN patches PROVE patches[k].start > Opening
  <2> DEFINE c == chunks[1]
  <2>1. chunks # <<>> /\ IsOriginal(c) /\ c.start = Opening
    BY <1>3 DEF OpeningIntact, StartsWithOriginal
  <2>2. 1 \in DOMAIN chunks
    BY <1>1, <2>1
  <2>3. c \in SoundChunk(patches)
    BY <1>1, <2>2
  <2>4. c.end \in Int /\ ChunkLen(c) > 0 /\ Apart(c, patches[k])
    BY <2>1, <2>3 DEF SoundChunk, Chunk, ClearOf
  <2>5. ChunkLen(c) = c.end - c.start
    BY <2>1 DEF ChunkLen
  <2> HIDE DEF c
  <2> QED
    BY <1>1, <1>2, <2>1, <2>4, <2>5 DEF Apart
<1>4. ASSUME \A i \in DOMAIN patches : patches[i].start > Opening PROVE OpeningIntact(chunks)
  <2> DEFINE o == SpliceOrder(patches)
             n == Len(o)
  <2>1. o \in Seq(SoundPatch) /\ Tiled(o) /\ Elements(o) = Elements(patches)
    BY <1>1, OrderOfPatches
  <2>2. chunks = From(Opening, Composed(o))
    BY DEF Canonical
  <2> HIDE DEF o
  <2>3. PICK g : IsComposed(o, g)
    BY <2>1, ComposedHasTrace
  <2>4. n \in Nat /\ n \in 0 .. n
    BY <2>1, LenProperties
  <2>5. Composed(o) = g[n] /\ g[n] \in Rests /\ g[n].begin = Boundary(o, n) /\ g[n].begin <= Closing
    BY <2>3, <2>4 DEF IsComposed
  <2>6. Opening < g[n].begin
    <3>1. CASE n = 0
      BY <1>1, <2>5, <3>1 DEF Boundary
    <3>2. CASE n # 0
      <4>1. n \in DOMAIN o
        BY <2>1, <2>4, <3>2
      <4>2. o[n] \in Elements(patches)
        BY <2>1, <4>1 DEF Elements
      <4>3. PICK i \in DOMAIN patches : patches[i] = o[n]
        BY <4>2 DEF Elements
      <4>4. g[n].begin = o[n].start
        BY <2>5, <3>2 DEF Boundary
      <4> QED
        BY <1>1, <1>2, <1>4, <4>3, <4>4
    <3> QED
      BY <3>1, <3>2
  <2> DEFINE b == g[n].begin
             c == Original(Opening, b)
             X == g[n].chain
  <2>7. b \in Int /\ X \in Seq(Placed) /\ b - Opening > 0 /\ Opening <= b
    BY <1>1, <2>5, <2>6 DEF Rests
  <2>8. c \in Placed /\ IsOriginal(c) /\ ChunkLen(c) = b - Opening
    <3>1. b <= Closing
      BY <2>5
    <3> HIDE DEF b
    <3> QED
      BY <1>1, <2>7, <3>1, SpanIsPlaced
  <2>9. chunks = Join(<<c>>, X)
    BY <2>2, <2>5, <2>7, <2>8 DEF From, Piece
  <2>10. c.start = Opening
    BY DEF Original
  <2> HIDE DEF c, X, b
  <2>11. Len(chunks) = Len(X) + 1 /\ chunks[1] = c
    BY <2>7, <2>8, <2>9, SplitsFirst
  <2>12. chunks # <<>>
    BY <2>7, <2>11, LenProperties
  <2> QED
    BY <2>8, <2>10, <2>11, <2>12 DEF OpeningIntact, StartsWithOriginal
<1> QED
  BY <1>3, <1>4

(***************************************************************************)
(* The working text is what its cells spell.                               *)
(***************************************************************************)
SymbolSet == Range(Source) \cup UNION {Range(text) : text \in Replacements}
SpellStep(nothing, text, c) == text \o ChunkText(c)
Spelling == INSTANCE FoldFacts WITH Op <- SpellStep

LEMMA SpellingInducts ==
  Spelling!Inductive
BY NatInduct DEF Spelling!Inductive

LEMMA WorkingTextIsAFold ==
  ASSUME NEW chain
  PROVE  WorkingText(chain) = Spelling!Folded(0, <<>>, chain)
BY DEF WorkingText, Spelling!Folded, SpellStep, FoldLeft, MapThenFoldSet, Max

LEMMA SymbolsOfConcat ==
  ASSUME NEW s \in Seq(CellSet), NEW t \in Seq(CellSet)
  PROVE  /\ Symbols(s) \in Seq(SymbolSet) /\ Len(Symbols(s)) = Len(s)
         /\ Symbols(s \o t) = Symbols(s) \o Symbols(t)
<1>1. \A w \in Seq(CellSet) : /\ Symbols(w) \in Seq(SymbolSet) /\ Len(Symbols(w)) = Len(w)
                              /\ \A k \in 1 .. Len(w) : Symbols(w)[k] = w[k].sym
  <2> TAKE w \in Seq(CellSet)
  <2>1. Len(w) \in Nat /\ \A k \in 1 .. Len(w) : w[k] \in CellSet
    BY LenProperties, ElementOfSeq
  <2>2. \A k \in 1 .. Len(w) : w[k].sym \in SymbolSet
    BY <2>1 DEF CellSet, SymbolSet
  <2> QED
    BY <2>1, <2>2 DEF Symbols
<1> DEFINE u == s \o t
           m == Len(s)
           n == Len(t)
<1>2. /\ u \in Seq(CellSet) /\ Len(u) = m + n /\ m \in Nat /\ n \in Nat
      /\ \A k \in 1 .. m + n : u[k] = IF k <= m THEN s[k] ELSE t[k - m]
  BY ConcatProperties, LenProperties
<1> DEFINE a == Symbols(s)
           b == Symbols(t)
           d == Symbols(u)
<1>3. /\ a \in Seq(SymbolSet) /\ b \in Seq(SymbolSet) /\ d \in Seq(SymbolSet)
      /\ Len(a) = m /\ Len(b) = n /\ Len(d) = m + n
  BY <1>1, <1>2
<1>4. /\ \A k \in 1 .. m : a[k] = s[k].sym
      /\ \A k \in 1 .. n : b[k] = t[k].sym
      /\ \A k \in 1 .. m + n : d[k] = u[k].sym
  BY <1>1, <1>2
<1> HIDE DEF a, b, d, u
<1>5. /\ a \o b \in Seq(SymbolSet) /\ Len(a \o b) = m + n
      /\ \A k \in 1 .. m + n : (a \o b)[k] = IF k <= m THEN a[k] ELSE b[k - m]
  BY <1>2, <1>3, ConcatProperties
<1>6. \A k \in 1 .. m + n : (a \o b)[k] = d[k]
  <2> TAKE k \in 1 .. m + n
  <2> HIDE DEF m, n
  <2>1. CASE k <= m
    <3>1. k \in 1 .. m
      BY <1>2, <2>1
    <3> QED
      BY <1>2, <1>4, <1>5, <2>1, <3>1
  <2>2. CASE ~(k <= m)
    <3>1. k - m \in 1 .. n
      BY <1>2, <2>2
    <3> QED
      BY <1>2, <1>4, <1>5, <2>2, <3>1
  <2> QED
    BY <2>1, <2>2
<1>7. a \o b = d
  BY <1>3, <1>5, <1>6, SeqEqual
<1> QED
  BY <1>3, <1>7 DEF a, b, d, u

LEMMA CellsSpell ==
  ASSUME NEW c \in Placed
  PROVE  Symbols(CellsOf(c)) = ChunkText(c) /\ ChunkText(c) \in Seq(SymbolSet)
<1>1. CellsOf(c) \in Seq(CellSet) /\ Len(CellsOf(c)) = ChunkLen(c)
  BY CellsOfPlaced
<1>2. Symbols(CellsOf(c)) \in Seq(SymbolSet) /\ Len(Symbols(CellsOf(c))) = Len(CellsOf(c))
  BY <1>1, SymbolsOfConcat
<1>3. ChunkText(c) \in Seq(Range(Source) \cup Range(c.text)) /\ Len(ChunkText(c)) \in Nat
  <2>1. CASE IsOriginal(c)
    <3> DEFINE a == c.start - Opening
               b == c.end - Opening
    <3>1. c.start \in Int /\ c.end \in Int /\ c.end - c.start >= 0 /\ Opening <= c.start /\ c.end <= Opening + Len(Source)
      BY <2>1 DEF Placed, Chunk, ChunkLen, InSentence, Closing
    <3>2. a \in Nat /\ b \in Nat /\ a <= b /\ b <= Len(Source) /\ Len(Source) \in Nat
      BY <3>1, OpeningAssumption, SourceAssumption, LenProperties
    <3>3. ChunkText(c) = SubSeq(Source, a + 1, b)
      BY <2>1 DEF ChunkText, Slice, Span
    <3> HIDE DEF a, b
    <3>4. SubSeq(Source, a + 1, b) \in Seq(Range(Source))
      BY <3>2, SourceAssumption
    <3> QED
      BY <3>3, <3>4, LenProperties, SeqMonotonic
  <2>2. CASE ~IsOriginal(c)
    <3>1. ChunkText(c) = c.text
      BY <2>2 DEF ChunkText
    <3>2. c.text \in Seq(Range(c.text))
      <4>1. <<>> \in Seq(Range(<<>>))
        BY EmptySeq
      <4>2. c.text \in Replacements \cup {<<>>}
        BY DEF Placed, Chunk
      <4> QED
        BY <4>1, <4>2, ReplacementsAssumption
    <3> QED
      BY <3>1, <3>2, LenProperties, SeqMonotonic
  <2> QED
    BY <2>1, <2>2
<1> DEFINE t == ChunkText(c)
<1>4. t = [k \in 1 .. Len(t) |-> t[k]] /\ Len(t) \in Nat
  BY <1>3
<1>5. CellsOf(c) = [k \in 1 .. Len(t) |-> [sym |-> t[k], at |-> IF IsOriginal(c) THEN c.start - Opening + k - 1 ELSE -1]]
  BY DEF CellsOf
<1> HIDE DEF t
<1>6. Len(CellsOf(c)) = Len(t)
  BY <1>4, <1>5
<1>7. \A k \in 1 .. Len(t) : CellsOf(c)[k].sym = t[k]
  <2> TAKE k \in 1 .. Len(t)
  <2>1. CellsOf(c)[k] = [sym |-> t[k], at |-> IF IsOriginal(c) THEN c.start - Opening + k - 1 ELSE -1]
    BY <1>5
  <2> QED
    BY <2>1
<1>8. Symbols(CellsOf(c)) = [k \in 1 .. Len(t) |-> t[k]]
  BY <1>6, <1>7 DEF Symbols
<1> QED
  BY <1>2, <1>4, <1>8 DEF t

LEMMA WorkingTextIsCells ==
  ASSUME NEW chain \in Seq(Placed)
  PROVE  WorkingText(chain) = Symbols(Cells(chain))
<1> DEFINE n == Len(chain)
<1>1. n \in Nat /\ DOMAIN chain = 1 .. n /\ \A k \in 1 .. n : chain[k] \in Placed
  OBVIOUS
<1>2. PICK g : /\ g[0] = <<>>
               /\ \A k \in 1 .. n : g[k] = g[k - 1] \o CellsOf(chain[k])
               /\ \A k \in 0 .. n : g[k] \in Seq(CellSet)
               /\ Cells(chain) = g[n]
  BY FlatTrace
<1> DEFINE h == [k \in 0 .. n |-> Symbols(g[k])]
<1> HIDE DEF n
<1>3. h[0] = <<>>
  <2>1. Symbols(<<>>) = <<>>
    BY DEF Symbols
  <2>2. 0 \in 0 .. n
    BY <1>1
  <2> QED
    BY <1>2, <2>1, <2>2
<1>4. ASSUME NEW k \in 1 .. n PROVE h[k] = SpellStep(0, h[k - 1], chain[k])
  <2>1. k \in 0 .. n /\ k - 1 \in 0 .. n
    BY <1>1
  <2>2. g[k - 1] \in Seq(CellSet) /\ CellsOf(chain[k]) \in Seq(CellSet) /\ chain[k] \in Placed
    BY <1>1, <1>2, <2>1, CellsOfPlaced
  <2>3. Symbols(g[k]) = Symbols(g[k - 1]) \o Symbols(CellsOf(chain[k]))
    BY <1>2, <2>2, SymbolsOfConcat
  <2>4. Symbols(CellsOf(chain[k])) = ChunkText(chain[k])
    BY <2>2, CellsSpell
  <2> QED
    BY <2>1, <2>3, <2>4 DEF SpellStep
<1>5. h[n] = Symbols(Cells(chain))
  BY <1>1, <1>2
<1> HIDE DEF h
<1>7. Spelling!IsTrace(0, <<>>, n, chain, h)
  BY <1>3, <1>4 DEF Spelling!IsTrace
<1>6. Spelling!Folded(0, <<>>, chain) = h[n]
  BY <1>1, <1>7, Spelling!FoldUnique, SpellingInducts
<1> QED
  BY <1>5, <1>6, WorkingTextIsAFold

LEMMA TextOfJoin ==
  ASSUME NEW s \in Seq(Placed), NEW t \in Seq(Placed)
  PROVE  /\ WorkingText(s) \in Seq(SymbolSet)
         /\ WorkingText(Join(s, t)) = Join(WorkingText(s), WorkingText(t))
<1>1. Cells(s) \in Seq(CellSet) /\ Cells(t) \in Seq(CellSet) /\ Cells(s \o t) = Cells(s) \o Cells(t)
  BY CellsTyped, CellsConcat
<1>2. s \o t \in Seq(Placed)
  BY ConcatProperties
<1>3. /\ WorkingText(s) = Symbols(Cells(s)) /\ WorkingText(t) = Symbols(Cells(t))
      /\ WorkingText(s \o t) = Symbols(Cells(s \o t))
  BY <1>2, WorkingTextIsCells
<1>4. /\ Symbols(Cells(s)) \in Seq(SymbolSet)
      /\ Symbols(Cells(s) \o Cells(t)) = Symbols(Cells(s)) \o Symbols(Cells(t))
  BY <1>1, SymbolsOfConcat
<1> QED
  BY <1>1, <1>3, <1>4 DEF Join

LEMMA TextOfPiece ==
  ASSUME NEW c \in Placed
  PROVE  WorkingText(Piece(c)) = ChunkText(c) /\ ChunkText(c) \in Seq(SymbolSet)
BY CellsOfPiece, WorkingTextIsCells, CellsSpell

(***************************************************************************)
(* apply splices the patches into the source from the right: after each,   *)
(* the text is the source up to that patch and what the chain composed so  *)
(* far reads.                                                              *)
(***************************************************************************)
Local(p) == [p EXCEPT !.start = @ - Opening, !.end = @ - Opening]
AllLocal(w) == [i \in DOMAIN w |-> Local(w[i])]

LEMMA LocalIs ==
  ASSUME NEW p \in SoundPatch
  PROVE  /\ Local(p) \in PatchSet
         /\ Local(p).start = p.start - Opening /\ Local(p).end = p.end - Opening /\ Local(p).text = p.text
         /\ Local(p).start \in Nat /\ Local(p).end \in Nat /\ Local(p).start < Local(p).end
         /\ Local(p).end <= Len(Source)
         /\ ValidPatch(Source, Local(p))
<1>1. /\ p \in PatchRecord /\ p.start \in Int /\ p.end \in Int /\ p.text \in Replacements /\ p.rule = 0
      /\ Opening <= p.start /\ p.start < p.end /\ p.end <= Opening + Len(Source)
      /\ Opening \in Nat /\ Len(Source) \in Nat
  BY OpeningAssumption, SourceAssumption, LenProperties DEF SoundPatch, PatchRecord, Closing
<1> DEFINE x == p.start - Opening
           y == p.end - Opening
           q == [p EXCEPT !.start = x, !.end = y]
<1>2. Local(p) = q
  BY DEF Local
<1>3. x \in Int /\ y \in Int
  BY <1>1
<1> HIDE DEF x, y
<1>4. q \in PatchRecord
  BY <1>1, <1>3 DEF PatchRecord
<1>5. q.start = x /\ q.end = y /\ q.text = p.text
  BY <1>1 DEF PatchRecord
<1> HIDE DEF q
<1>6. q \in PatchSet
  BY <1>4 DEF PatchRecord, PatchSet
<1>7. x \in Nat /\ y \in Nat /\ x < y /\ y <= Len(Source)
  BY <1>1 DEF x, y
<1> QED
  BY <1>2, <1>5, <1>6, <1>7 DEF ValidPatch, x, y

SpliceText(nothing, text, p) == ReplaceRange(text, p)
Applying == INSTANCE FoldFacts WITH Op <- SpliceText

LEMMA ApplyInducts ==
  Applying!Inductive
BY NatInduct DEF Applying!Inductive

LEMMA ApplyIsAFold ==
  ASSUME NEW text, NEW w
  PROVE  ApplyPatches(text, w) = Applying!Folded(0, text, SpliceOrder(w))
<1> DEFINE order == SpliceOrder(w)
<1> HIDE DEF order
<1>1. FoldLeft(ReplaceRange, text, order) = Applying!Folded(0, text, order)
  BY DEF Applying!Folded, SpliceText, FoldLeft, MapThenFoldSet, Max
<1> QED
  BY <1>1 DEF ApplyPatches, order

Before(text, x) == SubSeq(text, 1, x)
After(text, y) == SubSeq(text, y + 1, Len(text))

\* The two ends a replacement inside the first part of a text leaves.
LEMMA CutBefore ==
  ASSUME NEW S, NEW s \in Seq(S), NEW X \in Seq(S), NEW b \in Nat, b <= Len(s),
         NEW x \in Nat, NEW y \in Nat, x <= y, y <= b
  PROVE  /\ Before(Join(SubSeq(s, 1, b), X), x) = SubSeq(s, 1, x)
         /\ After(Join(SubSeq(s, 1, b), X), y) = Join(SubSeq(s, y + 1, b), X)
<1> DEFINE a == SubSeq(s, 1, b)
           u == a \o X
           n == Len(X)
           d == SubSeq(s, y + 1, b)
<1>1. a \in Seq(S) /\ Len(a) = b /\ \A k \in 1 .. b : a[k] = s[k]
  OBVIOUS
<1>2. d \in Seq(S) /\ Len(d) = b - y /\ \A k \in 1 .. b - y : d[k] = s[y + k]
  OBVIOUS
<1>3. n \in Nat
  OBVIOUS
<1> HIDE DEF a, d, n
<1>4. /\ u \in Seq(S) /\ Len(u) = b + n
      /\ \A k \in 1 .. b + n : u[k] = IF k <= b THEN a[k] ELSE X[k - b]
  <2>1. /\ u \in Seq(S) /\ Len(u) = Len(a) + Len(X)
        /\ \A k \in 1 .. Len(a) + Len(X) : u[k] = IF k <= Len(a) THEN a[k] ELSE X[k - Len(a)]
    <3>1. /\ a \o X \in Seq(S) /\ Len(a \o X) = Len(a) + Len(X)
          /\ \A k \in 1 .. Len(a) + Len(X) : (a \o X)[k] = IF k <= Len(a) THEN a[k] ELSE X[k - Len(a)]
      <4>1. a \in Seq(S) /\ X \in Seq(S)
        BY <1>1
      <4> HIDE DEF u
      <4> QED
        BY ONLY <4>1, ConcatProperties
    <3> QED
      BY <3>1
  <2> QED
    BY <1>1, <2>1 DEF n
<1>5. /\ d \o X \in Seq(S) /\ Len(d \o X) = (b - y) + n
      /\ \A k \in 1 .. (b - y) + n : (d \o X)[k] = IF k <= b - y THEN d[k] ELSE X[k - (b - y)]
  <2>1. /\ d \o X \in Seq(S) /\ Len(d \o X) = Len(d) + Len(X)
        /\ \A k \in 1 .. Len(d) + Len(X) : (d \o X)[k] = IF k <= Len(d) THEN d[k] ELSE X[k - Len(d)]
    BY <1>2, ConcatProperties
  <2> QED
    BY <1>2, <2>1 DEF n
<1> HIDE DEF u
<1>6. SubSeq(u, 1, x) = SubSeq(s, 1, x)
  <2> DEFINE p == SubSeq(u, 1, x)
             q == SubSeq(s, 1, x)
  <2>0. x <= Len(u) /\ x <= Len(s)
    BY <1>3, <1>4
  <2>1. p \in Seq(S) /\ Len(p) = x /\ \A k \in 1 .. x : p[k] = u[k]
    BY <1>4, <2>0
  <2>2. q \in Seq(S) /\ Len(q) = x /\ \A k \in 1 .. x : q[k] = s[k]
    BY <2>0
  <2>3. \A k \in 1 .. x : u[k] = s[k]
    <3> TAKE k \in 1 .. x
    <3>1. k \in 1 .. b /\ k \in 1 .. b + n /\ k <= b
      BY <1>3
    <3> QED
      BY <1>1, <1>4, <3>1
  <2> HIDE DEF p, q
  <2>4. p = q
    BY <2>1, <2>2, <2>3, SeqEqual
  <2> QED
    BY <2>4 DEF p, q
<1>7. SubSeq(u, y + 1, Len(u)) = d \o X
  <2> DEFINE p == SubSeq(u, y + 1, Len(u))
             q == d \o X
  <2>1. p \in Seq(S) /\ Len(p) = b + n - y /\ \A k \in 1 .. b + n - y : p[k] = u[y + k]
    BY <1>3, <1>4
  <2>2. \A k \in 1 .. b + n - y : u[y + k] = q[k]
    <3> TAKE k \in 1 .. b + n - y
    <3>1. y + k \in 1 .. b + n /\ k \in 1 .. (b - y) + n
      BY <1>3
    <3>2. CASE y + k <= b
      <4>1. y + k \in 1 .. b /\ k \in 1 .. b - y /\ k <= b - y
        BY <3>2
      <4> QED
        BY <1>1, <1>2, <1>4, <1>5, <3>1, <3>2, <4>1
    <3>3. CASE ~(y + k <= b)
      <4>1. ~(k <= b - y) /\ (y + k) - b = k - (b - y)
        BY <3>3
      <4> QED
        BY <1>4, <1>5, <3>1, <3>3, <4>1
    <3> QED
      BY <3>2, <3>3
  <2>3. q \in Seq(S) /\ Len(q) = b + n - y
    BY <1>3, <1>5
  <2> HIDE DEF p, q
  <2>4. p = q
    BY <2>1, <2>2, <2>3, SeqEqual
  <2> QED
    BY <2>4 DEF p, q
<1> QED
  BY <1>6, <1>7 DEF Join, u, a, d, Before, After

Read(acc) == Join(SubSeq(Source, 1, acc.begin - Opening), WorkingText(acc.chain))

LEMMA SourceIsText ==
  /\ Source \in Seq(SymbolSet) /\ Len(Source) \in Nat /\ Opening \in Nat /\ Closing = Opening + Len(Source)
  /\ \A text \in Replacements : text \in Seq(SymbolSet)
<1>1. Range(Source) \subseteq SymbolSet /\ \A text \in Replacements : Range(text) \subseteq SymbolSet
  BY DEF SymbolSet
<1>2. Source \in Seq(SymbolSet)
  BY <1>1, SourceAssumption, SeqMonotonic
<1>3. ASSUME NEW text \in Replacements PROVE text \in Seq(SymbolSet)
  <2>1. text \in Seq(Range(text)) /\ Range(text) \subseteq SymbolSet
    BY <1>1, ReplacementsAssumption
  <2> QED
    BY <2>1, SeqMonotonic
<1> QED
  BY <1>2, <1>3, OpeningAssumption, LenProperties DEF Closing

LEMMA SpanReads ==
  ASSUME NEW a \in Int, NEW b \in Int, Opening <= a, a <= b, b <= Closing
  PROVE  /\ WorkingText(Piece(Original(a, b))) = SubSeq(Source, (a - Opening) + 1, b - Opening)
         /\ Original(a, b) \in Placed
<1>1. Original(a, b) \in Placed /\ IsOriginal(Original(a, b))
  BY SpanIsPlaced
<1>2. ChunkText(Original(a, b)) = SubSeq(Source, (a - Opening) + 1, b - Opening)
  BY <1>1 DEF ChunkText, Slice, Span, Original
<1> QED
  BY <1>1, <1>2, TextOfPiece

LEMMA SpliceOne ==
  ASSUME NEW acc \in Rests, NEW p \in SoundPatch, p.end <= acc.begin, acc.begin <= Closing
  PROVE  ReplaceRange(Read(acc), Local(p)) = Read(ComposeStep(0, acc, p))
<1> DEFINE b == acc.begin - Opening
           x == p.start - Opening
           y == p.end - Opening
           X == WorkingText(acc.chain)
           u == Join(SubSeq(Source, 1, b), X)
           Y == SubSeq(Source, y + 1, b)
<1>1. /\ p.start \in Int /\ p.end \in Int /\ p.text \in Replacements
      /\ Opening <= p.start /\ p.start < p.end /\ acc.begin \in Int /\ acc.chain \in Seq(Placed)
  BY DEF SoundPatch, PatchRecord, Rests
<1>2. /\ b \in Nat /\ b <= Len(Source) /\ x \in Nat /\ y \in Nat /\ x <= y /\ y <= b
      /\ Opening <= p.end
  <2>1. Opening \in Nat /\ Len(Source) \in Nat /\ Closing = Opening + Len(Source)
    BY SourceIsText
  <2> DEFINE O == Opening
             n == Len(Source)
             from == p.start
             to == p.end
             begin == acc.begin
  <2>2. /\ O \in Nat /\ n \in Nat /\ from \in Int /\ to \in Int /\ begin \in Int
        /\ O <= from /\ from < to /\ to <= begin /\ begin <= O + n
    BY <1>1, <2>1
  <2> HIDE DEF O, n, from, to, begin
  <2>3. begin - O \in Nat /\ begin - O <= n
    BY <2>2
  <2>4. from - O \in Nat /\ to - O \in Nat /\ from - O <= to - O
    BY <2>2
  <2>5. to - O <= begin - O /\ O <= to
    BY <2>2
  <2> QED
    BY <2>3, <2>4, <2>5 DEF O, n, from, to, begin
<1>3. X \in Seq(SymbolSet) /\ p.text \in Seq(SymbolSet)
  <2>1. X \in Seq(SymbolSet)
    BY <1>1, TextOfJoin
  <2>2. p.text \in Seq(SymbolSet)
    BY <1>1, SourceIsText
  <2> QED
    BY <2>1, <2>2
<1>4. Local(p).start = x /\ Local(p).end = y /\ Local(p).text = p.text
  BY LocalIs
<1>5. Read(acc) = u
  BY DEF Read
<1>6. Y \in Seq(SymbolSet)
  <2> HIDE DEF x, y, b
  <2> QED
    BY <1>2, SourceIsText
<1>7. /\ WorkingText(Piece(Replaced(p.text))) = p.text
      /\ Piece(Replaced(p.text)) \in Seq(Placed)
  <2>1. Replaced(p.text) \in Placed /\ ~IsOriginal(Replaced(p.text))
    BY <1>1, TextIsPlaced
  <2>2. ChunkText(Replaced(p.text)) = p.text
    BY <2>1 DEF ChunkText, Replaced
  <2> QED
    BY <1>1, <2>1, <2>2, TextOfPiece, TextIsPlaced
<1>8. /\ WorkingText(Piece(Original(p.end, acc.begin))) = Y
      /\ Piece(Original(p.end, acc.begin)) \in Seq(Placed)
  BY <1>1, <1>2, SpanReads, SpanIsPlaced
<1> HIDE DEF b, x, y, X, u, Y
<1>9. Before(u, x) = SubSeq(Source, 1, x) /\ After(u, y) = Join(Y, X)
  <2>1. Source \in Seq(SymbolSet)
    BY SourceIsText
  <2>2. /\ Before(Join(SubSeq(Source, 1, b), X), x) = SubSeq(Source, 1, x)
        /\ After(Join(SubSeq(Source, 1, b), X), y) = Join(SubSeq(Source, y + 1, b), X)
    BY <1>2, <1>3, <2>1, CutBefore
  <2> QED
    BY <2>2 DEF u, Y
<1>10. ReplaceRange(u, Local(p)) = Join(Join(SubSeq(Source, 1, x), p.text), Join(Y, X))
  BY <1>4, <1>9 DEF ReplaceRange, Join, Before, After
<1>11. WorkingText(Laid(acc, p)) = Join(Join(p.text, Y), X)
  <2> DEFINE m == Piece(Replaced(p.text))
             d == Piece(Original(p.end, acc.begin))
  <2>1. m \in Seq(Placed) /\ d \in Seq(Placed) /\ Laid(acc, p) = Join(Join(m, d), acc.chain)
    BY <1>7, <1>8 DEF Laid
  <2>2. WorkingText(m) = p.text /\ WorkingText(d) = Y
    BY <1>7, <1>8
  <2> HIDE DEF m, d
  <2>3. Join(m, d) \in Seq(Placed)
    BY <2>1, JoinAssociates
  <2>4. WorkingText(Join(m, d)) = Join(p.text, Y)
    BY <2>1, <2>2, TextOfJoin
  <2>5. WorkingText(Join(Join(m, d), acc.chain)) = Join(WorkingText(Join(m, d)), X)
    BY <1>1, <2>3, TextOfJoin DEF X
  <2> QED
    BY <2>1, <2>4, <2>5
<1>12. Read(ComposeStep(0, acc, p)) = Join(SubSeq(Source, 1, x), Join(Join(p.text, Y), X))
  <2>1. ComposeStep(0, acc, p).begin = p.start /\ ComposeStep(0, acc, p).chain = Laid(acc, p)
    BY RestFields DEF ComposeStep
  <2> QED
    BY <1>11, <2>1 DEF Read, x
<1>13. Join(Join(SubSeq(Source, 1, x), p.text), Join(Y, X)) = Join(SubSeq(Source, 1, x), Join(Join(p.text, Y), X))
  <2> DEFINE a == SubSeq(Source, 1, x)
             t == p.text
  <2>1. a \in Seq(SymbolSet) /\ t \in Seq(SymbolSet)
    BY <1>2, <1>3, SourceIsText
  <2> HIDE DEF a, t
  <2>2. Join(Y, X) \in Seq(SymbolSet) /\ Join(Join(t, Y), X) = Join(t, Join(Y, X))
    BY <1>3, <1>6, <2>1, JoinAssociates
  <2>3. Join(Join(a, t), Join(Y, X)) = Join(a, Join(t, Join(Y, X)))
    BY <2>1, <2>2, JoinAssociates
  <2>4. Join(Join(a, t), Join(Y, X)) = Join(a, Join(Join(t, Y), X))
    BY <2>2, <2>3
  <2> QED
    BY <2>4 DEF a, t
<1> QED
  BY <1>5, <1>10, <1>12, <1>13

LEMMA ReadsWhole ==
  ASSUME NEW acc \in Rests, Opening <= acc.begin, acc.begin <= Closing
  PROVE  WorkingText(From(Opening, acc)) = Read(acc)
<1>1. acc.begin \in Int /\ acc.chain \in Seq(Placed) /\ Opening \in Int
  BY SourceIsText DEF Rests
<1>2. /\ WorkingText(Piece(Original(Opening, acc.begin))) = SubSeq(Source, (Opening - Opening) + 1, acc.begin - Opening)
      /\ Piece(Original(Opening, acc.begin)) \in Seq(Placed)
  BY <1>1, SpanReads, SpanIsPlaced
<1>3. (Opening - Opening) + 1 = 1
  BY <1>1
<1> QED
  BY <1>1, <1>2, <1>3, TextOfJoin DEF From, Read

LEMMA AppliedReads ==
  ASSUME NEW w \in Seq(SoundPatch), Tiled(w)
  PROVE  Applying!Folded(0, Source, AllLocal(w)) = WorkingText(From(Opening, Composed(w)))
<1> DEFINE n == Len(w)
           v == AllLocal(w)
<1>1. n \in Nat /\ DOMAIN w = 1 .. n /\ \A k \in 1 .. n : w[k] \in SoundPatch
  OBVIOUS
<1>2. DOMAIN v = 1 .. n /\ \A k \in 1 .. n : v[k] = Local(w[k])
  BY <1>1 DEF AllLocal
<1>3. PICK g : IsComposed(w, g)
  BY ComposedHasTrace
<1> HIDE DEF n, v
<1>4. /\ g[0] = Rest(<<>>, Closing) /\ Composed(w) = g[n]
      /\ \A k \in 0 .. n : g[k] \in Rests /\ Opening <= g[k].begin /\ g[k].begin <= Closing
      /\ \A k \in 1 .. n : g[k] = ComposeStep(0, g[k - 1], w[k]) /\ w[k].end <= g[k - 1].begin
  BY <1>3 DEF IsComposed, n
<1> DEFINE h == [k \in 0 .. n |-> Read(g[k])]
<1>5. h[0] = Source
  <2>1. h[0] = Read(Rest(<<>>, Closing))
    BY <1>1, <1>4
  <2>2. WorkingText(<<>>) = <<>>
    <3>1. Cells(<<>>) = <<>> /\ <<>> \in Seq(Placed)
      <4>1. Len(<<>>) = 0 /\ <<>> \in Seq(Placed)
        OBVIOUS
      <4> QED
        BY <4>1, FlatTrace
    <3>2. Symbols(<<>>) = <<>>
      BY DEF Symbols
    <3> QED
      BY <3>1, <3>2, WorkingTextIsCells
  <2>3. Closing - Opening = Len(Source)
    BY SourceIsText
  <2>4. SubSeq(Source, 1, Len(Source)) = Source
    <3> DEFINE u == SubSeq(Source, 1, Len(Source))
    <3>1. u \in Seq(SymbolSet) /\ Len(u) = Len(Source) /\ \A k \in 1 .. Len(Source) : u[k] = Source[k]
      BY SourceIsText
    <3> HIDE DEF u
    <3>2. u = Source
      BY <3>1, SourceIsText, SeqEqual
    <3> QED
      BY <3>2 DEF u
  <2>5. Join(Source, <<>>) = Source
    BY SourceIsText, ConcatEmptySeq DEF Join
  <2>6. Read(Rest(<<>>, Closing)) = Join(SubSeq(Source, 1, Closing - Opening), WorkingText(<<>>))
    BY RestFields DEF Read
  <2> HIDE DEF h
  <2> QED
    BY <2>1, <2>2, <2>3, <2>4, <2>5, <2>6
<1>6. ASSUME NEW k \in 1 .. n PROVE h[k] = SpliceText(0, h[k - 1], v[k])
  <2>1. k \in 0 .. n /\ k - 1 \in 0 .. n
    BY <1>1
  <2>2. /\ g[k] = ComposeStep(0, g[k - 1], w[k]) /\ w[k].end <= g[k - 1].begin /\ w[k] \in SoundPatch
        /\ g[k - 1] \in Rests /\ g[k - 1].begin <= Closing
    BY <1>1, <1>4, <2>1
  <2>3. ReplaceRange(Read(g[k - 1]), Local(w[k])) = Read(g[k])
    BY <2>2, SpliceOne
  <2> QED
    BY <1>2, <2>1, <2>3 DEF SpliceText
<1>7. h[n] = Read(Composed(w)) /\ n \in 0 .. n
  BY <1>1, <1>4
<1> HIDE DEF h
<1>8. Applying!IsTrace(0, Source, n, v, h)
  BY <1>5, <1>6 DEF Applying!IsTrace
<1>9. Applying!Folded(0, Source, v) = h[n]
  BY <1>1, <1>2, <1>8, Applying!FoldUnique, ApplyInducts
<1>10. WorkingText(From(Opening, Composed(w))) = Read(Composed(w))
  BY <1>4, <1>7, ReadsWhole
<1> QED
  BY <1>7, <1>9, <1>10 DEF v

(***************************************************************************)
(* resolve keeps every recorded patch.                                     *)
(***************************************************************************)
LEMMA AllAccepted ==
  ASSUME NEW w \in Seq(SoundPatch), PatchesApart(w)
  PROVE  LET accepted == Resolve(Source, AllLocal(w))
         IN  /\ Len(accepted) = Len(w)
             /\ SpliceOrder(accepted) = AllLocal(SpliceOrder(w))
<1> DEFINE local == AllLocal(w)
           accepted == Resolve(Source, local)
           o == SpliceOrder(w)
           v == AllLocal(o)
<1>1. DOMAIN w = 1 .. Len(w) /\ Len(w) \in Nat /\ \A i \in DOMAIN w : w[i] \in SoundPatch
  OBVIOUS
<1>2. DOMAIN local = DOMAIN w /\ \A i \in DOMAIN w : local[i] = Local(w[i])
  BY DEF AllLocal
<1>3. local \in Seq(PatchSet)
  <2>1. \A i \in DOMAIN w : Local(w[i]) \in PatchSet
    BY <1>1, LocalIs
  <2> QED
    BY <1>1, <2>1 DEF AllLocal
<1>4. /\ o \in Seq(SoundPatch) /\ Len(o) = Len(w) /\ Descending(o) /\ Elements(o) = Elements(w)
  BY OrderOfPatches
<1> HIDE DEF o
<1>5. DOMAIN o = 1 .. Len(o) /\ DOMAIN v = DOMAIN o /\ \A i \in DOMAIN o : v[i] = Local(o[i]) /\ o[i] \in SoundPatch
  BY <1>4 DEF AllLocal
<1>6. v \in Seq(PatchSet) /\ Len(v) = Len(o)
  <2>1. \A i \in DOMAIN o : Local(o[i]) \in PatchSet
    BY <1>5, LocalIs
  <2>2. v = [i \in 1 .. Len(o) |-> Local(o[i])] /\ Len(o) \in Nat
    BY <1>4, <1>5 DEF AllLocal
  <2> HIDE DEF v
  <2> QED
    BY <1>5, <2>1, <2>2
<1> HIDE DEF local, v
<1>7. Started(PatchSet)
  BY DEF Started, PatchSet
<1>8. Descending(v)
  <2>1. ASSUME NEW i \in DOMAIN v, NEW j \in DOMAIN v, i < j PROVE v[j].start < v[i].start
    <3>1. /\ o[j].start < o[i].start /\ v[i] = Local(o[i]) /\ v[j] = Local(o[j])
          /\ o[i] \in SoundPatch /\ o[j] \in SoundPatch
      BY <1>4, <1>5, <2>1 DEF Descending
    <3>2. v[i].start = o[i].start - Opening /\ v[j].start = o[j].start - Opening
      BY <3>1, LocalIs
    <3>3. o[i].start \in Int /\ o[j].start \in Int /\ Opening \in Int
      BY <3>1, SourceIsText DEF SoundPatch, PatchRecord
    <3> QED
      BY <3>1, <3>2, <3>3
  <2> QED
    BY <2>1 DEF Descending
<1>9. Elements(local) = {Local(p) : p \in Elements(w)} /\ Elements(v) = {Local(p) : p \in Elements(o)}
  BY <1>2, <1>5 DEF Elements
<1>10. Elements(v) = Elements(local)
  BY <1>4, <1>9
<1>11. \A p \in Elements(local) : ValidPatch(Source, p) /\ p.start \in Int /\ p.end \in Int /\ p.start < p.end
  <2> TAKE q \in Elements(local)
  <2>1. PICK p \in Elements(w) : q = Local(p)
    BY <1>9
  <2>2. p \in SoundPatch
    BY <1>1, <2>1 DEF Elements
  <2> QED
    BY <2>1, <2>2, LocalIs
<1>12. ASSUME NEW p \in Elements(local), NEW q \in Elements(local), RangesOverlap(q, p) PROVE p = q
  <2>1. PICK a \in Elements(w), b \in Elements(w) : p = Local(a) /\ q = Local(b)
    BY <1>9
  <2>2. PICK i \in DOMAIN w, j \in DOMAIN w : a = w[i] /\ b = w[j]
    BY <2>1 DEF Elements
  <2>3. SUFFICES ASSUME i # j PROVE FALSE
    BY <2>1, <2>2
  <2>4. Apart(a, b) /\ a \in SoundPatch /\ b \in SoundPatch
    BY <1>1, <2>2, <2>3 DEF PatchesApart
  <2>5. /\ a.start \in Int /\ a.end \in Int /\ b.start \in Int /\ b.end \in Int /\ Opening \in Int
    BY <2>4, SourceIsText DEF SoundPatch, PatchRecord
  <2>6. /\ p.start = a.start - Opening /\ p.end = a.end - Opening
        /\ q.start = b.start - Opening /\ q.end = b.end - Opening
    BY <2>1, <2>4, LocalIs
  <2>7. p.end <= q.start \/ q.end <= p.start
    BY <2>4, <2>5, <2>6 DEF Apart
  <2>8. q.start < p.end /\ p.start < q.end
    BY <1>11, <1>12 DEF RangesOverlap, IsEmptySpan
  <2> QED
    BY <1>11, <2>7, <2>8
<1>13. /\ accepted \in Seq(PatchSet) /\ KeptApart(accepted)
       /\ Elements(accepted) \subseteq Elements(local)
       /\ \A p \in Elements(local) : p \in Elements(accepted) \/ Shadowed(p, accepted)
  <2>1. Elements(Ordered(Source, local)) = {p \in Elements(local) : ValidPatch(Source, p)}
    BY <1>3, OrderedKeeps
  <2>2. Elements(Ordered(Source, local)) = Elements(local)
    BY <1>11, <2>1
  <2> QED
    BY <1>3, <2>2, ResolveKeeps
<1> HIDE DEF accepted
<1>14. Elements(accepted) = Elements(local)
  <2>1. ASSUME NEW p \in Elements(local), Shadowed(p, accepted) PROVE p \in Elements(accepted)
    <3>1. PICK q \in Elements(accepted) : RangesOverlap(q, p)
      BY <2>1 DEF Shadowed
    <3>2. p = q
      BY <1>12, <1>13, <3>1
    <3> QED
      BY <3>1, <3>2
  <2> QED
    BY <1>13, <2>1
<1>15. DOMAIN accepted = 1 .. Len(accepted) /\ Len(accepted) \in Nat
  BY <1>13
<1>16. StartsDiffer(accepted)
  <2>1. ASSUME NEW i \in DOMAIN accepted, NEW j \in DOMAIN accepted, i < j
        PROVE  accepted[i].start # accepted[j].start
    <3>1. ~RangesOverlap(accepted[i], accepted[j])
      BY <1>13, <2>1 DEF KeptApart
    <3>2. accepted[i] \in Elements(local) /\ accepted[j] \in Elements(local)
      BY <1>13 DEF Elements
    <3> QED
      BY <1>11, <3>1, <3>2 DEF RangesOverlap, IsEmptySpan
  <2>2. \A i, j \in DOMAIN accepted : i # j => i < j \/ j < i
    BY <1>15
  <2> QED
    BY <2>1, <2>2 DEF StartsDiffer
<1> DEFINE u == SpliceOrder(accepted)
<1>17. u \in Seq(PatchSet) /\ Len(u) = Len(accepted) /\ Descending(u) /\ Elements(u) = Elements(accepted)
  BY <1>7, <1>13, <1>16, SpliceOrderIs
<1> HIDE DEF u
<1>18. u = v
  BY <1>6, <1>7, <1>8, <1>10, <1>14, <1>17, OneOrder
<1>19. Len(accepted) = Len(w)
  BY <1>4, <1>6, <1>17, <1>18
<1> QED
  BY <1>18, <1>19 DEF u, v, o, accepted, local

(* The patches a splicer records are honest: for every sentence, every set of *)
(* replacements and every number of edits, resolve keeps every one of them,   *)
(* applying them to the sentence gives the working text the stages matched    *)
(* against, opening_intact tells whether one of them took the first byte, and *)
(* apply_recapitalize's replay rebuilds the chain they were recorded on.      *)
THEOREM PatchesHonest == Spec => []HonestPatches
<1>1. IInv /\ Canonical => HonestPatches
  <2> SUFFICES ASSUME IInv, Canonical PROVE HonestPatches
    OBVIOUS
  <2> DEFINE local == [i \in DOMAIN patches |->
                         [patches[i] EXCEPT !.start = @ - Opening, !.end = @ - Opening]]
             accepted == Resolve(Source, local)
             o == SpliceOrder(patches)
  <2>1. local = AllLocal(patches)
    BY DEF AllLocal, Local
  <2>2. patches \in Seq(SoundPatch) /\ PatchesApart(patches)
    BY DEF IInv
  <2>3. Len(accepted) = Len(patches) /\ SpliceOrder(accepted) = AllLocal(o)
    BY <2>1, <2>2, AllAccepted
  <2> HIDE DEF local, accepted
  <2>4. ApplyPatches(Source, accepted) = WorkingText(chunks)
    <3>1. o \in Seq(SoundPatch) /\ Tiled(o)
      BY <2>2, OrderOfPatches
    <3>2. ApplyPatches(Source, accepted) = Applying!Folded(0, Source, AllLocal(o))
      BY <2>3, ApplyIsAFold
    <3>3. chunks = From(Opening, Composed(o))
      BY DEF Canonical
    <3> HIDE DEF o
    <3> QED
      BY <3>1, <3>2, <3>3, AppliedReads
  <2>5. OpeningIntact(chunks) <=> \A i \in DOMAIN patches : patches[i].start > Opening
    BY OpeningIsTold
  <2>6. Replayed(patches).chunks = chunks
    BY ReplayRebuilds
  <2> QED
    BY <2>3, <2>4, <2>5, <2>6 DEF HonestPatches, local, accepted
<1>2. Spec => []IInv
  BY Inductive
<1> QED
  BY <1>1, <1>2, ChainIsCanonical, PTL

(***************************************************************************)
(* Where a laid out row of patches puts things: byte order, none meeting   *)
(* another, all inside the source.                                         *)
(***************************************************************************)
PatchOver(S) == [start : Nat, end : Nat, text : Seq(S), rule : Nat]

LaidOut(source, w) ==
  /\ \A i \in DOMAIN w : w[i].start <= w[i].end /\ w[i].end <= Len(source)
  /\ \A i, j \in DOMAIN w : i < j => w[i].start < w[j].start /\ w[i].end <= w[j].start

GrowthStep(nothing, sum, p) == sum + Len(p.text) - (p.end - p.start)
Growing == INSTANCE FoldFacts WITH Op <- GrowthStep

LEMMA GrowthInducts ==
  Growing!Inductive
BY NatInduct DEF Growing!Inductive

LEMMA GrowthIsAFold ==
  ASSUME NEW w, NEW i
  PROVE  Growth(w, i) = Growing!Folded(0, 0, SubSeq(w, 1, i))
<1> DEFINE part == SubSeq(w, 1, i)
<1> HIDE DEF part
<1>1. FoldLeft(LAMBDA sum, p : sum + Len(p.text) - (p.end - p.start), 0, part) = Growing!Folded(0, 0, part)
  BY DEF Growing!Folded, GrowthStep, FoldLeft, MapThenFoldSet, Max
<1> QED
  BY <1>1 DEF Growth, part

LEMMA PatchFields ==
  ASSUME NEW S, NEW p \in PatchOver(S)
  PROVE  p.start \in Nat /\ p.end \in Nat /\ p.text \in Seq(S) /\ Len(p.text) \in Nat
BY DEF PatchOver

LEMMA GrowthSums ==
  ASSUME NEW S, NEW w \in Seq(PatchOver(S))
  PROVE  /\ Growth(w, 0) = 0
         /\ \A k \in 0 .. Len(w) : Growth(w, k) \in Int
         /\ \A k \in 1 .. Len(w) : Growth(w, k) = Growth(w, k - 1) + Len(w[k].text) - (w[k].end - w[k].start)
<1> DEFINE n == Len(w)
<1>1. n \in Nat /\ DOMAIN w = 1 .. n /\ \A k \in 1 .. n : w[k] \in PatchOver(S)
  OBVIOUS
<1>2. \A k \in 0 .. n : DOMAIN SubSeq(w, 1, k) = 1 .. k /\ \A i \in 1 .. k : SubSeq(w, 1, k)[i] = w[i]
  OBVIOUS
<1> HIDE DEF n
<1>3. PICK g : Growing!IsTrace(0, 0, n, w, g) /\ Growing!Folded(0, 0, w) = g[n]
  BY <1>1, Growing!FoldHasTrace, GrowthInducts
<1>4. ASSUME NEW k \in 0 .. n PROVE Growth(w, k) = g[k]
  <2> DEFINE v == SubSeq(w, 1, k)
  <2>1. k \in Nat /\ DOMAIN v = 1 .. k /\ \A i \in 1 .. k : v[i] = w[i] /\ i \in 1 .. n
    BY <1>1, <1>2
  <2> HIDE DEF v
  <2>2. Growing!IsTrace(0, 0, k, v, g)
    BY <1>3, <2>1 DEF Growing!IsTrace
  <2>3. Growing!Folded(0, 0, v) = g[k]
    BY <2>1, <2>2, Growing!FoldUnique, GrowthInducts
  <2> QED
    BY <2>3, GrowthIsAFold DEF v
<1>5. g[0] = 0 /\ \A k \in 1 .. n : g[k] = g[k - 1] + Len(w[k].text) - (w[k].end - w[k].start)
  BY <1>3 DEF Growing!IsTrace, GrowthStep
<1> DEFINE I == [k \in 0 .. n |-> Int]
<1>6. Growing!IsPassedOn(0, 0, n, w, I)
  <2>1. ASSUME NEW k \in 1 .. n, NEW acc \in I[k - 1] PROVE GrowthStep(0, acc, w[k]) \in I[k]
    <3>1. k \in 0 .. n /\ k - 1 \in 0 .. n
      BY <1>1
    <3>2. acc \in Int /\ w[k].start \in Int /\ w[k].end \in Int /\ Len(w[k].text) \in Int
      BY <1>1, <2>1, <3>1, PatchFields
    <3> DEFINE l == Len(w[k].text)
    <3> HIDE DEF l
    <3>3. acc + l - (w[k].end - w[k].start) \in Int
      BY <3>2 DEF l
    <3> QED
      BY <3>1, <3>3 DEF GrowthStep, l
  <2>2. 0 \in I[0]
    BY <1>1
  <2> QED
    BY <2>1, <2>2 DEF Growing!IsPassedOn
<1> HIDE DEF I
<1>7. \A k \in 0 .. n : g[k] \in I[k]
  BY <1>1, <1>3, <1>6, Growing!TraceInvariant, GrowthInducts
<1>8. \A k \in 1 .. n : k \in 0 .. n /\ k - 1 \in 0 .. n
  BY <1>1
<1>9. 0 \in 0 .. n
  BY <1>1
<1> QED
  BY <1>4, <1>5, <1>7, <1>8, <1>9 DEF n, I

\* The replacements stand in their order: what patch i makes of its end lies
\* before what patch j makes of its start, and inside the result.
Ends(w, i) == w[i].end + Growth(w, i)
Starts(w, i) == w[i].start + Growth(w, i - 1)

LEMMA LandingsInOrder ==
  ASSUME NEW S, NEW source, NEW w \in Seq(PatchOver(S)), LaidOut(source, w), Len(source) \in Nat
  PROVE  /\ \A i \in 1 .. Len(w) : /\ Ends(w, i) = Starts(w, i) + Len(w[i].text)
                                   /\ Ends(w, i) <= Len(source) + Growth(w, Len(w))
                                   /\ Starts(w, i) \in Int /\ Ends(w, i) \in Int
         /\ \A i \in 1 .. Len(w) : \A j \in 1 .. Len(w) : i < j => Ends(w, i) <= Starts(w, j)
         /\ \A j \in 1 .. Len(w) : \A i \in 0 .. j - 1 : Growth(w, i) <= Starts(w, j)
<1> DEFINE n == Len(w)
           s(i) == w[i].start
           e(i) == w[i].end
           l(i) == Len(w[i].text)
           G(i) == Growth(w, i)
           L == Len(source)
<1>1. n \in Nat /\ DOMAIN w = 1 .. n /\ L \in Nat
      /\ \A i \in 1 .. n : s(i) \in Nat /\ e(i) \in Nat /\ l(i) \in Nat
  BY PatchFields
<1>2. /\ \A i \in 1 .. n : s(i) <= e(i) /\ e(i) <= L
      /\ \A i \in 1 .. n : \A j \in 1 .. n : i < j => s(i) < s(j) /\ e(i) <= s(j)
  BY <1>1 DEF LaidOut
<1>3. /\ G(0) = 0 /\ \A k \in 0 .. n : G(k) \in Int
      /\ \A k \in 1 .. n : G(k) = G(k - 1) + l(k) - (e(k) - s(k))
  BY GrowthSums
<1> HIDE DEF n, s, e, l, G, L
<1>4. \A k \in 1 .. n : k \in 0 .. n /\ k - 1 \in 0 .. n
  BY <1>1
<1>5. \A i \in 1 .. n : s(i) + G(i - 1) \in Int /\ e(i) + G(i) \in Int /\ e(i) + G(i) = (s(i) + G(i - 1)) + l(i)
  <2>1. ASSUME NEW i \in 1 .. n
        PROVE  s(i) + G(i - 1) \in Int /\ e(i) + G(i) \in Int /\ e(i) + G(i) = (s(i) + G(i - 1)) + l(i)
    <3>1. s(i) \in Int /\ e(i) \in Int /\ l(i) \in Int
      BY <1>1
    <3>2. G(i) \in Int /\ G(i - 1) \in Int
      BY <1>3, <1>4
    <3>3. G(i) = G(i - 1) + l(i) - (e(i) - s(i))
      BY <1>3
    <3> QED
      BY <3>1, <3>2, <3>3
  <2> QED
    BY <2>1
<1> DEFINE T == {j \in Nat : j < n => /\ \A i \in 1 .. j : e(i) + G(i) <= s(j + 1) + G(j)
                                      /\ \A i \in 0 .. j : G(i) <= s(j + 1) + G(j)}
<1>6. 0 \in T
  <2>1. ASSUME 0 < n PROVE G(0) <= s(0 + 1) + G(0)
    <3>1. 1 \in 1 .. n /\ 0 + 1 = 1
      BY <1>1, <2>1
    <3>2. s(1) \in Nat
      BY <1>1, <3>1
    <3> QED
      BY <1>3, <3>1, <3>2
  <2>2. (1 .. 0 = {}) /\ \A i \in 0 .. 0 : i = 0
    OBVIOUS
  <2> QED
    BY <2>1, <2>2
<1>7. ASSUME NEW j \in Nat, j \in T PROVE j + 1 \in T
  <2>1. SUFFICES ASSUME j + 1 < n
                 PROVE  /\ \A i \in 1 .. j + 1 : e(i) + G(i) <= s((j + 1) + 1) + G(j + 1)
                        /\ \A i \in 0 .. j + 1 : G(i) <= s((j + 1) + 1) + G(j + 1)
    OBVIOUS
  <2> DEFINE x == j + 1
             y == x + 1
  <2>2. x \in 1 .. n /\ y \in 1 .. n /\ x < y /\ x - 1 = j /\ j < n /\ x \in 0 .. n
    BY <1>1, <2>1
  <2>3. /\ \A i \in 1 .. j : e(i) + G(i) <= s(x) + G(j)
        /\ \A i \in 0 .. j : G(i) <= s(x) + G(j)
    BY <1>7, <2>2
  <2>4. e(x) <= s(y) /\ e(x) + G(x) = (s(x) + G(j)) + l(x) /\ s(x) \in Nat /\ s(y) \in Nat /\ e(x) \in Nat
        /\ l(x) \in Nat /\ G(x) \in Int /\ G(j) \in Int
    <3>1. e(x) <= s(y)
      BY <1>2, <2>2
    <3>2. e(x) + G(x) = (s(x) + G(j)) + l(x)
      BY <1>5, <2>2
    <3>3. s(x) \in Nat /\ s(y) \in Nat /\ e(x) \in Nat /\ l(x) \in Nat
      BY <1>1, <2>2
    <3>4. G(x) \in Int /\ G(j) \in Int
      BY <1>3, <1>4, <2>2
    <3> QED
      BY <3>1, <3>2, <3>3, <3>4
  <2>5. \A i \in 1 .. j : i \in 1 .. n /\ i \in 0 .. n /\ i # x
    BY <1>1, <2>2
  <2>6. s(x) + G(j) <= s(y) + G(x)
    BY <2>4
  <2>7. ASSUME NEW i \in 1 .. x PROVE e(i) + G(i) <= s(y) + G(x)
    <3>1. CASE i \in 1 .. j
      <4>1. e(i) + G(i) <= s(x) + G(j) /\ e(i) + G(i) \in Int
        BY <1>5, <2>3, <2>5, <3>1
      <4> QED
        BY <2>4, <2>6, <4>1
    <3>2. CASE i = x
      BY <2>4, <3>2
    <3> QED
      BY <3>1, <3>2
  <2>8. ASSUME NEW i \in 0 .. x PROVE G(i) <= s(y) + G(x)
    <3>1. CASE i \in 0 .. j
      <4>1. G(i) <= s(x) + G(j) /\ G(i) \in Int
        <5>1. i \in 0 .. n
          BY <1>1, <2>2, <3>1
        <5> QED
          BY <1>3, <2>3, <3>1, <5>1
      <4> QED
        BY <2>4, <2>6, <4>1
    <3>2. CASE i = x
      BY <2>4, <3>2
    <3> QED
      BY <3>1, <3>2
  <2> QED
    BY <2>7, <2>8
<1> HIDE DEF T
<1>8. Nat \subseteq T
  BY <1>6, <1>7, NatInduct
<1>9. ASSUME NEW j \in 1 .. n
      PROVE  /\ \A i \in 1 .. n : i < j => e(i) + G(i) <= s(j) + G(j - 1)
             /\ \A i \in 0 .. j - 1 : G(i) <= s(j) + G(j - 1)
  <2> DEFINE x == j - 1
  <2>1. x \in Nat /\ x < n /\ x + 1 = j
    BY <1>1
  <2>2. x \in T
    BY <1>8, <2>1
  <2>3. /\ \A i \in 1 .. x : e(i) + G(i) <= s(x + 1) + G(x)
        /\ \A i \in 0 .. x : G(i) <= s(x + 1) + G(x)
    BY <2>1, <2>2 DEF T
  <2>4. \A i \in 1 .. n : i < j => i \in 1 .. x
    BY <1>1
  <2> HIDE DEF x
  <2> QED
    BY <2>1, <2>3, <2>4 DEF x
<1>10. ASSUME NEW i \in 1 .. n PROVE e(i) + G(i) <= L + G(n)
  <2>1. n \in 1 .. n /\ i <= n /\ n - 1 \in 0 .. n
    BY <1>1
  <2>2. e(n) + G(n) <= L + G(n) /\ e(n) + G(n) = (s(n) + G(n - 1)) + l(n) /\ e(n) \in Nat /\ G(n) \in Int
        /\ s(n) + G(n - 1) \in Int /\ l(n) \in Nat
    <3>1. e(n) <= L /\ e(n) \in Nat /\ l(n) \in Nat /\ L \in Nat
      BY <1>1, <1>2, <2>1
    <3>2. G(n) \in Int
      BY <1>3, <1>4, <2>1
    <3>3. e(n) + G(n) = (s(n) + G(n - 1)) + l(n) /\ s(n) + G(n - 1) \in Int
      BY <1>5, <2>1
    <3> QED
      BY <3>1, <3>2, <3>3
  <2>3. CASE i = n
    BY <2>2, <2>3
  <2>4. CASE i < n
    <3>1. e(i) + G(i) <= s(n) + G(n - 1) /\ e(i) + G(i) \in Int
      BY <1>5, <1>9, <2>1, <2>4
    <3> QED
      BY <1>1, <2>2, <3>1
  <2> QED
    BY <1>1, <2>1, <2>3, <2>4
<1> HIDE DEF T
<1> QED
  BY <1>5, <1>9, <1>10 DEF Ends, Starts, n, s, e, l, G, L

Backwards(w) == [i \in 1 .. Len(w) |-> w[Len(w) + 1 - i]]

\* Laid out patches are spliced last one first.
LEMMA SplicedBackwards ==
  ASSUME NEW S, NEW source, Len(source) \in Nat, NEW w \in Seq(PatchOver(S)), LaidOut(source, w)
  PROVE  SpliceOrder(w) = Backwards(w)
<1> DEFINE n == Len(w)
           v == Backwards(w)
           u == SpliceOrder(w)
           P == PatchOver(S)
<1>1. n \in Nat /\ DOMAIN w = 1 .. n /\ w \in Seq(P) /\ \A i \in 1 .. n : w[i] \in P
  OBVIOUS
<1>2. Started(P)
  BY DEF PatchOver, Started
<1>3. \A i \in 1 .. n : w[i].start \in Int
  BY <1>1, <1>2 DEF Started
<1>4. \A i, j \in 1 .. n : i < j => w[i].start < w[j].start
  BY <1>1 DEF LaidOut
<1>5. /\ v \in Seq(P) /\ DOMAIN v = 1 .. n /\ Len(v) = n
      /\ \A i \in 1 .. n : v[i] = w[n + 1 - i] /\ n + 1 - i \in 1 .. n
  <2>1. v = [i \in 1 .. n |-> w[n + 1 - i]]
    BY DEF Backwards
  <2>2. \A i \in 1 .. n : n + 1 - i \in 1 .. n
    BY <1>1
  <2> HIDE DEF v, n, P
  <2>3. \A i \in 1 .. n : w[n + 1 - i] \in P
    BY <1>1, <2>2
  <2> QED
    BY <1>1, <2>1, <2>2, <2>3
<1> HIDE DEF v, n, P
<1>6. Descending(v)
  <2>1. ASSUME NEW i \in 1 .. n, NEW j \in 1 .. n, i < j PROVE v[j].start < v[i].start
    <3>1. n + 1 - j < n + 1 - i
      BY <1>1, <2>1
    <3> QED
      BY <1>4, <1>5, <2>1, <3>1
  <2> QED
    BY <1>5, <2>1 DEF Descending
<1>7. Elements(v) = Elements(w)
  <2>1. \A i \in 1 .. n : n + 1 - i \in 1 .. n /\ n + 1 - (n + 1 - i) = i
    BY <1>1
  <2>2. \A i \in 1 .. n : v[i] = w[n + 1 - i] /\ w[i] = v[n + 1 - i]
    BY <1>5, <2>1
  <2>3. Elements(v) = {v[i] : i \in 1 .. n} /\ Elements(w) = {w[i] : i \in 1 .. n}
    BY <1>1, <1>5 DEF Elements
  <2> QED
    BY <2>1, <2>2, <2>3
<1>8. StartsDiffer(w)
  <2>1. \A i, j \in 1 .. n : i # j => i < j \/ j < i
    BY <1>1
  <2> QED
    BY <1>1, <1>3, <1>4, <2>1 DEF StartsDiffer
<1>9. u \in Seq(P) /\ Descending(u) /\ Elements(u) = Elements(w)
  BY <1>1, <1>2, <1>8, SpliceOrderIs
<1> HIDE DEF u
<1>10. u = v
  BY <1>2, <1>5, <1>6, <1>7, <1>9, OneOrder
<1> QED
  BY <1>10 DEF u, v

\* What a replacement leaves where.
LEMMA ReplaceIs ==
  ASSUME NEW S, NEW x \in Seq(S), NEW p \in PatchOver(S), p.start <= p.end, p.end <= Len(x)
  PROVE  LET y == ReplaceRange(x, p)
             l == Len(p.text)
         IN  /\ y \in Seq(S) /\ Len(y) = Len(x) + (l - (p.end - p.start))
             /\ \A a \in 1 .. p.start : y[a] = x[a]
             /\ \A t \in 1 .. l : y[p.start + t] = p.text[t]
             /\ \A a \in p.start + l + 1 .. Len(y) : y[a] = x[a - (l - (p.end - p.start))]
<1> DEFINE s == p.start
           e == p.end
           text == p.text
           l == Len(text)
           n == Len(x)
           a == SubSeq(x, 1, s)
           c == SubSeq(x, e + 1, n)
           b == a \o text
           y == b \o c
<1>1. s \in Nat /\ e \in Nat /\ l \in Nat /\ n \in Nat /\ s <= e /\ e <= n /\ text \in Seq(S)
  BY PatchFields
<1> HIDE DEF s, e, text
<1>2. a \in Seq(S) /\ Len(a) = s /\ \A i \in 1 .. s : a[i] = x[i]
  BY <1>1
<1>3. c \in Seq(S) /\ Len(c) = n - e /\ \A i \in 1 .. n - e : c[i] = x[e + i]
  BY <1>1
<1> HIDE DEF a, c, l, n
<1>4. b \in Seq(S) /\ Len(b) = s + l /\ (\A i \in 1 .. s : b[i] = x[i]) /\ \A t \in 1 .. l : b[s + t] = text[t]
  <2>1. b \in Seq(S) /\ Len(b) = Len(a) + Len(text)
    BY <1>1, <1>2
  <2>2. \A i \in 1 .. Len(a) : b[i] = a[i]
    BY <1>1, <1>2
  <2>3. \A i \in 1 .. Len(text) : b[Len(a) + i] = text[i]
    BY <1>1, <1>2
  <2> HIDE DEF b
  <2> QED
    BY <1>2, <2>1, <2>2, <2>3 DEF l
<1> HIDE DEF b
<1>5. /\ y \in Seq(S) /\ Len(y) = Len(b) + Len(c)
      /\ \A i \in 1 .. Len(b) : y[i] = b[i]
      /\ \A i \in 1 .. Len(c) : y[Len(b) + i] = c[i]
  <2>0. b \in Seq(S) /\ c \in Seq(S)
    BY <1>3, <1>4
  <2>1. y \in Seq(S) /\ Len(y) = Len(b) + Len(c)
    BY <2>0
  <2>2. \A i \in 1 .. Len(b) : y[i] = b[i]
    BY <2>0
  <2>3. \A i \in 1 .. Len(c) : y[Len(b) + i] = c[i]
    BY <2>0
  <2> QED
    BY <2>1, <2>2, <2>3
<1> HIDE DEF y
<1>6. Len(y) = n + (l - (e - s))
  BY <1>1, <1>3, <1>4, <1>5
<1>7. \A i \in 1 .. s : y[i] = x[i]
  <2>1. \A i \in 1 .. s : i \in 1 .. s + l
    BY <1>1
  <2> QED
    BY <1>4, <1>5, <2>1
<1>8. \A t \in 1 .. l : y[s + t] = text[t]
  <2>1. \A t \in 1 .. l : s + t \in 1 .. s + l
    BY <1>1
  <2> QED
    BY <1>4, <1>5, <2>1
<1>9. ASSUME NEW i \in s + l + 1 .. Len(y) PROVE y[i] = x[i - (l - (e - s))]
  <2> DEFINE k == i - (s + l)
  <2>1. k \in 1 .. n - e /\ i = (s + l) + k /\ e + k = i - (l - (e - s))
    BY <1>1, <1>6, <1>9
  <2> HIDE DEF k
  <2>2. y[(s + l) + k] = c[k]
    BY <1>3, <1>4, <1>5, <2>1
  <2>3. c[k] = x[e + k]
    BY <1>3, <2>1
  <2> QED
    BY <2>1, <2>2, <2>3
<1>10. ReplaceRange(x, p) = y
  BY DEF ReplaceRange, y, b, a, c, n, s, e, text
<1> QED
  BY <1>5, <1>6, <1>7, <1>8, <1>9, <1>10 DEF s, e, l, n, text

\* What a text holds once the patches after the first k are spliced: their
\* replacements, and the bytes between the patches, each as far on as the
\* patches between k and it made the text longer.
Between(w, k, m, b) == (m > k => w[m].end < b) /\ (m < Len(w) => b <= w[m + 1].start)
Carries(source, w, x, k) ==
  /\ Len(x) = Len(source) + Growth(w, Len(w)) - Growth(w, k)
  /\ \A i \in k + 1 .. Len(w) : \A t \in 1 .. Len(w[i].text) : x[(Starts(w, i) - Growth(w, k)) + t] = w[i].text[t]
  /\ \A m \in k .. Len(w) : \A b \in 1 .. Len(source) :
       Between(w, k, m, b) => x[(b + Growth(w, m)) - Growth(w, k)] = source[b]

LEMMA CarriesAtFirst ==
  ASSUME NEW S, NEW source \in Seq(S), NEW w \in Seq(PatchOver(S))
  PROVE  Carries(source, w, source, Len(w))
<1> DEFINE n == Len(w)
           L == Len(source)
<1>1. n \in Nat /\ L \in Nat /\ \A k \in 0 .. n : Growth(w, k) \in Int
  BY GrowthSums
<1>2. L = L + Growth(w, n) - Growth(w, n)
  BY <1>1
<1>3. \A b \in 1 .. L : (b + Growth(w, n)) - Growth(w, n) = b
  BY <1>1
<1>4. n .. n = {n} /\ n + 1 .. n = {}
  BY <1>1
<1> HIDE DEF n, L
<1> QED
  BY <1>2, <1>3, <1>4 DEF Carries, n, L

LEMMA HoldsStep ==
  ASSUME NEW S, NEW source \in Seq(S), NEW w \in Seq(PatchOver(S)), LaidOut(source, w),
         NEW k, k \in 1 .. Len(w), NEW x, x \in Seq(S), Carries(source, w, x, k)
  PROVE  ReplaceRange(x, w[k]) \in Seq(S) /\ Carries(source, w, ReplaceRange(x, w[k]), k - 1)
<1> DEFINE n == Len(w)
           s(i) == w[i].start
           e(i) == w[i].end
           l(i) == Len(w[i].text)
           G(i) == Growth(w, i)
           L == Len(source)
           y == ReplaceRange(x, w[k])
           g == l(k) - (e(k) - s(k))
           lx == Len(x)
           ly == Len(y)
<1>1. n \in Nat /\ DOMAIN w = 1 .. n /\ L \in Nat
      /\ \A i \in 1 .. n : s(i) \in Nat /\ e(i) \in Nat /\ l(i) \in Nat
  BY PatchFields
<1>2. /\ \A i \in 1 .. n : s(i) <= e(i) /\ e(i) <= L
      /\ \A i \in 1 .. n : \A j \in 1 .. n : i < j => s(i) < s(j) /\ e(i) <= s(j)
  BY <1>1 DEF LaidOut
<1>3. /\ \A i \in 0 .. n : G(i) \in Int
      /\ G(k) = G(k - 1) + l(k) - (e(k) - s(k))
  BY GrowthSums
<1>4. /\ \A i \in 1 .. n : e(i) + G(i) = (s(i) + G(i - 1)) + l(i)
      /\ \A i \in 1 .. n : e(i) + G(i) <= L + G(n)
      /\ \A i \in 1 .. n : \A j \in 1 .. n : i < j => e(i) + G(i) <= s(j) + G(j - 1)
  BY <1>1, LandingsInOrder DEF Starts, Ends
<1>5. w[k] \in PatchOver(S)
  BY <1>1
<1>6. lx = L + G(n) - G(k)
  BY DEF Carries
<1>7. ASSUME NEW i \in k + 1 .. n, NEW t \in 1 .. l(i)
      PROVE x[((s(i) + G(i - 1)) - G(k)) + t] = w[i].text[t]
  BY <1>7 DEF Carries, Starts
<1>8. ASSUME NEW m \in k .. n, NEW b \in 1 .. L, m > k => e(m) < b, m < n => b <= s(m + 1)
      PROVE  x[(b + G(m)) - G(k)] = source[b]
  BY <1>8 DEF Carries, Between
<1> HIDE DEF s, e, l, G
<1>9. /\ k \in 1 .. n /\ k \in 0 .. n /\ k - 1 \in 0 .. n /\ n \in 0 .. n
      /\ \A i \in k + 1 .. n : i \in 1 .. n /\ i - 1 \in 0 .. n /\ i \in 0 .. n /\ k < i
  BY <1>1
<1> HIDE DEF n, L, lx, ly
<1>10. s(k) \in Nat /\ e(k) \in Nat /\ l(k) \in Nat /\ G(k) \in Int /\ G(k - 1) \in Int /\ G(n) \in Int
       /\ s(k) <= e(k) /\ e(k) <= L /\ e(k) + G(k) <= L + G(n) /\ g \in Int /\ G(k) = G(k - 1) + g
       /\ L \in Nat /\ n \in Nat /\ e(k) + G(k) = (s(k) + G(k - 1)) + l(k)
  <2>1. s(k) \in Nat /\ e(k) \in Nat /\ l(k) \in Nat
    BY <1>1, <1>9
  <2>2. G(k) \in Int /\ G(k - 1) \in Int /\ G(n) \in Int
    BY <1>3, <1>9
  <2>3. s(k) <= e(k) /\ e(k) <= L /\ e(k) + G(k) <= L + G(n)
    BY <1>2, <1>4, <1>9
  <2>4. g \in Int
    BY <2>1
  <2>5. G(k) = G(k - 1) + g
    BY <1>3, <2>1, <2>2
  <2>6. L \in Nat /\ n \in Nat
    BY <1>1
  <2>7. e(k) + G(k) = (s(k) + G(k - 1)) + l(k)
    BY <1>4, <1>9
  <2> QED
    BY <2>1, <2>2, <2>3, <2>4, <2>5, <2>6, <2>7
<1>10a. s(k) \in Nat /\ e(k) \in Nat /\ l(k) \in Nat /\ L \in Nat /\ n \in Nat
  BY <1>10
<1>10b. G(k) \in Int /\ G(k - 1) \in Int /\ G(n) \in Int /\ g \in Int
  BY <1>10
<1>10c. e(k) + G(k) \in Int /\ L + G(n) \in Int
  BY ONLY <1>10a, <1>10b
<1>11. e(k) <= lx
  <2>1. L \in Nat /\ G(n) \in Int /\ G(k) \in Int /\ e(k) \in Nat /\ e(k) + G(k) <= L + G(n)
    BY <1>10
  <2> QED
    BY ONLY <2>1, <1>6
<1>12. /\ y \in Seq(S) /\ ly = lx + g
       /\ \A a \in 1 .. s(k) : y[a] = x[a]
       /\ \A t \in 1 .. l(k) : y[s(k) + t] = w[k].text[t]
       /\ \A a \in (s(k) + l(k)) + 1 .. ly : y[a] = x[a - g]
  <2>1. w[k].start <= w[k].end /\ w[k].end <= Len(x)
    BY <1>10, <1>11 DEF s, e, lx
  <2> QED
    BY <1>5, <2>1, ReplaceIs DEF s, e, l, lx, ly
<1> HIDE DEF y, g
<1>13. ly = L + G(n) - G(k - 1)
  <2>1. L \in Nat /\ G(n) \in Int /\ G(k) \in Int /\ G(k-1) \in Int /\ g \in Int
    BY <1>10
  <2>2. G(k) = G(k-1) + g
    BY <1>10
  <2>3. ly = lx + g
    BY <1>12
  <2> QED
    BY ONLY <2>1, <2>2, <2>3, <1>6
\* What stands behind the replacement moves on by its growth.
<1>14. ASSUME NEW z \in Int, e(k) + G(k) < z, z <= L + G(n)
       PROVE  y[z - G(k - 1)] = x[z - G(k)]
  <2> DEFINE a == z - G(k - 1)
  <2>1. a - g = z - G(k)
    BY <1>10
  <2>2. s(k) + l(k) + G(k - 1) < z
    BY <1>10, <1>14
  <2>3. a \in (s(k) + l(k)) + 1 .. ly
    <3>1. a \in Int /\ (s(k) + l(k)) + 1 <= a
      <4>1. z \in Int
        BY <1>14
      <4> QED
        BY ONLY <1>10a, <1>10b, <2>2, <4>1
    <3>2. a <= ly
      <4>1. L \in Nat /\ G(n) \in Int /\ G(k - 1) \in Int
        BY <1>10
      <4>2. z \in Int /\ z <= L + G(n)
        BY <1>14
      <4>3. z - G(k - 1) <= L + G(n) - G(k - 1)
        BY ONLY <4>1, <4>2
      <4> QED
        BY <1>13, <4>3
    <3>3. ly \in Int /\ s(k) + l(k) \in Int
      <4>1. s(k) \in Nat /\ l(k) \in Nat
        BY <1>10
      <4>2. L \in Nat /\ G(n) \in Int /\ G(k - 1) \in Int
        BY <1>10
      <4>3. L + G(n) - G(k - 1) \in Int
        BY ONLY <4>2
      <4>4. ly \in Int
        BY <1>13, <4>3
      <4>5. s(k) + l(k) \in Int
        BY ONLY <4>1
      <4> QED
        BY <4>4, <4>5
    <3> QED
      BY <3>1, <3>2, <3>3
  <2> HIDE DEF a
  <2>4. y[a] = x[a - g]
    BY <1>12, <2>3
  <2> QED
    BY <2>1, <2>4 DEF a
<1>15. ASSUME NEW i \in k .. n, NEW t \in 1 .. l(i)
       PROVE  y[((s(i) + G(i - 1)) - G(k - 1)) + t] = w[i].text[t]
  <2>1. CASE i = k
    <3>1. ((s(k) + G(k - 1)) - G(k - 1)) + t = s(k) + t
      BY <1>10
    <3> QED
      BY <1>12, <1>15, <2>1, <3>1
  <2>2. CASE i > k
    <3>1. i \in k + 1 .. n /\ i \in 1 .. n
      BY <1>1, <1>9, <2>2
    <3> DEFINE z == (s(i) + G(i - 1)) + t
    <3>2. s(i) \in Nat /\ l(i) \in Nat /\ e(i) \in Nat /\ G(i - 1) \in Int /\ G(i) \in Int
      BY <1>1, <1>3, <1>9, <3>1
    <3>3. e(k) + G(k) <= s(i) + G(i - 1)
      BY <1>4, <1>9, <3>1
    <3>4. e(i) + G(i) = (s(i) + G(i - 1)) + l(i) /\ e(i) + G(i) <= L + G(n)
      BY <1>4, <3>1
    <3>5. z \in Int /\ e(k) + G(k) < z /\ z <= L + G(n)
      <4>1. t \in Nat /\ 0 < t /\ t <= l(i)
        BY <3>2
      <4> QED
        <5> DEFINE at == s(i) + G(i - 1)
                   j == l(i)
        <5>1. at \in Int /\ j \in Nat
          BY ONLY <3>2
        <5>2. e(k) + G(k) <= at /\ at + j <= L + G(n)
          BY <3>3, <3>4
        <5>3. t \in Nat /\ 0 < t /\ t <= j
          BY <4>1
        <5>4. z = at + t
          OBVIOUS
        <5> HIDE DEF at, j, z
        <5> QED
          BY ONLY <1>10c, <5>1, <5>2, <5>3, <5>4
    <3>6. z - G(k - 1) = ((s(i) + G(i - 1)) - G(k - 1)) + t /\ z - G(k) = ((s(i) + G(i - 1)) - G(k)) + t
      <4>1. t \in Int /\ s(i) + G(i - 1) \in Int
        BY <3>2
      <4> QED
        BY ONLY <1>10b, <4>1
    <3>7. y[z - G(k - 1)] = x[z - G(k)]
      BY <1>14, <3>5
    <3> QED
      BY <1>7, <3>1, <3>6, <3>7
  <2> QED
    BY <1>1, <1>9, <2>1, <2>2
<1>16. ASSUME NEW m \in k - 1 .. n, NEW b \in 1 .. L, m > k - 1 => e(m) < b, m < n => b <= s(m + 1)
       PROVE  y[(b + G(m)) - G(k - 1)] = source[b]
  <2>1. CASE m = k - 1
    <3>1. b <= s(k) /\ b \in 1 .. s(k)
      <4>1. m < n /\ m + 1 = k
        BY <1>1, <1>9, <2>1
      <4>2. b <= s(k) /\ b \in Nat /\ 1 <= b
        BY <1>16, <1>10a, <4>1
      <4> QED
        BY ONLY <1>10a, <4>2
    <3>2. (b + G(k - 1)) - G(k - 1) = b /\ (b + G(k)) - G(k) = b
      <4>1. b \in Int
        OBVIOUS
      <4> QED
        BY ONLY <1>10b, <4>1
    <3>3. k < n => b <= s(k + 1)
      <4>1. SUFFICES ASSUME k < n PROVE b <= s(k + 1)
        OBVIOUS
      <4>2. k + 1 \in 1 .. n /\ s(k) < s(k + 1) /\ s(k + 1) \in Nat
        BY <1>1, <1>2, <1>9, <4>1
      <4> QED
        BY <1>10, <3>1, <4>2
    <3>4. x[(b + G(k)) - G(k)] = source[b]
      BY <1>8, <1>9, <3>3, <1>1
    <3> QED
      BY <1>12, <2>1, <3>1, <3>2, <3>4
  <2>2. CASE m > k - 1
    <3>1. m \in k .. n /\ m \in 1 .. n /\ e(m) < b
      BY <1>1, <1>9, <1>16, <2>2
    <3>2. e(m) \in Nat /\ s(m) \in Nat /\ l(m) \in Nat /\ G(m) \in Int /\ G(m - 1) \in Int
      BY <1>1, <1>3, <1>9, <3>1
    <3>3. e(k) + G(k) <= e(m) + G(m)
      <4>1. CASE m = k
        BY <1>10, <4>1
      <4>2. CASE m > k
        <5>1. e(k) + G(k) <= s(m) + G(m - 1) /\ e(m) + G(m) = (s(m) + G(m - 1)) + l(m)
          BY <1>4, <1>9, <3>1, <4>2
        <5> QED
          <6>1. e(k) + G(k) \in Int
            BY <1>10c
          <6> QED
            BY ONLY <3>2, <5>1, <6>1
      <4> QED
        BY <1>1, <1>9, <3>1, <4>1, <4>2
    <3>4. b + G(m) <= L + G(n)
      <4>1. CASE m = n
        BY <1>1, <1>10, <4>1
      <4>2. CASE m < n
        <5>1. m + 1 \in 1 .. n /\ (m + 1) - 1 = m /\ b <= s(m + 1)
          BY <1>1, <1>16, <3>1, <4>2
        <5>2. s(m + 1) \in Nat /\ l(m + 1) \in Nat /\ e(m + 1) \in Nat /\ G(m + 1) \in Int
          BY <1>1, <1>3, <5>1
        <5>3. e(m + 1) + G(m + 1) = (s(m + 1) + G(m)) + l(m + 1) /\ e(m + 1) + G(m + 1) <= L + G(n)
          BY <1>4, <5>1
        <5>4. b \in Int
          OBVIOUS
        <5> QED
          <6>1. L \in Nat /\ G(n) \in Int
            BY <1>10
          <6>2. b <= s(m + 1) /\ G(m) \in Int
            BY <3>2, <5>1
          <6> QED
            BY ONLY <5>2, <5>3, <5>4, <6>1, <6>2
      <4> QED
        BY <1>1, <3>1, <4>1, <4>2
    <3> DEFINE z == b + G(m)
    <3>5. z \in Int /\ e(k) + G(k) < z /\ z <= L + G(n)
      <4>1. b \in Int
        OBVIOUS
      <4> QED
        <5>1. e(k) + G(k) \in Int /\ L + G(n) \in Int
          BY <1>10c
        <5>2. e(m) < b /\ e(m) \in Nat /\ G(m) \in Int
          BY <3>1, <3>2
        <5> QED
          BY ONLY <3>3, <3>4, <4>1, <5>1, <5>2
    <3>6. y[z - G(k - 1)] = x[z - G(k)]
      BY <1>14, <3>5
    <3>7. x[(b + G(m)) - G(k)] = source[b]
      BY <1>8, <1>16, <3>1
    <3> QED
      BY <3>6, <3>7
  <2> QED
    BY <1>1, <1>9, <2>1, <2>2
<1>17. (k - 1) + 1 = k
  BY <1>9
<1> QED
  BY <1>12, <1>13, <1>15, <1>16, <1>17 DEF Carries, Between, Starts, y, ly, n, s, e, l, G, L

LEMMA AppliedHolds ==
  ASSUME NEW S, NEW source \in Seq(S), NEW w \in Seq(PatchOver(S)), LaidOut(source, w)
  PROVE  ApplyPatches(source, w) \in Seq(S) /\ Carries(source, w, ApplyPatches(source, w), 0)
<1> DEFINE n == Len(w)
           v == Backwards(w)
           I == [j \in 0 .. n |-> {x \in Seq(S) : Carries(source, w, x, n - j)}]
<1>1. n \in Nat /\ DOMAIN w = 1 .. n
  OBVIOUS
<1>2. DOMAIN v = 1 .. n /\ \A j \in 1 .. n : v[j] = w[n + 1 - j]
  BY DEF Backwards
<1>3. source \in I[0]
  <2>1. Carries(source, w, source, n)
    BY CarriesAtFirst
  <2>2. 0 \in 0 .. n /\ n - 0 = n
    BY <1>1
  <2> HIDE DEF n
  <2> QED
    BY <2>1, <2>2
<1>4. ASSUME NEW j \in 1 .. n, NEW x \in I[j - 1] PROVE SpliceText(0, x, v[j]) \in I[j]
  <2> DEFINE k == n + 1 - j
  <2>1. k \in 1 .. Len(w) /\ k - 1 = n - j /\ k = n - (j - 1) /\ j - 1 \in 0 .. n /\ j \in 0 .. n
    BY <1>1
  <2>2. x \in Seq(S) /\ Carries(source, w, x, k)
    BY <1>4, <2>1
  <2>3. v[j] = w[k]
    BY <1>2
  <2> HIDE DEF k, n, v
  <2>4. ReplaceRange(x, w[k]) \in Seq(S) /\ Carries(source, w, ReplaceRange(x, w[k]), k - 1)
    BY <2>1, <2>2, HoldsStep
  <2> QED
    BY <2>1, <2>3, <2>4 DEF SpliceText
<1> HIDE DEF I, n, v
<1>5. Applying!IsPassedOn(0, source, n, v, I)
  BY <1>3, <1>4 DEF Applying!IsPassedOn
<1>6. Applying!Folded(0, source, v) \in I[n]
  BY <1>1, <1>2, <1>5, Applying!FoldInvariant, ApplyInducts
<1>7. SpliceOrder(w) = v
  BY SplicedBackwards DEF v
<1>8. n \in 0 .. n /\ n - n = 0
  BY <1>1
<1> QED
  BY <1>6, <1>7, <1>8, ApplyIsAFold DEF I

(***************************************************************************)
(* Where rebase_range puts an edge of a span: the patches it is past are   *)
(* the first ones.                                                         *)
(***************************************************************************)
IsPast(p, pos, isEnd) == p.end <= pos /\ ~(isEnd /\ p.start = pos /\ p.start = p.end)
Inside(p, pos) == p.start < pos /\ pos < p.end
Split(w, pos, isEnd, m, k) ==
  (\A i \in 1 .. m : IsPast(w[i], pos, isEnd)) /\ \A i \in m + 1 .. k : ~IsPast(w[i], pos, isEnd)
Snapped(w, m, isEnd) == Starts(w, m + 1) + IF isEnd THEN Len(w[m + 1].text) ELSE 0

LEMMA PastInOrder ==
  ASSUME NEW S, NEW source, Len(source) \in Nat, NEW w \in Seq(PatchOver(S)), LaidOut(source, w),
         NEW pos \in Nat, NEW isEnd, NEW i, NEW j, i \in 1 .. Len(w), j \in 1 .. Len(w), i < j
  PROVE  /\ IsPast(w[j], pos, isEnd) => IsPast(w[i], pos, isEnd)
         /\ Inside(w[j], pos) => IsPast(w[i], pos, isEnd)
         /\ Inside(w[i], pos) => ~IsPast(w[j], pos, isEnd)
<1>1. /\ w[i].start \in Nat /\ w[i].end \in Nat /\ w[j].start \in Nat /\ w[j].end \in Nat
  <2>1. w[i] \in PatchOver(S) /\ w[j] \in PatchOver(S)
    OBVIOUS
  <2> QED
    BY <2>1 DEF PatchOver
<1>2. /\ w[i].start <= w[i].end /\ w[j].start <= w[j].end
      /\ w[i].start < w[j].start /\ w[i].end <= w[j].start
  BY DEF LaidOut
<1> QED
  BY <1>1, <1>2 DEF IsPast, Inside

Walking == INSTANCE FoldFacts WITH Op <- RebaseStep

LEMMA RebaseInducts ==
  Walking!Inductive
BY NatInduct DEF Walking!Inductive

Edge(pos, isEnd) == [pos |-> pos, isEnd |-> isEnd]
Set(pos) == [at |-> pos, done |-> FALSE]
Walk == [at : Int, done : BOOLEAN]

LEMMA RebaseIsAFold ==
  ASSUME NEW pos, NEW isEnd, NEW w
  PROVE  RebaseOffset(pos, isEnd, w) = Walking!Folded(Edge(pos, isEnd), Set(pos), w).at
BY DEF RebaseOffset, Walking!Folded, Edge, Set, FoldLeft, MapThenFoldSet, Max

Stopped(w, pos, isEnd, k, at) ==
  \E m \in 0 .. k - 1 : /\ Split(w, pos, isEnd, m, Len(w)) /\ Inside(w[m + 1], pos)
                        /\ at = Snapped(w, m, isEnd)
Shifted(w, pos, isEnd, k, at) ==
  \E m \in 0 .. k : /\ Split(w, pos, isEnd, m, k) /\ at = pos + Growth(w, m)
                    /\ \A i \in 1 .. k : ~Inside(w[i], pos)
Walked(w, pos, isEnd, k) ==
  {walk \in Walk : IF walk.done THEN Stopped(w, pos, isEnd, k, walk.at) ELSE Shifted(w, pos, isEnd, k, walk.at)}

LEMMA WalksOn ==
  ASSUME NEW S, NEW source, Len(source) \in Nat, NEW w \in Seq(PatchOver(S)), LaidOut(source, w),
         NEW pos \in Nat, NEW isEnd \in BOOLEAN, NEW k, k \in 1 .. Len(w), NEW walk \in Walked(w, pos, isEnd, k - 1)
  PROVE  RebaseStep(Edge(pos, isEnd), walk, w[k]) \in Walked(w, pos, isEnd, k)
<1> DEFINE n == Len(w)
           p == w[k]
           next == RebaseStep(Edge(pos, isEnd), walk, p)
           l == Len(p.text)
<1>1. n \in Nat /\ k \in Nat /\ k - 1 \in Nat /\ p \in PatchOver(S) /\ walk \in Walk
  BY DEF Walked
<1>2. p.start \in Nat /\ p.end \in Nat /\ l \in Nat
  BY <1>1, PatchFields
<1>3. Growth(w, k) \in Int /\ Growth(w, k - 1) \in Int /\ Growth(w, k) = Growth(w, k - 1) + l - (p.end - p.start)
  <2>1. k \in 0 .. n /\ k - 1 \in 0 .. n
    BY <1>1
  <2> QED
    BY <2>1, GrowthSums
<1>4. Edge(pos, isEnd).pos = pos /\ Edge(pos, isEnd).isEnd = isEnd
  BY DEF Edge
<1>5. \A i \in 1 .. k - 1 : i \in 1 .. n /\ i < k
  BY <1>1
<1> HIDE DEF n, p, l
<1>6. CASE walk.done
  <2>1. next = walk
    BY <1>6 DEF RebaseStep
  <2>2. \A m \in 0 .. (k - 1) - 1 : m \in 0 .. k - 1
    BY <1>1
  <2> QED
    <3>1. Stopped(w, pos, isEnd, k - 1, walk.at)
      BY <1>6 DEF Walked
    <3>2. Stopped(w, pos, isEnd, k, walk.at)
      BY <2>2, <3>1 DEF Stopped
    <3> QED
      BY <1>1, <1>6, <2>1, <3>2 DEF Walked, p
<1>7. CASE ~walk.done
  <2>1. PICK m \in 0 .. k - 1 : /\ Split(w, pos, isEnd, m, k - 1) /\ walk.at = pos + Growth(w, m)
                                /\ \A i \in 1 .. k - 1 : ~Inside(w[i], pos)
    BY <1>1, <1>7 DEF Walked, Shifted
  <2>2. m \in Nat /\ m <= k - 1
    BY <1>1
  \* What is not past ends what is.
  <2>3. ASSUME \A i \in 1 .. k - 1 : IsPast(w[i], pos, isEnd) PROVE m = k - 1
    <3>1. SUFFICES ASSUME m < k - 1 PROVE FALSE
      BY <1>1, <2>2
    <3>2. m + 1 \in m + 1 .. k - 1 /\ m + 1 \in 1 .. k - 1
      BY <1>1, <2>2, <3>1
    <3> QED
      BY <2>1, <2>3, <3>2 DEF Split
  <2>4. CASE IsPast(p, pos, isEnd)
    <3>1. m = k - 1
      BY <1>1, <1>5, <2>3, <2>4, PastInOrder DEF n, p
    <3>2. next = [walk EXCEPT !.at = walk.at + l - (p.end - p.start)]
      BY <1>4, <1>7, <2>4 DEF RebaseStep, IsPast, l
    <3> DEFINE to == walk.at + l - (p.end - p.start)
    <3>3. to = pos + Growth(w, k) /\ to \in Int
      <4>1. walk.at = pos + Growth(w, k - 1)
        BY <2>1, <3>1
      <4>2. (pos + Growth(w, k - 1)) + l - (p.end - p.start) = pos + (Growth(w, k - 1) + l - (p.end - p.start))
        BY <1>2, <1>3
      <4>3. pos + Growth(w, k) \in Int
        BY <1>3
      <4> QED
        BY ONLY <1>3, <4>1, <4>2, <4>3
    <3> HIDE DEF to
    <3>4. next \in Walk /\ next.at = to /\ ~next.done
      BY <1>1, <1>7, <3>2, <3>3 DEF Walk, to
    <3>5. k \in 0 .. k /\ (\A i \in 1 .. k : i \in 1 .. k - 1 \/ i = k) /\ k + 1 .. k = {}
      BY <1>1
    <3>6. Split(w, pos, isEnd, k, k)
      BY <2>1, <2>4, <3>1, <3>5 DEF Split, p
    <3>7. \A i \in 1 .. k : ~Inside(w[i], pos)
      <4>1. ~Inside(p, pos)
        BY <1>2, <2>4 DEF IsPast, Inside
      <4> QED
        BY <2>1, <3>5, <4>1 DEF p
    <3> QED
      <4>1. Shifted(w, pos, isEnd, k, next.at)
        BY <3>3, <3>4, <3>5, <3>6, <3>7 DEF Shifted
      <4> QED
        BY <3>4, <4>1 DEF Walked, p
  <2>5. CASE ~IsPast(p, pos, isEnd) /\ Inside(p, pos)
    <3>1. m = k - 1
      BY <1>1, <1>5, <2>3, <2>5, PastInOrder DEF n, p
    <3> DEFINE to == walk.at - (pos - p.start) + (IF isEnd THEN l ELSE 0)
    <3>2. next = [at |-> to, done |-> TRUE]
      BY <1>4, <1>7, <2>5 DEF RebaseStep, IsPast, Inside, l
    <3>3. to = Snapped(w, m, isEnd) /\ to \in Int
      <4>1. m + 1 = k
        BY <1>1, <3>1
      <4>2. Starts(w, k) = p.start + Growth(w, k - 1)
        BY DEF Starts, p
      <4> DEFINE more == IF isEnd THEN l ELSE 0
      <4>3. more \in Int
        BY <1>2
      <4> HIDE DEF more
      <4>4. walk.at - (pos - p.start) + more = (p.start + Growth(w, k - 1)) + more
        BY <1>2, <1>3, <2>1, <3>1, <4>3
      <4>5. walk.at - (pos - p.start) + more \in Int
        BY <1>1, <1>2, <4>3 DEF Walk
      <4>6. Snapped(w, m, isEnd) = Starts(w, k) + more
        BY <4>1 DEF Snapped, more, l, p
      <4> QED
        BY <4>2, <4>4, <4>5, <4>6 DEF more
    <3> HIDE DEF to
    <3>4. next \in Walk /\ next.at = to /\ next.done
      BY <3>2, <3>3 DEF Walk
    <3>5. m \in 0 .. k - 1 /\ w[m + 1] = p
      BY <1>1, <3>1 DEF p
    <3>6. Split(w, pos, isEnd, m, n)
      <4>1. \A i \in m + 1 .. n : i = k \/ (i \in 1 .. n /\ k < i)
        BY <1>1, <3>1
      <4>2. \A i \in m + 1 .. n : ~IsPast(w[i], pos, isEnd)
        BY <2>5, <4>1, PastInOrder DEF n, p
      <4> QED
        BY <2>1, <4>2 DEF Split
    <3> QED
      <4>1. Stopped(w, pos, isEnd, k, next.at)
        BY <2>5, <3>3, <3>4, <3>5, <3>6 DEF Stopped, n
      <4> QED
        BY <3>4, <4>1 DEF Walked, p
  <2>6. CASE ~IsPast(p, pos, isEnd) /\ ~Inside(p, pos)
    <3>1. next = walk
      BY <1>4, <1>7, <2>6 DEF RebaseStep, IsPast, Inside
    <3>2. m \in 0 .. k /\ \A i \in m + 1 .. k : i \in m + 1 .. k - 1 \/ i = k
      BY <1>1, <2>2
    <3>3. \A i \in 1 .. k : i \in 1 .. k - 1 \/ i = k
      BY <1>1
    <3>4. Split(w, pos, isEnd, m, k)
      BY <2>1, <2>6, <3>2 DEF Split, p
    <3>5. \A i \in 1 .. k : ~Inside(w[i], pos)
      BY <2>1, <2>6, <3>3 DEF p
    <3> QED
      <4>1. Shifted(w, pos, isEnd, k, walk.at)
        BY <2>1, <3>2, <3>4, <3>5 DEF Shifted
      <4> QED
        BY <1>1, <1>7, <3>1, <4>1 DEF Walked, p
  <2> QED
    BY <2>4, <2>5, <2>6
<1> QED
  BY <1>6, <1>7 DEF p

LEMMA RebasedIs ==
  ASSUME NEW S, NEW source, Len(source) \in Nat, NEW w \in Seq(PatchOver(S)), LaidOut(source, w),
         NEW pos \in Nat, NEW isEnd \in BOOLEAN
  PROVE  \E m \in 0 .. Len(w) :
           /\ Split(w, pos, isEnd, m, Len(w))
           /\ \/ /\ \A i \in 1 .. Len(w) : ~Inside(w[i], pos)
                 /\ RebaseOffset(pos, isEnd, w) = pos + Growth(w, m)
              \/ /\ m < Len(w) /\ Inside(w[m + 1], pos)
                 /\ RebaseOffset(pos, isEnd, w) = Snapped(w, m, isEnd)
<1> DEFINE n == Len(w)
           I == [k \in 0 .. n |-> Walked(w, pos, isEnd, k)]
           edge == Edge(pos, isEnd)
           walk == Walking!Folded(edge, Set(pos), w)
<1>1. n \in Nat /\ DOMAIN w = 1 .. n
  OBVIOUS
<1>2. Set(pos) \in I[0]
  <2>1. Set(pos) \in Walk /\ Set(pos).at = pos /\ ~Set(pos).done
    BY DEF Set, Walk
  <2>2. Growth(w, 0) = 0
    BY GrowthSums
  <2>3. 0 \in 0 .. 0 /\ 1 .. 0 = {} /\ 0 + 1 = 1 /\ 0 \in 0 .. n
    BY <1>1
  <2>4. Split(w, pos, isEnd, 0, 0)
    BY <2>3 DEF Split
  <2>5. Set(pos) \in Walked(w, pos, isEnd, 0)
    BY <2>1, <2>2, <2>3, <2>4 DEF Walked, Shifted
  <2> QED
    BY <2>3, <2>5
<1>3. ASSUME NEW k \in 1 .. n, NEW acc \in I[k - 1] PROVE RebaseStep(edge, acc, w[k]) \in I[k]
  <2>1. k - 1 \in 0 .. n /\ k \in 0 .. n
    BY <1>1
  <2>2. acc \in Walked(w, pos, isEnd, k - 1)
    BY <1>3, <2>1
  <2> QED
    BY <2>1, <2>2, WalksOn
<1> HIDE DEF I, n, edge
<1>4. Walking!IsPassedOn(edge, Set(pos), n, w, I)
  BY <1>2, <1>3 DEF Walking!IsPassedOn
<1>5. walk \in I[n]
  BY <1>1, <1>4, Walking!FoldInvariant, RebaseInducts
<1>6. RebaseOffset(pos, isEnd, w) = walk.at
  BY RebaseIsAFold DEF edge
<1> HIDE DEF walk
<1>7. walk \in Walked(w, pos, isEnd, n)
  <2>1. n \in 0 .. n
    BY <1>1
  <2> QED
    BY <1>5, <2>1 DEF I
<1>8. CASE walk.done
  <2>1. PICK m \in 0 .. n - 1 : /\ Split(w, pos, isEnd, m, n) /\ Inside(w[m + 1], pos)
                                /\ walk.at = Snapped(w, m, isEnd)
    BY <1>7, <1>8 DEF Walked, Stopped, n
  <2>2. m \in 0 .. n /\ m < n
    BY <1>1
  <2> QED
    BY <1>6, <2>1, <2>2 DEF n
<1>9. CASE ~walk.done
  BY <1>6, <1>7, <1>9 DEF Walked, Shifted, n
<1> QED
  BY <1>8, <1>9

LEMMA SubSeqIs ==
  ASSUME NEW S, NEW y \in Seq(S), NEW text \in Seq(S), NEW at \in Nat, at + Len(text) <= Len(y),
         \A t \in 1 .. Len(text) : y[at + t] = text[t]
  PROVE  SubSeq(y, at + 1, at + Len(text)) = text
<1> DEFINE l == Len(text)
           n == Len(y)
           x == SubSeq(y, at + 1, at + l)
<1>1. l \in Nat /\ n \in Nat /\ at + l <= n
  OBVIOUS
<1>2. \A i \in 1 .. n : y[i] \in S
  OBVIOUS
<1>3. \A t \in 1 .. l : y[at + t] = text[t]
  OBVIOUS
<1> HIDE DEF l, n
<1>4. \A i \in at + 1 .. at + l : y[i] \in S
  BY <1>1, <1>2
<1>5. at + 1 \in Int /\ at + l \in Int
  BY <1>1
<1>6. /\ x \in Seq(S) /\ Len(x) = (IF at + 1 <= at + l THEN (at + l) - (at + 1) + 1 ELSE 0)
      /\ \A t \in 1 .. (at + l) - (at + 1) + 1 : x[t] = y[(at + 1) + t - 1]
  BY <1>4, <1>5, SubSeqProperties
<1> HIDE DEF x
<1>7. (IF at + 1 <= at + l THEN (at + l) - (at + 1) + 1 ELSE 0) = l /\ (at + l) - (at + 1) + 1 = l
  BY <1>1
<1>8. \A t \in 1 .. l : (at + 1) + t - 1 = at + t
  BY <1>1
<1>9. x \in Seq(S) /\ Len(x) = l /\ \A t \in 1 .. l : x[t] = text[t]
  BY <1>3, <1>6, <1>7, <1>8
<1>10. x = text
  BY <1>9, SeqEqual DEF l
<1> QED
  BY <1>10 DEF x, l

\* What applying laid out patches makes of them and of a span of the source.
LEMMA TextsLand ==
  ASSUME NEW S, NEW source \in Seq(S), NEW w \in Seq(PatchOver(S)), LaidOut(source, w), NEW i \in 1 .. Len(w)
  PROVE  Slice(ApplyPatches(source, w), Landing(w, i)) = w[i].text
<1> DEFINE y == ApplyPatches(source, w)
           at == Starts(w, i)
           text == w[i].text
           l == Len(text)
           n == Len(w)
           ly == Len(y)
<1>1. y \in Seq(S) /\ Carries(source, w, y, 0)
  BY AppliedHolds
<1>2. Growth(w, 0) = 0
  BY GrowthSums
<1>3. n \in Nat /\ Len(source) \in Nat
  OBVIOUS
<1>4. text \in Seq(S) /\ l \in Nat
  BY PatchFields
<1>5. Ends(w, i) = at + l /\ Ends(w, i) <= Len(source) + Growth(w, n) /\ at \in Int /\ Growth(w, 0) <= at
  <2>1. 0 \in 0 .. i - 1
    BY <1>3
  <2> QED
    BY <2>1, LandingsInOrder
<1>6. ly = Len(source) + Growth(w, n) - Growth(w, 0) /\ \A t \in 1 .. l : y[(at - Growth(w, 0)) + t] = text[t]
  <2>1. i \in 0 + 1 .. n
    OBVIOUS
  <2> QED
    BY <1>1, <2>1 DEF Carries
<1>7. Growth(w, n) \in Int
  <2>1. n \in 0 .. n
    BY <1>3
  <2> QED
    BY <2>1, GrowthSums
<1> HIDE DEF y, at, text, l, n, ly
<1>8. at \in Nat /\ at + l <= ly
  <2> DEFINE L == Len(source)
  <2>1. L \in Nat
    BY <1>3
  <2> HIDE DEF L
  <2>2. ly = L + Growth(w, n) - 0
    BY <1>2, <1>6 DEF L
  <2>3. at + l <= L + Growth(w, n)
    BY <1>5 DEF L
  <2>4. at \in Nat
    BY ONLY <1>2, <1>5
  <2> QED
    BY ONLY <1>4, <1>7, <2>1, <2>2, <2>3, <2>4
<1>9. \A t \in 1 .. l : y[at + t] = text[t]
  <2>1. at - 0 = at
    BY <1>8
  <2> QED
    BY <1>2, <1>6, <2>1
<1>10. SubSeq(y, at + 1, at + l) = text
  BY <1>1, <1>4, <1>8, <1>9, SubSeqIs DEF l, ly
<1> QED
  BY <1>10 DEF Slice, Landing, Span, y, at, text, l, Starts

LEMMA AtPatch ==
  ASSUME NEW S, NEW source, Len(source) \in Nat, NEW w \in Seq(PatchOver(S)), LaidOut(source, w),
         NEW j, j \in 1 .. Len(w)
  PROVE  /\ w[j].start \in Nat /\ w[j].end \in Nat /\ Len(w[j].text) \in Nat
         /\ w[j].start <= w[j].end /\ w[j].end <= Len(source)
         /\ Growth(w, j) \in Int /\ Growth(w, j - 1) \in Int /\ Growth(w, Len(w)) \in Int
         /\ Starts(w, j) \in Nat /\ Ends(w, j) \in Int
         /\ Starts(w, j) = w[j].start + Growth(w, j - 1)
         /\ Ends(w, j) = w[j].end + Growth(w, j)
         /\ Ends(w, j) = Starts(w, j) + Len(w[j].text)
         /\ Ends(w, j) <= Len(source) + Growth(w, Len(w))
<1> DEFINE n == Len(w)
<1>1. n \in Nat /\ j \in 0 .. n /\ j - 1 \in 0 .. n /\ n \in 0 .. n /\ 0 \in 0 .. j - 1 /\ w[j] \in PatchOver(S)
  OBVIOUS
<1>2. w[j].start \in Nat /\ w[j].end \in Nat /\ Len(w[j].text) \in Nat
  BY <1>1, PatchFields
<1>3. w[j].start <= w[j].end /\ w[j].end <= Len(source)
  BY DEF LaidOut
<1>4. Growth(w, j) \in Int /\ Growth(w, j - 1) \in Int /\ Growth(w, n) \in Int /\ Growth(w, 0) = 0
  BY <1>1, GrowthSums
<1>5. /\ Starts(w, j) \in Int /\ Ends(w, j) \in Int
      /\ Ends(w, j) = Starts(w, j) + Len(w[j].text)
      /\ Ends(w, j) <= Len(source) + Growth(w, n)
      /\ Growth(w, 0) <= Starts(w, j)
  BY <1>1, LandingsInOrder
<1>6. Starts(w, j) = w[j].start + Growth(w, j - 1) /\ Ends(w, j) = w[j].end + Growth(w, j)
  BY DEF Starts, Ends
<1>7. Starts(w, j) \in Nat
  BY ONLY <1>4, <1>5
<1> QED
  BY <1>2, <1>3, <1>4, <1>5, <1>6, <1>7

LEMMA LandingsAscend ==
  ASSUME NEW S, NEW source, Len(source) \in Nat, NEW w \in Seq(PatchOver(S)), LaidOut(source, w),
         NEW i, i \in 1 .. Len(w), NEW j, j \in 1 .. Len(w), i <= j
  PROVE  Starts(w, i) <= Starts(w, j) /\ Ends(w, i) <= Ends(w, j)
<1> DEFINE p == Starts(w, i)
           q == Ends(w, i)
           r == Starts(w, j)
           t == Ends(w, j)
           l == Len(w[i].text)
           m == Len(w[j].text)
<1>1. p \in Nat /\ q \in Int /\ l \in Nat /\ q = p + l
  BY AtPatch
<1>2. r \in Nat /\ t \in Int /\ m \in Nat /\ t = r + m
  BY AtPatch
<1>3. i < j => q <= r
  BY LandingsInOrder
<1>4. i = j \/ i < j
  OBVIOUS
<1> HIDE DEF p, q, r, t, l, m
<1>5. CASE i = j
  <2>1. p = r /\ q = t
    BY <1>5 DEF p, q, r, t
  <2> QED
    BY <1>1, <2>1 DEF p, q, r, t
<1>6. CASE i < j
  <2>1. p <= r /\ q <= t
    BY ONLY <1>1, <1>2, <1>3, <1>6
  <2> QED
    BY <2>1 DEF p, q, r, t
<1> QED
  BY <1>4, <1>5, <1>6

\* The start of a span lands no later than what replaces something behind it ...
LEMMA StartCovers ==
  ASSUME NEW S, NEW source, Len(source) \in Nat, NEW w \in Seq(PatchOver(S)), LaidOut(source, w),
         NEW pos \in Nat, NEW i, i \in 1 .. Len(w), pos < w[i].end
  PROVE  RebaseOffset(pos, FALSE, w) \in Int /\ RebaseOffset(pos, FALSE, w) <= Starts(w, i)
<1> DEFINE n == Len(w)
           at == RebaseOffset(pos, FALSE, w)
<1>1. n \in Nat /\ i \in Nat /\ 1 <= i /\ i <= n
  OBVIOUS
<1>2. PICK m \in 0 .. n :
        /\ Split(w, pos, FALSE, m, n)
        /\ \/ /\ \A j \in 1 .. n : ~Inside(w[j], pos)
              /\ at = pos + Growth(w, m)
           \/ /\ m < n /\ Inside(w[m + 1], pos)
              /\ at = Snapped(w, m, FALSE)
  BY RebasedIs
<1>3. w[i].end \in Nat
  BY AtPatch
<1> HIDE DEF n, at
<1>4. m < i
  <2>1. ~IsPast(w[i], pos, FALSE)
    BY <1>3 DEF IsPast
  <2>2. m \in Nat
    BY <1>1
  <2>3. ~(i <= m)
    <3>1. i <= m => i \in 1 .. m
      BY <1>1, <2>2
    <3> QED
      BY <1>2, <2>1, <3>1 DEF Split
  <2> QED
    BY <1>1, <2>2, <2>3
<1> DEFINE x == m + 1
<1>5. x \in 1 .. n /\ x <= i /\ m + 1 = x /\ x - 1 = m /\ x \in m + 1 .. n
  BY <1>1, <1>4
<1> HIDE DEF x
<1>6. Starts(w, x) <= Starts(w, i)
  BY <1>5, LandingsAscend DEF n
<1>7. /\ w[x].start \in Nat /\ w[x].end \in Nat /\ Growth(w, m) \in Int
      /\ Starts(w, x) \in Nat /\ Starts(w, x) = w[x].start + Growth(w, m)
  <2>1. x \in 1 .. Len(w)
    BY <1>5 DEF n
  <2>2. Growth(w, x - 1) = Growth(w, m)
    BY <1>5
  <2> QED
    BY <2>1, <2>2, AtPatch
<1>8. Starts(w, i) \in Nat
  BY AtPatch
<1>9. CASE (\A j \in 1 .. n : ~Inside(w[j], pos)) /\ at = pos + Growth(w, m)
  <2>1. ~IsPast(w[x], pos, FALSE) /\ ~Inside(w[x], pos)
    BY <1>2, <1>5, <1>9 DEF Split
  <2>2. pos <= w[x].start
    BY <1>7, <2>1 DEF IsPast, Inside
  <2>3. pos + Growth(w, m) <= Starts(w, x) /\ pos + Growth(w, m) \in Int
    BY <1>7, <2>2
  <2>4. at \in Int /\ at <= Starts(w, i)
    BY <1>6, <1>7, <1>8, <1>9, <2>3
  <2> QED
    BY <2>4 DEF at
<1>10. CASE at = Snapped(w, m, FALSE)
  <2>1. at = Starts(w, x) + 0
    BY <1>5, <1>10 DEF Snapped
  <2>2. at \in Int /\ at <= Starts(w, i)
    BY <1>6, <1>7, <2>1
  <2> QED
    BY <2>2 DEF at
<1> QED
  BY <1>2, <1>9, <1>10

\* ... and its end no earlier than what replaces something before it.
LEMMA EndCovers ==
  ASSUME NEW S, NEW source, Len(source) \in Nat, NEW w \in Seq(PatchOver(S)), LaidOut(source, w),
         NEW pos \in Nat, NEW i, i \in 1 .. Len(w), w[i].start < pos
  PROVE  RebaseOffset(pos, TRUE, w) \in Int /\ Ends(w, i) <= RebaseOffset(pos, TRUE, w)
<1> DEFINE n == Len(w)
           at == RebaseOffset(pos, TRUE, w)
<1>1. n \in Nat /\ i \in Nat /\ 1 <= i /\ i <= n
  OBVIOUS
<1>2. PICK m \in 0 .. n :
        /\ Split(w, pos, TRUE, m, n)
        /\ \/ /\ \A j \in 1 .. n : ~Inside(w[j], pos)
              /\ at = pos + Growth(w, m)
           \/ /\ m < n /\ Inside(w[m + 1], pos)
              /\ at = Snapped(w, m, TRUE)
  BY RebasedIs
<1>3. w[i].end \in Nat /\ w[i].start \in Nat /\ Ends(w, i) \in Int
  BY AtPatch
<1> HIDE DEF n, at
<1>4. m \in Nat
  BY <1>1
<1>5. CASE (\A j \in 1 .. n : ~Inside(w[j], pos)) /\ at = pos + Growth(w, m)
  <2>1. i <= m
    <3>1. SUFFICES ASSUME m < i PROVE FALSE
      BY <1>1, <1>4
    <3>2. i \in m + 1 .. n /\ i \in 1 .. n
      BY <1>1, <1>4, <3>1
    <3>3. ~IsPast(w[i], pos, TRUE) /\ ~Inside(w[i], pos)
      BY <1>2, <1>5, <3>2 DEF Split
    <3> QED
      BY <1>3, <3>3 DEF IsPast, Inside
  <2>2. m \in 1 .. n /\ m \in 1 .. m
    BY <1>1, <1>4, <2>1
  <2>3. Ends(w, i) <= Ends(w, m)
    BY <2>1, <2>2, LandingsAscend DEF n
  <2>4. /\ w[m].end \in Nat /\ Growth(w, m) \in Int /\ Ends(w, m) \in Int
        /\ Ends(w, m) = w[m].end + Growth(w, m)
    BY <2>2, AtPatch DEF n
  <2>5. w[m].end <= pos
    BY <1>2, <2>2 DEF Split, IsPast
  <2>6. at \in Int /\ Ends(w, i) <= at
    <3>1. pos + Growth(w, m) \in Int /\ Ends(w, m) <= pos + Growth(w, m)
      BY <2>4, <2>5
    <3> QED
      BY <1>3, <1>5, <2>3, <2>4, <3>1
  <2> QED
    BY <2>6 DEF at
<1>6. CASE m < n /\ Inside(w[m + 1], pos) /\ at = Snapped(w, m, TRUE)
  <2> DEFINE x == m + 1
  <2>1. x \in 1 .. n /\ m + 1 = x
    BY <1>1, <1>4, <1>6
  <2> HIDE DEF x
  <2>2. /\ w[x].start \in Nat /\ w[x].end \in Nat /\ Ends(w, x) \in Int
        /\ Ends(w, x) = Starts(w, x) + Len(w[x].text)
    BY <2>1, AtPatch DEF n
  <2>3. i <= x
    <3>1. SUFFICES ASSUME x < i PROVE FALSE
      BY <1>1, <2>1
    <3>2. w[x].end <= w[i].start
      BY <2>1, <3>1 DEF LaidOut, n
    <3> QED
      BY <1>3, <1>6, <2>1, <2>2, <3>2 DEF Inside
  <2>4. Ends(w, i) <= Ends(w, x)
    BY <2>1, <2>3, LandingsAscend DEF n
  <2>5. at = Ends(w, x)
    BY <1>6, <2>1, <2>2 DEF Snapped
  <2> QED
    BY <2>2, <2>4, <2>5 DEF at
<1> QED
  BY <1>2, <1>5, <1>6

Met(w, s, e) == {i \in DOMAIN w : w[i].start < e /\ s < w[i].end}

\* A span that no patch meets moves as one.
LEMMA UnmetMoves ==
  ASSUME NEW S, NEW source, Len(source) \in Nat, NEW w \in Seq(PatchOver(S)), LaidOut(source, w),
         NEW s \in Nat, NEW e \in Nat, s < e, Met(w, s, e) = {}
  PROVE  \E m \in 0 .. Len(w) : /\ Split(w, s, FALSE, m, Len(w))
                                /\ RebaseOffset(s, FALSE, w) = s + Growth(w, m)
                                /\ RebaseOffset(e, TRUE, w) = e + Growth(w, m)
<1> DEFINE n == Len(w)
<1>1. n \in Nat /\ DOMAIN w = 1 .. n
  OBVIOUS
<1>2. \A i \in 1 .. n : w[i].start \in Nat /\ w[i].end \in Nat /\ w[i].start <= w[i].end
  BY AtPatch
<1>3. \A i \in 1 .. n : ~(w[i].start < e /\ s < w[i].end)
  BY <1>1 DEF Met
<1>4. \A i \in 1 .. n : ~Inside(w[i], s) /\ ~Inside(w[i], e)
  <2>1. ASSUME NEW i, i \in 1 .. n PROVE ~Inside(w[i], s) /\ ~Inside(w[i], e)
    <3>1. w[i].start \in Nat /\ w[i].end \in Nat /\ ~(w[i].start < e /\ s < w[i].end)
      BY <1>2, <1>3, <2>1
    <3> QED
      BY <3>1 DEF Inside
  <2> QED
    BY <2>1
<1>5. PICK a \in 0 .. n : Split(w, s, FALSE, a, n) /\ RebaseOffset(s, FALSE, w) = s + Growth(w, a)
  <2>1. PICK a \in 0 .. n : /\ Split(w, s, FALSE, a, n)
                            /\ \/ /\ \A j \in 1 .. n : ~Inside(w[j], s)
                                  /\ RebaseOffset(s, FALSE, w) = s + Growth(w, a)
                               \/ /\ a < n /\ Inside(w[a + 1], s)
                                  /\ RebaseOffset(s, FALSE, w) = Snapped(w, a, FALSE)
    BY RebasedIs
  <2>2. a < n => a + 1 \in 1 .. n
    BY <1>1
  <2> HIDE DEF n
  <2> QED
    BY <1>4, <2>1, <2>2
<1>6. PICK b \in 0 .. n : Split(w, e, TRUE, b, n) /\ RebaseOffset(e, TRUE, w) = e + Growth(w, b)
  <2>1. PICK b \in 0 .. n : /\ Split(w, e, TRUE, b, n)
                            /\ \/ /\ \A j \in 1 .. n : ~Inside(w[j], e)
                                  /\ RebaseOffset(e, TRUE, w) = e + Growth(w, b)
                               \/ /\ b < n /\ Inside(w[b + 1], e)
                                  /\ RebaseOffset(e, TRUE, w) = Snapped(w, b, TRUE)
    BY RebasedIs
  <2>2. b < n => b + 1 \in 1 .. n
    BY <1>1
  <2> HIDE DEF n
  <2> QED
    BY <1>4, <2>1, <2>2
<1> HIDE DEF n
<1>7. \A i \in 1 .. n : IsPast(w[i], s, FALSE) <=> IsPast(w[i], e, TRUE)
  <2>1. ASSUME NEW i, i \in 1 .. n PROVE IsPast(w[i], s, FALSE) <=> IsPast(w[i], e, TRUE)
    <3>1. /\ w[i].start \in Nat /\ w[i].end \in Nat /\ w[i].start <= w[i].end
          /\ ~(w[i].start < e /\ s < w[i].end)
      BY <1>2, <1>3, <2>1
    <3> QED
      BY <3>1 DEF IsPast
  <2> QED
    BY <2>1
<1>8. a = b
  <2>1. ASSUME a < b PROVE FALSE
    <3>1. a + 1 \in 1 .. b /\ a + 1 \in a + 1 .. n /\ a + 1 \in 1 .. n
      BY <1>1, <2>1
    <3> QED
      BY <1>5, <1>6, <1>7, <3>1 DEF Split
  <2>2. ASSUME b < a PROVE FALSE
    <3>1. b + 1 \in 1 .. a /\ b + 1 \in b + 1 .. n /\ b + 1 \in 1 .. n
      BY <1>1, <2>2
    <3> QED
      BY <1>5, <1>6, <1>7, <3>1 DEF Split
  <2> QED
    BY <1>1, <2>1, <2>2
<1> QED
  BY <1>5, <1>6, <1>8 DEF n

LEMMA SpanFollows ==
  ASSUME NEW S, NEW source \in Seq(S), NEW w \in Seq(PatchOver(S)), LaidOut(source, w),
         NEW s \in Nat, NEW e, e \in 0 .. Len(source), s < e, Met(w, s, e) = {}
  PROVE  Slice(ApplyPatches(source, w), RebaseRange(Span(s, e), w)) = Slice(source, Span(s, e))
<1> DEFINE n == Len(w)
           L == Len(source)
           y == ApplyPatches(source, w)
           text == SubSeq(source, s + 1, e)
           ly == Len(y)
<1>1. n \in Nat /\ L \in Nat /\ DOMAIN w = 1 .. n /\ e \in Nat /\ e <= L /\ \A b \in 1 .. L : source[b] \in S
  OBVIOUS
<1>2. PICK m \in 0 .. n : /\ Split(w, s, FALSE, m, n)
                          /\ RebaseOffset(s, FALSE, w) = s + Growth(w, m)
                          /\ RebaseOffset(e, TRUE, w) = e + Growth(w, m)
  BY <1>1, UnmetMoves
<1>3. y \in Seq(S) /\ Carries(source, w, y, 0)
  BY AppliedHolds
<1>4. Growth(w, 0) = 0 /\ Growth(w, m) \in Int /\ Growth(w, n) \in Int
  <2>1. n \in 0 .. n
    BY <1>1
  <2> QED
    BY <2>1, GrowthSums
<1> DEFINE g == Growth(w, m)
           at == s + g
<1>5. text \in Seq(S) /\ Len(text) = e - s /\ \A t \in 1 .. e - s : text[t] = source[s + t]
  <2>1. \A i \in s + 1 .. e : source[i] \in S
    BY <1>1
  <2>2. /\ SubSeq(source, s + 1, e) \in Seq(S)
        /\ Len(SubSeq(source, s + 1, e)) = IF s + 1 <= e THEN e - (s + 1) + 1 ELSE 0
        /\ \A i \in 1 .. e - (s + 1) + 1 : SubSeq(source, s + 1, e)[i] = source[(s + 1) + i - 1]
    <3>1. s + 1 \in Int /\ e \in Int
      BY <1>1
    <3> HIDE DEF L
    <3> QED
      BY <2>1, <3>1, SubSeqProperties
  <2>3. s + 1 <= e /\ e - (s + 1) + 1 = e - s /\ \A i \in 1 .. e - s : (s + 1) + i - 1 = s + i
    BY <1>1
  <2> HIDE DEF text, L
  <2> QED
    BY <2>2, <2>3 DEF text
<1>6. /\ ly = L + Growth(w, n) - Growth(w, 0)
      /\ \A k \in 0 .. n : \A b \in 1 .. L :
           Between(w, 0, k, b) => y[(b + Growth(w, k)) - Growth(w, 0)] = source[b]
  BY <1>3 DEF Carries
<1> HIDE DEF n, L, y, text, ly
<1>7. m \in Nat /\ m <= n
  BY <1>1
\* The span stands between patch m and the next one.
<1>8. m > 0 => w[m].end <= s
  <2>1. m > 0 => m \in 1 .. m
    BY <1>7
  <2> QED
    BY <1>2, <2>1 DEF Split, IsPast
<1>9. m < n => e <= w[m + 1].start
  <2>1. SUFFICES ASSUME m < n PROVE e <= w[m + 1].start
    OBVIOUS
  <2> DEFINE x == m + 1
  <2>2. x \in m + 1 .. n /\ x \in 1 .. n
    BY <1>1, <1>7, <2>1
  <2> HIDE DEF x
  <2>3. w[x].start \in Nat /\ w[x].end \in Nat
    BY <1>1, <2>2, AtPatch DEF n, L
  <2>4. ~IsPast(w[x], s, FALSE) /\ ~(w[x].start < e /\ s < w[x].end)
    BY <1>1, <1>2, <2>2 DEF Split, Met
  <2>5. e <= w[x].start
    BY <1>1, <2>3, <2>4 DEF IsPast
  <2> QED
    BY <2>5 DEF x
<1>10. \A t \in 1 .. e - s : y[at + t] = text[t]
  <2>1. ASSUME NEW t, t \in 1 .. e - s PROVE y[at + t] = text[t]
    <3> DEFINE b == s + t
    <3>1. b \in 1 .. L /\ s < b /\ b <= e /\ b \in Nat
      BY <1>1, <2>1
    <3>2. m > 0 => w[m].end < b
      <4>1. SUFFICES ASSUME m > 0 PROVE w[m].end < b
        OBVIOUS
      <4>2. m \in 1 .. n
        BY <1>1, <1>7, <4>1
      <4>3. w[m].end \in Nat
        BY <1>1, <4>2, AtPatch DEF n, L
      <4>4. w[m].end <= s
        BY <1>8, <4>1
      <4> QED
        BY <3>1, <4>3, <4>4
    <3>3. m < n => b <= w[m + 1].start
      <4>1. SUFFICES ASSUME m < n PROVE b <= w[m + 1].start
        OBVIOUS
      <4>2. m + 1 \in 1 .. n
        BY <1>1, <1>7, <4>1
      <4>3. w[m + 1].start \in Nat
        BY <1>1, <4>2, AtPatch DEF n, L
      <4>4. e <= w[m + 1].start
        BY <1>9, <4>1
      <4> QED
        BY <1>1, <3>1, <4>3, <4>4
    <3>4. Between(w, 0, m, b)
      BY <3>2, <3>3 DEF Between, n
    <3>5. (b + g) - 0 = at + t
      BY <1>4, <2>1
    <3>6. y[(b + g) - Growth(w, 0)] = source[b]
      BY <1>6, <3>1, <3>4
    <3> HIDE DEF at, g
    <3> QED
      BY <1>4, <1>5, <2>1, <3>5, <3>6
  <2> QED
    BY <2>1
<1>11. at \in Nat
  <2>1. CASE m = 0
    BY <1>4, <2>1
  <2>2. CASE m > 0
    <3>1. m \in 1 .. n
      BY <1>1, <1>7, <2>2
    <3>2. /\ w[m].end \in Nat /\ Starts(w, m) \in Nat /\ Len(w[m].text) \in Nat
          /\ Ends(w, m) = w[m].end + g /\ Ends(w, m) = Starts(w, m) + Len(w[m].text)
      BY <1>1, <3>1, AtPatch DEF n, L
    <3> DEFINE l == Len(w[m].text)
    <3> HIDE DEF l
    <3>3. w[m].end + g >= 0
      BY <3>2 DEF l
    <3>4. g \in Int /\ w[m].end \in Nat /\ w[m].end <= s
      BY <1>4, <1>8, <2>2, <3>2
    <3> HIDE DEF g
    <3> QED
      BY ONLY <3>3, <3>4, s \in Nat
  <2> QED
    BY <1>7, <2>1, <2>2
<1>12. at + (e - s) <= ly
  <2>1. at + (e - s) = e + g
    BY <1>1, <1>4
  <2>2. ly = L + Growth(w, n)
    BY <1>1, <1>4, <1>6
  <2>3. e + g <= L + Growth(w, n)
    <3>1. CASE m = n
      BY <1>1, <1>4, <3>1
    <3>2. CASE m < n
      <4> DEFINE x == m + 1
      <4>1. x \in 1 .. n /\ x - 1 = m
        BY <1>1, <1>7, <3>2
      <4>2. e <= w[x].start
        BY <1>9, <3>2
      <4> HIDE DEF x
      <4>3. /\ w[x].start \in Nat /\ Starts(w, x) \in Nat /\ Len(w[x].text) \in Nat
            /\ Starts(w, x) = w[x].start + Growth(w, x - 1)
            /\ Ends(w, x) = Starts(w, x) + Len(w[x].text) /\ Ends(w, x) <= L + Growth(w, n)
        <5>1. Len(source) \in Nat /\ x \in 1 .. Len(w)
          BY <1>1, <4>1 DEF n, L
        <5>2. /\ w[x].start \in Nat /\ Starts(w, x) \in Nat /\ Len(w[x].text) \in Nat
              /\ Starts(w, x) = w[x].start + Growth(w, x - 1)
              /\ Ends(w, x) = Starts(w, x) + Len(w[x].text) /\ Ends(w, x) <= Len(source) + Growth(w, Len(w))
          BY <5>1, AtPatch
        <5> QED
          BY <5>2 DEF n, L
      <4>4. Growth(w, x - 1) = g
        BY <4>1
      <4> DEFINE l == Len(w[x].text)
                 G == Growth(w, n)
      <4>5. l \in Nat /\ (w[x].start + g) + l <= L + G
        BY <4>3, <4>4
      <4>6. e \in Nat /\ g \in Int /\ G \in Int /\ L \in Nat /\ w[x].start \in Nat
        BY <1>1, <1>4, <4>3
      <4> HIDE DEF l, g, G
      <4>7. e + g <= L + G
        BY ONLY <4>2, <4>5, <4>6
      <4> QED
        BY <4>7 DEF G
    <3> QED
      BY <1>1, <1>7, <3>1, <3>2
  <2> QED
    BY <2>1, <2>2, <2>3
<1>13. SubSeq(y, at + 1, at + (e - s)) = text
  <2> HIDE DEF at
  <2>1. at + Len(text) <= Len(y)
    BY <1>5, <1>12 DEF ly
  <2>2. \A t \in 1 .. Len(text) : y[at + t] = text[t]
    BY <1>5, <1>10
  <2>3. SubSeq(y, at + 1, at + Len(text)) = text
    BY <1>3, <1>5, <1>11, <2>1, <2>2, SubSeqIs
  <2> QED
    BY <1>5, <2>3
<1>14. RebaseRange(Span(s, e), w) = Span(s + g, e + g)
  <2>1. ~(e + g < s + g)
    BY <1>1, <1>4
  <2>2. Span(s, e).start = s /\ Span(s, e).end = e
    BY DEF Span
  <2> HIDE DEF g, at
  <2> QED
    BY <1>2, <2>1, <2>2 DEF RebaseRange, g
<1>15. at + (e - s) = e + g
  BY <1>1, <1>4
<1> HIDE DEF g
<1>16. Slice(y, Span(s + g, e + g)) = text
  BY <1>13, <1>15 DEF Slice, Span
<1>17. Slice(source, Span(s, e)) = text
  BY DEF Slice, Span, text
<1> QED
  BY <1>14, <1>16, <1>17 DEF y

LEMMA MetIsCovered ==
  ASSUME NEW S, NEW source, Len(source) \in Nat, NEW w \in Seq(PatchOver(S)), LaidOut(source, w),
         NEW s \in Nat, NEW e \in Nat, NEW i \in Met(w, s, e)
  PROVE  ContainsRange(RebaseRange(Span(s, e), w), Landing(w, i))
<1> DEFINE from == RebaseOffset(s, FALSE, w)
           to == RebaseOffset(e, TRUE, w)
           p == Starts(w, i)
           q == Ends(w, i)
           moved == RebaseRange(Span(s, e), w)
<1>1. i \in 1 .. Len(w) /\ w[i].start < e /\ s < w[i].end
  BY DEF Met
<1>2. from \in Int /\ from <= p
  BY <1>1, StartCovers
<1>3. to \in Int /\ q <= to
  BY <1>1, EndCovers
<1>4. p \in Nat /\ q \in Int /\ q = p + Len(w[i].text)
  BY <1>1, AtPatch
<1>5. moved = Span(from, IF to < from THEN from ELSE to)
  BY DEF RebaseRange, Span
<1>6. Landing(w, i) = Span(p, q)
  BY <1>4 DEF Landing, Starts
<1> HIDE DEF from, to, p, q, moved
<1>7. q <= IF to < from THEN from ELSE to
  BY <1>2, <1>3, <1>4
<1> QED
  BY <1>2, <1>5, <1>6, <1>7 DEF ContainsRange, Span, moved

\* What resolve is handed, and what it accepts of it.
Letters == Range(Bytes) \cup UNION {Range(edit.text) : edit \in Proposals}
WellProposed ==
  /\ candidates \in Seq(PatchOver(Letters))
  /\ \A i \in DOMAIN candidates : candidates[i].start <= candidates[i].end

LEMMA TextsOverLetters ==
  /\ Bytes \in Seq(Letters)
  /\ \A edit \in Proposals : edit.text \in Seq(Letters)
<1>1. Bytes \in Seq(Letters)
  <2>1. Range(Bytes) \subseteq Letters
    BY DEF Letters
  <2> QED
    BY <2>1, ProposalsAssumption, SeqMonotonic
<1>2. ASSUME NEW edit \in Proposals PROVE edit.text \in Seq(Letters)
  <2>1. Range(edit.text) \subseteq Letters
    BY DEF Letters
  <2> QED
    BY <2>1, ProposalsAssumption, SeqMonotonic
<1> QED
  BY <1>1, <1>2

LEMMA ProposesWell == ResolutionSpec => []WellProposed
<1>1. ResolutionInit => WellProposed
  BY DEF ResolutionInit, WellProposed
<1>2. WellProposed /\ [ResolutionNext]_candidates => WellProposed'
  <2>1. SUFFICES ASSUME WellProposed, ResolutionNext PROVE WellProposed'
    BY DEF WellProposed
  <2>2. PICK s \in Offsets, edit \in Proposals, e \in Offsets : s <= e /\ Propose(Patch(s, e, edit.text, edit.rule))
    BY <2>1 DEF ResolutionNext
  <2> DEFINE p == Patch(s, e, edit.text, edit.rule)
  <2>3. p \in PatchOver(Letters) /\ p.start <= p.end
    <3>1. s \in Nat /\ e \in Nat
      BY DEF Offsets
    <3>2. edit.text \in Seq(Letters) /\ edit.rule \in Nat
      BY TextsOverLetters, ProposalsAssumption
    <3> QED
      BY <2>2, <3>1, <3>2 DEF Patch, PatchOver
  <2>4. candidates' = Append(candidates, p)
    BY <2>2 DEF Propose
  <2> HIDE DEF p
  <2>5. /\ candidates' \in Seq(PatchOver(Letters))
      /\ \A i \in DOMAIN candidates' :
           \/ i \in DOMAIN candidates /\ candidates'[i] = candidates[i]
           \/ candidates'[i] = p
    <3>1. candidates \in Seq(PatchOver(Letters))
      BY <2>1 DEF WellProposed
    <3> QED
      BY <2>3, <2>4, <3>1
  <2> QED
    BY <2>1, <2>3, <2>5 DEF WellProposed
<1> QED
  BY <1>1, <1>2, PTL DEF ResolutionSpec

LEMMA AcceptedIsLaidOut ==
  ASSUME ProposedTyped, WellProposed
  PROVE  Accepted \in Seq(PatchOver(Letters)) /\ LaidOut(Bytes, Accepted)
<1> DEFINE w == Accepted
           P == PatchOver(Letters)
<1>1. /\ w \in Seq(PatchSet) /\ Ascending(w) /\ KeptApart(w)
      /\ Elements(w) \subseteq Elements(Ordered(Bytes, candidates))
  BY ResolveKeeps DEF ProposedTyped, Accepted
<1>2. Elements(Ordered(Bytes, candidates)) = {p \in Elements(candidates) : ValidPatch(Bytes, p)}
  BY OrderedKeeps DEF ProposedTyped
<1> HIDE DEF w
<1>3. DOMAIN w = 1 .. Len(w) /\ Len(w) \in Nat
  BY <1>1
<1>4. \A i \in DOMAIN w : w[i] \in P /\ w[i].start <= w[i].end /\ w[i].end <= Len(Bytes)
  <2>1. ASSUME NEW i \in DOMAIN w PROVE w[i] \in P /\ w[i].start <= w[i].end /\ w[i].end <= Len(Bytes)
    <3>1. w[i] \in Elements(w)
      BY DEF Elements
    <3>2. w[i] \in Elements(candidates) /\ ValidPatch(Bytes, w[i])
      BY <1>1, <1>2, <3>1
    <3>3. PICK j \in DOMAIN candidates : w[i] = candidates[j]
      BY <3>2 DEF Elements
    <3>4. candidates[j] \in P
      BY DEF WellProposed
    <3> QED
      BY <3>2, <3>3, <3>4 DEF ValidPatch
  <2> QED
    BY <2>1
<1>5. w \in Seq(P)
  <2> HIDE DEF P
  <2>1. w = [i \in 1 .. Len(w) |-> w[i]]
    BY <1>1
  <2> QED
    BY <1>3, <1>4, <2>1
<1>6. ASSUME NEW i \in DOMAIN w, NEW j \in DOMAIN w, i < j
      PROVE  w[i].start < w[j].start /\ w[i].end <= w[j].start
  <2>1. /\ w[i].start \in Nat /\ w[i].end \in Nat /\ w[j].start \in Nat /\ w[j].end \in Nat
        /\ w[i].start <= w[i].end /\ w[j].start <= w[j].end
    BY <1>4, PatchFields
  <2>2. ~RangesOverlap(w[i], w[j]) /\ ~ResolveBefore(w[j], w[i])
    BY <1>1, <1>6 DEF KeptApart, Ascending
  <2>3. w[i].start <= w[j].start
    BY <2>1, <2>2 DEF ResolveBefore
  <2> QED
    BY <2>1, <2>2, <2>3 DEF RangesOverlap, IsEmptySpan
<1>7. LaidOut(Bytes, w)
  BY <1>4, <1>6 DEF LaidOut
<1> QED
  BY <1>5, <1>7 DEF w, P

(* Applying what resolve accepted and rebasing spans over it agree: for every *)
(* text, every set of edits and every number of candidates, the text grows by *)
(* what the patches grow it, every replacement stands where the growth of the *)
(* earlier ones puts it, a span no patch meets still addresses its text, and  *)
(* one that a patch meets covers the replacement.                             *)
THEOREM SpansFollowEdits == ResolutionSpec => []RebasedSpansFollow
<1>1. ProposedTyped /\ WellProposed => RebasedSpansFollow
  <2> SUFFICES ASSUME ProposedTyped, WellProposed PROVE RebasedSpansFollow
    OBVIOUS
  <2> DEFINE w == Accepted
             y == ApplyPatches(Bytes, w)
             L == Len(Bytes)
  <2>1. w \in Seq(PatchOver(Letters)) /\ LaidOut(Bytes, w) /\ Bytes \in Seq(Letters) /\ L \in Nat
    BY AcceptedIsLaidOut, TextsOverLetters
  <2> HIDE DEF w
  <2>2. DOMAIN w = 1 .. Len(w) /\ Len(w) \in Nat
    BY <2>1
  <2>3. Len(y) = L + Growth(w, Len(w))
    <3>1. Carries(Bytes, w, y, 0)
      BY <2>1, AppliedHolds
    <3>2. Growth(w, 0) = 0 /\ Growth(w, Len(w)) \in Int
      <4>1. Len(w) \in 0 .. Len(w)
        BY <2>2
      <4> QED
        BY <2>1, <4>1, GrowthSums
    <3> DEFINE g == Growth(w, Len(w))
    <3>3. Len(y) = L + g - Growth(w, 0)
      BY <3>1 DEF Carries
    <3> HIDE DEF g, L, y
    <3>4. L + g - 0 = L + g
      BY <2>1, <3>2 DEF g
    <3> QED
      BY <3>2, <3>3, <3>4 DEF g
  <2>4. \A i \in DOMAIN w : Slice(y, Landing(w, i)) = w[i].text
    BY <2>1, <2>2, TextsLand
  <2>5. ASSUME NEW s \in 0 .. L, NEW e \in 0 .. L, s < e
        PROVE  /\ \A i \in Met(w, s, e) : ContainsRange(RebaseRange(Span(s, e), w), Landing(w, i))
               /\ Met(w, s, e) = {} => Slice(y, RebaseRange(Span(s, e), w)) = Slice(Bytes, Span(s, e))
    <3>1. s \in Nat /\ e \in Nat
      BY <2>1
    <3>2. \A i \in Met(w, s, e) : ContainsRange(RebaseRange(Span(s, e), w), Landing(w, i))
      BY <2>1, <3>1, MetIsCovered
    <3>3. Met(w, s, e) = {} => Slice(y, RebaseRange(Span(s, e), w)) = Slice(Bytes, Span(s, e))
      BY <2>1, <2>5, <3>1, SpanFollows
    <3> QED
      BY <3>2, <3>3
  <2> HIDE DEF y, L
  <2> QED
    BY <2>3, <2>4, <2>5 DEF RebasedSpansFollow, Met, w, y, L
<1> QED
  BY <1>1, ProposesPatches, ProposesWell, PTL

=============================================================================
