--------------------------- MODULE SuffixAutomaton ---------------------------
(* friction-packs' suffix automaton of a token stream (dms.rs), the flat view *)
(* of it that the runtime walks (dms_bin.rs) and its matching statistics.     *)
(* States are numbered from 1, the root; 0 is no state.                       *)
EXTENDS Naturals, Sequences, SequencesExt, FiniteSetsExt

CONSTANTS Ids,    \* ids of the vocabulary
          NoId    \* the id of a token the vocabulary has not

RootState == 1
NoTransitions == [c \in Ids |-> 0]

New == [next |-> <<NoTransitions>>, link |-> <<0>>, len |-> <<0>>, last |-> RootState]

(* The states on the suffix path from p whose transition on c is to old, and *)
(* the first that differs.                                                   *)
SuffixPath(sam, p, c, old) ==
  LET walk[s \in 0 .. Len(sam.len)] ==
        IF s = 0 \/ sam.next[s][c] # old THEN [on |-> {}, stop |-> s]
        ELSE LET rest == walk[sam.link[s]] IN [on |-> {s} \cup rest.on, stop |-> rest.stop]
  IN walk[p]

Redirected(sam, states, c, to) ==
  [sam EXCEPT !.next = [s \in DOMAIN @ |-> IF s \in states THEN [@[s] EXCEPT ![c] = to] ELSE @[s]]]

Added(sam, next, link, len) ==
  [sam EXCEPT !.next = Append(@, next), !.link = Append(@, link), !.len = Append(@, len)]

(* q also ends longer strings: a copy of it takes the short ones over. *)
Split(sam, p, c, q, cur) ==
  LET clone == Len(sam.len) + 1
      copied == Redirected(Added(sam, sam.next[q], sam.link[q], sam.len[p] + 1),
                           SuffixPath(sam, p, c, q).on, c, clone)
  IN [copied EXCEPT !.link[q] = clone, !.link[cur] = clone]

Extend(sam, c) ==
  LET cur == Len(sam.len) + 1
      path == SuffixPath(sam, sam.last, c, 0)
      longer == [Redirected(Added(sam, NoTransitions, 0, sam.len[sam.last] + 1), path.on, c, cur)
                   EXCEPT !.last = cur]
      p == path.stop
  IN CASE p = 0 -> [longer EXCEPT !.link[cur] = RootState]
       [] p # 0 /\ sam.len[p] + 1 = sam.len[sam.next[p][c]] ->
            [longer EXCEPT !.link[cur] = sam.next[p][c]]
       [] OTHER -> Split(longer, p, c, sam.next[p][c], cur)

Build(ids) == FoldLeft(Extend, New, ids)

-----------------------------------------------------------------------------
(* write_sam: state s has the transitions after offsets[s] up to *)
(* offsets[s + 1], sorted by label.                              *)
SortedTransitions(sam, s) ==
  LET labels == SetToSortSeq({c \in Ids : sam.next[s][c] # 0}, <)
  IN [i \in DOMAIN labels |-> [label |-> labels[i], target |-> sam.next[s][labels[i]]]]

WriteSam(sam) ==
  LET perState == [s \in DOMAIN sam.len |-> SortedTransitions(sam, s)]
  IN [len |-> sam.len, link |-> sam.link, trans |-> FlattenSeq(perState),
      offsets |-> [s \in 1 .. Len(sam.len) + 1 |->
                     MapThenSumSet(LAMBDA t : Len(perState[t]), 1 .. s - 1)]]

(* SamView::transition: a binary search among the entries of s. *)
Transition(view, s, c) ==
  LET find[lo, hi \in 0 .. Len(view.trans)] ==
        LET mid == lo + (hi - lo) \div 2
            at == view.trans[mid + 1]
        IN CASE lo >= hi -> 0
             [] lo < hi /\ at.label < c -> find[mid + 1, hi]
             [] lo < hi /\ at.label > c -> find[lo, mid]
             [] OTHER -> at.target
  IN IF c = NoId THEN 0 ELSE find[view.offsets[s], view.offsets[s + 1]]

(* The walk: at state v after a match of l tokens; token c comes next. *)
Follow(view, walk, c) ==
  LET fall[s \in DOMAIN view.len] ==
        IF s = RootState \/ Transition(view, s, c) # 0 THEN s ELSE fall[view.link[s]]
      v == fall[walk.v]
      l == IF v = walk.v THEN walk.l ELSE view.len[v]
      to == Transition(view, v, c)
      next == IF to = 0 THEN [v |-> RootState, l |-> 0] ELSE [v |-> to, l |-> l + 1]
  IN [v |-> next.v, l |-> next.l, out |-> Append(walk.out, next.l)]

MatchingStats(view, query) ==
  FoldLeft(LAMBDA walk, c : Follow(view, walk, c), [v |-> RootState, l |-> 0, out |-> << >>], query).out
=============================================================================
