----------------------------- MODULE Resolution -----------------------------
(***************************************************************************)
(* resolve, apply and rebase_range (friction-edit/src/document.rs) against *)
(* what they are for, on every small set of candidate patches.  A pass     *)
(* proposes candidates one by one, in any order, invalid and overlapping   *)
(* ones and pure insertions among them.                                    *)
(***************************************************************************)
EXTENDS Spans

CONSTANTS Bytes,         \* the text
          Proposals,     \* [text, rule]: replacements
          MaxCandidates  \* bound: candidates of one pass

ASSUME ProposalsAssumption ==
  /\ Bytes \in Seq(Range(Bytes))
  /\ \A edit \in Proposals : edit.rule \in Nat /\ edit.text \in Seq(Range(edit.text))

VARIABLE candidates

\* One offset too many: a patch past the end does not validate.
Offsets == 0..Len(Bytes) + 1

ResolutionInit == candidates = <<>>

Propose(p) == Len(candidates) < MaxCandidates /\ candidates' = Append(candidates, p)

ResolutionNext == \E s \in Offsets, edit \in Proposals : \E e \in Offsets :
                    s <= e /\ Propose(Patch(s, e, edit.text, edit.rule))

ResolutionSpec == ResolutionInit /\ [][ResolutionNext]_candidates

-----------------------------------------------------------------------------
Proposed == {candidates[i] : i \in DOMAIN candidates}
Accepted == Resolve(Bytes, candidates)

\* A valid candidate is dropped only for an accepted one that comes before it:
\* the order the candidates were proposed in, and candidates that were
\* themselves dropped, make no difference.  What is accepted is disjoint and in
\* byte order: apply and rebase_range both rest on it.
OnlyAcceptedShadow ==
  LET accepted == Accepted
      kept == Range(accepted)
  IN  /\ \A i, j \in DOMAIN accepted :
           i < j => accepted[i].start <= accepted[j].start /\ ~RangesOverlap(accepted[i], accepted[j])
      /\ \A p \in Proposed :
           p \in kept <=> /\ ValidPatch(Bytes, p)
                          /\ \A q \in kept : q # p /\ RangesOverlap(q, p) => ResolveBefore(p, q)

\* By how much the first i patches, in byte order, make a text longer.
Growth(patches, i) ==
  FoldLeft(LAMBDA sum, p : sum + Len(p.text) - (p.end - p.start), 0, SubSeq(patches, 1, i))

\* Where the replacement of patch i stands once all patches are applied.
Landing(patches, i) ==
  LET at == patches[i].start + Growth(patches, i - 1)
  IN  Span(at, at + Len(patches[i].text))

\* Splicing from the right disturbs no span still to be replaced: every
\* replacement stands in the result, the earlier ones' growth further on, and a
\* span of the source no patch meets still addresses the same text there once
\* rebased; one that a patch meets covers the whole replacement ("snaps outward
\* to the replacement's edge").  Nothing else is in the result.
RebasedSpansFollow ==
  LET accepted == Accepted
      result == ApplyPatches(Bytes, accepted)
  IN  /\ Len(result) = Len(Bytes) + Growth(accepted, Len(accepted))
      /\ \A i \in DOMAIN accepted : Slice(result, Landing(accepted, i)) = accepted[i].text
      /\ \A s, e \in 0..Len(Bytes) : s < e =>
           LET moved == RebaseRange(Span(s, e), accepted)
               met == {i \in DOMAIN accepted : accepted[i].start < e /\ s < accepted[i].end}
           IN  /\ \A i \in met : ContainsRange(moved, Landing(accepted, i))
               /\ met = {} => Slice(result, moved) = Slice(Bytes, Span(s, e))
=============================================================================
