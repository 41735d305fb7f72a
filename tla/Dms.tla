--------------------------------- MODULE Dms ---------------------------------
(* The differential-matching channel: friction-packs' DMS index, one suffix   *)
(* automaton of human prose and one of all machine families' streams, and     *)
(* friction-match's scan of a unit against both (dms.rs of either crate).     *)
(* Tokens are numbers, ordered as their bytes are.                            *)
EXTENDS Integers, SuffixAutomaton

CONSTANTS
  Separator,     \* the token between documents and streams
  Vocabs,        \* the token tables tried
  FamilyStreams, \* the streams, one per family in alphabetical order, tried
  HumanStreams,
  Units,         \* token sequences scanned
  StartThresh, ContThresh, MinLen

VARIABLES vocab, streams, machine, human, unit, found

vars == <<vocab, streams, machine, human, unit, found>>

IdOf(token) ==
  IF token \in ToSet(vocab) THEN SelectInSeq(vocab, LAMBDA t : t = token) ELSE NoId

\* Mutant of Pooled: nothing between the streams.
Concatenated(families) == FlattenSeq(families)

(* build_pooled_machine: the separator stands between two streams, if the *)
(* vocabulary has it.                                                     *)
Pooled(families) ==
  LET between == IF IdOf(Separator) = NoId THEN << >> ELSE <<IdOf(Separator)>>
  IN FoldLeft(LAMBDA pooled, i : IF i = 1 THEN families[i] ELSE pooled \o between \o families[i],
              << >>, [i \in DOMAIN families |-> i])

Init ==
  /\ vocab \in Vocabs
  /\ streams \in [families : FamilyStreams, human : HumanStreams]
  /\ machine = WriteSam(Build(Pooled(streams.families)))
  /\ human = WriteSam(Build(streams.human))
  /\ unit = << >>
  /\ found = << >>

-----------------------------------------------------------------------------
(* spans_from_curve: a run starts where the machine's match is StartThresh  *)
(* longer than the human one, goes on while it is ContThresh longer, and    *)
(* reaches back over what is matched at its start.                          *)
Differential(m, h) == [i \in DOMAIN m |-> m[i] - h[i]]
Sum(d, from, upto) == MapThenSumSet(LAMBDA i : d[i], from .. upto)

RunLeft(m, i) == IF i > m[i] THEN i - (m[i] - 1) ELSE 1

SpansFromCurve(m, h) ==
  LET d == Differential(m, h)
      n == Len(d)
      end[j \in 1 .. n + 1] == IF j <= n /\ d[j] >= ContThresh THEN end[j + 1] ELSE j
      runs[i \in 1 .. n + 1] ==
        IF i > n THEN {}
        ELSE IF d[i] < StartThresh THEN runs[i + 1]
        ELSE runs[end[i]] \cup
               (IF end[i] - i < MinLen THEN {}
                ELSE {[left |-> RunLeft(m, i), end |-> end[i] - 1,
                       score |-> Sum(d, i, end[i] - 1)]})
      Stronger(a, b) == \/ a.score > b.score
                        \/ a.score = b.score /\ a.left > b.left
                        \/ a.score = b.score /\ a.left = b.left /\ a.end > b.end
  IN SetToSortSeq(runs[1], Stronger)

(* strongest_window: the message quotes the two to four tokens of the run   *)
(* that differ most, the first and shortest of these.                       *)
StrongestWindow(d, run) ==
  LET windows == {w \in (run.left .. run.end) \X (run.left .. run.end) : w[2] - w[1] \in 1 .. 3}
      Better(a, b) == \/ Sum(d, a[1], a[2]) > Sum(d, b[1], b[2])
                      \/ Sum(d, a[1], a[2]) = Sum(d, b[1], b[2])
                         /\ (a[1] < b[1] \/ (a[1] = b[1] /\ a[2] < b[2]))
  IN CHOOSE w \in windows : \A x \in windows \ {w} : Better(w, x)

(* scan_units, of one unit; document_report's totals over the same curves. *)
Scan ==
  /\ found = << >>
  /\ \E u \in Units :
       LET query == [i \in DOMAIN u |-> IdOf(u[i])]
           m == MatchingStats(machine, query)
           h == MatchingStats(human, query)
           runs == SpansFromCurve(m, h)
       IN /\ unit' = u
          /\ found' = [m |-> m, h |-> h, machineTotal |-> Sum(m, 1, Len(u)),
                       humanTotal |-> Sum(h, 1, Len(u)),
                       spans |-> [i \in DOMAIN runs |->
                         [left |-> runs[i].left, end |-> runs[i].end, score |-> runs[i].score,
                          quoted |-> StrongestWindow(Differential(m, h), runs[i])]]]
  /\ UNCHANGED <<vocab, streams, machine, human>>

Next == Scan

Spec == Init /\ [][Next]_vars

-----------------------------------------------------------------------------
Scanned == found # << >>
Query == [i \in DOMAIN unit |-> IdOf(unit[i])]
Occurs(s, text) == \E i \in 0 .. Len(text) - Len(s) : SubSeq(text, i + 1, i + Len(s)) = s
LongestMatch(query, i, text) ==
  Max({0} \cup {l \in 1 .. i : NoId \notin ToSet(SubSeq(query, i - l + 1, i))
                               /\ Occurs(SubSeq(query, i - l + 1, i), text)})

(* Sam::matching_stats: at every token, the length of the longest string     *)
(* ending there that occurs in the stream, whatever order the automaton's    *)
(* states were added and split in, and through the packed view of it.        *)
MatchesAreLongest ==
  Scanned => \A i \in DOMAIN unit :
    /\ found.m[i] = LongestMatch(Query, i, Pooled(streams.families))
    /\ found.h[i] = LongestMatch(Query, i, streams.human)

(* "an unchanged threshold applied to the pooled curve can only flag a       *)
(* superset of what scanning every family separately and unioning the        *)
(* results would have flagged" (friction-match/src/dms.rs:31), and the       *)
(* pooled curve is the families' maximum when the separator is in the        *)
(* vocabulary and not in the unit.                                           *)
Covered(runs) == UNION {runs[i].left .. runs[i].end : i \in DOMAIN runs}
Curve(text) == [i \in DOMAIN unit |-> LongestMatch(Query, i, text)]
PooledFlagsASuperset ==
  Scanned =>
    LET curves == {Curve(streams.families[f]) : f \in DOMAIN streams.families}
    IN /\ \A c \in curves : Covered(SpansFromCurve(c, found.h)) \subseteq Covered(found.spans)
       /\ Separator \in ToSet(vocab) /\ Separator \notin ToSet(unit) =>
            \A i \in DOMAIN unit : found.m[i] = Max({c[i] : c \in curves})
=============================================================================
