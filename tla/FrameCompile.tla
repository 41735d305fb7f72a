----------------------------- MODULE FrameCompile -----------------------------
(* From a set of frame rules to the pack the engine runs (friction-packs     *)
(* frame_compile.rs): every rule of the fenced buckets compiles, is demoted  *)
(* to a report, or falls at one of the fences; then the closure fence looks  *)
(* at all that are left.                                                     *)
EXTENDS FrameRules, FiniteSets, FiniteSetsExt

CONSTANTS
  Classes,        \* class |-> its members, each a sequence of words
  Lexicon,        \* word |-> [lemma, form, tag, reads, ends]
  FunctionWords, Hyphenated,
  HumanStream, MachineStream,     \* the shipped corpora, sequences of words
  HumanPack, MachinePack,         \* external counts [total, words, probes]; total 0 when absent
  Unit, RateCeiling, AttestationFloor   \* rates are per Unit words; a million in the code

-----------------------------------------------------------------------------
(* CorpusEvidence *)
Occurrences(stream, words) ==
  LET Look(seen, i) ==
        IF i >= seen.next /\ i + Len(words) - 1 <= Len(stream)
             /\ \A k \in DOMAIN words : stream[i + k - 1] = words[k]
        THEN [n |-> seen.n + 1, next |-> i + Len(words)] ELSE seen
  IN FoldLeft(Look, [n |-> 0, next |-> 1], [i \in DOMAIN stream |-> i]).n

Counted(table, key) == IF key \in DOMAIN table THEN table[key] ELSE 0

(* <<machine, human, machine words, human words>> of one register *)
RegisterMatched(words) ==
  <<Occurrences(MachineStream, words), Occurrences(HumanStream, words),
    Len(MachineStream), Len(HumanStream)>>
ReviewPairs(words) ==
  IF \/ 0 \in {HumanPack.total, MachinePack.total}
     \/ words \notin DOMAIN HumanPack.probes \cap DOMAIN MachinePack.probes
  THEN {}
  ELSE {<<MachinePack.probes[words], HumanPack.probes[words], MachinePack.total, HumanPack.total>>}

Reaches(count, total, rate) == total > 0 /\ count * Unit >= rate * total
TooCommon(words) ==
  LET pooled == words \in DOMAIN HumanPack.probes
  IN Reaches(Occurrences(HumanStream, words) + (IF pooled THEN HumanPack.probes[words] ELSE 0),
             Len(HumanStream) + (IF pooled THEN HumanPack.total ELSE 0), RateCeiling)
Attested(word) ==
  \/ word \in FunctionWords
  \/ Reaches(Occurrences(HumanStream, <<word>>), Len(HumanStream), AttestationFloor)
  \/ Reaches(Counted(HumanPack.words, word), HumanPack.total, AttestationFloor)

Verdict(c, cushion) == Classify(FALSE, c[1] + cushion, c[2], c[3], c[4])
AnchorEvidenceDemotes(words) ==
  \/ RegisterMatched(words)[2] >= 3 /\ Verdict(RegisterMatched(words), 0) = "direction"
  \/ \E c \in ReviewPairs(words) : c[2] >= 3 /\ Verdict(c, 3) = "direction"
  \/ TooCommon(words)
MachineTiltedGuard(words) ==
  \E c \in {RegisterMatched(words)} \cup ReviewPairs(words) : Verdict(c, 0) = "confirmed"

-----------------------------------------------------------------------------
(* What a pattern holds, groups and optionals included. *)
RECURSIVE Within(_)
Within(elem) ==
  {elem} \cup CASE elem.t = "opt" -> Within(elem.of)
                [] elem.t = "group" ->
                     UNION {UNION {Within(elem.alts[a][i]) : i \in DOMAIN elem.alts[a]} : a \in DOMAIN elem.alts}
                [] OTHER -> {}
Parts(elems) == UNION {Within(elems[i]) : i \in DOMAIN elems}

UndefinedClasses(pattern) == {e \in Parts(pattern) : e.t = "class" /\ e.class \notin DOMAIN Classes}

Inflect(surface, lemma) ==
  LET forms == {w \in DOMAIN Lexicon : /\ Lexicon[w].lemma = lemma
                                       /\ surface \in DOMAIN Lexicon
                                       /\ Lexicon[w].form = Lexicon[surface].form}
  IN IF forms = {} THEN lemma ELSE CHOOSE w \in forms : TRUE

InflectionShadow(surface, parent) ==
  /\ Len(surface) = Len(parent)
  /\ \A i \in DOMAIN surface :
       \/ surface[i] = parent[i]
       \/ /\ surface[i].t = "lit" /\ parent[i].t = "lit"
          /\ Inflect(surface[i].w, parent[i].w) = surface[i].w

(* A literal anchors the scan, and so does a class of one single word. *)
Anchors(elem) ==
  \/ elem.t = "lit"
  \/ elem.t = "class" /\ Len(Classes[elem.class]) = 1 /\ Len(Classes[elem.class][1]) = 1
AnchorWord(elem) == IF elem.t = "lit" THEN elem.w ELSE Classes[elem.class][1][1]
(* The longest run of such elements, the first of the longest: {<<start, length>>}. *)
AnchorRun(pattern) ==
  LET runs == {r \in (DOMAIN pattern) \X (1 .. Len(pattern)) :
                 /\ r[1] + r[2] - 1 <= Len(pattern)
                 /\ \A i \in r[1] .. r[1] + r[2] - 1 : Anchors(pattern[i])}
  IN {r \in runs : \A q \in runs : q[2] < r[2] \/ (q[2] = r[2] /\ q[1] >= r[1])}

-----------------------------------------------------------------------------
(* The fences on a target. *)
Placeholder(target) == \E i \in DOMAIN target.elems : target.elems[i].t = "arg" /\ target.elems[i].arg = "?"

Emits(e) == e.t \notin {"start", "end"}
AltCopies(elems, i) == Cardinality({j \in 1 .. i - 1 : elems[j].t = "altcopy"})
Groups(pattern) == Cardinality({i \in DOMAIN pattern : pattern[i].t = "group"})
Unrealizable(pattern, target) ==
  \/ target.k # "template"
  \/ ~ \E i \in DOMAIN target.elems : Emits(target.elems[i])
  \/ \E i \in DOMAIN target.elems :
       LET e == target.elems[i] IN
         \/ e.t \in {"tag", "slot"} /\ e \notin Parts(pattern)
         \/ e.t = "altcopy" /\ AltCopies(target.elems, i) >= Groups(pattern)
         \/ e.t = "arg" /\ e.arg \in DOMAIN Classes /\ Classes[e.arg] = <<>>

(* compile_template; elements of a pattern are counted from 1. *)
FirstReal(elems) == {i \in DOMAIN elems : Emits(elems[i]) /\ \A j \in 1 .. i - 1 : ~Emits(elems[j])}
LeadingAgreement(pattern, elems, surface) ==
  {p \in FirstReal(pattern) : ~surface /\ pattern[p].t = "lit" /\ pattern[p].w \notin Hyphenated
     /\ \E i \in FirstReal(elems) : elems[i].t = "lit" /\ elems[i].w # pattern[p].w}
BeElement(pattern) ==
  LET be == {i \in DOMAIN pattern : pattern[i] = Tag("BE")} IN IF Cardinality(be) = 1 THEN be ELSE {}
Realization(pattern, e) ==
  LET leading == {i \in FirstReal(pattern) : pattern[i].t = "lit"}
      agree == IF BeElement(pattern) # {} THEN BeElement(pattern) ELSE leading
  IN IF e.arg \in DOMAIN Classes THEN [t |-> "realize", class |-> e.arg, tag |-> e.tag]
     ELSE IF agree # {} THEN [t |-> "inflect", w |-> e.arg, agree |-> Min(agree)]
     ELSE [t |-> "form", w |-> e.arg, tag |-> e.tag]
CompileTemplate(pattern, elems, surface) ==
  LET lead == LeadingAgreement(pattern, elems, surface)
      Op(i) == CASE elems[i].t = "lit" /\ i \in FirstReal(elems) /\ lead # {} ->
                      [t |-> "inflect", w |-> elems[i].w, agree |-> Min(lead)]
                 [] elems[i].t = "arg" -> Realization(pattern, elems[i])
                 [] elems[i].t = "altcopy" -> [t |-> "altcopy", ordinal |-> AltCopies(elems, i) + 1]
                 [] OTHER -> elems[i]
  IN SelectSeq([i \in DOMAIN elems |-> Op(i)], Emits)

Written(op) == op.t \in {"lit", "inflect", "form"}
AttestTemplate(template) ==
  \A i \in DOMAIN template :
    /\ Written(template[i]) => Attested(template[i].w)
    /\ template[i].t = "realize" =>
         LET members == Classes[template[i].class]
         IN \A m \in DOMAIN members : \A k \in DOMAIN members[m] : Attested(members[m][k])

(* compile_candidate_template: a fallback that fails a fence is dropped. *)
Candidate(draft, raw) ==
  LET target == ParseTarget(raw)
      template == CompileTemplate(draft.pattern, target.elems, draft.surface)
  IN IF raw = Review \/ ~target.ok THEN {}
     ELSE IF Placeholder(target) \/ Unrealizable(draft.pattern, target) THEN {}
     ELSE IF AttestTemplate(template) THEN {template} ELSE {}

(* compile_rewrite_ladder: <<>> when the primary falls. *)
Ladder(draft) ==
  LET primary == CompileTemplate(draft.pattern, draft.target.elems, draft.surface)
      Add(ladder, raw) == ladder \o SetToSeq(Candidate(draft, raw))
  IN IF ~AttestTemplate(primary) THEN <<>> ELSE FoldLeft(Add, <<primary>>, Tail(draft.raws))

-----------------------------------------------------------------------------
(* collect_drafts: the first rule of an id counts; a pattern or a primary    *)
(* target that does not parse fails the whole compile.                       *)
Draft(rule) ==
  IF rule.bucket = "pilot"
  THEN [id |-> rule.id, bucket |-> "pilot", kind |-> rule.kind, raws |-> <<rule.t>>,
        pattern |-> Literals(rule.p), ok |-> TRUE,
        target |-> [ok |-> TRUE, k |-> IF rule.t = <<>> THEN "delete" ELSE "template",
                    elems |-> Literals(rule.t)],
        support |-> 10 * rule.support, surface |-> TRUE, parent |-> ""]
  ELSE LET pattern == ParsePattern(rule.p)
           target == IF rule.t[1] = Review THEN [ok |-> TRUE, k |-> "template", elems |-> <<>>]
                     ELSE ParseTarget(rule.t[1])
       IN [id |-> rule.id, bucket |-> rule.bucket, kind |-> rule.kind, raws |-> rule.t,
           pattern |-> pattern.elems, ok |-> pattern.ok /\ target.ok, target |-> target,
           support |-> rule.support, surface |-> FALSE, parent |-> rule.parent]
Drafts(rules) ==
  [k \in DOMAIN rules |-> Draft(rules[k])]
FirstOfId(drafts) ==
  FoldLeft(LAMBDA kept, d : IF \E i \in DOMAIN kept : kept[i].id = d.id THEN kept ELSE Append(kept, d),
           <<>>, drafts)

(* compile_one, in the order of its fences. *)
Demoted(draft, words) ==
  \/ draft.bucket = "flip"
  \/ draft.bucket # "pilot" /\ draft.raws[1] = Review
  \/ Placeholder(draft.target)
  \/ draft.kind # "guard" /\ AnchorEvidenceDemotes(words)
  \/ draft.kind = "guard" /\ MachineTiltedGuard(words)
(* The patterns of the rules of the ship bucket are all known by then.       *)
Parents(drafts, draft) ==
  {drafts[i].pattern : i \in {i \in DOMAIN drafts : /\ draft.bucket = "surface" /\ drafts[i].bucket = "ship"
                                                   /\ drafts[i].id = draft.parent}}
Compiled(draft, kind, anchor, words, templates) ==
  IF kind = "rewrite" /\ (Unrealizable(draft.pattern, draft.target) \/ templates = <<>>) THEN <<>>
  ELSE <<[id |-> draft.id, kind |-> kind, pattern |-> draft.pattern, templates |-> templates,
          anchor |-> anchor, words |-> words, support |-> draft.support, surface |-> draft.surface]>>
CompileAnchored(draft, anchor, words) ==
  LET kind == IF Demoted(draft, words) THEN "report" ELSE draft.kind
  IN Compiled(draft, kind, anchor, words, IF kind = "rewrite" THEN Ladder(draft) ELSE <<>>)
(* The rule, or <<>>.                                                        *)
CompileOne(drafts, draft) ==
  LET Words(anchor) == [k \in 1 .. anchor[2] |-> AnchorWord(draft.pattern[anchor[1] + k - 1])]
  IN IF \/ draft.kind = "guard" /\ draft.bucket # "flip" /\ draft.target.k # "guard"
        \/ UndefinedClasses(draft.pattern) # {}
        \/ \E p \in Parents(drafts, draft) : InflectionShadow(draft.pattern, p)
        \/ AnchorRun(draft.pattern) = {}
     THEN <<>>
     ELSE FlattenSeq(SetToSeq({CompileAnchored(draft, a, Words(a)) : a \in AnchorRun(draft.pattern)}))

(* The closure fence: no target may write the anchor of another rule that    *)
(* edits.  The primary falls with its rule, a fallback alone.                *)
Edits(rule) == rule.kind \in {"rewrite", "delete"}
Writes(template, words) ==
  \E i \in DOMAIN template :
    /\ i + Len(words) - 1 <= Len(template)
    /\ \A k \in DOMAIN words : Written(template[i + k - 1]) /\ template[i + k - 1].w = words[k]
Reopens(template, rule, others) == \E o \in others : o.id # rule.id /\ Edits(o) /\ Writes(template, o.words)

\* Mutant of Closed: the fence looks at the primary only.
PrimaryClosed(rule, others) ==
  IF rule.kind = "rewrite" /\ Reopens(rule.templates[1], rule, others) THEN <<>> ELSE <<rule>>
Closed(rule, others) ==
  IF rule.kind # "rewrite" THEN <<rule>>
  ELSE IF Reopens(rule.templates[1], rule, others) THEN <<>>
  ELSE <<[rule EXCEPT !.templates = SelectSeq(@, LAMBDA t : ~Reopens(t, rule, others))]>>

CloseAll(rules) ==
  FlattenSeq([k \in DOMAIN rules |-> Closed(rules[k], {rules[o] : o \in DOMAIN rules})])
=============================================================================
