----------------------------- MODULE FrameProgram -----------------------------
(* A set of frame rules from its source to an edited sentence: compiled into *)
(* a pack, found in a sentence (friction-match frame_rewrite.rs), rewritten  *)
(* through its templates (friction-edit sentence.rs), and found again in the *)
(* result.  A sentence is a sequence of words and marks.  Article repair and *)
(* capitals are left out; which candidates the gates hold is any choice.     *)
EXTENDS FrameCompile

CONSTANT MaxSlot    \* words a slot before the anchor may add; 12 in the code

-----------------------------------------------------------------------------
(* write_pat_elem: a pattern as a flat row of cells, groups between marks.    *)
RECURSIVE Cell(_, _)
Cell(e, optional) ==
  CASE e.t = "opt" -> Cell(e.of, TRUE)
    [] e.t = "group" ->
         LET Alt(a) == (IF a = 1 THEN <<>> ELSE <<[t |-> "bar", opt |-> FALSE]>>)
                       \o FlattenSeq([i \in DOMAIN e.alts[a] |-> Cell(e.alts[a][i], FALSE)])
         IN <<[t |-> "open", opt |-> e.optional]>>
            \o FlattenSeq([a \in DOMAIN e.alts |-> Alt(a)]) \o <<[t |-> "close", opt |-> FALSE]>>
    [] OTHER -> <<e @@ [opt |-> optional]>>
Row(pattern) == FlattenSeq([i \in DOMAIN pattern |-> Cell(pattern[i], FALSE)])

(* element_to_op_index, frame_element_to_op *)
CellOf(pattern, element) == Len(Row(SubSeq(pattern, 1, element - 1))) + 1

(* What a token may stand for: itself, its lemma and what it reduces to.     *)
Reads(word) == {word, Lexicon[word].lemma} \cup Lexicon[word].reads
Stands(word, for, surface) == IF surface THEN word = for ELSE for \in Reads(word)

IsMark(word) == Lexicon[word].tag = "mark"
TagMatches(tag, word) ==
  LET pos == Lexicon[word].tag
  IN CASE tag = "NN" -> pos \in {"NN", "NNP"}
       [] tag = "NNS" -> pos \in {"NNS", "NNPS"}
       [] tag = "VB" -> pos \in {"VB", "VBP"}
       [] tag = "ADJ" -> pos \in {"JJ", "JJR"}
       [] tag = "ADJS" -> pos = "JJS"
       [] tag = "ADV" -> pos \in {"RB", "RBR", "RBS"}
       [] tag = "AUX" -> pos = "MD" \/ Lexicon[word].lemma \in {"be", "have", "do"}
       [] tag = "BE" -> Lexicon[word].lemma = "be"
       [] tag = "PUNCT" -> IsMark(word)
       [] tag = "NOM" -> FALSE
       [] OTHER -> pos = tag

(* single_op_matches: only a one-word member of a class fits one token.      *)
Fits(cell, word, surface) ==
  CASE cell.t = "lit" -> Stands(word, cell.w, surface)
    [] cell.t = "tag" -> TagMatches(cell.tag, word)
    [] cell.t = "class" ->
         /\ TagMatches(cell.tag, word)
         /\ \E m \in DOMAIN Classes[cell.class] :
              Len(Classes[cell.class][m]) = 1 /\ Stands(word, Classes[cell.class][m][1], surface)
    [] OTHER -> FALSE

-----------------------------------------------------------------------------
(* The verifier.  c is what it works on: the cells, the words, surface, and   *)
(* pin, the cell and the token of the anchor.  A result is [end, cap]: end 0  *)
(* when there is no match; captures written on the way are given back.       *)
None == 0
Fail(cap) == [end |-> None, cap |-> cap]

(* match_alt_run: one alternative, cell by cell from token at; an optional   *)
(* cell takes its token when it can.                                         *)
AltRun(c, from, to, at, cap) ==
  LET Take(r, k) ==
        IF r.end = None THEN r
        ELSE IF r.end <= Len(c.words) /\ Fits(c.cells[k], c.words[r.end], c.surface)
             THEN [end |-> r.end + 1, taken |-> r.taken \cup {k}, cap |-> [r.cap EXCEPT !.cells[k] = r.end]]
        ELSE IF c.cells[k].opt THEN r
        ELSE [end |-> None, taken |-> {},
              cap |-> [r.cap EXCEPT !.cells = [j \in DOMAIN @ |-> IF j \in r.taken THEN None ELSE @[j]]]]
      run == FoldLeft(Take, [end |-> at, taken |-> {}, cap |-> cap],
                      [i \in 1 .. to - from + 1 |-> from + i - 1])
  IN [end |-> run.end, cap |-> run.cap]

RECURSIVE MatchCells(_, _, _, _), MatchSlot(_, _, _, _, _), MatchGroup(_, _, _, _, _)

\* Mutant of MatchSlot: the first word is taken, and no longer stretch tried.
FirstWordOnly(c, k, at, cap, end) ==
  IF end > Len(c.words) + 1 THEN Fail(cap)
  ELSE MatchCells(c, k + 1, end, [cap EXCEPT !.slots[c.cells[k].s] = <<at, end>>, !.cells[k] = end - 1])

MatchSlot(c, k, at, cap, end) ==
  IF end > Len(c.words) + 1 THEN Fail(cap)
  ELSE LET s == c.cells[k].s
           tried == MatchCells(c, k + 1, end, [cap EXCEPT !.slots[s] = <<at, end>>, !.cells[k] = end - 1])
       IN IF tried.end # None THEN tried
          ELSE MatchSlot(c, k, at, [tried.cap EXCEPT !.cells[k] = None, !.slots[s] = cap.slots[s]], end + 1)

(* alts: the alternatives not tried yet, each <<first cell, last cell>>.     *)
Close(c, k) == Min({j \in k .. Len(c.cells) : c.cells[j].t = "close"})
Noted(run, at) == IF run.end = at + 1 THEN [run.cap EXCEPT !.groups[Len(run.cap.groups)] = at] ELSE run.cap
Popped(r) == IF r.end # None THEN r ELSE Fail([r.cap EXCEPT !.groups = Front(@)])
MatchGroup(c, k, at, cap, alts) ==
  LET AfterRest(rest) ==
        IF rest.end # None THEN rest
        ELSE MatchGroup(c, k, at, [rest.cap EXCEPT !.groups[Len(rest.cap.groups)] = None], Tail(alts))
      AfterRun(run) ==
        IF run.end = None THEN MatchGroup(c, k, at, run.cap, Tail(alts))
        ELSE AfterRest(MatchCells(c, Close(c, k) + 1, run.end, Noted(run, at)))
  IN IF alts # <<>> THEN AfterRun(AltRun(c, alts[1][1], alts[1][2], at, cap))
     ELSE Popped(IF c.cells[k].opt THEN MatchCells(c, Close(c, k) + 1, at, cap) ELSE Fail(cap))

Alternatives(c, k) ==
  LET bars == SelectSeq([i \in 1 .. Close(c, k) - k |-> k + i], LAMBDA j : c.cells[j].t \in {"bar", "close"})
  IN [a \in DOMAIN bars |-> <<IF a = 1 THEN k + 1 ELSE bars[a - 1] + 1, bars[a] - 1>>]

MatchCells(c, k, at, cap) ==
  LET cell == c.cells[k]
      Skip == MatchCells(c, k + 1, at, cap)
      Take == MatchCells(c, k + 1, at + 1, [cap EXCEPT !.cells[k] = at])
      Released(r) == [r.cap EXCEPT !.cells[k] = None]
  IN IF k > Len(c.cells) THEN [end |-> at, cap |-> cap]
     ELSE IF k = c.pin[1] /\ at # c.pin[2] THEN Fail(cap)
     ELSE CASE cell.t = "start" -> IF at = 1 THEN Skip ELSE Fail(cap)
            [] cell.t = "end" -> IF \A i \in at .. Len(c.words) : IsMark(c.words[i])
                                 THEN MatchCells(c, k + 1, Len(c.words) + 1, cap) ELSE Fail(cap)
            [] cell.t = "slot" -> MatchSlot(c, k, at, cap, at + 1)
            [] cell.t = "open" -> MatchGroup(c, k, at, [cap EXCEPT !.groups = Append(@, None)], Alternatives(c, k))
            [] cell.t = "clitic" ->
                 LET alone == at <= Len(c.words) /\ c.words[at] = cell.w
                     fused == at > 1 /\ Lexicon[c.words[at - 1]].ends = cell.w
                     left == IF alone THEN Released(Take) ELSE cap
                 IN IF alone /\ Take.end # None THEN Take
                    ELSE IF fused \/ cell.opt THEN MatchCells(c, k + 1, at, left)
                    ELSE Fail(left)
            [] OTHER ->
                 LET fits == at <= Len(c.words) /\ Fits(cell, c.words[at], c.surface)
                     left == IF fits THEN Released(Take) ELSE cap
                 IN IF fits /\ Take.end # None THEN Take
                    ELSE IF cell.opt THEN MatchCells(c, k + 1, at, left)
                    ELSE Fail(left)

(* max_prefix_tokens                                                         *)
Reach(rule) ==
  LET pin == CellOf(rule.pattern, rule.anchor[1])
  IN pin - 1 + (IF \E k \in 1 .. pin - 1 : Row(rule.pattern)[k].t = "slot" THEN MaxSlot ELSE 0)
(* verify: the cells before the anchor end where it starts; the latest start *)
(* that matches counts.                                                      *)
Verify(rule, words, at) ==
  LET cells == Row(rule.pattern)
      blank == [slots |-> [s \in {"X", "Y", "Z"} |-> <<>>], cells |-> [k \in DOMAIN cells |-> None], groups |-> <<>>]
      Try(start) == MatchCells([cells |-> cells, words |-> words, surface |-> rule.surface,
                                pin |-> <<CellOf(rule.pattern, rule.anchor[1]), at>>], 1, start, blank)
      Match(found, taken) ==
        [rule |-> rule, words |-> words, at |-> at, first |-> Min(taken), last |-> Max(taken), end |-> found.end,
         slots |-> found.cap.slots, cells |-> found.cap.cells, groups |-> found.cap.groups]
      tried == {Try(start) @@ [start |-> start] : start \in Max({1, at - Reach(rule)}) .. at}
      Latest(found) == {m \in found : \A n \in found : n.start <= m.start}
  IN {Match(m, {m.cap.cells[k] : k \in DOMAIN cells} \ {None}) : m \in Latest({m \in tried : m.end # None})}

AnchorFits(rule, words, at) ==
  /\ at + Len(rule.words) - 1 <= Len(words)
  /\ \A k \in DOMAIN rule.words : Stands(words[at + k - 1], rule.words[k], rule.surface)
(* scan_sentence *)
Scan(pack, words) ==
  UNION {Verify(pack[x[1]], words, x[2]) : x \in
           {x \in (DOMAIN pack) \X (DOMAIN words) : AnchorFits(pack[x[1]], words, x[2])}}

-----------------------------------------------------------------------------
CONSTANT Programs    \* name |-> [rules, sentences]: a rule set and the sentences read with it

VARIABLES
  stage,      \* what was done last: "raw", "collected", "fenced",
              \* "compiled", "scanned", "rewritten"
  program,    \* the name of the rule set
  pack,       \* the drafts, then the compiled rules
  words,      \* the sentence
  origin,     \* for each word <<rule, anchor>> of the edit that wrote it, or <<>>
  matches     \* where the pack matches in it

vars == <<stage, program, pack, words, origin, matches>>

Init ==
  /\ stage = "raw" /\ program \in DOMAIN Programs
  /\ pack = <<>> /\ words = <<>> /\ origin = <<>> /\ matches = {}

(* compile: collect the drafts, take each through its fences, then close.    *)
Collect ==
  /\ stage = "raw" /\ stage' = "collected"
  /\ pack' = FirstOfId(Drafts(Programs[program].rules))
  /\ \A k \in DOMAIN pack' : pack'[k].ok
  /\ UNCHANGED <<program, words, origin, matches>>
CompileEach ==
  /\ stage = "collected" /\ stage' = "fenced"
  /\ pack' = FlattenSeq([k \in DOMAIN pack |-> CompileOne(pack, pack[k])])
  /\ UNCHANGED <<program, words, origin, matches>>
CloseTargets ==
  /\ stage = "fenced" /\ stage' = "compiled"
  /\ pack' = CloseAll(pack)
  /\ UNCHANGED <<program, words, origin, matches>>

Read ==
  /\ stage = "compiled" /\ stage' = "scanned"
  /\ words' \in Programs[program].sentences
  /\ origin' = [i \in DOMAIN words' |-> <<>>]
  /\ matches' = Scan(pack, words')
  /\ UNCHANGED <<program, pack>>

-----------------------------------------------------------------------------
(* realize_template, op by op: {} when it cannot be realized, otherwise the  *)
(* words with a flag for those the template itself writes.                   *)
FormOf(tag) ==
  CASE tag \in {"VBZ", "NNS"} -> "s" [] tag = "VBG" -> "ing"
    [] tag \in {"VBN", "VBD"} -> "ed" [] OTHER -> "base"
InForm(lemma, form) ==
  LET ws == {w \in DOMAIN Lexicon : Lexicon[w].lemma = lemma /\ Lexicon[w].form = form}
  IN IF ws = {} THEN lemma ELSE CHOOSE w \in ws : TRUE
Wrote(w) == {<<[w |-> w, new |-> TRUE]>>}
Kept(m, from, to) == {[i \in 1 .. to - from + 1 |-> [w |-> m.words[from + i - 1], new |-> FALSE]]}

FirstCell(m, kind, named) ==
  LET cells == Row(m.rule.pattern)
      ks == {k \in DOMAIN cells : /\ cells[k].t = kind /\ m.cells[k] # None
                                  /\ (IF kind = "lit" THEN cells[k].w ELSE cells[k].tag) = named}
  IN IF ks = {} THEN None ELSE m.cells[Min(ks)]

(* literal_number_agreement: a literal the pattern shares follows its number. *)
Literal(m, w) ==
  LET at == FirstCell(m, "lit", w)
  IN IF at = None THEN Wrote(w)
     ELSE IF m.words[at] = w THEN Wrote(w)
     ELSE IF Lexicon[m.words[at]].lemma = w /\ Lexicon[m.words[at]].form = "s" THEN Wrote(m.words[at])
     ELSE {}
(* The member the match holds, or the first one, in the form of the tag.     *)
Member(m, op) ==
  LET members == Classes[op.class]
      singles == {members[k][1] : k \in {k \in DOMAIN members : Len(members[k]) = 1}}
      held == {i \in m.first .. m.end - 1 : Lexicon[m.words[i]].lemma \in singles}
  IN IF held # {} THEN Wrote(InForm(Lexicon[m.words[Min(held)]].lemma, FormOf(op.tag)))
     ELSE IF members # <<>> /\ Len(members[1]) = 1 THEN Wrote(InForm(members[1][1], FormOf(op.tag)))
     ELSE {}
Piece(m, op) ==
  CASE op.t = "lit" -> Literal(m, op.w)
    [] op.t = "slot" -> IF m.slots[op.s] = <<>> THEN {} ELSE Kept(m, m.slots[op.s][1], m.slots[op.s][2] - 1)
    [] op.t = "tag" -> LET at == FirstCell(m, "tag", op.tag)
                       IN IF at = None THEN {} ELSE Kept(m, at, at)
    [] op.t = "inflect" -> LET at == m.cells[CellOf(m.rule.pattern, op.agree)]
                           IN Wrote(IF at = None THEN op.w ELSE Inflect(m.words[at], op.w))
    [] op.t = "form" -> Wrote(InForm(op.w, FormOf(op.tag)))
    [] op.t = "realize" -> Member(m, op)
    [] op.t = "altcopy" -> IF op.ordinal > Len(m.groups) THEN {}
                           ELSE IF m.groups[op.ordinal] = None THEN {}
                           ELSE Kept(m, m.groups[op.ordinal], m.groups[op.ordinal])
    [] op.t = "clitic" -> Wrote(op.w)
(* Between a finite verb and its complement a parenthesis loses both commas. *)
AfterFiniteVerb(m) ==
  LET before == {i \in 1 .. m.first - 1 : ~IsMark(m.words[i])}
  IN /\ m.words[m.first] = "," /\ m.words[m.last] = ","
     /\ before # {} /\ Lexicon[m.words[Max(before)]].tag \in {"VBZ", "VBP", "VBD"}
Realized(m, template) ==
  LET pieces == [i \in DOMAIN template |-> Piece(m, template[i])]
      all == FlattenSeq([i \in DOMAIN template |-> CHOOSE p \in pieces[i] : TRUE])
  IN IF template = <<>> \/ \E i \in DOMAIN template : pieces[i] = {} THEN {}
     ELSE IF all = <<[w |-> ",", new |-> TRUE]>> /\ AfterFiniteVerb(m) THEN {<<>>}
     ELSE {all}
(* What the ladder can come to, and a deletion.                              *)
Outcomes(m) ==
  IF m.rule.kind = "delete" THEN {<<>>}
  ELSE UNION {Realized(m, m.rule.templates[k]) : k \in DOMAIN m.rule.templates}

-----------------------------------------------------------------------------
(* run_frame_rewrite.                                                        *)
Meet(a, b) == a.first <= b.last /\ b.first <= a.last
NamesGuarded(m, g) ==
  LET cells == Row(m.rule.pattern)
  IN g.end = g.first + 1 /\ \E k \in DOMAIN cells : cells[k].t = "lit" /\ m.cells[k] = g.first
Editable ==
  {m \in matches : /\ Edits(m.rule)
                   /\ \A g \in matches : g.rule.kind = "guard" /\ Meet(m, g) => NamesGuarded(m, g)}

Rank(rule) == CHOOSE r \in DOMAIN pack : pack[r] = rule
Before(a, b) ==
  \/ a.first < b.first
  \/ a.first = b.first /\ a.last > b.last
  \/ a.first = b.first /\ a.last = b.last /\ a.rule.support > b.rule.support
  \/ a.first = b.first /\ a.last = b.last /\ a.rule.support = b.rule.support /\ Rank(a.rule) < Rank(b.rule)
(* resolve: in that order, each that overlaps none kept before it.           *)
Resolve(candidates) ==
  LET kept[m \in candidates] == ~ \E k \in candidates : Before(k, m) /\ Meet(k, m) /\ kept[k]
  IN {m \in candidates : kept[m]}

Spliced(chosen, text) ==
  LET At(i) == {m \in chosen : m.first <= i /\ i <= m.last}
      Put(i) == IF At(i) = {} THEN <<[w |-> words[i], by |-> origin[i]]>>
                 ELSE LET m == CHOOSE m \in At(i) : TRUE
                      IN IF i # m.first THEN <<>>
                         ELSE [k \in DOMAIN text[m] |-> [w |-> text[m][k].w,
                                by |-> IF text[m][k].new THEN <<m.rule.id, m.at>> ELSE <<>>]]
  IN FlattenSeq([i \in DOMAIN words |-> Put(i)])

Held == <<[w |-> "", new |-> FALSE]>>
Rewrite ==
  /\ stage = "scanned" /\ stage' = "rewritten"
  /\ \E text \in [Editable -> UNION {Outcomes(m) : m \in Editable} \cup {Held}] :
       /\ \A m \in Editable : text[m] \in Outcomes(m) \cup {Held}
       /\ LET out == Spliced(Resolve({m \in Editable : text[m] # Held}), text)
          IN /\ words' = [i \in DOMAIN out |-> out[i].w]
             /\ origin' = [i \in DOMAIN out |-> out[i].by]
  /\ matches' = Scan(pack, words')
  /\ UNCHANGED <<program, pack>>

Next == Collect \/ CompileEach \/ CloseTargets \/ Read \/ Rewrite
Spec == Init /\ [][Next]_vars

-----------------------------------------------------------------------------
(* All the ends of a stretch of words from i on that a pattern describes,    *)
(* whatever way it is searched for; and, when not free, those left by the    *)
(* policy frame_rewrite.rs:31-41 states: an optional element takes what it   *)
(* can, a group its first alternative that fits, a slot whatever it needs.   *)
RECURSIVE Ends(_, _, _, _)
ElemEnds(e, i, surface, free) ==
  LET n == Len(words)
  IN CASE e.t = "slot" -> i + 1 .. n + 1
       [] e.t = "start" -> {1} \cap {i}
       [] e.t = "end" -> IF \A k \in i .. n : IsMark(words[k]) THEN {n + 1} ELSE {}
       [] e.t = "clitic" -> (IF i <= n /\ words[i] = e.w THEN {i + 1} ELSE {})
                            \cup (IF i > 1 /\ Lexicon[words[i - 1]].ends = e.w THEN {i} ELSE {})
       [] e.t = "opt" -> LET taken == Ends(<<e.of>>, i, surface, free)
                         IN taken \cup (IF free \/ taken = {} THEN {i} ELSE {})
       [] e.t = "group" ->
            LET To(a) == Ends(e.alts[a], i, surface, free)
                fit == {a \in DOMAIN e.alts : To(a) # {}}
                tried == IF free \/ fit = {} THEN fit ELSE {Min(fit)}
            IN UNION {To(a) : a \in tried} \cup (IF e.optional /\ (free \/ fit = {}) THEN {i} ELSE {})
       [] OTHER -> IF i <= n /\ Fits(e, words[i], surface) THEN {i + 1} ELSE {}
Ends(elems, i, surface, free) ==
  IF elems = <<>> THEN {i}
  ELSE UNION {Ends(Tail(elems), j, surface, free) : j \in ElemEnds(elems[1], i, surface, free)}

Starts(rule, at, free) ==
  {s \in Max({1, at - Reach(rule)}) .. at :
     at \in Ends(SubSeq(rule.pattern, 1, rule.anchor[1] - 1), s, rule.surface, free)}
Follows(rule, at, free) ==
  Ends(SubSeq(rule.pattern, rule.anchor[1], Len(rule.pattern)), at, rule.surface, free)
Occurs(rule, at, free) == Starts(rule, at, free) # {} /\ Follows(rule, at, free) # {}

(* Verification walks one path, with captures it takes back.  It misses no   *)
(* word at which the documented policy matches a rule whose anchor lands     *)
(* there, with a start within reach; it matches only where the pattern, read *)
(* as a grammar, describes the words; and a match covers every word its      *)
(* slots hold, so that a template that copies a slot doubles no word         *)
(* (frame_rewrite.rs verify, match_ops, match_slot, match_group).  Between   *)
(* the two the doc and the code disagree, and nothing is claimed: the doc    *)
(* says an optional is taken or skipped, "never both, no optional-driven     *)
(* backtracking", and that a group "commits to the first that matches"       *)
(* (31-37), while match_ops skips an optional it has taken when the rest     *)
(* fails (635-639) and match_group then tries the next alternative (714-724).*)
MatchesAreOccurrences ==
  stage = "scanned" =>
    /\ \A r \in DOMAIN pack, at \in DOMAIN words :
         LET matched == \E m \in matches : m.rule = pack[r] /\ m.at = at
         IN /\ Occurs(pack[r], at, FALSE) => matched
            /\ matched => Occurs(pack[r], at, TRUE)
    /\ \A m \in matches :
         /\ m.end \in Follows(m.rule, m.at, TRUE)
         /\ \A s \in {"X", "Y", "Z"} :
              m.slots[s] # <<>> => m.first <= m.slots[s][1] /\ m.slots[s][2] - 1 <= m.last

(* However the ladder and the gates decide, what one edit writes never is    *)
(* the anchor of another rule that edits: the next pass finds nothing to do  *)
(* in it (frame_compile.rs:55-59, the closure fence).                        *)
RewritesStayClosed ==
  stage = "rewritten" =>
    \A m \in matches : Edits(m.rule) =>
      ~ \E by \in {origin[i] : i \in DOMAIN origin} :
          /\ by # <<>> /\ by[1] # m.rule.id
          /\ \A k \in DOMAIN m.rule.words : origin[m.at + k - 1] = by

(* Every rewrite of the pack can edit: of the sentences it matches, one has  *)
(* a realization (frame_compile.rs:38-51, the realizability fence).          *)
EveryRewriteCanRealize ==
  stage = "compiled" =>
    \A r \in DOMAIN pack :
      LET found == {m \in UNION {Scan(<<pack[r]>>, ws) : ws \in Programs[program].sentences} : pack[r].kind = "rewrite"}
      IN found # {} => \E m \in found : Outcomes(m) # {}
=============================================================================
