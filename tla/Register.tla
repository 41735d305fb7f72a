------------------------------- MODULE Register -------------------------------
(* The register pass (friction-edit, register.rs): each construction whose   *)
(* rate is confidently outside its human band is homed toward it, one        *)
(* candidate at a time, the best first.  The candidates come from the        *)
(* generators of friction-register, transduce.rs (T4-T7, T9), which remove   *)
(* the constructions features.rs counts.                                     *)
(*                                                                           *)
(* A sentence is a sequence of lower-cased words (recapitalization does not  *)
(* change any count) with its dependency parse; a candidate replaces a run   *)
(* of words and says by how much each construction's count will change.  A   *)
(* document is a sequence of sentences and a number of further words that    *)
(* hold no construction.  Rates are per Scale words and compared as          *)
(* fractions; a Wilson bound at z = 1.96 exceeds h exactly when the score    *)
(* test does (z^2 = 2401/625).                                               *)
EXTENDS Integers, Sequences, SequencesExt, FiniteSetsExt, Functions

CONSTANTS
  Lexicon,         \* word |-> [pos, lemma]
  NominalVerbs,    \* nominalization |-> its verb
  SuffixNouns,     \* nouns with a nominalizing suffix, at least six letters, not excepted
  PastForm, Participle, \* lemma |-> word, where there is one
  GenericSubjects, \* subjects nobody misses, as sequences of words
  Stative, IrregularBases,        \* lemmas; "cut" is its own past
  ObjectPronouns,
  FusedSubjects, FusedAuxiliaries \* "it's" and the like; "isn't" and the like

FiniteTags == {"VBZ", "VBP", "VBD", "MD"}
Verbs == {"VB", "VBZ", "VBP", "VBD", "VBG", "VBN"}
Nouns == {"NN", "NNS", "NNP", "NNPS"}
Be == {"was", "were"}

Pos(s, i) == Lexicon[s.words[i]].pos
Lemma(s, i) == Lexicon[s.words[i]].lemma
Word(s, i) == IF i \in DOMAIN s.words THEN s.words[i] ELSE "none"
PosAt(s, i) == IF i \in DOMAIN s.words THEN Pos(s, i) ELSE "none"
Tokens(s) == DOMAIN s.words
At(s, set) == {i \in Tokens(s) : s.words[i] \in set}

Children(s, head, relations) ==
  {i \in Tokens(s) : s.head[i] = head /\ s.relation[i] \in relations}

(* The token, its head, its head's head ...; 0 above the root. *)
Chain(s, i) ==
  LET up[n \in 0 .. Len(s.words)] ==
        IF n = 0 THEN i ELSE IF up[n - 1] = 0 THEN 0 ELSE s.head[up[n - 1]]
  IN up
Subtree(s, i) == {j \in Tokens(s) : i \in Range(Chain(s, j))}
LeftEdge(s, i) == Min(Subtree(s, i))
RightEdge(s, i) == Max(Subtree(s, i))

Candidate(kind, first, last, text, delta) ==
  [kind |-> kind, first |-> first, last |-> last, text |-> text, delta |-> delta]
Rewrite(s, c) ==
  SubSeq(s.words, 1, c.first - 1) \o c.text \o SubSeq(s.words, c.last + 1, Len(s.words))

-----------------------------------------------------------------------------
(* features.rs: where a construction occurs.  All but nominalization are     *)
(* read off the words, so they can be looked for in a rewritten text too.    *)
Instances(feature, words) ==
  CASE feature = "em_dash" -> {i \in DOMAIN words : words[i] = "--"}
    [] feature = "semicolon" -> {i \in DOMAIN words : words[i] = ";"}
    [] feature = "past_progressive" ->
         {i \in DOMAIN words \ {1} : /\ Lexicon[words[i]].pos = "VBG"
                                     /\ words[i] \notin {"being", "going"}
                                     /\ words[i - 1] \in Be}
    [] feature = "contrast_closer" ->
         {i \in DOMAIN words \ {1} : <<words[i - 1], words[i]>> \in {<<",", "not">>, <<"rather", "than">>}}
    [] feature = "nominalization" ->
         {i \in DOMAIN words : Lexicon[words[i]].pos \in {"NN", "NNS"} /\ words[i] \in SuffixNouns}

(* An auxiliary below it and no agent. *)
AgentlessPassives(s) ==
  {i \in Tokens(s) : /\ Children(s, i, {"auxpass"}) # {}
                     /\ Children(s, i, {"agent"}) = {}
                     /\ \A p \in Children(s, i, {"prep"}) : s.words[p] # "by"}

WordCount(words) == Cardinality({i \in DOMAIN words : Lexicon[words[i]].pos \notin {"punct", "CD"}})

-----------------------------------------------------------------------------
(* T4: active to agentless passive.  "(" stands for both kinds of bracket. *)
MaySubside(s, verb) ==
  /\ Pos(s, verb) \in {"VBD", "VBZ", "VBP"}
  /\ s.relation[verb] # "conj"
  /\ Children(s, verb, {"auxpass"}) = {}
  /\ \A i \in Children(s, verb, {"conj"}) : Pos(s, i) \notin Verbs
  /\ Lemma(s, verb) \notin Stative
  /\ Pos(s, verb) \in {"VBD", "VBZ"} /\ Lemma(s, verb) = s.words[verb] => Lemma(s, verb) \in IrregularBases

MayBePromoted(s, verb, object) ==
  LET noun == Subtree(s, object)
      first == Min(noun)
      last == Max(noun)
  IN /\ \A i \in first .. last \ {object} :
          s.relation[i] \notin {"prep", "acl", "advcl", "xcomp", "ccomp", "csubj", "mark", "aux", "auxpass"}
     /\ \E i \in first .. last : Pos(s, i) \in Nouns
     /\ At(s, {"(", ")"}) \cap (first .. last) = {}
     /\ Cardinality(At(s, {"("}) \cap (1 .. first - 1)) <= Cardinality(At(s, {")"}) \cap (1 .. first - 1))
     /\ \A i \in verb + 1 .. first - 1 : Pos(s, i) \notin {"IN", "RP"}
     /\ \A i \in last + 1 .. Len(s.words) : s.head[i] = verb => "punct" \in {Pos(s, i), s.relation[i]}
     /\ s.words[object] \notin ObjectPronouns
     /\ Pos(s, object) \in Nouns \cup {"PRP", "CD"}
     /\ \A i \in first .. last + 1 : PosAt(s, i) \notin FiniteTags
     /\ Pos(s, last) \notin {"IN", "TO"}

IsPlural(s, i) ==
  Pos(s, i) \in {"NNS", "NNPS"} \/ s.words[i] \in {"you", "they", "these", "those", "them"}
Auxiliary(s, verb, object) ==
  LET conjuncts == Children(s, object, {"conj"})
      linked == {s.words[i] : i \in {i \in Subtree(s, object) : s.relation[i] = "cc"}}
      plural == IF conjuncts = {} THEN IsPlural(s, object)
                ELSE linked \in {{"or"}, {"nor"}, {"or", "nor"}} => IsPlural(s, Max(conjuncts))
  IN IF Pos(s, verb) = "VBD" THEN IF plural THEN "were" ELSE "was"
     ELSE IF plural THEN "are" ELSE "is"

ActivizeToPassive(s) ==
  {Candidate("passivize", LeftEdge(s, Min(Children(s, v, {"nsubj"}))), RightEdge(s, Min(Children(s, v, {"dobj"}))),
             LET object == Min(Children(s, v, {"dobj"}))
             IN SubSeq(s.words, LeftEdge(s, object), RightEdge(s, object))
                  \o <<Auxiliary(s, v, object), Participle[Lemma(s, v)]>>,
             [agentless_passive |-> 1, first_person |-> -1]) :
     v \in {v \in Tokens(s) :
              /\ MaySubside(s, v)
              /\ Children(s, v, {"nsubj"}) # {} /\ Children(s, v, {"dobj"}) # {}
              /\ LET subject == Min(Children(s, v, {"nsubj"}))
                 IN SubSeq(s.words, LeftEdge(s, subject), RightEdge(s, subject)) \in GenericSubjects
              /\ MayBePromoted(s, v, Min(Children(s, v, {"dobj"})))
              /\ At(s, {"#code"}) \cap (LeftEdge(s, Min(Children(s, v, {"nsubj"})))
                                      .. RightEdge(s, Min(Children(s, v, {"dobj"})))) = {}}}

(* T5: "the creation of x" to "creating x", and whatever stands between the  *)
(* article and x goes.                                                       *)
Unpacked(s, noun) ==
  LET the == {i \in Children(s, noun, {"det"}) : s.words[i] = "the"}
      of == {i \in Children(s, noun, {"prep"}) : s.words[i] = "of"}
      argument == IF of = {} THEN {} ELSE Children(s, Min(of), {"pobj"})
  IN IF the = {} \/ argument = {} \/ Children(s, noun, {"amod"}) # {} THEN {}
     ELSE LET last == RightEdge(s, Min(argument))
          IN {Candidate("unpack", Min(the), last,
                        <<NominalVerbs[s.words[noun]]>> \o SubSeq(s.words, LeftEdge(s, Min(argument)), last),
                        [nominalization |-> -1, prepositions |-> -1]) :
                n \in {n \in {noun} : PosAt(s, last + 1) \notin Nouns}}
NominalizationUnpack(s) ==
  UNION {Unpacked(s, i) : i \in {i \in Tokens(s) : /\ Pos(s, i) \in {"NN", "NNS"}
                                                   /\ s.words[i] \in DOMAIN NominalVerbs}}

-----------------------------------------------------------------------------
HasFiniteVerb(s, range) ==
  \E i \in range : Pos(s, i) \in FiniteTags \/ s.words[i] \in FusedSubjects \cup FusedAuxiliaries

IndependentClauseFollows(s, next) ==
  \E i \in next .. Len(s.words) :
    /\ s.relation[i] \in {"nsubj", "nsubjpass"} /\ s.head[i] # 0
    /\ Pos(s, s.head[i]) \in FiniteTags \/ Children(s, s.head[i], {"auxpass"}) # {}
    /\ LeftEdge(s, i) = next

OpensIndependentClause(s, next) ==
  \/ Word(s, next) \in FusedSubjects
  \/ PosAt(s, next) = "VB"
  \/ IndependentClauseFollows(s, next)

Alphabetic(word) == Lexicon[word].pos \notin {"CD", "punct"}

(* T6: one dash or a pair; any other number is left alone. *)
Paired(s, first, second) ==
  LET inside == SubSeq(s.words, first + 1, second - 1)
  IN {Candidate("em_dash", first, second,
                IF "," \in Range(inside) THEN <<"(">> \o inside \o <<")">>
                ELSE <<",">> \o inside \o <<",">>,
                [em_dash |-> -2]) :
        d \in {d \in {first} : /\ first > 1 /\ second < Len(s.words) /\ second > first + 1
                               /\ ~HasFiniteVerb(s, first + 1 .. second - 1)
                               /\ "#code" \notin Range(inside)}}

Single(s, dash) ==
  LET after == SubSeq(s.words, dash + 1, Len(s.words))
      next == s.words[dash + 1]
  IN IF dash = 1 \/ dash = Len(s.words) THEN {}
     ELSE IF ~HasFiniteVerb(s, 1 .. dash - 1)
     THEN {Candidate("em_dash", dash, dash, <<":">>, [em_dash |-> -1])}
     ELSE IF OpensIndependentClause(s, dash + 1)
     THEN {Candidate("em_dash", dash, dash + 1,
                     <<IF Alphabetic(next) THEN "." ELSE ";", next>>, [em_dash |-> -1])}
     ELSE {Candidate("em_dash", dash, dash, <<IF "," \in Range(after) THEN ":" ELSE ",">>,
                     [em_dash |-> -1]) :
             d \in {d \in {dash} : ~HasFiniteVerb(s, dash + 1 .. Len(s.words))}}

EmDash(s) ==
  LET dashes == At(s, {"--"})
  IN CASE Cardinality(dashes) = 1 -> Single(s, Min(dashes))
       [] Cardinality(dashes) = 2 -> Paired(s, Min(dashes), Max(dashes))
       [] OTHER -> {}

(* T7: every part has a finite verb, and no colon introduces them. *)
Semicolon(s) ==
  LET semis == At(s, {";"})
      cuts == semis \cup {0, Len(s.words) + 1}
      segments == {r \in cuts \X cuts : r[1] < r[2] /\ cuts \cap (r[1] + 1 .. r[2] - 1) = {}}
  IN {Candidate("semicolon", i, i + 1, <<".", s.words[i + 1]>>, [semicolon |-> -1]) :
        i \in {i \in semis :
                 /\ \A colon \in At(s, {":"}) : colon > Min(semis)
                 /\ \A r \in segments : HasFiniteVerb(s, r[1] + 1 .. r[2] - 1)
                 /\ 1 < i /\ i < Len(s.words)
                 /\ OpensIndependentClause(s, i + 1)
                 /\ Alphabetic(s.words[i + 1])}}

(* T9: "was running" to "ran", outside a temporal frame. *)
\* Mutant of IsSimplified: "was going" is a progressive too.
IsSimplifiedAnyway(s, aux) ==
  /\ PosAt(s, aux + 1) = "VBG"
  /\ aux \in Children(s, aux + 1, {"aux"})
  /\ PosAt(s, aux + 2) \notin Nouns
IsSimplified(s, aux) ==
  /\ PosAt(s, aux + 1) = "VBG" /\ s.words[aux + 1] \notin {"being", "going"}
  /\ aux \in Children(s, aux + 1, {"aux"})
  /\ PosAt(s, aux + 2) \notin Nouns
PastProgressive(s) ==
  {Candidate("past_progressive", aux, aux + 1, <<PastForm[Lemma(s, aux + 1)]>>,
             [past_progressive |-> -1]) :
     aux \in {aux \in At(s, Be) : At(s, {"when", "while"}) = {} /\ IsSimplified(s, aux)}}

(* In the order each generator pushes them: by position. *)
Candidates(s, kind) ==
  LET found == CASE kind = "passivize" -> ActivizeToPassive(s)
                 [] kind = "unpack" -> NominalizationUnpack(s)
                 [] kind = "em_dash" -> EmDash(s)
                 [] kind = "semicolon" -> Semicolon(s)
                 [] kind = "past_progressive" -> PastProgressive(s)
  IN SetToSortSeq(found, LAMBDA c, d : c.first < d.first)

-----------------------------------------------------------------------------
(* The pass.                                                                 *)
CONSTANTS
  Documents,  \* sequences of sentences
  Paddings,   \* further words
  Scale,
  Bands       \* feature |-> [low, high], per Scale words

VARIABLES
  doc, padding,
  phase,    \* "count", "home", "report", "done"
  plan,     \* the features to home: [feature, kind, count], the current first
  pool,     \* candidates, each with its sentence
  words,    \* prose words, as changed by what was accepted
  accepted,
  held,     \* findings: [rule, sentence, first, last]
  finals,   \* feature |-> the count homing ended with, and whether that is above the band
  out       \* the document returned, the patches dropped, whether its scan is reusable

vars == <<doc, padding, phase, plan, pool, words, accepted, held, finals, out>>

(* feature_plan, in its order. *)
Plan == << <<"agentless_passive", "passivize">>, <<"nominalization", "unpack">>,
           <<"em_dash", "em_dash">>, <<"semicolon", "semicolon">>,
           <<"past_progressive", "past_progressive">> >>
Increases(feature) == feature = "agentless_passive"

Counted(feature, s) ==
  IF Increases(feature) THEN Cardinality(AgentlessPassives(s))
  ELSE Cardinality(Instances(feature, s.words))
CountOf(feature) == FoldLeft(LAMBDA n, s : n + Counted(feature, s), 0, doc)
WordsOf(text) == FoldLeft(LAMBDA n, s : n + WordCount(s.words), 0, text)

LowerExceeds(k, n, h) ==
  /\ n > 0 /\ k * Scale > n * h
  /\ h > 0 => 625 * (k * Scale - n * h) * (k * Scale - n * h) > 2401 * n * h * (Scale - h)
UpperBelow(k, n, l) ==
  /\ n > 0 /\ k * Scale < n * l
  /\ 625 * (n * l - k * Scale) * (n * l - k * Scale) > 2401 * n * l * (Scale - l)
ConfidentlyAbove(k, n, feature) ==
  LET high == Bands[feature].high
  IN (high = 0 \/ k >= 2) /\ LowerExceeds(k, n, high)
Armed(feature) ==
  IF Increases(feature) THEN UpperBelow(CountOf(feature), words, Bands[feature].low)
  ELSE ConfidentlyAbove(CountOf(feature), words, feature)
InBand(k, n, feature) ==
  Bands[feature].low * n <= k * Scale /\ k * Scale <= Bands[feature].high * n

-----------------------------------------------------------------------------
EndsSentence(s) ==
  \E i \in Tokens(s) : /\ s.words[i] \in {".", "!", "?"}
                       /\ \A j \in i + 1 .. Len(s.words) : s.words[j] \in {"#quote", ")"}
ContinuesPrevious(i) == i > 1 /\ ~EndsSentence(doc[i - 1])
InQuotedSpan(s, c) ==
  \/ At(s, {"#quote"}) \cap (c.first .. c.last) # {}
  \/ Cardinality(At(s, {"#quote"}) \cap (1 .. c.first - 1)) % 2 = 1

(* A word of the replacement that is neither in the span, nor a form of be,  *)
(* nor what the kind derives from a word of the span.                        *)
ClosureViolated(s, c) ==
  LET span == {s.words[i] : i \in c.first .. c.last}
      lemmas == {Lemma(s, i) : i \in c.first .. c.last}
      derived == CASE c.kind = "passivize" -> {Participle[l] : l \in lemmas \cap DOMAIN Participle}
                   [] c.kind = "unpack" -> {NominalVerbs[w] : w \in span \cap DOMAIN NominalVerbs}
                   [] c.kind = "past_progressive" -> {PastForm[l] : l \in lemmas \cap DOMAIN PastForm}
                   [] OTHER -> {}
  IN \E w \in Range(c.text) : /\ Lexicon[w].pos # "punct"
                              /\ w \notin span \cup {"was", "were", "is", "are"} \cup derived

Positioned(i, c) == [kind |-> c.kind, sentence |-> i, first |-> c.first, last |-> c.last,
                     text |-> c.text, delta |-> c.delta]
Finding(rule, i, first, last) == [rule |-> rule, sentence |-> i, first |-> first, last |-> last]

Collected(kind) ==
  FlattenSeq([i \in DOMAIN doc |->
    IF EndsSentence(doc[i]) /\ ~ContinuesPrevious(i)
    THEN LET found == Candidates(doc[i], kind)
         IN [j \in DOMAIN found |-> Positioned(i, found[j])]
    ELSE << >>])
IsHeld(c) == InQuotedSpan(doc[c.sentence], c) \/ ClosureViolated(doc[c.sentence], c)

WordDelta(c) ==
  WordCount(c.text) - WordCount(SubSeq(doc[c.sentence].words, c.first, c.last))

Overlap(a, b) == a.sentence = b.sentence /\ a.first <= b.last /\ b.first <= a.last

GoverningVerbs(c) ==
  LET s == doc[c.sentence]
      verb(i) == LET up == Chain(s, i)
                     found == {n \in DOMAIN up : up[n] # 0 /\ Pos(s, up[n]) \in FiniteTags}
                 IN IF found = {} THEN {} ELSE {up[Min(found)]}
  IN UNION {verb(i) : i \in c.first .. c.last}

Governs(a, b) == \E i \in b.first .. b.last : doc[b.sentence].head[i] \in a.first .. a.last

Conflicts(a, b) ==
  /\ a.sentence = b.sentence
  /\ Overlap(a, b) \/ Governs(a, b) \/ Governs(b, a) \/ GoverningVerbs(a) \cap GoverningVerbs(b) # {}

-----------------------------------------------------------------------------
Result(text, dropped, reusable) == [text |-> text, dropped |-> dropped, reusable |-> reusable]

Init ==
  /\ doc \in Documents /\ padding \in Paddings
  /\ phase = "count" /\ plan = << >> /\ pool = << >> /\ words = 0 /\ accepted = << >>
  /\ held = << >> /\ finals = << >> /\ out = Result(<< >>, 0, FALSE)

CountFeatures ==
  /\ phase = "count"
  /\ words' = padding + WordsOf(doc)
  /\ phase' = IF words' = 0 THEN "done" ELSE "collect"
  /\ out' = IF words' = 0 THEN Result(doc, 0, TRUE) ELSE out
  /\ UNCHANGED <<doc, padding, plan, pool, accepted, held, finals>>

Collect ==
  /\ phase = "collect"
  /\ LET armed == SelectSeq(Plan, LAMBDA f : Armed(f[1]))
         found == FlattenSeq([k \in DOMAIN armed |-> Collected(armed[k][2])])
         holds == SelectSeq(found, IsHeld)
     IN /\ plan' = [k \in DOMAIN armed |->
                      [feature |-> armed[k][1], kind |-> armed[k][2], count |-> CountOf(armed[k][1])]]
        /\ pool' = SelectSeq(found, LAMBDA c : ~IsHeld(c))
        /\ held' = [k \in DOMAIN holds |->
                      Finding(holds[k].kind, holds[k].sentence, holds[k].first, holds[k].last)]
  /\ phase' = "home"
  /\ UNCHANGED <<doc, padding, words, accepted, finals, out>>

(* Fractions k/n over positive n. *)
Below(a, b) == a[1] * b[2] < b[1] * a[2]
Current == plan[1]
RateNow == <<Current.count, words>>
RateAfter(c) == <<Current.count + c.delta[Current.feature], words + WordDelta(c)>>
Better(a, b) == IF Increases(Current.feature) THEN Below(b, a) ELSE Below(a, b)

Improving ==
  {k \in DOMAIN pool :
     /\ Current.feature \in DOMAIN pool[k].delta
     /\ \A taken \in Range(accepted) : ~Conflicts(taken, pool[k])
     /\ Better(RateAfter(pool[k]), RateNow)}
(* The first of those no other beats. *)
Best == Min({k \in Improving : \A j \in Improving : ~Better(RateAfter(pool[j]), RateAfter(pool[k]))})

Settled == InBand(Current.count, words, Current.feature) \/ Improving = {}

Accept ==
  /\ phase = "home" /\ plan # << >> /\ ~Settled
  /\ LET c == pool[Best]
     IN /\ accepted' = Append(accepted, c)
        /\ plan' = [plan EXCEPT ![1].count = @ + c.delta[Current.feature]]
        /\ words' = words + WordDelta(c)
        /\ pool' = RemoveAt(pool, Best)
  /\ UNCHANGED <<doc, padding, phase, held, finals, out>>

Touched(finding) == \E c \in Range(accepted) : Overlap(c, finding)
(* Each instance that no accepted candidate covers and no finding of the     *)
(* rule explains.                                                            *)
InstancesOf(feature, rule) ==
  FlattenSeq([i \in DOMAIN doc |->
    LET at == SetToSortSeq(Instances(feature, doc[i].words), <)
    IN [k \in DOMAIN at |-> Finding(rule, i, at[k], at[k])]])
Remainder(feature, rule) ==
  SelectSeq(InstancesOf(feature, rule),
            LAMBDA f : /\ ~Touched(f)
                       /\ \A h \in Range(held) : h.rule = rule => ~Overlap(h, f))

EndFeature ==
  /\ phase = "home" /\ plan # << >> /\ Settled
  /\ LET f == Current.feature
         above == ~Increases(f) /\ LowerExceeds(Current.count, words, Bands[f].high)
     IN /\ held' = IF above THEN held \o Remainder(f, Current.kind) ELSE held
        /\ finals' = (f :> [count |-> Current.count, above |-> above]) @@ finals
  /\ plan' = Tail(plan)
  /\ UNCHANGED <<doc, padding, phase, pool, words, accepted, out>>

Kept ==
  FoldLeft(LAMBDA kept, c : IF \E k \in Range(kept) : Overlap(k, c) THEN kept ELSE Append(kept, c),
           << >>, SortSeq(accepted, LAMBDA a, b : \/ a.sentence < b.sentence
                                                  \/ a.sentence = b.sentence /\ a.first < b.first))
(* From the right, so that positions to the left stay. *)
Applied(patches) ==
  FoldLeft(LAMBDA text, c : [text EXCEPT ![c.sentence].words = Rewrite([words |-> @], c)],
           doc, Reverse(patches))

(* The detect-only findings, then resolve and apply. *)
Finish ==
  /\ phase = "home" /\ plan = << >>
  /\ held' = IF ConfidentlyAbove(CountOf("contrast_closer"), words, "contrast_closer")
             THEN held \o SelectSeq(Remainder("contrast_closer", "contrast"), LAMBDA f : ~Touched(f))
             ELSE held
  /\ out' = Result(Applied(Kept), Len(accepted) - Len(Kept), Kept = << >>)
  /\ phase' = "done"
  /\ UNCHANGED <<doc, padding, plan, pool, words, accepted, finals>>

Next == CountFeatures \/ Collect \/ Accept \/ EndFeature \/ Finish

Spec == Init /\ [][Next]_vars
-----------------------------------------------------------------------------
CountIn(feature, text) ==
  FoldLeft(LAMBDA n, s : n + Cardinality(Instances(feature, s.words)), 0, text)

(* What a rewrite does to a count by itself, and what its delta says.         *)
Effect(feature, c) ==
  LET s == doc[c.sentence]
  IN Cardinality(Instances(feature, Rewrite(s, c))) - Cardinality(Instances(feature, s.words))
Listed(feature, c) == IF feature \in DOMAIN c.delta THEN c.delta[feature] ELSE 0

(* The rewrites accepted one by one, of several features and in the same     *)
(* sentences, do not disturb each other: the text the pass returns differs   *)
(* from the count a feature's homing ended with by what each of them, alone, *)
(* does beyond its delta, and each takes away at least what its delta says.  *)
(* This is weaker than transduce.rs 3, which calls the deltas exact; they    *)
(* are not, see the README: a dash before a word that cannot be capitalized  *)
(* leaves a semicolon, "was the creation of" becomes a progressive, and      *)
(* unpacking a coordinated noun drops its conjunct.  The word total the      *)
(* rates divide by is exact; resolve drops none of the accepted patches, and *)
(* the scan is handed on (reused_tags in fix.rs) only for a text that did    *)
(* not change.                                                               *)
RewritesAddUp ==
  phase = "done" =>
    /\ \A f \in DOMAIN finals \ {"agentless_passive"} :
         /\ CountIn(f, out.text) =
              FoldLeft(LAMBDA n, c : n + Effect(f, c) - Listed(f, c), finals[f].count, accepted)
         /\ \A c \in Range(accepted) : f \in DOMAIN c.delta => Effect(f, c) <= c.delta[f]
    /\ padding + WordsOf(out.text) = words
    /\ out.dropped = 0
    /\ out.reusable => out.text = doc

(* When a construction stays above its band, every place where it occurs is  *)
(* reported once, by the gate that held its rewrite or as a remainder, unless *)
(* an accepted rewrite covers it.                                            *)
RemainderIsReported ==
  phase = "done" =>
    \A f \in {f \in DOMAIN finals : finals[f].above} :
      LET rule == (CHOOSE p \in Range(Plan) : p[1] = f)[2]
      IN \A k \in Range(InstancesOf(f, rule)) :
           Cardinality({h \in DOMAIN held : held[h].rule = rule /\ Overlap(held[h], k)})
             = IF Touched(k) THEN 0 ELSE 1
=============================================================================
