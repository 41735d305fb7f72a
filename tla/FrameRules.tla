------------------------------ MODULE FrameRules ------------------------------
(* The language frame rules are written in (friction-packs frame_rules.rs):  *)
(* a pattern is a sequence of lexemes parsed into elements, a target into a  *)
(* template; classify judges a rule by what was counted for it.              *)
EXTENDS Integers, Sequences, SequencesExt

Lit(w) == [t |-> "lit", w |-> w]
Tag(tag) == [t |-> "tag", tag |-> tag]
TagClass(tag, class) == [t |-> "class", tag |-> tag, class |-> class]
Slot(s) == [t |-> "slot", s |-> s]
SentStart == [t |-> "start"]
SentEnd == [t |-> "end"]
Clitic(w) == [t |-> "clitic", w |-> w]
Optional(e) == [t |-> "opt", of |-> e]
Group(alts, optional) == [t |-> "group", alts |-> alts, optional |-> optional]
Unknown == [t |-> "unknown"]

(* Lexemes: quoted text is a phrase, everything else one word. *)
Quoted(words) == [k |-> "quoted", words |-> words]
Word(elem) == [k |-> "word", elem |-> elem]
Mark(k) == [k |-> k]

Literals(words) == [i \in DOMAIN words |-> Lit(words[i])]

(* ? makes what stands right before it optional: of a quoted phrase the last *)
(* word only.                                                                *)
Asked(elems) ==
  LET e == Last(elems)
  IN Append(Front(elems), IF e.t = "group" THEN Group(e.alts, TRUE) ELSE Optional(e))

(* parse_group: the lexeme x inside an open group. *)
Inside(p, x) ==
  LET n == Len(p.alts)
      Grown(elems) == [p EXCEPT !.alts[n] = @ \o elems]
  IN CASE x.k = "quoted" -> Grown(Literals(x.words))
       [] x.k = "word" -> [Grown(<<x.elem>>) EXCEPT !.ok = @ /\ x.elem # Unknown]
       [] x.k = "|" -> [p EXCEPT !.alts = Append(@, <<>>)]
       [] x.k = "?" -> IF p.alts[n] = <<>> THEN [p EXCEPT !.ok = FALSE]
                       ELSE [p EXCEPT !.alts[n] = Append(Front(@), Optional(Last(@)))]
       [] x.k = ")" -> [p EXCEPT !.open = FALSE, !.alts = <<>>, !.after = ")",
                                 !.elems = Append(@, Group(p.alts, FALSE)),
                                 !.ok = @ /\ \A i \in 1 .. n : p.alts[i] # <<>>]
       [] x.k = "(" -> [p EXCEPT !.ok = FALSE]

(* parse_pattern: the lexeme x outside groups; A|B needs no parentheses. *)
Outside(p, x) ==
  LET dangling == p.after = "|" /\ x.k # "word"
      Next(elems) == [p EXCEPT !.elems = elems, !.after = x.k, !.ok = @ /\ ~dangling]
      bare == Last(p.elems)
  IN CASE x.k = "quoted" -> Next(p.elems \o Literals(x.words))
       [] x.k = "word" /\ p.after = "|" ->
            [Next(Append(Front(p.elems), Group(Append(bare.alts, <<x.elem>>), FALSE)))
               EXCEPT !.ok = @ /\ x.elem # Unknown, !.bare = TRUE]
       [] x.k = "word" /\ p.after # "|" ->
            [Next(Append(p.elems, x.elem)) EXCEPT !.ok = @ /\ x.elem # Unknown, !.bare = FALSE]
       [] x.k = "|" /\ p.after = "word" ->
            Next(IF p.bare THEN p.elems ELSE Append(Front(p.elems), Group(<< <<bare>> >>, FALSE)))
       [] x.k = "?" /\ p.elems # <<>> -> Next(Asked(p.elems))
       [] x.k = "(" -> [p EXCEPT !.open = TRUE, !.alts = << <<>> >>, !.ok = @ /\ ~dangling]
       [] OTHER -> [p EXCEPT !.ok = FALSE]

(* [ok, elems] *)
ParsePattern(lexemes) ==
  LET Read(p, x) == IF ~p.ok THEN p ELSE IF p.open THEN Inside(p, x) ELSE Outside(p, x)
      p == FoldLeft(Read, [ok |-> TRUE, elems |-> <<>>, open |-> FALSE, alts |-> <<>>,
                           after |-> "", bare |-> FALSE], lexemes)
  IN [ok |-> p.ok /\ ~p.open /\ p.after # "|", elems |-> p.elems]

(* parse_target: "" deletes, "=" guards, REVIEW was never authored; a group  *)
(* copies what its alternation matched and holds bare tags only.             *)
Deletes == [k |-> "delete"]
Guards == [k |-> "guard"]
Review == [k |-> "review"]
Template(lexemes) == [k |-> "template", lexemes |-> lexemes]

TargetElem(e) ==
  CASE e.t = "class" -> [t |-> "arg", tag |-> e.tag, arg |-> e.class]
    [] e.t = "group" -> [t |-> "altcopy"]
    [] OTHER -> e
TargetAllows(e) ==
  /\ e.t # "opt"
  /\ e.t = "group" => ~e.optional /\ \A i \in DOMAIN e.alts : Len(e.alts[i]) = 1 /\ e.alts[i][1].t = "tag"
(* [ok, k, elems] *)
ParseTarget(raw) ==
  IF raw.k # "template" THEN [ok |-> TRUE, k |-> raw.k, elems |-> <<>>]
  ELSE LET p == ParsePattern(raw.lexemes)
       IN [ok |-> p.ok /\ \A i \in DOMAIN p.elems : TargetAllows(p.elems[i]), k |-> "template",
           elems |-> [i \in DOMAIN p.elems |-> TargetElem(p.elems[i])]]

(* classify: m of mTotal machine words against h of hTotal human words; the *)
(* ratio of the two rates is compared by cross-multiplication.              *)
Classify(guard, m, h, mTotal, hTotal) ==
  CASE m = 0 /\ h = 0 -> "none"
    [] (m # 0 \/ h # 0) /\ guard -> IF h > 0 /\ m * hTotal <= h * mTotal THEN "guard" ELSE "wrong"
    [] OTHER -> IF m >= 2 /\ (h = 0 \/ m * hTotal >= 2 * h * mTotal) THEN "confirmed"
                ELSE IF h > 0 /\ 100 * m * hTotal <= 67 * h * mTotal THEN "direction"
                ELSE "weak"
=============================================================================
