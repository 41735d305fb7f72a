---------------------------- MODULE AuthoredPacks ----------------------------
(* The packs that people write (inventory.rs and jargon.rs of friction-    *)
(* packs), the loaders that refuse a malformed one, and the audits of        *)
(* validate.rs.  A file is its entries in the order they     *)
(* are written.  Names are numbers, in their order.  A pattern is a sequence   *)
(* of words and of the items below, and matches whole words; a class that      *)
(* holds a space is one item, and "(" stands for what does not compile.        *)
EXTENDS Integers, Sequences, FiniteSets, FiniteSetsExt, SequencesExt, Functions, TLC

CONSTANTS
  Entries,        \* what an author may write: [family |-> .., ...]
  MaxEntries,     \* bound on the entries of a file
  GuardWords,     \* guard_tokens
  FunctionWords,  \* closure_function_word_allowance
  Lexicon,        \* DERIVATIONAL_LEXICON: nominalization |-> verb
  BaseVerbs,      \* LIGHT_VERBS that are base forms
  Around          \* what may stand before and after an edit: words of no pattern

VARIABLES file, loaded, audit

vars == <<file, loaded, audit>>

Absent == "absent"  \* no gloss
NoPlural == 0
Blank == ""
Items == {" ", "\\ ", "[ ]", "\\s+", "^", "(", "\n"}
IsWord(item) == item \notin Items
Space == {" ", "\n"}

Family(entries, name) == SelectSeq(entries, LAMBDA x : x.family = name)

-----------------------------------------------------------------------------
(* Patterns. *)

WhitespaceFlexible(pattern) ==
  [k \in DOMAIN pattern |-> IF pattern[k] = " " THEN "\\s+" ELSE pattern[k]]

Compiles(pattern) == "(" \notin ToSet(pattern)

\* Where a match of one item that starts after at may end.
ItemEnds(item, text, at) ==
  CASE item = "^" -> {e \in {at} : e = 0}
    [] item = "\\s+" -> {e \in at + 1 .. Len(text) : \A k \in at + 1 .. e : text[k] \in Space}
    [] item \in {"\\ ", "[ ]"} -> {e \in {at + 1} : e <= Len(text) /\ text[e] = " "}
    [] OTHER -> {e \in {at + 1} : e <= Len(text) /\ text[e] = item}

IsMatch(pattern, text) ==
  \E at \in 0 .. Len(text) :
    FoldLeft(LAMBDA ends, item : UNION {ItemEnds(item, text, e) : e \in ends},
             {at}, WhitespaceFlexible(pattern)) # {}

(* Every syntax character is dropped and an escape with the letter after it,  *)
(* so that words which only an escape keeps apart become one token.           *)
LiteralTokens(pattern) ==
  LET glue == {"\\ ", "\\s+", "^", "("}
      joined(i, j) == \A k \in i .. j : IsWord(pattern[k]) \/ pattern[k] \in glue
      runs == {r \in (DOMAIN pattern) \X (DOMAIN pattern) :
                 /\ r[1] <= r[2] /\ joined(r[1], r[2])
                 /\ r[1] = 1 \/ ~joined(r[1] - 1, r[1])
                 /\ r[2] = Len(pattern) \/ ~joined(r[2], r[2] + 1)}
  IN {SelectSeq(SubSeq(pattern, r[1], r[2]), IsWord) : r \in runs} \ {<< >>}

Tokens(text) == {<<w>> : w \in {x \in ToSet(text) : IsWord(x)}}
Each(words) == {<<w>> : w \in words}

-----------------------------------------------------------------------------
(* The inventory. *)
Edits == {"deletion_spans", "substitution_pairs", "ritual_frames", "preview_frames"}
Repairs == {"delete", "diagnostic_only"}
Anchors == {"sentence_initial", "mid_sentence", "trailing"}
Fine == "fine"

(* try_from_raw of each family, its first error or Fine. *)
EditError(raw) ==
  IF raw.family = "substitution_pairs"
  THEN CASE raw.repair # "substitute" -> "InvalidRepairForFamily"
         [] raw.repair = "substitute" /\ ~Compiles(raw.pattern) -> "InvalidPattern"
         [] OTHER -> Fine
  ELSE CASE ~Compiles(raw.pattern) -> "InvalidPattern"
         [] Compiles(raw.pattern) /\ raw.family = "deletion_spans" /\ raw.anchor \notin Anchors ->
              "UnknownAnchor"
         [] OTHER -> IF raw.repair \in Repairs THEN Fine ELSE "UnknownRepairKind"

LvcError(raw) ==
  CASE raw.nominalization \notin DOMAIN Lexicon -> "UnresolvableLvcPair"
    [] raw.nominalization \in DOMAIN Lexicon /\ Lexicon[raw.nominalization] # raw.verb ->
         "UnresolvableLvcPair"
    [] OTHER -> IF raw.light \in BaseVerbs THEN Fine ELSE "UnknownLightVerbBase"

BandError(raw) == IF raw.unit = "per_thousand_words" THEN Fine ELSE "UnknownFrequencyUnit"

FirstError(errors) ==
  LET k == SelectInSeq(errors, LAMBDA x : x # Fine) IN IF k = 0 THEN Fine ELSE errors[k]

EditErrors(raws) == [k \in DOMAIN raws |-> EditError(raws[k])]

Distinct(seq) == Cardinality(ToSet(seq)) = Len(seq)
Error(kind) == [error |-> kind]
IsLoaded(pack) == "error" \notin DOMAIN pack

FamilyOrder == <<"deletion_spans", "substitution_pairs", "ritual_frames", "preview_frames">>

SortedEdits(entries, family) == SortSeq(Family(entries, family), LAMBDA a, b : a.id < b.id)

ParseInventory(entries) ==
  LET edits == [f \in Edits |-> SortedEdits(entries, f)]
      lvc == SortSeq(Family(entries, "lvc_pairs"), LAMBDA a, b : a.nominalization < b.nominalization)
      bands == SortSeq(Family(entries, "output_frequency_bands"), LAMBDA a, b : a.frame < b.frame)
      raw == Family(entries, "lvc_pairs")
      rawBands == Family(entries, "output_frequency_bands")
      failed == FirstError(
        FlattenSeq([k \in DOMAIN FamilyOrder |-> EditErrors(Family(entries, FamilyOrder[k]))])
        \o [k \in DOMAIN raw |-> LvcError(raw[k])] \o [k \in DOMAIN rawBands |-> BandError(rawBands[k])])
      ids == [k \in DOMAIN FamilyOrder |->
                [i \in DOMAIN edits[FamilyOrder[k]] |-> edits[FamilyOrder[k]][i].id]]
  IN CASE failed # Fine -> Error(failed)
       [] failed = Fine /\ ~Distinct(FlattenSeq(ids)) -> Error("DuplicateId")
       [] failed = Fine /\ Distinct(FlattenSeq(ids)) /\ ~Distinct([i \in DOMAIN lvc |-> lvc[i].nominalization]) ->
            Error("DuplicateLvcNominalization")
       [] OTHER -> [edits |-> edits, lvc |-> lvc, bands |-> bands,
                    lexicon |-> [n \in {lvc[i].nominalization : i \in DOMAIN lvc} |-> Lexicon[n]]]

-----------------------------------------------------------------------------
(* The audits of an inventory that parsed. *)
EditsOf(pack) == UNION {ToSet(pack.edits[f]) : f \in Edits}
Pairs(pack) == ToSet(pack.edits["substitution_pairs"])

\* Mutant of ReplacementMatchesEmbedded: only the bare replacement is tried.
ReplacementMatchesBare(pattern, replacement) == IsMatch(pattern, replacement)

ReplacementMatchesEmbedded(pattern, replacement) ==
  \/ IsMatch(pattern, replacement)
  \/ IsMatch(pattern, Append(replacement, " "))
  \/ IsMatch(pattern, <<" ">> \o replacement)

Found(rule, id, with) == [rule |-> rule, id |-> id, with |-> with]

CheckDisjointness(pack) ==
  {Found("disjointness", x[1].id, x[2].id) :
     x \in {y \in Pairs(pack) \X EditsOf(pack) :
              ReplacementMatchesEmbedded(y[2].pattern, y[1].replacement)}}

\* attested_replacement_tokens count only when the notes say why.
Licensed(pair) ==
  LiteralTokens(pair.pattern) \cup Each(pair.declared) \cup Each(FunctionWords)
  \cup (IF pair.notes = Blank THEN {} ELSE Each(pair.attested))

CheckClosure(pack) ==
  {Found("closure", pair.id, Tokens(pair.replacement) \ Licensed(pair)) :
     pair \in {p \in Pairs(pack) : ~(Tokens(p.replacement) \subseteq Licensed(p))}}

BandReason(band) ==
  CASE ~band.finite \/ band.max < 0 -> "NoFiniteNonNegativeMax"
    [] band.finite /\ band.max >= 0 /\ band.docs = 0 -> "ZeroSampleDocCount"
    [] OTHER -> IF band.max < band.observed THEN "MaxBelowObservedRate" ELSE Fine

CheckFrequencyHygiene(pack) ==
  {Found("frequency-hygiene", band.frame, BandReason(band)) :
     band \in {b \in ToSet(pack.bands) :
                 (\E p \in Pairs(pack) : p.replacement = b.text) /\ BandReason(b) # Fine}}

CheckGuardTokenExposure(pack) ==
  {Found("guard-token-exposure", e.id, LiteralTokens(e.pattern)) :
     e \in {x \in EditsOf(pack) : /\ LiteralTokens(x.pattern) # {}
                                 /\ LiteralTokens(x.pattern) \subseteq Each(GuardWords)}}

Validate(pack) ==
  CheckDisjointness(pack) \cup CheckClosure(pack) \cup CheckFrequencyHygiene(pack)
  \cup CheckGuardTokenExposure(pack)

-----------------------------------------------------------------------------
(* The jargon pack. *)
LexemeError(raw) ==
  CASE raw.source \notin {"mined", "external"} -> "UnknownSource"
    [] OTHER -> IF raw.notes = Blank \/ raw.gloss = Blank THEN "MissingNotes" ELSE Fine

ExceptionError(raw) == IF raw.notes = Blank THEN "MissingNotes" ELSE Fine

\* A lexeme's entries in the tables: itself and the plural it declares.
WordsOf(lexeme) == {lexeme.lexeme} \cup ({lexeme.plural} \ {NoPlural})

CollidingWords(lexemes) ==
  \/ \E l \in ToSet(lexemes) : l.plural = l.lexeme
  \/ \E i, j \in DOMAIN lexemes : i < j /\ WordsOf(lexemes[i]) \cap WordsOf(lexemes[j]) # {}

Glosses(lexemes) ==
  FoldLeft(LAMBDA table, l : IF l.gloss = Absent THEN table
                             ELSE [w \in WordsOf(l) |-> l.gloss] @@ table,
           << >>, lexemes)

ParseJargon(entries) ==
  LET raws == Family(entries, "lexemes")
      exempt == Family(entries, "attested_exceptions")
      lexemes == SortSeq(raws, LAMBDA a, b : a.lexeme < b.lexeme)
      compounds == [k \in DOMAIN exempt |-> exempt[k].compound]
      inLexemes == FirstError([k \in DOMAIN raws |-> LexemeError(raws[k])])
      inExceptions == FirstError([k \in DOMAIN exempt |-> ExceptionError(exempt[k])])
  IN CASE inLexemes # Fine -> Error(inLexemes)
       [] inLexemes = Fine /\ CollidingWords(lexemes) -> Error("DuplicateLexeme")
       [] inLexemes = Fine /\ ~CollidingWords(lexemes) /\ inExceptions # Fine -> Error(inExceptions)
       [] inLexemes = Fine /\ ~CollidingWords(lexemes) /\ inExceptions = Fine
            /\ ~Distinct(compounds) -> Error("DuplicateException")
       [] OTHER -> [lexemes |-> lexemes, heads |-> UNION {WordsOf(l) : l \in ToSet(lexemes)},
                    glosses |-> Glosses(lexemes), exceptions |-> ToSet(compounds)]

-----------------------------------------------------------------------------
(* An author writes entries; pack-check, and the first use of a pack, parse   *)
(* the file and audit the inventory.                                         *)
NotLoaded == [error |-> "not loaded"]
IsJargon(entries) ==
  \E x \in ToSet(entries) : x.family \in {"lexemes", "attested_exceptions"}

Parse(entries) ==
  IF IsJargon(entries) THEN ParseJargon(entries) ELSE ParseInventory(entries)

Init == file = << >> /\ loaded = NotLoaded /\ audit = {}

Write ==
  /\ loaded = NotLoaded /\ Len(file) < MaxEntries
  /\ \E x \in Entries : /\ file # << >> => IsJargon(<<x>>) = IsJargon(file)
                        /\ file' = Append(file, x)
  /\ UNCHANGED <<loaded, audit>>

PackCheck ==
  /\ loaded = NotLoaded /\ file # << >>
  /\ loaded' = Parse(file)
  /\ audit' = IF IsLoaded(loaded') /\ ~IsJargon(file) THEN Validate(loaded') ELSE {}
  /\ UNCHANGED file

Next == Write \/ PackCheck
Spec == Init /\ [][Next]_vars

-----------------------------------------------------------------------------
\* What a loader makes of the file does not depend on the order of its
\* entries, but for bands of one frame, which no loader compares
\* (inventory.rs:379, and the map of glosses of jargon.rs:157).
Meaning(pack) == IF "bands" \in DOMAIN pack THEN [pack EXCEPT !.bands = ToSet(@)] ELSE pack

OrderIsImmaterial ==
  loaded # NotLoaded =>
    \A order \in Permutations(DOMAIN file) :
      LET other == Parse([k \in DOMAIN file |-> file[order[k]]])
      IN /\ IsLoaded(other) = IsLoaded(loaded)
         /\ IsLoaded(loaded) => Meaning(other) = Meaning(loaded)

\* "No substitution_pairs replacement may match any ... pattern" once it is
\* back in running text (validate.rs:180, 216).  The audit tries the bare
\* replacement and one with a space on one side, "to satisfy" a pattern whose
\* match takes it (223-228), and what it promises is that much: where an audited
\* replacement begins or ends a text, in whatever surroundings, no pattern
\* matches.  Inside of a text the sentence quoted does not hold of the code:
\* a pattern that takes whitespace on both sides at once passes the audit and
\* matches the replacement again (229-233); no other pattern does.
TakesBothSides(pattern) ==
  LET flexible == WhitespaceFlexible(pattern)
  IN flexible # << >> /\ ~IsWord(flexible[1]) /\ flexible[1] # "^" /\ ~IsWord(Last(flexible))

ReplacementsAreLeftAlone ==
  IsLoaded(loaded) /\ ~IsJargon(file) /\ audit = {} =>
    \A pair \in Pairs(loaded), edit \in EditsOf(loaded), c \in Around :
      /\ ~IsMatch(edit.pattern, c.before \o pair.replacement)
      /\ ~IsMatch(edit.pattern, pair.replacement \o c.after)
      /\ IsMatch(edit.pattern, c.before \o pair.replacement \o c.after) => TakesBothSides(edit.pattern)

\* A gloss shown for a word is that of its own lexeme (jargon.rs:234).
GlossesAreOwn ==
  IsLoaded(loaded) /\ IsJargon(file) =>
    \A l \in ToSet(loaded.lexemes) : \A w \in WordsOf(l) :
      IF w \in DOMAIN loaded.glosses THEN loaded.glosses[w] = l.gloss ELSE l.gloss = Absent

AuthoredPacksAreSound == OrderIsImmaterial /\ ReplacementsAreLeftAlone /\ GlossesAreOwn
=============================================================================
