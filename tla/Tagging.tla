------------------------------- MODULE Tagging -------------------------------
(* PerceptronTagger::tag of friction-nlp: the scan of a text into tokens and *)
(* the pass that tags them left to right, each with the two tags before it.  *)
(* A text is a sequence of character kinds; a hyphen or an apostrophe is     *)
(* both a word character and prose punctuation.                              *)
EXTENDS Integers, Sequences, SequencesExt

CONSTANTS MaxText,  \* bound: characters of a text
          WordTags  \* tags a word can get

ASSUME MaxTextAssumption == MaxText \in Nat

VARIABLES
  text,    \* character kinds
  tokens,  \* scanned tokens: kind, first and last character
  tags     \* the tags given so far

taggerVars == <<text, tokens, tags>>

Alpha == {"letter"}
Joiner == {"joiner"}           \* ' and -
Digit == {"digit"}
NumberMark == {"mark"}         \* . and ,
Punctuation == {"mark", "joiner", "bracket"}
Space == {"space"}
Characters == Alpha \cup Digit \cup Punctuation \cup Space \cup {"symbol"}

(* classify_token_kind, of the characters of one token. *)
Classify(token) ==
  LET chars == {token[i] : i \in DOMAIN token}
  IN IF chars \subseteq Space THEN "whitespace"
     ELSE IF token[1] \in Digit /\ chars \subseteq Digit \cup NumberMark THEN "number"
     ELSE IF chars \subseteq Alpha \cup Joiner /\ chars \cap Alpha # {} THEN "word"
     ELSE IF chars \subseteq Punctuation THEN "punctuation"
     ELSE "symbol"

ScannedTo == IF tokens = << >> THEN 0 ELSE Last(tokens).to
Start == ScannedTo + 1

(* The characters a run that starts with each kind keeps taking. *)
RunOf(c) ==
  IF c \in Digit THEN Digit \cup NumberMark
  ELSE IF c \in Alpha \cup Joiner THEN Alpha \cup Joiner
  ELSE IF c \in Punctuation THEN Punctuation
  ELSE {"symbol"}

IsRun(from, to) ==
  /\ \A i \in from .. to : text[i] \in RunOf(text[from])
  /\ to < Len(text) => text[to + 1] \notin RunOf(text[from])

\* Mutant of KindOf: hyphens and apostrophes alone are a word.
JoinersAreWords(from, to) ==
  IF text[from] \in Digit THEN "number"
  ELSE IF text[from] \in Alpha \cup Joiner THEN "word"
  ELSE IF text[from] \in Punctuation THEN "punctuation"
  ELSE "symbol"
KindOf(from, to) ==
  IF text[from] \in Digit THEN "number"
  ELSE IF text[from] \in Alpha \cup Joiner
         THEN IF \E i \in from .. to : text[i] \in Alpha THEN "word" ELSE "punctuation"
  ELSE IF text[from] \in Punctuation THEN "punctuation"
  ELSE "symbol"

(* Whitespace is skipped, then the run its first character opens is taken. *)
Scan ==
  /\ \E from \in Start .. Len(text) :
       /\ text[from] \notin Space
       /\ \A i \in Start .. from - 1 : text[i] \in Space
       /\ \E to \in from .. Len(text) :
            /\ IsRun(from, to)
            /\ tokens' = Append(tokens, [kind |-> KindOf(from, to), from |-> from, to |-> to])
  /\ UNCHANGED <<text, tags>>

Scanned == \A i \in Start .. Len(text) : text[i] \in Space

(* A word takes a tag of the model's (or the tag dictionary's); the others   *)
(* the tag of their kind.                                                    *)
Tag ==
  /\ Scanned /\ Len(tags) < Len(tokens)
  /\ LET kind == tokens[Len(tags) + 1].kind
     IN \E tag \in IF kind = "word" THEN WordTags ELSE {kind} : tags' = Append(tags, tag)
  /\ UNCHANGED <<text, tokens>>

TagInit == text \in BoundedSeq(Characters, MaxText) /\ tokens = << >> /\ tags = << >>
TagNext == Scan \/ Tag
TagSpec == TagInit /\ [][TagNext]_taggerVars

(* The scan's own kind is the one the shared classifier gives the token's    *)
(* text (the debug assertion of tokenize), and no character that is not      *)
(* whitespace is skipped or taken twice.                                     *)
ScanAgreesWithClassifier ==
  /\ \A i \in DOMAIN tokens : tokens[i].kind = Classify(SubSeq(text, tokens[i].from, tokens[i].to))
  /\ \A i \in 1 .. Len(tokens) - 1 : tokens[i].to < tokens[i + 1].from
  /\ \A c \in 1 .. ScannedTo : text[c] \in Space \/
       \E i \in DOMAIN tokens : c \in tokens[i].from .. tokens[i].to

=============================================================================
