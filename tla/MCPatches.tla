------------------------------ MODULE MCPatches ------------------------------
(* Splicer on a five-symbol sentence that starts at document offset 3, and   *)
(* Resolution on three bytes: deletions and a replacement longer than most   *)
(* of what it replaces, three candidates, for one to be dropped that would   *)
(* have shadowed another; the frame rules that candidates come from, from    *)
(* their source to an edited sentence; and the pages that sentences come     *)
(* from.  The variable focus names the module that runs.                     *)
EXTENDS Splicer, Resolution, FrameRules, TLC

-----------------------------------------------------------------------------
(* Rule sets after the shipped packs/frame-rules-en-v1.toml, the words they  *)
(* are read with and the evidence they are compiled against.                 *)
LOCAL W(lemma, form, tag) == [lemma |-> lemma, form |-> form, tag |-> tag, reads |-> {}, ends |-> ""]
LOCAL Mk == W("", "base", "mark")
PackLexicon ==
  "leverage" :> W("leverage", "base", "VB") @@ "leverages" :> W("leverage", "s", "VBZ")
  @@ "leveraged" :> W("leverage", "ed", "VBD") @@ "use" :> W("use", "base", "VB")
  @@ "uses" :> W("use", "s", "VBZ") @@ "used" :> W("use", "ed", "VBD")
  @@ "draw" :> W("draw", "base", "VB") @@ "draws" :> W("draw", "s", "VBZ")
  @@ "rely" :> W("rely", "base", "VB") @@ "relies" :> W("rely", "s", "VBZ")
  @@ "harness" :> W("harness", "base", "VB")
  @@ "harnessing" :> [W("harness", "ing", "NN") EXCEPT !.reads = {"harness"}]
  @@ "on" :> W("on", "base", "IN") @@ "it" :> W("it", "base", "PRP")
  @@ "works" :> W("work", "s", "VBZ") @@ "honestly" :> W("honestly", "base", "RB")
  @@ "measured" :> W("measure", "ed", "VBN") @@ "fast" :> W("fast", "base", "JJ")
  @@ "rather" :> W("rather", "base", "RB") @@ "than" :> W("than", "base", "IN")
  @@ "assumed" :> W("assume", "ed", "VBN") @@ "not" :> W("not", "base", "RB")
  @@ "only" :> W("only", "base", "RB") @@ "but" :> W("but", "base", "CC")
  @@ "also" :> W("also", "base", "RB") @@ "and" :> W("and", "base", "CC")
  @@ "the" :> W("the", "base", "DT") @@ "issue" :> W("issue", "base", "NN")
  @@ "is" :> W("be", "s", "VBZ") @@ "that" :> W("that", "base", "IN")
  @@ "core" :> W("core", "base", "JJ") @@ "plan" :> W("plan", "base", "NN")
  @@ "here" :> W("here", "base", "RB") @@ "'s" :> W("'s", "base", "POS")
  @@ "here's" :> [W("here", "base", "RB") EXCEPT !.ends = "'s"]
  @@ "a" :> W("a", "base", "DT") @@ "changes" :> W("change", "s", "VBZ")
  @@ "game-changer" :> W("game-changer", "base", "NN") @@ "for" :> W("for", "base", "IN")
  @@ "utilize" :> W("utilize", "base", "VB") @@ "cliffs" :> W("cliff", "s", "NNS")
  @@ "," :> Mk @@ ":" :> Mk @@ "." :> Mk

PackClasses ==
  [harness_v |-> <<<<"harness">>>>, only_adv |-> <<<<"only">>, <<"not", "only">>>>,
   use |-> <<<<"use">>, <<"draw", "on">>>>]
PackFunctionWords == {"on", "and", "the", "is", ",", ":", "."}
(* "draw" is attested in these streams, "cliff" nowhere.                     *)
PackHumanStream == <<"use", "draw", "on", "rely", "changes", "used", "fast", "use", "fast", "fast",
                     "leverage", "issue", "core", "works", "works", "works", "works", "here", "plan", "plan">>
PackMachineStream == <<"leverage", "leverage", "honestly", "harness", "not", "only", "silver",
                       "fast", "here", "use", "it", "it", "it", "it", "it", "it", "it", "it", "it", "it">>
PackHumanPack == [total |-> 20, words |-> "uses" :> 2, probes |-> <<"here">> :> 1 @@ <<"utilize">> :> 4]
PackMachinePack == [total |-> 20, words |-> "uses" :> 1, probes |-> <<"here">> :> 1 @@ <<"utilize">> :> 0]

LOCAL Q(words) == Quoted(words)
LOCAL V(elem) == Word(elem)
LOCAL X == V(Slot("X"))
LOCAL Y == V(Slot("Y"))
LOCAL Rule(id, bucket, kind, p, t) ==
  [id |-> id, bucket |-> bucket, kind |-> kind, p |-> p, t |-> t, support |-> 10, parent |-> ""]
LOCAL Ship(id, p, t) == Rule(id, "ship", "rewrite", p, <<Template(t)>>)
LOCAL Pilot(id, p, t) == Rule(id, "pilot", "rewrite", p, t)
LOCAL Seqs(vocabulary, n) == UNION {[1 .. k -> vocabulary] : k \in 1 .. n}

(* A ladder whose last candidate writes another rule's anchor, a surface     *)
(* rule its parent covers and one it does not, a rule of the miner, and      *)
(* rules that every other fence stops.                                       *)
Ladders ==
  [rules |-> <<
     [Ship("vsub.leverage", <<Q(<<"leverage">>), X>>, <<Q(<<"use">>), X>>) EXCEPT
        !.t = @ \o <<Template(<<Q(<<"draw", "on">>), X>>), Template(<<Q(<<"rely", "on">>), X>>),
                     Template(<<Q(<<"cliffs">>), X>>), Template(<<Q(<<"use">>), Y>>)>>],
     Ship("vsub.rely", <<Q(<<"rely", "on">>)>>, <<Q(<<"use">>)>>),
     Ship("vsub.draws", <<Q(<<"draw">>), X>>, <<Q(<<"rely", "on">>), X>>),
     Ship("vsub.cliff", <<Q(<<"harness">>), X>>, <<Q(<<"cliffs">>), X>>),
     Ship("vsub.here", <<Q(<<"here">>), X>>, <<Q(<<"use">>), Y>>),
     Ship("vsub.utilize", <<Q(<<"utilize">>), X>>, <<Q(<<"use">>), X>>),
     Ship("vsub.works", <<Q(<<"works">>), X>>, <<Q(<<"use">>), X>>),
     Ship("vsub.class", <<V(TagClass("VB", "none")), X>>, <<Q(<<"use">>), X>>),
     Ship("vsub.tag", <<V(Tag("VB")), X>>, <<X>>),
     Rule("vsub.later", "ship", "rewrite", <<Q(<<"on">>), X>>, <<Review>>),
     Rule("prot.use", "ship", "guard", <<Q(<<"use">>)>>, <<Template(<<Q(<<"use">>)>>)>>),
     Rule("prot.leverage", "flip", "guard", <<Q(<<"leverage">>), V(SentEnd)>>, <<Guards>>),
     [Ship("vsub.leverage::s", <<Q(<<"leverages">>), X>>, <<Q(<<"use">>), X>>) EXCEPT
        !.bucket = "surface", !.parent = "vsub.leverage"],
     [Ship("vsub.leverage::it", <<Q(<<"leverages", "it">>)>>, <<Q(<<"use", "it">>)>>) EXCEPT
        !.bucket = "surface", !.parent = "vsub.leverage"],
     Pilot("pilot.leveraged", <<"leveraged">>, <<"used">>) >>,
   sentences |-> Seqs({"leverage", "leverages", "draw", "rely", "on", "it"}, 3)
     \cup {<<"it", "leveraged", "it">>, <<"harness", "it">>, <<"utilize", "it">>, <<"here", "it">>}]

(* Groups before and after the anchor, an alternation a target copies, a     *)
(* guard, a deletion, and a parenthesis after a finite verb.                 *)
Alternations ==
  [rules |-> <<
     Ship("cnt.rather", <<Mark("("), V(Tag("VBN")), Mark("|"), V(Tag("ADJ")), Mark("|"), V(Tag("PRP")), V(Tag("VBZ")),
                          Mark(")"), Q(<<"rather", "than">>), V(Tag("VBN")), Mark("?")>>,
          <<Mark("("), V(Tag("VBN")), Mark("|"), V(Tag("ADJ")), Mark(")")>>),
     Ship("adv.honestly", <<Q(<<",", "honestly", ",">>)>>, <<Q(<<",">>)>>),
     Rule("adv.fast", "ship", "delete", <<Q(<<"honestly">>), V(Tag("ADJ"))>>, <<Deletes>>),
     Rule("prot.fast", "ship", "guard", <<Mark("("), Q(<<"rather">>), Mark("|"), Q(<<"it">>), Mark(")"), Mark("?"),
                                         Q(<<"than">>), V(Tag("JJ"))>>, <<Guards>>) >>,
   sentences |-> Seqs({"fast", "rather", "than", "measured"}, 4)
     \cup {<<a, ",", "honestly", ",", b>> : a \in {"works", "it", ","}, b \in {"fast", "measured"}}
     \cup {<<"it", "works", "rather", "than", a>> : a \in {"fast", "measured", "."}}
     \cup {<<a, "honestly", "fast", b>> : a \in {",", "it"}, b \in {",", "rather"}} ]

(* Anchors read from classes, two slots with an optional comma between them, *)
(* a clitic, and a rule for a whole sentence.                                *)
Frames ==
  [rules |-> <<
     Ship("vsub.harness", <<V(TagClass("VB", "harness_v")), X>>, <<V(TagClass("VB", "use")), X>>),
     Ship("con.not-only", <<Q(<<"not">>), V(TagClass("ADV", "only_adv")), X, Q(<<",">>), Mark("?"), Q(<<"but", "also">>), Y>>,
          <<X, Q(<<"and">>), Y>>),
     Ship("con.issue", <<V(SentStart), Q(<<"the", "core", "issue">>), V(Tag("BE")), Q(<<"that">>), Mark("?"), X, V(SentEnd)>>,
          <<X>>),
     Ship("chat.here", <<V(SentStart), Q(<<"here">>), V(Clitic("'s")), V(Tag("DT")), Q(<<"plan">>), V(SentEnd)>>,
          <<V(Tag("DT")), Q(<<"plan">>), V(TagClass("VBZ", "works"))>>) >>,
   sentences |-> Seqs({"harness", "harnessing", "the", "plan"}, 3)
     \cup {<<"not", "only">> \o a \o b \o c : a \in Seqs({"fast", "but"}, 2),
             b \in {<<"but", "also">>, <<",", "but", "also">>, <<",", ",", "but", "also">>}, c \in {<<>>, <<"fast">>, <<"but", "also", "fast">>}}
     \cup {a \o <<"the", "core", "issue", "is">> \o b \o c : a \in {<<>>, <<"not">>}, b \in {<<>>, <<"that">>, <<"that", "that">>},
             c \in {<<>>, <<"it">>, <<".">>, <<"it", ".">>}}
     \cup {a \o <<"the", "plan">> \o b : a \in {<<"here's">>, <<"here", "'s">>, <<"here">>, <<"here's", "'s">>}, b \in {<<>>, <<".">>, <<"it">>}} ]

(* met.game-changer::lit as shipped: its target copies a slot that stands in *)
(* an optional group.                                                        *)
CopiedSlot ==
  [rules |-> << Ship("met.game-changer", <<V(Tag("BE")), V(Tag("DT")), Q(<<"game-changer">>), Mark("("), Q(<<"for">>), X, Mark(")"), Mark("?")>>,
                     <<Q(<<"changes">>), X>>) >>,
   sentences |-> Seqs({"is", "a", "game-changer", "for", "it"}, 4) \cup {<<"it", "is", "a", "game-changer", "for", "it">>} ]

-----------------------------------------------------------------------------
(* The lexemes of HTML pages (module Html) and of Markdown ones (module      *)
(* Markdown), and families of small pages put together from them.            *)
Lexeme(t) == [t |-> t]
OpenTag(name) == [t |-> "open", name |-> name, closed |-> FALSE, json |-> FALSE]
ClosedTag(name) == [OpenTag(name) EXCEPT !.closed = TRUE]
JsonTag == [OpenTag("script") EXCEPT !.json = TRUE]
EndTag(name) == [t |-> "close", name |-> name]
StartOf(kind) == [t |-> "start", kind |-> kind, head |-> FALSE]
HeadRow == [StartOf("row") EXCEPT !.head = TRUE]
EndOf(kind) == [t |-> "end", kind |-> kind]

Ink == Lexeme("word")
Blank == Lexeme("space")
QuoteMark == Lexeme("quote")
Cat(a, b) == {x \o y : x \in a, y \in b}

-----------------------------------------------------------------------------
(* Elements that nest badly, one of them excluded; boundaries in the flow of *)
(* a line; declarations, void and raw elements; JSON data blocks.            *)
Nested == Seqs({Ink, OpenTag("p"), EndTag("p"), OpenTag("code"), EndTag("code"), EndTag("h1"), OpenTag("h1")}, 4)
Flow == Seqs({Ink, Blank, OpenTag("b"), EndTag("p"), Lexeme("reference"), Lexeme("template"), Lexeme("endtemplate"),
              Lexeme("comment"), Lexeme("endcomment")}, 4)
Declared == Seqs({Ink, ClosedTag("code"), OpenTag("br"), OpenTag("title"), EndTag("title"), Lexeme("cdata"), Lexeme("endcdata"),
                  Lexeme("doctype"), Lexeme("gt"), Lexeme("stray")}, 3)
Values == Seqs({Ink, Blank, QuoteMark, Lexeme("newline"), Lexeme("escape"), Lexeme("template"), Lexeme("endtemplate")}, 3)
Data == Cat({<<JsonTag, QuoteMark>>}, Seqs({Ink, Blank, QuoteMark, Lexeme("colon"), EndTag("script")}, 4))
        \cup Cat(Cat({<<JsonTag, QuoteMark, Ink, QuoteMark, Lexeme("colon"), QuoteMark, Ink, Blank>>}, Values),
                 {<<Ink, QuoteMark, EndTag("script"), Ink>>})
HtmlPages == Nested \cup Flow \cup Declared \cup Data

-----------------------------------------------------------------------------
(* A quotation of one paragraph with every small line in it; list items with *)
(* a block inside; a table; a front matter.                                  *)
Within(kind, s) == {<<StartOf(kind)>> \o x \o <<EndOf(kind)>> : x \in s}
Emphasis(s) == {<<Lexeme("emphasis")>> \o x \o <<Lexeme("plain")>> : x \in s}
Link(s) == {<<Lexeme("link")>> \o x \o <<Lexeme("target")>> : x \in s}
Break == <<Lexeme("break")>>
Atoms == {<<Ink>>, Break, Break \o <<Lexeme("marker")>>, <<Lexeme("escape"), Ink>>, <<Lexeme("excluded")>>}
Flat == Atoms \cup Cat(Atoms, Atoms)
Styled == Emphasis(Flat \cup Link(Atoms) \cup Emphasis(Atoms) \cup Cat(Link(Atoms), Atoms) \cup Cat(Atoms, Emphasis(Atoms)))
         \cup Link(Atoms \cup Emphasis(Atoms))
Line == Flat \cup Styled \cup Cat(Flat, Atoms) \cup Cat(Atoms, Styled) \cup Cat(Styled, Atoms)
        \cup Cat(Cat(Atoms, Emphasis(Atoms)), Flat)
Inner == {<<>>, <<Lexeme("rule")>>} \cup Within("code", {<<Ink>>}) \cup Within("quote", Within("paragraph", {<<Ink>>}))
          \cup Within("list", Within("item", Cat({<<Ink>>}, Atoms)))
Row(start, s) == {<<start>> \o x \o <<EndOf("row")>> : x \in Within("cell", s)}
MarkdownPages ==
  Within("quote", Within("paragraph", Line)) \cup Within("list", Within("item", Cat(Cat(Flat, Inner), {<<>>} \cup Atoms)))
  \cup Within("table", Cat(Row(HeadRow, Flat), Row(StartOf("row"), {<<Ink>>})))
  \cup Cat({<<Lexeme("front")>>}, Within("paragraph", {<<Ink>>}))

-----------------------------------------------------------------------------
CONSTANTS Programs, Foci

VARIABLES focus, stage, program, pack, words, origin, matches,
          page, pos, stack, excluded, pending, continues, session, header, blocks, prose

ruleVars == <<stage, program, pack, words, origin, matches>>
htmlVars == <<stack, excluded, pending, continues>>
markdownVars == <<session, header>>
pageVars == <<page, pos, htmlVars, markdownVars, blocks, prose>>

MCSource == <<"a", "b", "c", "d", "e">>
MCReplacements == {<<>>, <<"x">>, <<"y", "z">>}
MCEdits == {[text |-> <<>>, rule |-> 2], [text |-> <<"x", "y">>, rule |-> 1]}
MCBytes == <<"a", "b", "c">>

Rules == INSTANCE FrameProgram
  WITH Classes <- PackClasses, Lexicon <- PackLexicon, FunctionWords <- PackFunctionWords,
       Hyphenated <- {"game-changer"}, HumanStream <- PackHumanStream,
       MachineStream <- PackMachineStream, HumanPack <- PackHumanPack,
       MachinePack <- PackMachinePack, Unit <- 20, RateCeiling <- 5, AttestationFloor <- 1,
       MaxSlot <- 2

Html == INSTANCE Html WITH Pages <- HtmlPages
Markdown == INSTANCE Markdown WITH Pages <- MarkdownPages

MCPrograms == [ladders |-> Ladders, groups |-> Alternations, frames |-> Frames]
MCCopied == [copied |-> CopiedSlot]

MCInit ==
  /\ focus \in Foci
  /\ Init /\ ResolutionInit
  /\ IF focus = "rules" THEN Rules!Init
     ELSE stage = "raw" /\ program = "" /\ pack = <<>> /\ words = <<>> /\ origin = <<>> /\ matches = {}
  /\ IF focus = "html" THEN Html!Init
     ELSE stack = <<>> /\ excluded = 0 /\ pending = Html!NoRun /\ continues = FALSE
  /\ IF focus = "markdown" THEN Markdown!Init ELSE session = Markdown!NoSession /\ header = FALSE
  /\ focus \notin {"html", "markdown"} => page = <<>> /\ pos = 0 /\ blocks = <<>> /\ prose = <<>>

MCNext ==
  \/ focus = "splicer" /\ Next /\ UNCHANGED <<candidates, ruleVars, pageVars, focus>>
  \/ focus = "resolution" /\ ResolutionNext /\ UNCHANGED <<vars, ruleVars, pageVars, focus>>
  \/ focus = "rules" /\ Rules!Next /\ UNCHANGED <<vars, candidates, pageVars, focus>>
  \/ focus = "html" /\ Html!Next /\ UNCHANGED <<vars, candidates, ruleVars, markdownVars, focus>>
  \/ focus = "markdown" /\ Markdown!Next /\ UNCHANGED <<vars, candidates, ruleVars, htmlVars, focus>>

MCSpec == MCInit /\ [][MCNext]_<<vars, candidates, ruleVars, pageVars, focus>>

MatchesAreOccurrences == Rules!MatchesAreOccurrences
RewritesStayClosed == Rules!RewritesStayClosed
ProseIsPageText ==
  /\ focus = "html" => Html!ProseIsShownText
  /\ focus = "markdown" => Markdown!ProseIsContainedText
KindFollowsContext == focus = "html" => Html!KindFollowsContext
MarkersEndRuns == focus = "markdown" => Markdown!MarkersEndRuns
EveryRewriteCanRealize == focus = "rules" => Rules!EveryRewriteCanRealize
=============================================================================
