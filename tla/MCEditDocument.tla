--------------------------- MODULE MCEditDocument ---------------------------
(* The bounded passes, with every operation of the pipeline exercised. *)
EXTENDS EditDocument, TLC

-----------------------------------------------------------------------------
(***************************************************************************)
(* A small inventory, attestation and frame pack, and sentences it has     *)
(* something to say about: the constants of the edit engine for TLC.  Each *)
(* entry stands for the entries of its shape in the shipped packs.         *)
(***************************************************************************)
PackCapital ==
  [it |-> "It", go |-> "Go", simply |-> "Simply", lvc |-> "Lvc", decide |-> "Decide",
   use |-> "Use", goes |-> "Goes", leverage |-> "Leverage", very |-> "Very", utilize |-> "Utilize"]
PackVerbs == {"goes", "go", "is", "lvc", "decide", "use", "utilize", "leverage", "makes", "making", "goes on"}
PackUnattested == {<<"goes", "makes">>, <<"go", "makes">>, <<"not", "use">>}
PackOddSkeletons == {<<"<s>", ".">>, <<"is", "it">>}
PackRituals == <<[frame |-> "hope", diagnostic |-> FALSE], [frame |-> "fortunate", diagnostic |-> TRUE]>>
PackSubstitutions == <<[pattern |-> <<"utilize">>, text |-> <<"use">>]>>
PackConstructions == [lvc |-> "decide"] @@ [take |-> "rejected"]
PackPrepositions == {"of"}
PackDeletionSpans ==
  <<[pattern |-> <<"simply", "_">>, diagnostic |-> FALSE, vetoes |-> {"put"}],
    [pattern |-> <<"honestly", "_">>, diagnostic |-> TRUE, vetoes |-> {}],
    [pattern |-> <<"_", "to suit">>, diagnostic |-> FALSE, vetoes |-> {}],
    [pattern |-> <<"_", "goes on">>, diagnostic |-> FALSE, vetoes |-> {}]>>
FrameRule(kind, pattern, targets) == [kind |-> kind, pattern |-> pattern, targets |-> targets]
PackFrameRules ==
  <<FrameRule("guard", <<"also">>, <<>>),
    FrameRule("report", <<"surface">>, <<>>),
    FrameRule("delete", <<"very">>, <<>>),
    FrameRule("rewrite", <<"leverage", "_", "*">>, <<<<"use", "_", "*">>, <<"go", "_", "*">>>>),
    FrameRule("rewrite", <<"not", "_", "*", "_", "also">>, <<<<"*", "_", "and">>>>)>>
PackTransducers ==
  <<[pattern |-> <<",", "_", "making">>, text |-> <<".", "_", "This", "_", "makes">>,
     splits |-> TRUE, declined |-> FALSE],
    [pattern |-> <<"ensures">>, text |-> <<"sees">>, splits |-> FALSE, declined |-> TRUE]>>

\* Words as a sentence, with spaces between them and a final mark.
Say(words, mark) ==
  [k \in 1..2 * Len(words) - 1 |-> IF k % 2 = 1 THEN words[(k + 1) \div 2] ELSE "_"] \o <<mark>>

Simply      == Say(<<"It", "simply", "goes">>, ".")
SimplyTwice == Say(<<"It", "simply", "simply", "simply", "goes">>, ".")
Exposed     == Say(<<"Simply", "lvc">>, ".")
VeryVery    == Say(<<"Go", "very", "very">>, ".")
Takes3      == Say(<<"Lvc", "lvc", "is", "just", "go", "or", "go">>, "?")
LvcPlain    == Say(<<"It", "lvc">>, ".")
Hope        == Say(<<"It", "hope">>, ".")
AlsoHope    == Say(<<"It", "also", "hope">>, ".")
Fortunate   == Say(<<"It", "is", "fortunate">>, ".")
Surface     == Say(<<"It", "surface", "simply", "goes">>, ".")
Leverage    == Say(<<"leverage", "it", "is">>, ".")
LeverageAlso == Say(<<"It", "leverage", "also">>, ".")
NotAlso     == Say(<<"It", "not", "use", "also", "is">>, ".")
Utilize     == Say(<<"Utilize", "it", "is", "very">>, ".")
ToSuit      == Say(<<"It", "goes", "simply", "to suit">>, ".")
Of          == Say(<<"It", "lvc", "of", "it">>, ".")
TakenUp     == Say(<<"It", "is", "take", "lvc">>, ".")
Quoted      == <<"It", "_", "is", "_", "\"", "very", "_", "lvc", "_", "simply", "_", "hope", "\"", ".">>
Making      == <<"It", "_", "goes", ",", "_", "making", "_", "it", ".">>
GoMaking    == <<"It", "_", "go", ",", "_", "making", "_", "it", ".">>
Fragment    == Say(<<"very", "simply", "goes">>, ".")
GoesOn      == Say(<<"It", "goes on">>, ".")
Plain       == Say(<<"It", "is">>, ".")
Opener      == Say(<<"it", "simply", "goes">>, ".")

Alone(sentences) == {<<"1)">> \o s : s \in sentences} \cup sentences
Pairs(sentences, glues) == {s \o glue \o t : s \in sentences, t \in sentences, glue \in glues}
Glues == {<<"_">>, <<"|">>, <<"_", "<code>", "_">>}
OpenClause == <<"It", "_", "is", "_", "<code>", "_">>

-----------------------------------------------------------------------------
MCDocuments ==
  Alone({Simply, SimplyTwice, Exposed, VeryVery, Fortunate, Surface, Leverage, LeverageAlso,
         NotAlso, GoesOn, Opener, Utilize, Of, TakenUp, Quoted, Making, GoMaking}) \cup
  Pairs({Takes3, LvcPlain, Hope, AlsoHope, Fragment, Plain}, Glues) \cup
  {<<"1)">> \o d : d \in Pairs({Hope, AlsoHope}, {<<"_">>})} \cup
  {Opener \o <<"_">> \o d : d \in {Opener, Of, Plain, Hope}} \cup
  {OpenClause \o d : d \in {Fragment, Simply, Quoted}} \cup
  {OpenClause \o d \o <<"_">> \o Fragment : d \in {Hope, Plain}} \cup
  {Hope \o <<"_">> \o d : d \in Pairs({Hope, LvcPlain}, {<<"_">>})}
MCRates == {Uncalibrated, 100, 357}

-----------------------------------------------------------------------------
(* Documents that show where the code departs from what is said of it.      *)
NoCalibration == {Uncalibrated}

Lvcs == Say(<<"It", "is", "lvc", "lvc">>, ".")
HeldVery == Say(<<"It", "simply", "simply", "simply", "goes", "very", "makes">>, ".")
QuotedTwo == <<"It", "_", "is", "_", "\"", "go", ".", "_", "It", "_", "simply", "_", "goes", "\"", ".">>
ToSuitPlain == Say(<<"It", "goes", "to suit">>, ".")

RerunDocuments   == Pairs({Lvcs, Plain}, {<<"_">>})
QuotedDocuments  == {QuotedTwo, Quoted}
HeldDocuments    == {HeldVery, SimplyTwice}
SeamDocuments    == {ToSuitPlain, ToSuit}

-----------------------------------------------------------------------------
\* "a second pass may clean up after first-pass deletions; a third pass changes
\* nothing" (README.md, Guarantees), a pass being a call of the engine as in
\* friction-edit/tests/idempotence.rs.
ThirdRunChangesNothing == run = 3 /\ phase = "done" => text = given

\* "no operation may rewrite it", of text inside double quotation marks
\* (doc of in_quoted_span, friction-edit/src/gates.rs): the marks of one prose
\* unit, paired from the left.
UnitStops == {i \in DOMAIN text : text[i] \in Structure}
Marks == {k \in DOMAIN text : text[k] = Quote}
QuotationIsKept ==
  \A p \in Range(Pending) : p.rule # RITUAL =>
    \A a, b \in Marks :
      /\ a < b /\ \A j \in a..b : j \notin UnitStops
      /\ Cardinality({j \in Marks : j < a /\ j > UnitStart(text, a)}) % 2 = 0
      /\ \A j \in a + 1 .. b - 1 : j \notin Marks
      => ~RangesOverlap(p, Span(a - 1, b))

\* "every reported range slices your original bytes to exactly the text the
\* finding is about" (README.md, Guarantees): what a call reports as held by a
\* gate of a frame rule is that rule's construction in the text it returns.
FrameConstruction(source, r) ==
  \E k \in DOMAIN FrameRules :
    /\ FrameRules[k].kind \in {"delete", "rewrite"}
    /\ 0 \in Matches(Slice(source, r), FrameRules[k].pattern)
    /\ r.end - r.start = Len(FrameRules[k].pattern)
HoldsPointAtTheirText ==
  phase = "done" =>
    \A h \in RemainingHeld : h.rule = FRAME /\ h.why = "gate" => FrameConstruction(text, h)

\* An edit lies in one untouched piece, "guaranteed by pack disjointness"
\* (doc of SentenceSplicer::apply, friction-edit/src/splice.rs, and its
\* debug_assert): the splicer never declines one.
NothingDeclined == declined = 0
=============================================================================
