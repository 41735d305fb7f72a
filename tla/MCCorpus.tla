------------------------------- MODULE MCCorpus -------------------------------
(* What the tools write, one part at a time: the corpus, with three          *)
(* fragments, one that is refused and two of one source, either of which is  *)
(* there first, with its entities, and one job; the plans jobs come from;    *)
(* and the file fix writes in place.  The variable focus names the part that *)
(* runs.                                                                     *)
EXTENDS WriteInPlace, Corpus

VARIABLE focus

MCFragments == <<[source |-> "a", kept |-> TRUE], [source |-> "a", kept |-> TRUE],
                 [source |-> "b", kept |-> FALSE]>>
MCJobs == <<[id |-> <<"j", 1>>, model |-> "m"]>>
MCById == << <<"a", 0>>, <<"a", 2>>, <<"b", 0>>, <<"j", 1>> >>
MCByHash == << <<"b", 0>>, <<"a", 0>>, <<"a", 2>>, <<"j", 1>> >>
MCLegacies == {{1, 3}, {2, 3}}
MCGenres == <<"blog", "docs">>
MCModels == <<"m1", "m2", "m3">>
MCPrompts == [blog |-> <<"b1", "b2", "b3">>, docs |-> <<"d1", "d2">>]
MCShares == {<<1, 1>>, <<1, 2>>, <<2, 5>>, <<3, 4>>, <<1, 5>>}

MCInit == focus \in {"corpus", "plan", "writer"} /\ Init /\ PlanInit /\ CorpusInit
MCNext ==
  /\ UNCHANGED focus
  /\ \/ focus = "corpus" /\ CorpusNext /\ UNCHANGED <<vars, planVars>>
     \/ focus = "plan" /\ PlanNext /\ UNCHANGED <<vars, corpusVars>>
     \/ focus = "writer" /\ Next /\ UNCHANGED <<corpusVars, planVars>>
MCSpec == MCInit /\ [][MCNext]_<<focus, vars, planVars, corpusVars>>
=============================================================================
