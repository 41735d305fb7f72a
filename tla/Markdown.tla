------------------------------- MODULE Markdown -------------------------------
(* Prose extraction from Markdown (friction-parse/src/extract.rs): a walk    *)
(* over the events of pulldown-cmark.  A page is a sequence of lexemes, each *)
(* with the event the parser gives for it, if any: the start and the end of  *)
(* a block or of a span, text, a line break; the marker that a block quote   *)
(* or an indentation puts after a line break and the backslash of an escape  *)
(* have none.                                                                *)
EXTENDS Integers, Sequences, FiniteSets, FiniteSetsExt

CONSTANT Pages

VARIABLES
  page, pos,   \* the source, and the lexeme to be read next
  session,     \* [block, depth, current, runs] of the open container, or NoSession
  header,      \* table_header: whether a cell is one of the table's head
  blocks,      \* [kind, start, end]
  prose        \* [block, start, end]

vars == <<page, pos, session, header, blocks, prose>>

-----------------------------------------------------------------------------
Containers == {"paragraph", "heading", "cell", "item"}
(* Every block ends the session it starts in.                                *)
BlockKinds == Containers \cup {"quote", "code", "html", "list", "footnote", "table", "row"}
EndsSession(kind) == kind \in BlockKinds

(* Where what starts at i ends.                                              *)
Close(i) ==
  LET opens == IF page[i].t = "start" THEN "start" ELSE page[i].t
      closes == CASE opens = "start" -> "end" [] opens = "emphasis" -> "plain" [] opens = "link" -> "target"
      Depth(j) == Cardinality({k \in i .. j : page[k].t = opens}) - Cardinality({k \in i .. j : page[k].t = closes})
  IN Min({j \in i + 1 .. Len(page) : Depth(j) = 0})

-----------------------------------------------------------------------------
(* Session: current is <<start, end>>, or <<>> when no run is open.          *)
NoSession == [block |-> 0, depth |-> 0, current |-> <<>>, runs |-> <<>>]
Session(block) == [NoSession EXCEPT !.block = block]
InSession == session.block # 0

CloseCurrent(s) ==
  [s EXCEPT !.runs = IF s.current = <<>> \/ s.current[1] = s.current[2] THEN @ ELSE Append(@, s.current),
            !.current = <<>>]
Bridge(s, start, end) == [s EXCEPT !.current = <<IF @ = <<>> THEN start ELSE @[1], end>>]
(* extend_touching: only the backslash of an escape may lie between.         *)
Touches(s, start) ==
  s.current # <<>> /\ \/ s.current[2] = start
                      \/ s.current[2] = start - 1 /\ page[start - 1].t = "escape"
ExtendTouching(s, start, end) ==
  IF Touches(s, start) THEN Bridge(s, start, end) ELSE [CloseCurrent(s) EXCEPT !.current = <<start, end>>]

(* flush_session                                                             *)
Flushed ==
  LET runs == CloseCurrent(session).runs
  IN prose \o [k \in DOMAIN runs |-> [block |-> session.block, start |-> runs[k][1], end |-> runs[k][2]]]

-----------------------------------------------------------------------------
Block(kind, start, end) == [kind |-> kind, start |-> start, end |-> end]

(* extract: a leading front matter is a block of its own, never parsed.      *)
Init ==
  /\ page \in Pages
  /\ LET front == page[1].t = "front"
     IN /\ pos = IF front THEN 2 ELSE 1
        /\ blocks = IF front THEN <<Block("front", 1, 2)>> ELSE <<>>
  /\ session = NoSession /\ header = FALSE /\ prose = <<>>

At(ts) == pos <= Len(page) /\ page[pos].t \in ts /\ pos' = pos + 1 /\ UNCHANGED page

StartBlock ==
  /\ At({"start"})
  /\ LET kind == page[pos].kind
     IN /\ IF EndsSession(kind)
           THEN /\ prose' = Flushed
                /\ session' = IF kind \in Containers THEN Session(Len(blocks) + 1) ELSE NoSession
           ELSE UNCHANGED <<prose, session>>
        /\ blocks' = Append(blocks, Block(IF kind = "cell" /\ header THEN "header" ELSE kind, pos, Close(pos) + 1))
        /\ header' = IF kind = "row" THEN page[pos].head ELSE header

EndBlock ==
  /\ At({"end"})
  /\ IF page[pos].kind \in Containers THEN prose' = Flushed /\ session' = NoSession
     ELSE UNCHANGED <<prose, session>>
  /\ UNCHANGED <<blocks, header>>

Rule ==
  /\ At({"rule"})
  /\ prose' = Flushed /\ session' = NoSession
  /\ blocks' = Append(blocks, Block("rule", pos, pos + 1))
  /\ UNCHANGED header

InSpan(s) == session' = (IF InSession THEN s ELSE session) /\ UNCHANGED <<header, blocks, prose>>

(* Text, SoftBreak, HardBreak                                                *)
LeafProse ==
  /\ At({"word", "break"})
  /\ InSpan(IF session.depth > 0 THEN Bridge(session, pos, pos + 1) ELSE ExtendTouching(session, pos, pos + 1))
(* Code, math, inline HTML, footnote references and task markers             *)
LeafExcluded == At({"excluded"}) /\ InSpan(CloseCurrent(session))
LinkEdge == At({"link", "target"}) /\ InSpan(CloseCurrent(session))

StartEmphasis ==
  /\ At({"emphasis"})
  /\ InSpan([Bridge(session, pos, pos) EXCEPT !.depth = @ + 1])
EndEmphasis ==
  /\ At({"plain"})
  /\ InSpan([Bridge(session, pos + 1, pos + 1) EXCEPT !.depth = Max({@ - 1, 0})])

NoEvent == At({"marker", "escape"}) /\ UNCHANGED <<session, header, blocks, prose>>

Finish ==
  /\ pos = Len(page) + 1 /\ pos' = pos + 1
  /\ prose' = Flushed /\ session' = NoSession
  /\ UNCHANGED <<page, header, blocks>>

Next ==
  \/ StartBlock \/ EndBlock \/ Rule \/ LeafProse \/ LeafExcluded \/ LinkEdge
  \/ StartEmphasis \/ EndEmphasis \/ NoEvent \/ Finish
Spec == Init /\ [][Next]_vars
Extracted == pos = Len(page) + 2

-----------------------------------------------------------------------------
(* The block a lexeme stands in directly, and the first block inside it.     *)
Owner(i) == Max({b \in 1 .. i - 1 : page[b].t = "start" /\ i < Close(b)} \cup {0})
BeforeNested(i) ==
  Owner(i) # 0 /\ ~ \E b \in Owner(i) + 1 .. i : page[b].t \in {"start", "rule"}
Words == {i \in DOMAIN page : page[i].t = "word"}
Emphasized(i) == \E e \in 1 .. i + 1 : page[e].t = "emphasis" /\ i < Close(e)    \* in it or before it
Covered(i) == {u \in DOMAIN prose : prose[u].start <= i /\ i < prose[u].end}

(* Prose is the text a paragraph, heading, cell or item holds before any     *)
(* block inside it, all of it, once, in order and inside the block it is     *)
(* recorded for; words with nothing between them but emphasis, escapes and   *)
(* breaks are in one unit, so that no sentence is cut in two; and no unit    *)
(* holds code, a link's brackets and target, or, unless emphasis is about,   *)
(* the marker a block quote continues with (extract.rs Session,              *)
(* ExtractState).                                                            *)
ProseIsContainedText ==
  Extracted =>
    /\ \A i \in Words :
         Cardinality(Covered(i)) = IF BeforeNested(i) /\ page[Owner(i)].kind \in Containers THEN 1 ELSE 0
    /\ \A i, j \in Words :
         /\ i < j /\ Owner(i) = Owner(j) /\ Covered(i) # {}
         /\ \A k \in i .. j : page[k].t \in {"word", "break", "escape", "emphasis", "plain"}
         => Covered(i) = Covered(j)
    /\ \A i \in DOMAIN page :
         \/ page[i].t \in {"start", "end", "rule", "excluded", "link", "target", "front"}
         \/ page[i].t = "marker" /\ ~Emphasized(i)
         => Covered(i) = {}
    /\ \A u \in DOMAIN prose :
         LET unit == prose[u]
             block == blocks[unit.block]
         IN /\ block.start <= unit.start /\ unit.start < unit.end /\ unit.end <= block.end
            /\ \A v \in DOMAIN prose : u < v => unit.end <= prose[v].start

(* "A gap -- most often the > block-quote continuation marker on a wrapped   *)
(* line -- ends the run and starts a new one" (extract.rs:26-31).            *)
MarkersEndRuns ==
  Extracted => \A i \in DOMAIN page : page[i].t = "marker" => Covered(i) = {}
=============================================================================
