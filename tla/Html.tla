--------------------------------- MODULE Html ---------------------------------
(* Prose extraction from an HTML page (friction-parse/src/html.rs).  A page  *)
(* is a sequence of lexemes: a whole tag, the delimiters of a comment, of a  *)
(* CDATA section, of a template expression or of a JSON string, a character  *)
(* reference, an escape, a word, a space.                                    *)
EXTENDS Integers, Sequences, FiniteSets, FiniteSetsExt, SequencesExt

CONSTANT Pages

VARIABLES
  page, pos,   \* the source, and the lexeme to be read next
  stack,       \* the open elements, innermost last
  excluded,    \* how many of them are excluded (excluded_depth)
  pending,     \* the text run not ended yet, or NoRun
  continues,   \* whether the text that comes next continues a block
  blocks,      \* [kind, start, end]
  prose        \* [block, start, end]: the prose units

vars == <<page, pos, stack, excluded, pending, continues, blocks, prose>>

-----------------------------------------------------------------------------
Inline == {"a", "b", "br", "code", "em", "i", "kbd", "span", "strong", "wbr"}
Unread == {"head", "script", "style", "pre", "code", "kbd", "svg", "math", "textarea", "select", "title"}
Raw    == {"script", "style", "textarea", "title"}
Void   == {"br", "hr", "img", "input", "meta", "wbr"}
KindOf == [h1 |-> "heading", td |-> "cell", li |-> "item", blockquote |-> "quote"]

KindForContext(open) ==
  LET named == SelectSeq(open, LAMBDA name : name \in DOMAIN KindOf)
  IN IF named = <<>> THEN "paragraph" ELSE KindOf[Last(named)]

-----------------------------------------------------------------------------
(* find_from: where the first lexeme of a set ends, or the end of the page.  *)
After(ts, from) ==
  LET found == {i \in from .. Len(page) : page[i].t \in ts}
  IN IF found = {} THEN Len(page) + 1 ELSE Min(found) + 1
TagEnd == {"open", "close", "endcomment", "endcdata", "gt"}    \* what ends in >
CloseTagStart(name, from) ==
  LET found == {i \in from .. Len(page) : page[i].t = "close" /\ page[i].name = name}
  IN IF found = {} THEN Len(page) + 1 ELSE Min(found)
IsRaw(lexeme) == lexeme.t = "open" /\ ~lexeme.closed /\ lexeme.name \in Raw

(* template_expression_end, consume_markup, raw_text_end: the first lexeme   *)
(* after the construct that starts at i.                                     *)
Past(i) ==
  CASE page[i].t = "template" -> After({"endtemplate"}, i + 1)
    [] page[i].t = "comment" -> After({"endcomment"}, i + 1)
    [] page[i].t = "cdata" -> After({"endcdata"}, i + 1)
    [] page[i].t = "doctype" -> After(TagEnd, i + 1)
    [] IsRaw(page[i]) -> Min({CloseTagStart(page[i].name, i + 1) + 1, Len(page) + 1})
    [] OTHER -> i + 1

-----------------------------------------------------------------------------
NoRun == [start |-> 0, continues |-> FALSE]
(* A run from start up to to, trimmed; one that continues a block keeps the  *)
(* space it starts with.  {} when nothing is left.                           *)
Trimmed(start, to, joins) ==
  LET inked == {i \in start .. to - 1 : page[i].t # "space"}
  IN IF inked = {} THEN {}
     ELSE {[start |-> IF joins THEN start ELSE Min(inked), end |-> Max(inked) + 1]}

(* What is emitted so far, out, with one more unit: in block number b, which *)
(* is widened, or in a block of its own.                                     *)
Into(out, unit, b, kind) ==
  LET block == IF b = 0 THEN Len(out.blocks) + 1 ELSE b
  IN [blocks |-> IF b = 0 THEN Append(out.blocks, [kind |-> kind, start |-> unit.start, end |-> unit.end])
                 ELSE [out.blocks EXCEPT ![b].end = Max({@, unit.end})],
      prose |-> Append(out.prose, [block |-> block, start |-> unit.start, end |-> unit.end])]
Emit(out, units, b, kind) ==
  IF units = {} THEN out ELSE Into(out, CHOOSE unit \in units : TRUE, b, kind)

(* flush *)
Flushed(to) ==
  IF pending = NoRun THEN [blocks |-> blocks, prose |-> prose]
  ELSE Emit([blocks |-> blocks, prose |-> prose], Trimmed(pending.start, to, pending.continues),
            IF pending.continues THEN Len(blocks) ELSE 0, KindForContext(stack))

-----------------------------------------------------------------------------
(* scan_json_data_block: the string literals from from up to to, in order.   *)
RECURSIVE Literals(_, _), Segments(_, _, _)
Literals(from, to) ==
  LET quotes == {i \in from .. to - 1 : page[i].t = "quote"}
      open == Min(quotes)
      close == Min({i \in quotes : i > open} \cup {to})
  IN IF quotes = {} THEN <<>> ELSE <<[start |-> open + 1, end |-> close]>> \o Literals(close + 1, to)

(* What follows a literal, in the script that ends at to or right after it.  *)
IsKey(literal, to) ==
  LET from == Min({literal.end + 1, to})
      next == Min({i \in from .. to - 1 : page[i].t # "space"} \cup {to})
  IN next \in DOMAIN page /\ page[next].t = "colon"
OneWord(literal) ==
  \A unit \in Trimmed(literal.start, literal.end, FALSE) :
    \A i \in unit.start .. unit.end - 1 : page[i].t # "space"

(* The pieces of a value between its escapes and template expressions.       *)
Segments(from, to, joins) ==
  LET cuts == {i \in from .. to - 1 : page[i].t \in {"escape", "newline", "template"}}
      cut == Min(cuts)
      next == IF page[cut].t = "template" THEN Min({Past(cut), to}) ELSE cut + 1
      Piece(end) == [start |-> from, end |-> end, joins |-> joins]
  IN IF cuts = {} THEN <<Piece(to)>>
     ELSE <<Piece(cut)>> \o Segments(next, to, page[cut].t # "newline")

(* emit_json_run: the pieces of one value share one block.                   *)
EmitValue(out, literal, to) ==
  LET Add(o, piece) ==
        Emit(o, Trimmed(piece.start, piece.end, piece.joins),
             IF Len(o.blocks) = Len(out.blocks) THEN 0 ELSE Len(o.blocks), "paragraph")
  IN IF IsKey(literal, to) \/ OneWord(literal) THEN out
     ELSE FoldLeft(Add, out, Segments(literal.start, literal.end, FALSE))
ScanJson(out, from, to) ==
  FoldLeft(LAMBDA o, literal : EmitValue(o, literal, to), out, Literals(from, to))

-----------------------------------------------------------------------------
Reading == pos <= Len(page)
Here == page[pos]
Text == {"word", "space", "endtemplate", "quote", "colon", "gt", "endcomment", "endcdata", "escape", "newline"}

Init ==
  /\ page \in Pages /\ pos = 1 /\ stack = <<>> /\ excluded = 0
  /\ pending = NoRun /\ continues = FALSE /\ blocks = <<>> /\ prose = <<>>

(* A boundary ends the pending run where it stands.                          *)
Boundary(out) == pending' = NoRun /\ blocks' = out.blocks /\ prose' = out.prose /\ pos' = Past(pos)

(* Text, the bare ampersand among it, starts a run where none is pending.    *)
ReadText ==
  /\ Reading /\ Here.t \in Text
  /\ pending' = IF excluded = 0 /\ pending = NoRun THEN [start |-> pos, continues |-> continues] ELSE pending
  /\ pos' = pos + 1
  /\ UNCHANGED <<page, stack, excluded, continues, blocks, prose>>

(* Character references, template expressions, comments and a stray < are in *)
(* the flow of the text.                                                     *)
Interruption ==
  /\ Reading /\ Here.t \in {"reference", "template", "comment", "stray"}
  /\ Boundary(Flushed(pos)) /\ continues' = TRUE
  /\ UNCHANGED <<page, stack, excluded>>
Declaration ==
  /\ Reading /\ Here.t \in {"cdata", "doctype"}
  /\ Boundary(Flushed(pos)) /\ continues' = FALSE
  /\ UNCHANGED <<page, stack, excluded>>

StartTag ==
  /\ Reading /\ Here.t = "open" /\ ~IsRaw(Here)
  /\ Boundary(Flushed(pos)) /\ continues' = (Here.name \in Inline)
  /\ IF Here.closed \/ Here.name \in Void THEN UNCHANGED <<stack, excluded>>
     ELSE /\ stack' = Append(stack, Here.name)
          /\ excluded' = excluded + (IF Here.name \in Unread THEN 1 ELSE 0)
  /\ UNCHANGED page

RawText ==
  /\ Reading /\ IsRaw(Here)
  /\ Boundary(IF Here.json THEN ScanJson(Flushed(pos), pos + 1, CloseTagStart("script", pos + 1)) ELSE Flushed(pos))
  /\ continues' = (Here.name \in Inline)
  /\ UNCHANGED <<page, stack, excluded>>

\* Mutant of Closed: of the elements closed along with it only the named one counts.
ClosedOne(name) ==
  LET at == {i \in DOMAIN stack : stack[i] = name}
  IN IF at = {} THEN [stack |-> stack, excluded |-> excluded]
     ELSE [stack |-> SubSeq(stack, 1, Max(at) - 1), excluded |-> excluded - (IF name \in Unread THEN 1 ELSE 0)]

(* close_element: pops down to the innermost open element of that name.      *)
Closed(name) ==
  LET at == {i \in DOMAIN stack : stack[i] = name}
  IN IF at = {} THEN [stack |-> stack, excluded |-> excluded]
     ELSE [stack |-> SubSeq(stack, 1, Max(at) - 1),
           excluded |-> excluded - Cardinality({i \in Max(at) .. Len(stack) : stack[i] \in Unread})]
CloseTag ==
  /\ Reading /\ Here.t = "close"
  /\ Boundary(Flushed(pos)) /\ continues' = (Here.name \in Inline)
  /\ LET left == Closed(Here.name) IN stack' = left.stack /\ excluded' = left.excluded
  /\ UNCHANGED page

Finish ==
  /\ ~Reading /\ pending # NoRun
  /\ LET out == Flushed(pos) IN blocks' = out.blocks /\ prose' = out.prose
  /\ pending' = NoRun
  /\ UNCHANGED <<page, pos, stack, excluded, continues>>

Next == ReadText \/ Interruption \/ Declaration \/ StartTag \/ RawText \/ CloseTag \/ Finish
Spec == Init /\ [][Next]_vars
Extracted == ~Reading /\ pending = NoRun

-----------------------------------------------------------------------------
(* What a page shows, without a stack and without a pending run: the lexemes *)
(* where a construct starts, and the elements open at each.                  *)
LexemeStarts ==
  LET at[i \in 1 .. Len(page) + 1] == i = 1 \/ \E j \in 1 .. i - 1 : at[j] /\ Past(j) = i
  IN {i \in DOMAIN page : at[i]}
OpenAt ==
  LET starts == LexemeStarts
      Opens(i) == page[i].t = "open" /\ ~page[i].closed /\ ~IsRaw(page[i]) /\ page[i].name \notin Void
      at[i \in 1 .. Len(page) + 1] ==
        IF i = 1 THEN {}
        ELSE IF i - 1 \notin starts THEN at[i - 1]
        ELSE IF Opens(i - 1) THEN at[i - 1] \cup {i - 1}
        ELSE IF page[i - 1].t = "close"
        THEN {j \in at[i - 1] : \E k \in at[i - 1] : k > j /\ page[k].name = page[i - 1].name}
             \cup {j \in at[i - 1] : \A k \in at[i - 1] : page[k].name # page[i - 1].name}
        ELSE at[i - 1]
  IN at
JsonScripts == {s \in LexemeStarts : IsRaw(page[s]) /\ page[s].json}
(* The text of the JSON values of script s with more than one word.          *)
ShownJson(s) ==
  LET to == CloseTagStart("script", s + 1)
      Quote(i) == page[i].t = "quote"
      InString(i) == Cardinality({q \in s + 1 .. i - 1 : Quote(q)}) % 2 = 1
      opens(i) == Max({q \in s + 1 .. i - 1 : Quote(q)})
      closes(i) == Min({q \in i .. to - 1 : Quote(q)} \cup {to})
  IN {i \in s + 1 .. to - 1 :
        /\ page[i].t \in Text \ {"quote", "escape", "newline"} /\ InString(i)
        /\ \A t \in opens(i) + 1 .. i : page[t].t = "template" => Past(t) <= i
        /\ ~IsKey([start |-> opens(i) + 1, end |-> closes(i)], to)
        /\ \E a, b \in opens(i) + 1 .. closes(i) - 1 : \E m \in a + 1 .. b - 1 :
             page[a].t # "space" /\ page[m].t = "space" /\ page[b].t # "space"}
Shown ==
  LET open == OpenAt
  IN {i \in LexemeStarts : page[i].t \in Text /\ \A j \in open[i] : page[j].name \notin Unread}
     \cup UNION {ShownJson(s) : s \in JsonScripts}

(* Prose is the text a page shows, all of it but spaces at the ends of runs: *)
(* no unit reaches into a tag, a comment, a character reference, a template  *)
(* expression, an excluded element, a JSON key or an escape, however badly   *)
(* the elements nest and whatever is left unclosed; and the units are in     *)
(* order, disjoint and inside their blocks, which are disjoint as well       *)
(* (html.rs extract_html, close_element, scan_json_data_block).              *)
ProseIsShownText ==
  Extracted =>
    LET shown == Shown
        covered == UNION {prose[u].start .. prose[u].end - 1 : u \in DOMAIN prose}
    IN /\ covered \subseteq shown
       /\ \A i \in shown \ covered : page[i].t = "space"
       /\ \A u, v \in DOMAIN prose : u < v => prose[u].end <= prose[v].start /\ prose[u].block <= prose[v].block
       /\ \A u \in DOMAIN prose :
            blocks[prose[u].block].start <= prose[u].start /\ prose[u].end <= blocks[prose[u].block].end
       /\ \A a, b \in DOMAIN blocks : a < b => blocks[a].end <= blocks[b].start

(* "Block kinds: a run inside h1-h6 becomes a Heading, inside td/th a         *)
(* TableCell ... and anything else a Paragraph, chosen by innermost context"  *)
(* (html.rs:38-45).                                                          *)
KindFollowsContext ==
  Extracted =>
    LET open == OpenAt
        Names(i) == SetToSortSeq(open[i], LAMBDA a, b : a < b)
    IN \A u \in DOMAIN prose :
         (\A s \in JsonScripts : prose[u].start \notin s .. Past(s) - 1) =>
           blocks[prose[u].block].kind =
             KindForContext([k \in DOMAIN Names(prose[u].start) |-> page[Names(prose[u].start)[k]].name])
=============================================================================
