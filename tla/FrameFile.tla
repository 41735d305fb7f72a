------------------------------ MODULE FrameFile ------------------------------
(* frame-pack-en-v1.bin (frame_bin.rs): the compiled frame rules as one file,  *)
(* and the view that reads it in place, with the index FrameIndex::build makes *)
(* of it.  Display rates are left out; the codes of tags, slots and clitics    *)
(* are one range.  An element of a pattern is a record with a kind:            *)
(* [kind, a, b], an option [kind, inner] or a group [kind, alts, optional];    *)
(* ids count from 0 and b is an id of a word in the kinds of Worded.           *)
EXTENDS PackCells

CONSTANTS
  Compiled,     \* packs the compiler may hand over: [words, names, classes, rules]
  Codes,        \* valid codes of tags, slots and clitics
  DamagedCells  \* what damage may put in a cell

VARIABLES compiled, file, view

vars == <<compiled, file, view>>

Magic == 1
FormatVersion == 2
OptionalBit == 128
OpCells == 3
DirCells == 2
RecordCells == 13
Sha == 1

PatKinds == <<"Lit", "Tag", "Class", "Slot", "SentStart", "SentEnd", "Clitic",
              "GroupStart", "AltSep", "GroupEnd">>
TplKinds == <<"Lit", "Slot", "TagCopy", "Inflect", "InflectForm", "ClassRealize",
              "AltCopy", "Clitic">>
Coded == {"Tag", "Class", "Slot", "Clitic", "TagCopy", "InflectForm", "ClassRealize"}
Worded == {"Lit", "Inflect", "InflectForm"}
RuleKinds == <<"Rewrite", "Delete", "Guard", "Report">>
CodeOf(kinds, kind) == PositionOf(kinds, kind) - 1

-----------------------------------------------------------------------------
(* pack_frame_bin: words get new ids, their ranks. *)
Sorted(pack) == InByteOrder(ToSet(pack.words))
NewId(pack, id) == FirstId(Sorted(pack), pack.words[id + 1])

OpCell(pack, kinds, op, bit) ==
  <<CodeOf(kinds, op.kind) + bit, op.a, IF op.kind \in Worded THEN NewId(pack, op.b) ELSE op.b>>
Mark(kind, a, bit) == <<CodeOf(PatKinds, kind) + bit, a, 0>>
Bit(optional) == IF optional THEN OptionalBit ELSE 0

\* An option sets the bit of the element inside; a group keeps its own.
RECURSIVE PatElem(_, _, _)
PatElem(pack, elem, optional) ==
  LET alt(k) == FlattenSeq([i \in DOMAIN elem.alts[k] |-> PatElem(pack, elem.alts[k][i], FALSE)])
  IN CASE elem.kind = "Opt" -> PatElem(pack, elem.inner, TRUE)
       [] elem.kind = "Group" ->
            Mark("GroupStart", Len(elem.alts), Bit(elem.optional))
            \o FlattenSeq([k \in DOMAIN elem.alts |->
                             (IF k > 1 THEN Mark("AltSep", 0, 0) ELSE << >>) \o alt(k)])
            \o Mark("GroupEnd", 0, 0)
       [] OTHER -> OpCell(pack, PatKinds, elem, Bit(optional))

Pattern(pack, rule) == FlattenSeq([k \in DOMAIN rule.pattern |-> PatElem(pack, rule.pattern[k], FALSE)])
Template(pack, ops) == FlattenSeq([k \in DOMAIN ops |-> OpCell(pack, TplKinds, ops[k], 0)])

\* Mutant of Renamed: the anchor ids keep the interner's numbers.
KeptIds(pack, ids) == ids

Renamed(pack, ids) == [k \in DOMAIN ids |-> NewId(pack, ids[k])]

(* write_rules: the sections grow rule by rule, a record notes where its      *)
(* part starts.                                                              *)
WriteTemplate(pack, sections, ops) ==
  [sections EXCEPT !.dir = @ \o <<Len(sections.tpl) \div OpCells, Len(ops)>>,
                   !.tpl = @ \o Template(pack, ops)]

WriteRule(pack, sections, rule) ==
  LET cells == Pattern(pack, rule)
      record == <<Len(sections.ids), Len(rule.id),
                  Len(sections.pat) \div OpCells, Len(cells) \div OpCells,
                  Len(sections.dir) \div DirCells, Len(rule.templates),
                  Len(sections.anchors), Len(rule.anchors), rule.elems[1], rule.elems[2],
                  CodeOf(RuleKinds, rule.kind), IF rule.surface THEN 1 ELSE 0, rule.support>>
      written == FoldLeft(LAMBDA s, ops : WriteTemplate(pack, s, ops), sections, rule.templates)
  IN [written EXCEPT !.pat = @ \o cells, !.anchors = @ \o Renamed(pack, rule.anchors),
                     !.ids = @ \o rule.id, !.records = @ \o record]

NoSections == [pat |-> << >>, tpl |-> << >>, dir |-> << >>, anchors |-> << >>,
               ids |-> << >>, records |-> << >>]

Sized(cells) == <<Len(cells)>> \o cells

ClassCells(pack, members) ==
  <<Len(members)>> \o FlattenSeq([k \in DOMAIN members |-> Sized(Renamed(pack, members[k]))])

ClassSection(pack) ==
  LET blobs == [c \in DOMAIN pack.classes |-> ClassCells(pack, pack.classes[c])]
      ends == [c \in 1 .. Len(blobs) + 1 |-> Len(FlattenSeq(SubSeq(blobs, 1, c - 1)))]
  IN <<Len(blobs)>> \o ends \o Sized(FlattenSeq(blobs))

PackFrameBin(pack) ==
  LET s == FoldLeft(LAMBDA done, rule : WriteRule(pack, done, rule), NoSections, pack.rules)
  IN <<Magic, FormatVersion, Sha>> \o StringTable(Sorted(pack)) \o StringTable(pack.names)
     \o ClassSection(pack) \o Sized(s.pat) \o Sized(s.tpl) \o Sized(s.dir) \o Sized(s.anchors)
     \o Sized(s.ids) \o <<Len(pack.rules)>> \o s.records

-----------------------------------------------------------------------------
(* FramePackView::parse. *)
ReadSized(bytes, done) ==
  LET end == done.at + 1 + Peek(bytes, done.at)
  IN IF Within(bytes, done.at, end)
     THEN [at |-> end, blobs |-> Append(done.blobs, SubSeq(bytes, done.at + 2, end))]
     ELSE [done EXCEPT !.at = Refused]

ViewOf(bytes, words, names) ==
  LET count == Peek(bytes, names.at)
      offsets == names.at + 2 + count
      read == IF Within(bytes, names.at, offsets)
              THEN FoldLeft(LAMBDA done, k : ReadSized(bytes, done), [at |-> offsets, blobs |-> << >>],
                            [k \in 1 .. 6 |-> k])
              ELSE [at |-> Refused, blobs |-> << >>]
      rules == Peek(bytes, read.at)
      end == read.at + 1 + rules * RecordCells
  IN IF Within(bytes, read.at, end) /\ IsText(words.pool) /\ IsText(names.pool) /\ IsText(read.blobs[6])
     THEN [at |-> end, words |-> words, count |-> count,
           offsets |-> SubSeq(bytes, names.at + 2, offsets), classes |-> read.blobs[1],
           pat |-> read.blobs[2], tpl |-> read.blobs[3], dir |-> read.blobs[4],
           anchors |-> read.blobs[5], ids |-> read.blobs[6], rules |-> rules,
           records |-> SubSeq(bytes, read.at + 2, end)]
     ELSE [at |-> Refused]

Names(bytes, words) == ReadStringTable(bytes, words.at)
WithNames(bytes, words) == ViewOf(bytes, words, Names(bytes, words))

ParseFile(bytes) ==
  IF Len(bytes) < 3 \/ Peek(bytes, 0) # Magic \/ Peek(bytes, 1) # FormatVersion
     \/ Peek(bytes, 2) = NotUtf8
  THEN [at |-> Refused]
  ELSE WithNames(bytes, ReadStringTable(bytes, 3))

Slice(cells, from, size, width) ==
  IF (from + size) * width <= Len(cells) THEN SubSeq(cells, from * width + 1, (from + size) * width)
  ELSE Outside

UnknownOp == [kind |-> "unknown op"]

Decoded(kinds, code, a, b, optional) ==
  IF code \notin 0 .. Len(kinds) - 1 \/ (kinds[code + 1] \in Coded /\ a \notin Codes)
  THEN UnknownOp
  ELSE [kind |-> kinds[code + 1], a |-> a, b |-> b, optional |-> optional]

DecodePat(c) == Decoded(PatKinds, c[1] % OptionalBit, c[2], c[3], c[1] >= OptionalBit)
DecodeTpl(c) == Decoded(TplKinds, c[1], c[2], c[3], FALSE)

Ops(cells) == [k \in 1 .. Len(cells) \div OpCells |-> SubSeq(cells, OpCells * k - 2, OpCells * k)]
PatOps(cells) == LET ops == Ops(cells) IN [k \in DOMAIN ops |-> DecodePat(ops[k])]
TplOps(cells) == LET ops == Ops(cells) IN [k \in DOMAIN ops |-> DecodeTpl(ops[k])]

CandidateTemplate(v, dir, index) ==
  LET cells == Slice(v.tpl, dir[DirCells * index - 1], dir[DirCells * index], OpCells)
  IN IF cells = Outside THEN <<UnknownOp>> ELSE TplOps(cells)

RuleOf(v, r) ==
  LET id == Slice(v.ids, r[1], r[2], 1)
      pattern == Slice(v.pat, r[3], r[4], OpCells)
      dir == Slice(v.dir, r[5], r[6], DirCells)
      anchor == Slice(v.anchors, r[7], r[8], 1)
  IN IF Outside \in {id, pattern, dir, anchor} THEN [found |-> FALSE]
     ELSE [found |-> TRUE, id |-> id, pattern |-> PatOps(pattern),
           templates |-> [k \in 1 .. r[6] |-> CandidateTemplate(v, dir, k)],
           anchors |-> anchor, elems |-> <<r[9], r[10]>>,
           kind |-> RuleKinds[IF r[11] \in 0 .. 2 THEN r[11] + 1 ELSE 4],
           surface |-> r[12] # 0, support |-> r[13]]

Rule(v, index) == RuleOf(v, SubSeq(v.records, RecordCells * index + 1, RecordCells * (index + 1)))

ReadMember(blob, done) ==
  LET end == done.at + 1 + Peek(blob, done.at)
  IN IF Within(blob, done.at, end)
     THEN [at |-> end, members |-> Append(done.members, SubSeq(blob, done.at + 2, end))]
     ELSE [done EXCEPT !.at = Refused]

ClassMembers(v, class) ==
  LET start == v.offsets[class + 1]
      read == FoldLeft(LAMBDA done, k : ReadMember(v.classes, done), [at |-> start + 1, members |-> << >>],
                       [k \in 1 .. Peek(v.classes, start) |-> k])
  IN IF start >= Len(v.classes) \/ read.at = Refused THEN [found |-> FALSE]
     ELSE [found |-> TRUE, members |-> read.members]

-----------------------------------------------------------------------------
(* element_to_op_index: a group is one element. *)
Depth(ops, k) ==
  Cardinality({i \in 1 .. k - 1 : ops[i].kind = "GroupStart"})
  - Cardinality({i \in 1 .. k - 1 : ops[i].kind = "GroupEnd"})

ElementToOp(ops, element) ==
  LET starts == SelectSeq([k \in DOMAIN ops |-> k],
                          LAMBDA k : Depth(ops, k) = 0)
  IN IF element + 1 \in DOMAIN starts THEN starts[element + 1] ELSE Missing

(* FrameIndex::build: each rule under the first word of its anchor. *)
Bucket(v, word) ==
  {index \in 0 .. v.rules - 1 :
     LET anchor == Rule(v, index).anchors IN anchor # << >> /\ anchor[1] = word}

-----------------------------------------------------------------------------
NoView == [at |-> Refused]

Init == compiled \in Compiled /\ file = << >> /\ view = NoView

Pack ==
  /\ file = << >>
  /\ file' = PackFrameBin(compiled)
  /\ view' = ParseFile(file')
  /\ UNCHANGED compiled

(* One cell of a fresh file is changed, or the file is cut. *)
Damage ==
  /\ file # << >> /\ file = PackFrameBin(compiled)
  /\ \/ \E k \in DOMAIN file, x \in DamagedCells : file' = [file EXCEPT ![k] = x]
     \/ \E k \in 1 .. Len(file) - 1 : file' = SubSeq(file, 1, k)
  /\ view' = ParseFile(file')
  /\ UNCHANGED compiled

Next == Pack \/ Damage
Spec == Init /\ [][Next]_vars

-----------------------------------------------------------------------------
Words(pack, ids) == [k \in DOMAIN ids |-> pack.words[ids[k] + 1]]
Read(ids) == [k \in DOMAIN ids |-> TextAt(view.words, ids[k])]

\* What a rule was compiled to, with the words that its ids stand for.
RECURSIVE Flat(_, _)
Flat(elem, optional) ==
  LET mark(kind, a, opt) == <<[kind |-> kind, a |-> a, b |-> 0, optional |-> opt]>>
  IN CASE elem.kind = "Opt" -> Flat(elem.inner, TRUE)
       [] elem.kind = "Group" ->
            mark("GroupStart", Len(elem.alts), elem.optional)
            \o FlattenSeq([k \in DOMAIN elem.alts |->
                 (IF k > 1 THEN mark("AltSep", 0, FALSE) ELSE << >>)
                 \o FlattenSeq([i \in DOMAIN elem.alts[k] |-> Flat(elem.alts[k][i], FALSE)])])
            \o mark("GroupEnd", 0, FALSE)
       [] OTHER -> <<elem @@ [optional |-> optional]>>

SameOp(read, op) ==
  /\ read.kind = op.kind /\ read.a = op.a /\ read.optional = op.optional
  /\ IF op.kind \in Worded THEN TextAt(view.words, read.b) = compiled.words[op.b + 1]
     ELSE read.b = op.b

SameOps(read, ops) == Len(read) = Len(ops) /\ \A k \in DOMAIN ops : SameOp(read[k], ops[k])

SameRule(index, rule) ==
  LET read == Rule(view, index)
      flat == FlattenSeq([k \in DOMAIN rule.pattern |-> Flat(rule.pattern[k], FALSE)])
      anchor == ElementToOp(read.pattern, read.elems[1])
  IN /\ read.found
     /\ <<read.id, read.kind, read.surface, read.support>> =
        <<rule.id, rule.kind, rule.surface, rule.support>>
     /\ SameOps(read.pattern, flat)
     /\ Len(read.templates) = Len(rule.templates)
     /\ \A k \in DOMAIN rule.templates :
          SameOps(read.templates[k],
                  [i \in DOMAIN rule.templates[k] |-> rule.templates[k][i] @@ [optional |-> FALSE]])
     /\ Read(read.anchors) = Words(compiled, rule.anchors)
     /\ rule.anchors # << >> =>
          /\ index \in Bucket(view, read.anchors[1])
          /\ anchor # Missing
          /\ read.pattern[anchor].kind = "Lit"
          /\ TextAt(view.words, read.pattern[anchor].b) = compiled.words[rule.anchors[1] + 1]

\* The engine works from the file: every rule in it matches and writes what
\* the compiler meant, is found under the first word of its anchor, and the
\* cell its anchor is pinned to holds that word, behind any option or group;
\* the members of a class are the words it lists.  A file that is cut short is
\* refused.
FrameFileAnswersLikeItsSource ==
  /\ Len(file) < Len(PackFrameBin(compiled)) => view.at = Refused
  /\ file # << >> /\ file = PackFrameBin(compiled) =>
      /\ view.at = Len(file)
      /\ view.rules = Len(compiled.rules)
      /\ \A k \in DOMAIN compiled.rules : SameRule(k - 1, compiled.rules[k])
      /\ \A c \in DOMAIN compiled.classes :
           LET class == ClassMembers(view, c - 1)
           IN /\ class.found
              /\ [k \in DOMAIN class.members |-> Read(class.members[k])] =
                 [k \in DOMAIN compiled.classes[c] |-> Words(compiled, compiled.classes[c][k])]
=============================================================================
