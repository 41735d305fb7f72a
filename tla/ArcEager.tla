------------------------------ MODULE ArcEager ------------------------------
(* The arc-eager transition system of friction-nlp, and the three loops that *)
(* drive it: the parser (the model's scores pick any allowed action), the    *)
(* derivation of a transition sequence from a gold tree (the static oracle   *)
(* picks) and one sentence of training (the model picks, the oracle judges). *)
(* Tokens are 1..len; a score is abstracted to the choice it leads to.       *)
EXTENDS Naturals, Sequences

CONSTANTS MaxLen,   \* longest sentence
          Labels,   \* dependency relations
          Root,     \* the relation of a token without a head
          None      \* no head, no relation, no bound

ASSUME ParserAssumption == MaxLen \in Nat /\ Root \in Labels /\ None \notin Nat

VARIABLES
  len,      \* the sentence's token count
  gold,     \* the gold tree, when one is known
  stack,    \* tokens held for attachment, top last
  buffer,   \* the buffer's front token
  head,     \* each token's assigned head
  relation, \* and its label
  bounds,   \* children_bounds: each token's leftmost and rightmost dependent
  phase     \* which loop drives the configuration, or how the last one ended

config == <<stack, buffer, head, relation, bounds>>
vars == <<len, gold, config, phase>>

Tokens == 1 .. len

(* What SentenceParse::new accepts: a head is another token of the sentence. *)
SentenceParses(n) ==
  {edges \in [1 .. n -> [head : 1 .. n \cup {None}, relation : Labels]] :
     \A t \in 1 .. n : edges[t].head # t}

-----------------------------------------------------------------------------
Top == stack[Len(stack)]
BufferNonempty == buffer <= len

\* Mutant of IsAllowed: a token without a head may be reduced.
MayReduceAny(kind) ==
  \/ kind = "Shift" /\ BufferNonempty
  \/ kind = "LeftArc" /\ BufferNonempty /\ stack # << >> /\ head[Top] = None
  \/ kind = "RightArc" /\ BufferNonempty /\ stack # << >>
  \/ kind = "Reduce" /\ stack # << >>
IsAllowed(kind) ==
  \/ kind = "Shift" /\ BufferNonempty
  \/ kind = "LeftArc" /\ BufferNonempty /\ stack # << >> /\ head[Top] = None
  \/ kind = "RightArc" /\ BufferNonempty /\ stack # << >>
  \/ kind = "Reduce" /\ stack # << >> /\ head[Top] # None

IsTerminal == ~BufferNonempty /\ (stack # << >> => head[Top] = None)

Pop == SubSeq(stack, 1, Len(stack) - 1)

\* Mutant of Widened: the right bound is the first dependent, not the last.
FirstKept(bound, child) ==
  [left |-> IF bound.left = None \/ child < bound.left THEN child ELSE bound.left,
   right |-> IF bound.right = None THEN child ELSE bound.right]
Widened(bound, child) ==
  [left |-> IF bound.left = None \/ child < bound.left THEN child ELSE bound.left,
   right |-> IF bound.right = None \/ child > bound.right THEN child ELSE bound.right]

Attach(child, parent, label) ==
  /\ head' = [head EXCEPT ![child] = parent]
  /\ relation' = [relation EXCEPT ![child] = label]
  /\ bounds' = [bounds EXCEPT ![parent] = Widened(@, child)]

Shift ==
  /\ IsAllowed("Shift")
  /\ stack' = Append(stack, buffer)
  /\ buffer' = buffer + 1
  /\ UNCHANGED <<head, relation, bounds>>

LeftArc(label) ==
  /\ IsAllowed("LeftArc")
  /\ stack' = Pop
  /\ Attach(Top, buffer, label)
  /\ UNCHANGED buffer

RightArc(label) ==
  /\ IsAllowed("RightArc")
  /\ Attach(buffer, Top, label)
  /\ stack' = Append(stack, buffer)
  /\ buffer' = buffer + 1

\* Mutant of Reduce: nothing is popped.
ReducedInPlace ==
  /\ IsAllowed("Reduce")
  /\ UNCHANGED config
Reduce ==
  /\ IsAllowed("Reduce")
  /\ stack' = Pop
  /\ UNCHANGED <<buffer, head, relation, bounds>>

Apply(kind, label) ==
  \/ kind = "Shift" /\ Shift
  \/ kind = "LeftArc" /\ LeftArc(label)
  \/ kind = "RightArc" /\ RightArc(label)
  \/ kind = "Reduce" /\ Reduce

-----------------------------------------------------------------------------
\* Mutant of HasRemainingGoldChild: only the front token is looked at.
FrontIsGoldChild(t) == BufferNonempty /\ gold[buffer].head = t
HasRemainingGoldChild(t) == \E c \in buffer .. len : gold[c].head = t

OracleKind ==
  IF stack # << >> /\ BufferNonempty /\ gold[Top].head = buffer THEN "LeftArc"
  ELSE IF stack # << >> /\ BufferNonempty /\ gold[buffer].head = Top THEN "RightArc"
  ELSE IF stack # << >> /\ head[Top] # None /\ ~HasRemainingGoldChild(Top) THEN "Reduce"
  ELSE "Shift"

OracleLabel ==
  CASE OracleKind = "LeftArc" -> gold[Top].relation
    [] OracleKind = "RightArc" -> gold[buffer].relation
    [] OTHER -> None

(* finish() against the gold edges, head by head and label by label. *)
ReproducesGold ==
  \A t \in Tokens : /\ head[t] = gold[t].head
                    /\ gold[t].relation = IF head[t] = None THEN Root ELSE relation[t]

(* The action space holds every relation but Root, so an action has an index. *)
ArcLabels == Labels \ {Root}
Kinds == {"Shift", "Reduce", "LeftArc", "RightArc"}
Actions ==
  [kind : {"Shift", "Reduce"}, label : {None}] \cup
  [kind : {"LeftArc", "RightArc"}, label : ArcLabels]

OracleAction == [kind |-> OracleKind, label |-> OracleLabel]

-----------------------------------------------------------------------------
Unassigned == [t \in Tokens |-> None]
Childless == [t \in Tokens |-> [left |-> None, right |-> None]]

Init ==
  /\ len \in 0 .. MaxLen
  /\ \/ phase = "parsing" /\ gold = << >>
     \/ phase = "deriving" /\ gold \in SentenceParses(len)
  /\ stack = << >>
  /\ buffer = 1
  /\ head = Unassigned
  /\ relation = Unassigned
  /\ bounds = Childless

(* PerceptronParser::parse: the argmax over the allowed actions of scores    *)
(* that are any function of the configuration.                               *)
Predict ==
  /\ phase = "parsing" /\ ~IsTerminal
  /\ \E a \in Actions : Apply(a.kind, a.label)
  /\ UNCHANGED <<len, gold, phase>>

FinishParse ==
  /\ phase = "parsing" /\ IsTerminal
  /\ phase' = "parsed"
  /\ UNCHANGED <<len, gold, config>>

(* derive(): the oracle's transition, which apply() asserts is allowed. *)
Derive ==
  /\ phase = "deriving" /\ ~IsTerminal
  /\ IF IsAllowed(OracleKind) THEN Apply(OracleKind, OracleLabel) /\ phase' = phase
     ELSE phase' = "panicked" /\ UNCHANGED config
  /\ UNCHANGED <<len, gold>>

(* A gold tree the replay does not reproduce is dropped. *)
DeriveError ==
  /\ phase = "deriving" /\ IsTerminal /\ ~ReproducesGold
  /\ phase' = "dropped"
  /\ UNCHANGED <<len, gold, config>>

(* One that it reproduces is a training sentence, decoded from the start. *)
Derived ==
  /\ phase = "deriving" /\ IsTerminal /\ ReproducesGold
  /\ phase' = "training"
  /\ stack' = << >>
  /\ buffer' = 1
  /\ head' = Unassigned
  /\ relation' = Unassigned
  /\ bounds' = Childless
  /\ UNCHANGED <<len, gold>>

(* train_sentence(): an oracle label outside the action space has no index   *)
(* (a panic); the first wrong prediction abandons the sentence (the update   *)
(* is the module AveragedPerceptron's); a right one is applied.              *)
Train ==
  /\ phase = "training" /\ ~IsTerminal
  /\ IF OracleLabel = Root THEN phase' = "unindexed" /\ UNCHANGED config
     ELSE \E a \in Actions :
            /\ IsAllowed(a.kind)
            /\ \/ a = OracleAction /\ Apply(a.kind, a.label) /\ phase' = phase
               \/ a # OracleAction /\ phase' = "abandoned" /\ UNCHANGED config
  /\ UNCHANGED <<len, gold>>

FinishTrain ==
  /\ phase = "training" /\ IsTerminal
  /\ phase' = "matched"
  /\ UNCHANGED <<len, gold, config>>

Next == Predict \/ FinishParse \/ Derive \/ DeriveError \/ Derived
        \/ Train \/ FinishTrain

(* The loops run on one thread until they are through. *)
Spec == Init /\ [][Next]_vars /\ WF_vars(Next)

-----------------------------------------------------------------------------
Phases == {"parsing", "parsed", "deriving", "panicked", "dropped", "training",
           "unindexed", "abandoned", "matched"}

(* Every variable has its type. *)
TypeOK ==
  /\ len \in 0 .. MaxLen
  /\ stack \in Seq(Tokens)
  /\ buffer \in 1 .. len + 1
  /\ head \in [Tokens -> Tokens \cup {None}]
  /\ relation \in [Tokens -> Labels \cup {None}]
  /\ bounds \in [Tokens -> [left : Tokens \cup {None}, right : Tokens \cup {None}]]
  /\ phase \in Phases

Between(a, b) == {t \in Tokens : (a < t /\ t < b) \/ (b < t /\ t < a)}

Crossing(a, b, c, d) ==
  /\ (c \in Between(a, b)) # (d \in Between(a, b))
  /\ {a, b} \cap {c, d} = {}

(* A head function draws arcs that never cross, over no unattached token.    *)
Projective(H) ==
  \A t \in Tokens : H[t] # None =>
    /\ \A u \in Between(t, H[t]) : H[u] # None
    /\ \A u \in Tokens : H[u] # None => ~Crossing(t, H[t], u, H[u])

(* No token is its own ancestor: any group of tokens has one whose head is   *)
(* not in the group.                                                         *)
Acyclic(H) == \A group \in (SUBSET Tokens) \ {{}} : \E t \in group : H[t] \notin group

(* A bound of the child index is what a scan of the heads finds.             *)
ScannedBound(H, bound, p) ==
  LET children == {t \in Tokens : H[t] = p}
  IN /\ (bound.left = None) = (children = {})
     /\ (bound.right = None) = (children = {})
     /\ children # {} =>
          /\ {bound.left, bound.right} \subseteq children
          /\ \A t \in children : bound.left <= t /\ t <= bound.right

(* Whatever the scores pick, in every configuration on the way the arcs form *)
(* a projective structure: subtrees stay contiguous for the register pass.   *)
ArcsNeverCross == Projective(head)

(* No token governs itself through any chain, so that walks down a parse     *)
(* (subtree_indices) end, and the O(1) child index the features read is the  *)
(* scan of the heads it replaced.                                            *)
BoundsAreTheScan == Acyclic(head) /\ \A p \in Tokens : ScannedBound(head, bounds[p], p)

GoldHeads == [t \in Tokens |-> gold[t].head]
RootsAreLabelled == \A t \in Tokens : gold[t].head = None => gold[t].relation = Root
Derivable == Projective(GoldHeads) /\ Acyclic(GoldHeads) /\ RootsAreLabelled

(* derive() never trips apply()'s assertion, and drops a gold tree exactly   *)
(* when it is not a projective forest whose roots carry the root label; the  *)
(* sentences that reach training are the derivable ones.                     *)
DerivesTheProjectiveTrees ==
  /\ phase # "panicked"
  /\ phase = "dropped" => ~Derivable
  /\ phase \in {"training", "unindexed", "abandoned", "matched"} => Derivable
  /\ phase = "matched" => ReproducesGold

(* Parsing, deriving and training end: each transition consumes the buffer   *)
(* or pops a token for good.                                                 *)
LoopsEnd == <>(phase \notin {"parsing", "deriving", "training"})

(* "the oracle never proposes `Root` as a label anyway" (dep_arceager.rs:39) *)
OracleNeverProposesRoot == phase # "unindexed"
=============================================================================
