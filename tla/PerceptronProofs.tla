-------------------------- MODULE PerceptronProofs --------------------------
(***************************************************************************)
(* The two perceptrons: the parser whose steps their scores choose, the    *)
(* weights that give the scores, and the tokens the tagger gives tags.     *)
(*                                                                         *)
(* 1. The arcs of every configuration form a projective structure, for     *)
(*    every sentence length, label set and choice of scores, in the        *)
(*    parser, in the derivation of gold trees and in training.             *)
(*                                                                         *)
(*    ArcsNeverCross alone is not inductive: an arc between the top of the *)
(*    stack and the front of the buffer crosses nothing because of what    *)
(*    the stack is.  Shape adds it: the stack ascends, it holds every      *)
(*    unattached token behind the front, no arc reaches past the front,    *)
(*    and no arc spans a token of the stack.                               *)
(*                                                                         *)
(* 2. Trained weights score as trained (TrainingPaysOff), for every set of *)
(*    features, every number of classes and examples, every hash function  *)
(*    and every order a file may list its classes in.                      *)
(*                                                                         *)
(*    The inductive invariant has three parts.  LazyTotals: the naive sum  *)
(*    of a weight is its recorded total plus the weight times the          *)
(*    iterations it has been held since.  RowsHoldAverages: the file holds *)
(*    exactly the averages that are not zero.  Probed: a feature in the    *)
(*    table is reached by its own probe sequence before any empty slot, no *)
(*    feature stands twice, and the table is larger than the number of     *)
(*    features, so that a free slot is left for every one still to be      *)
(*    placed (pigeonholes).                                                *)
(*                                                                         *)
(* 3. What the tagger scores: its scan cuts every text into tokens of the  *)
(*    kinds the shared classifier gives them (ScanIsTheClassifiers).       *)
(***************************************************************************)
EXTENDS ArcEager, Tagging, Weights, FiniteSetTheorems, SequenceTheorems, WellFoundedInduction,
        NaturalsInduction, TLAPS

Ascending(s) == \A i, j \in DOMAIN s : i < j => s[i] < s[j]
BehindFront(s, b) == \A i \in DOMAIN s : s[i] < b
UnattachedHeld(H, s, b) ==
  \A t \in Tokens : t < b /\ H[t] = None => \E i \in DOMAIN s : s[i] = t
ArcsBehindFront(H, b) == \A t \in Tokens : H[t] # None => t < b /\ H[t] <= b
StackUncovered(H, s) ==
  \A t \in Tokens : \A i \in DOMAIN s : H[t] # None => s[i] \notin Between(t, H[t])

Shape(H, s, b) ==
  /\ Ascending(s)
  /\ BehindFront(s, b)
  /\ UnattachedHeld(H, s, b)
  /\ ArcsBehindFront(H, b)
  /\ StackUncovered(H, s)
  /\ Projective(H)

GoldKnown == phase \in {"parsing", "parsed"} \/ gold \in SentenceParses(len)

IInv == TypeOK /\ GoldKnown /\ Shape(head, stack, buffer)

-----------------------------------------------------------------------------
\* A popped stack is the stack without its top.
LEMMA PopKeeps ==
  ASSUME NEW S, NEW s \in Seq(S), s # << >>, NEW r, r = SubSeq(s, 1, Len(s) - 1)
  PROVE  /\ r \in Seq(S)
         /\ DOMAIN r = 1 .. Len(s) - 1
         /\ \A i \in DOMAIN r : i \in DOMAIN s /\ r[i] = s[i]
  OBVIOUS

\* A pushed stack is the stack with one more token at its end.
LEMMA PushKeeps ==
  ASSUME NEW S, NEW s \in Seq(S), NEW x \in S
  PROVE  /\ Append(s, x) \in Seq(S)
         /\ DOMAIN s = 1 .. Len(s) /\ Len(s) \in Nat
         /\ DOMAIN Append(s, x) = 1 .. Len(s) + 1
         /\ \A i \in DOMAIN s : Append(s, x)[i] = s[i]
         /\ Append(s, x)[Len(s) + 1] = x
  OBVIOUS

\* The top of a stack is one of the tokens, and the last of them.
LEMMA TopOfStack ==
  ASSUME TypeOK, stack # << >>
  PROVE  /\ Top \in Tokens /\ Len(stack) \in DOMAIN stack
         /\ Ascending(stack) => \A i \in DOMAIN stack : stack[i] <= Top
  BY DEF TypeOK, Top, Tokens, Ascending

\* Popping a token that has its head keeps the shape.
LEMMA PoppedShape ==
  ASSUME NEW n \in Nat, len = n, NEW H, NEW s \in Seq(Tokens), NEW b \in Nat,
         s # << >>, H[s[Len(s)]] # None, Shape(H, s, b)
  PROVE  Shape(H, SubSeq(s, 1, Len(s) - 1), b)
<1> DEFINE r == SubSeq(s, 1, Len(s) - 1)
<1>1. /\ DOMAIN r = 1 .. Len(s) - 1
      /\ \A i \in DOMAIN r : i \in DOMAIN s /\ r[i] = s[i]
  BY PopKeeps
<1> HIDE DEF r
<1>2. Ascending(r) /\ BehindFront(r, b) /\ StackUncovered(H, r)
  BY <1>1 DEF Shape, Ascending, BehindFront, StackUncovered
<1>3. UnattachedHeld(H, r, b)
  <2>1. SUFFICES ASSUME NEW t \in Tokens, t < b, H[t] = None
                 PROVE  \E i \in DOMAIN r : r[i] = t
    BY DEF UnattachedHeld
  <2>2. PICK i \in DOMAIN s : s[i] = t
    BY <2>1 DEF Shape, UnattachedHeld
  <2>3. i # Len(s)
    BY <2>1, <2>2
  <2>4. i \in DOMAIN r
    BY <1>1, <2>2, <2>3
  <2> QED BY <1>1, <2>2, <2>4
<1> QED BY <1>2, <1>3 DEF Shape, r

\* Pushing the front token and moving the front past it keeps the shape.
LEMMA PushedShape ==
  ASSUME NEW n \in Nat, len = n, NEW H, NEW s \in Seq(Tokens), NEW b \in Tokens,
         H \in [Tokens -> Tokens \cup {None}], None \notin Nat, Shape(H, s, b)
  PROVE  Shape(H, Append(s, b), b + 1)
<1> DEFINE r == Append(s, b)
<1>1. /\ DOMAIN s = 1 .. Len(s) /\ Len(s) \in Nat
      /\ DOMAIN r = 1 .. Len(s) + 1
      /\ \A i \in DOMAIN s : r[i] = s[i]
      /\ r[Len(s) + 1] = b
  BY PushKeeps
<1> HIDE DEF r
<1>0. \A i \in DOMAIN r : (i \in DOMAIN s /\ r[i] = s[i] /\ s[i] \in Tokens) \/ (i = Len(s) + 1 /\ r[i] = b)
  BY <1>1
<1>t. Tokens \subseteq Nat
  BY DEF Tokens
<1>2. Ascending(r) /\ BehindFront(r, b + 1)
  <2>1. \A i \in DOMAIN s : s[i] \in Nat /\ s[i] < b
    BY <1>t DEF Shape, BehindFront
  <2>2. BehindFront(r, b + 1)
    BY <2>1, <1>0, <1>t DEF BehindFront
  <2>3. ASSUME NEW i \in DOMAIN r, NEW j \in DOMAIN r, i < j PROVE r[i] < r[j]
    <3>1. i \in DOMAIN s /\ r[i] = s[i]
      BY <1>1, <2>3
    <3>2. CASE j \in DOMAIN s
      BY <1>1, <2>3, <3>1, <3>2 DEF Shape, Ascending
    <3>3. CASE r[j] = b
      BY <2>1, <3>1, <3>3
    <3> QED BY <1>0, <3>2, <3>3
  <2> QED BY <2>2, <2>3 DEF Ascending
<1>3. UnattachedHeld(H, r, b + 1)
  <2>1. SUFFICES ASSUME NEW t \in Tokens, t < b + 1, H[t] = None
                 PROVE  \E i \in DOMAIN r : r[i] = t
    BY DEF UnattachedHeld
  <2>2. CASE t = b
    BY <1>1, <2>2
  <2>3. CASE t # b
    <3>1. t < b
      BY <2>1, <2>3, <1>t
    <3>2. PICK i \in DOMAIN s : s[i] = t
      BY <2>1, <3>1 DEF Shape, UnattachedHeld
    <3> QED BY <1>1, <3>2
  <2> QED BY <2>2, <2>3
<1>4. ArcsBehindFront(H, b + 1)
  BY <1>t DEF Shape, ArcsBehindFront
<1>5. StackUncovered(H, r)
  <2>1. SUFFICES ASSUME NEW t \in Tokens, NEW i \in DOMAIN r, H[t] # None
                 PROVE  r[i] \notin Between(t, H[t])
    BY DEF StackUncovered
  <2>2. CASE i \in DOMAIN s
    BY <1>1, <2>1, <2>2 DEF Shape, StackUncovered
  <2>3. CASE r[i] = b
    <3>1. t < b /\ H[t] <= b /\ H[t] \in Nat
      BY <2>1, <1>t DEF Shape, ArcsBehindFront
    <3> QED BY <2>3, <3>1, <1>t DEF Between
  <2> QED BY <1>0, <2>2, <2>3
<1> QED BY <1>2, <1>3, <1>4, <1>5 DEF Shape, r

\* An arc between two tokens that no arc spans, with nothing of the stack
\* under it, keeps the shape.
LEMMA LinkedShape ==
  ASSUME NEW n \in Nat, len = n, None \notin Nat,
         NEW H \in [Tokens -> Tokens \cup {None}], NEW s \in Seq(Tokens), NEW b \in Nat,
         Shape(H, s, b),
         NEW child \in Tokens, NEW parent \in Tokens, child # parent,
         H[child] = None, child < b, parent <= b,
         \A i \in DOMAIN s : s[i] \notin Between(child, parent),
         child = b \/ \E i \in DOMAIN s : s[i] = child,
         parent = b \/ \E i \in DOMAIN s : s[i] = parent
  PROVE  Shape([H EXCEPT ![child] = parent], s, b)
<1> DEFINE G == [H EXCEPT ![child] = parent]
<1>t. Tokens \subseteq Nat /\ None \notin Tokens
  BY DEF Tokens
<1>1. /\ G \in [Tokens -> Tokens \cup {None}]
      /\ G[child] = parent /\ parent # None
      /\ \A t \in Tokens : t # child => G[t] = H[t]
      /\ \A t \in Tokens : H[t] # None => G[t] = H[t] /\ t # child
      /\ \A t \in Tokens : G[t] # None => t = child \/ (H[t] # None /\ G[t] = H[t])
  BY <1>t
<1> HIDE DEF G
<1>2. UnattachedHeld(G, s, b)
  BY <1>1 DEF Shape, UnattachedHeld
<1>3. ArcsBehindFront(G, b)
  BY <1>1 DEF Shape, ArcsBehindFront
<1>4. StackUncovered(G, s)
  <2>1. SUFFICES ASSUME NEW t \in Tokens, NEW i \in DOMAIN s, G[t] # None
                 PROVE  s[i] \notin Between(t, G[t])
    BY DEF StackUncovered
  <2>2. CASE t = child
    BY <1>1, <2>2
  <2>3. CASE H[t] # None /\ G[t] = H[t]
    BY <2>3 DEF Shape, StackUncovered
  <2> QED BY <1>1, <2>1, <2>2, <2>3
\* No end of the new arc lies under an old one.
<1>5. \A t \in Tokens : H[t] # None =>
        /\ H[t] \in Nat /\ t \in Nat /\ t < b /\ H[t] <= b
        /\ child \notin Between(t, H[t]) /\ parent \notin Between(t, H[t])
  <2>1. SUFFICES ASSUME NEW t \in Tokens, H[t] # None
                 PROVE  /\ H[t] \in Nat /\ t \in Nat /\ t < b /\ H[t] <= b
                        /\ child \notin Between(t, H[t]) /\ parent \notin Between(t, H[t])
    OBVIOUS
  <2>2. H[t] \in Nat /\ t \in Nat /\ t < b /\ H[t] <= b
    BY <2>1, <1>t DEF Shape, ArcsBehindFront
  <2>3. b \notin Between(t, H[t])
    BY <2>2 DEF Between
  <2>4. \A i \in DOMAIN s : s[i] \notin Between(t, H[t])
    BY <2>1 DEF Shape, StackUncovered
  <2> QED BY <2>2, <2>3, <2>4
<1>6. \A u \in Between(child, parent) : H[u] # None
  <2>1. SUFFICES ASSUME NEW u \in Between(child, parent), H[u] = None PROVE FALSE
    OBVIOUS
  <2>2. u \in Tokens /\ u < b
    BY <2>1, <1>t DEF Between
  <2>3. PICK i \in DOMAIN s : s[i] = u
    BY <2>1, <2>2 DEF Shape, UnattachedHeld
  <2> QED BY <2>1, <2>3
<1>7. \A t \in Tokens : H[t] # None =>
        ~Crossing(child, parent, t, H[t]) /\ ~Crossing(t, H[t], child, parent)
  <2>1. SUFFICES ASSUME NEW t \in Tokens, H[t] # None
                 PROVE  ~Crossing(child, parent, t, H[t]) /\ ~Crossing(t, H[t], child, parent)
    OBVIOUS
  <2>2. /\ H[t] \in Tokens /\ H[t] \in Nat /\ t \in Nat
        /\ child \notin Between(t, H[t]) /\ parent \notin Between(t, H[t])
    BY <2>1, <1>5
  <2>3. ~Crossing(t, H[t], child, parent)
    BY <2>2 DEF Crossing
  <2>4. ASSUME {child, parent} \cap {t, H[t]} = {}
        PROVE  t \in Between(child, parent) <=> H[t] \in Between(child, parent)
    <3>1. child # t /\ child # H[t] /\ parent # t /\ parent # H[t]
      BY <2>4
    <3> QED BY <2>2, <3>1, <1>t DEF Between
  <2>5. ~Crossing(child, parent, t, H[t])
    BY <2>4 DEF Crossing
  <2> QED BY <2>3, <2>5
<1>8. Projective(G)
  <2>1. SUFFICES ASSUME NEW t \in Tokens, G[t] # None
                 PROVE  /\ \A u \in Between(t, G[t]) : G[u] # None
                        /\ \A u \in Tokens : G[u] # None => ~Crossing(t, G[t], u, G[u])
    BY DEF Projective
  <2>2. \A u \in Between(t, G[t]) : u \in Tokens
    BY DEF Between
  <2>3. CASE t = child
    <3>1. \A u \in Between(t, G[t]) : G[u] # None
      BY <1>1, <1>6, <2>2, <2>3
    <3>2. ASSUME NEW u \in Tokens, G[u] # None PROVE ~Crossing(t, G[t], u, G[u])
      <4>1. CASE u = child
        BY <2>3, <4>1 DEF Crossing
      <4>2. CASE u # child
        BY <1>1, <1>7, <2>3, <3>2, <4>2
      <4> QED BY <4>1, <4>2
    <3> QED BY <3>1, <3>2
  <2>4. CASE t # child
    <3>0. H[t] # None /\ G[t] = H[t]
      BY <1>1, <2>1, <2>4
    <3>1. \A u \in Between(t, G[t]) : G[u] # None
      BY <1>1, <2>2, <3>0 DEF Shape, Projective
    <3>2. ASSUME NEW u \in Tokens, G[u] # None PROVE ~Crossing(t, G[t], u, G[u])
      <4>1. CASE u = child
        BY <1>1, <1>7, <3>0, <4>1
      <4>2. CASE u # child
        <5>1. H[u] # None /\ G[u] = H[u]
          BY <1>1, <3>2, <4>2
        <5> QED BY <3>0, <5>1 DEF Shape, Projective
      <4> QED BY <4>1, <4>2
    <3> QED BY <3>1, <3>2
  <2> QED BY <2>3, <2>4
<1> QED BY <1>2, <1>3, <1>4, <1>8 DEF Shape, G

-----------------------------------------------------------------------------
\* Every operation of the configuration keeps types and shape.
ConfigOK == TypeOK /\ Shape(head, stack, buffer)

\* The shape of the next configuration, over the tokens of this sentence.
LEMMA SamePlace ==
  ASSUME len' = len, Shape(head', stack', buffer')
  PROVE  Shape(head, stack, buffer)'
<1>1. Tokens' = Tokens
  BY DEF Tokens
<1>2. /\ Ascending(stack)' /\ BehindFront(stack, buffer)'
      /\ UnattachedHeld(head, stack, buffer)' /\ ArcsBehindFront(head, buffer)'
  BY <1>1 DEF Shape, Ascending, BehindFront, UnattachedHeld, ArcsBehindFront
<1>3. StackUncovered(head, stack)'
  BY <1>1 DEF Shape, StackUncovered, Between
<1>4. Projective(head)'
  <2>1. Projective(head')
    BY DEF Shape
  <2> QED BY <2>1, <1>1 DEF Projective, Crossing, Between
<1> QED BY <1>2, <1>3, <1>4 DEF Shape

LEMMA ShiftKeeps ==
  ASSUME ConfigOK, Shift, len' = len, phase' \in Phases
  PROVE  ConfigOK'
<1>0. len \in Nat /\ None \notin Nat /\ len' \in 0 .. MaxLen
  BY ParserAssumption DEF ConfigOK, TypeOK
<1>1. /\ buffer \in Tokens /\ buffer \in Nat /\ buffer' = buffer + 1 /\ stack' = Append(stack, buffer)
      /\ head' = head /\ relation' = relation /\ bounds' = bounds
  BY DEF Shift, IsAllowed, BufferNonempty, ConfigOK, TypeOK, Tokens
<1>2. stack \in Seq(Tokens) /\ head \in [Tokens -> Tokens \cup {None}]
  BY DEF ConfigOK, TypeOK
<1>3. Shape(head, Append(stack, buffer), buffer + 1)
  BY <1>0, <1>1, <1>2, PushedShape DEF ConfigOK
<1>4. Shape(head, stack, buffer)'
  BY <1>1, <1>3, SamePlace
<1>5. TypeOK'
  BY <1>0, <1>1 DEF ConfigOK, TypeOK, Tokens
<1> QED BY <1>4, <1>5 DEF ConfigOK

LEMMA ReduceKeeps ==
  ASSUME ConfigOK, Reduce, len' = len, phase' \in Phases
  PROVE  ConfigOK'
<1>0. len \in Nat /\ None \notin Nat /\ len' \in 0 .. MaxLen
  BY ParserAssumption DEF ConfigOK, TypeOK
<1>1. /\ stack # << >> /\ head[Top] # None /\ stack' = Pop
      /\ buffer' = buffer /\ head' = head /\ relation' = relation /\ bounds' = bounds
  BY DEF Reduce, IsAllowed
<1>2. stack \in Seq(Tokens) /\ buffer \in Nat
  BY <1>0 DEF ConfigOK, TypeOK
<1>3. Shape(head, Pop, buffer)
  BY <1>0, <1>1, <1>2, PoppedShape DEF ConfigOK, Pop, Top
<1>4. Shape(head, stack, buffer)'
  BY <1>1, <1>3, SamePlace
<1>5. Pop \in Seq(Tokens)
  BY <1>1, <1>2, PopKeeps DEF Pop
<1>6. TypeOK'
  BY <1>0, <1>1, <1>5 DEF ConfigOK, TypeOK, Tokens
<1> QED BY <1>4, <1>6 DEF ConfigOK

\* Attaching keeps the types of heads, labels and bounds.
LEMMA AttachKeepsTypes ==
  ASSUME TypeOK, NEW child \in Tokens, NEW parent \in Tokens, NEW label \in Labels,
         Attach(child, parent, label)
  PROVE  /\ head' \in [Tokens -> Tokens \cup {None}]
         /\ relation' \in [Tokens -> Labels \cup {None}]
         /\ bounds' \in [Tokens -> [left : Tokens \cup {None}, right : Tokens \cup {None}]]
<1>1. Widened(bounds[parent], child) \in [left : Tokens \cup {None}, right : Tokens \cup {None}]
  BY DEF TypeOK, Widened
<1> QED BY <1>1 DEF TypeOK, Attach

LEMMA LeftArcKeeps ==
  ASSUME ConfigOK, NEW label \in Labels, LeftArc(label), len' = len, phase' \in Phases
  PROVE  ConfigOK'
<1>0. len \in Nat /\ None \notin Nat /\ len' \in 0 .. MaxLen
  BY ParserAssumption DEF ConfigOK, TypeOK
<1>1. /\ stack # << >> /\ head[Top] = None /\ stack' = Pop
      /\ buffer' = buffer /\ Attach(Top, buffer, label)
      /\ buffer \in Tokens /\ buffer \in Nat
  BY DEF LeftArc, IsAllowed, BufferNonempty, ConfigOK, TypeOK, Tokens
<1>2. stack \in Seq(Tokens) /\ head \in [Tokens -> Tokens \cup {None}]
  BY DEF ConfigOK, TypeOK
<1>3. /\ Top \in Tokens /\ Len(stack) \in DOMAIN stack /\ stack[Len(stack)] = Top
      /\ \A i \in DOMAIN stack : stack[i] <= Top
  BY <1>1, TopOfStack DEF ConfigOK, Shape, Top
<1>4. Top < buffer /\ Top \in Nat
  BY <1>3 DEF ConfigOK, Shape, BehindFront, Tokens
<1>5. \A i \in DOMAIN stack : stack[i] \notin Between(Top, buffer)
  BY <1>1, <1>2, <1>3, <1>4 DEF Between, Tokens
<1>6. head' = [head EXCEPT ![Top] = buffer] /\ head'[Top] = buffer
  BY <1>1, <1>2, <1>3 DEF Attach
<1>7. Shape(head', stack, buffer)
  <2>1. /\ \E i \in DOMAIN stack : stack[i] = Top
        /\ Top # buffer /\ buffer <= buffer
    BY <1>1, <1>3, <1>4
  <2>2. Shape(head, stack, buffer)
    BY DEF ConfigOK
  <2>3. Shape([head EXCEPT ![Top] = buffer], stack, buffer)
    BY <1>0, <1>1, <1>2, <1>3, <1>4, <1>5, <2>1, <2>2, LinkedShape
  <2> QED BY <2>3, <1>6
<1>8. Shape(head', Pop, buffer)
  <2>1. head'[stack[Len(stack)]] # None
    BY <1>0, <1>1, <1>3, <1>6
  <2> QED BY <1>0, <1>1, <1>2, <1>7, <2>1, PoppedShape DEF Pop
<1>9. Shape(head, stack, buffer)'
  BY <1>1, <1>8, SamePlace
<1>10. Pop \in Seq(Tokens)
  BY <1>1, <1>2, PopKeeps DEF Pop
<1>11. /\ head' \in [Tokens -> Tokens \cup {None}]
       /\ relation' \in [Tokens -> Labels \cup {None}]
       /\ bounds' \in [Tokens -> [left : Tokens \cup {None}, right : Tokens \cup {None}]]
  BY <1>1, <1>3, AttachKeepsTypes DEF ConfigOK
<1>12. TypeOK'
  BY <1>0, <1>1, <1>10, <1>11 DEF ConfigOK, TypeOK, Tokens
<1> QED BY <1>9, <1>12 DEF ConfigOK

LEMMA RightArcKeeps ==
  ASSUME ConfigOK, NEW label \in Labels, RightArc(label), len' = len, phase' \in Phases
  PROVE  ConfigOK'
<1>0. len \in Nat /\ None \notin Nat /\ len' \in 0 .. MaxLen
  BY ParserAssumption DEF ConfigOK, TypeOK
<1>1. /\ stack # << >> /\ stack' = Append(stack, buffer)
      /\ buffer' = buffer + 1 /\ Attach(buffer, Top, label)
      /\ buffer \in Tokens /\ buffer \in Nat
  BY DEF RightArc, IsAllowed, BufferNonempty, ConfigOK, TypeOK, Tokens
<1>2. stack \in Seq(Tokens) /\ head \in [Tokens -> Tokens \cup {None}]
  BY DEF ConfigOK, TypeOK
<1>3. /\ Top \in Tokens /\ Len(stack) \in DOMAIN stack /\ stack[Len(stack)] = Top
      /\ \A i \in DOMAIN stack : stack[i] <= Top
  BY <1>1, TopOfStack DEF ConfigOK, Shape, Top
<1>4. Top < buffer /\ Top \in Nat
  BY <1>3 DEF ConfigOK, Shape, BehindFront, Tokens
<1> DEFINE s == Append(stack, buffer)
<1>5. Shape(head, s, buffer + 1)
  BY <1>0, <1>1, <1>2, PushedShape DEF ConfigOK
<1>6. /\ s \in Seq(Tokens)
      /\ \A i \in DOMAIN s : s[i] = buffer \/ s[i] <= Top
      /\ \A i \in DOMAIN s : s[i] \in Nat
      /\ \E i \in DOMAIN s : s[i] = buffer
      /\ \E i \in DOMAIN s : s[i] = Top
  <2>1. /\ s \in Seq(Tokens) /\ Len(stack) \in Nat /\ DOMAIN stack = 1 .. Len(stack)
        /\ DOMAIN s = 1 .. Len(stack) + 1
        /\ \A i \in DOMAIN stack : s[i] = stack[i]
        /\ s[Len(stack) + 1] = buffer
    BY <1>1, <1>2, PushKeeps
  <2>2. \A i \in DOMAIN s : s[i] \in Tokens
    BY <2>1
  <2> HIDE DEF s
  <2>3. \A i \in DOMAIN s : i \in DOMAIN stack \/ i = Len(stack) + 1
    BY <2>1
  <2>4. \A i \in DOMAIN s : s[i] \in Nat
    BY <2>2 DEF Tokens
  <2>5. Len(stack) \in DOMAIN s /\ s[Len(stack)] = Top /\ Len(stack) + 1 \in DOMAIN s
    BY <2>1, <1>3
  <2> QED BY <2>1, <2>3, <2>4, <2>5, <1>3
<1> HIDE DEF s
<1>7. \A i \in DOMAIN s : s[i] \notin Between(buffer, Top)
  <2>1. ASSUME NEW i \in DOMAIN s
        PROVE  ~(buffer < s[i] /\ s[i] < Top) /\ ~(Top < s[i] /\ s[i] < buffer)
    <3>1. /\ s[i] \in Nat
          /\ s[i] = buffer \/ s[i] <= Top
      BY <1>6, <2>1
    <3> QED BY <1>1, <1>4, <3>1
  <2> QED BY <2>1 DEF Between
<1>8. head[buffer] = None
  BY <1>1 DEF ConfigOK, Shape, ArcsBehindFront
<1>9. Shape([head EXCEPT ![buffer] = Top], s, buffer + 1)
  <2>1. /\ buffer + 1 \in Nat /\ buffer < buffer + 1 /\ Top <= buffer + 1 /\ buffer # Top
    BY <1>1, <1>4
  <2> QED BY <1>0, <1>1, <1>2, <1>3, <1>5, <1>6, <1>7, <1>8, <2>1, LinkedShape
<1>10. head' = [head EXCEPT ![buffer] = Top]
  BY <1>1 DEF Attach
<1>11. Shape(head, stack, buffer)'
  <2>1. Shape(head', stack', buffer')
    BY <1>1, <1>9, <1>10 DEF s
  <2> QED BY <2>1, SamePlace
<1>12. /\ head' \in [Tokens -> Tokens \cup {None}]
       /\ relation' \in [Tokens -> Labels \cup {None}]
       /\ bounds' \in [Tokens -> [left : Tokens \cup {None}, right : Tokens \cup {None}]]
  BY <1>1, <1>3, AttachKeepsTypes DEF ConfigOK
<1>13. TypeOK'
  <2>1. stack' \in Seq(Tokens)
    BY <1>1, <1>6 DEF s
  <2> QED BY <1>0, <1>1, <1>12, <2>1 DEF ConfigOK, TypeOK, Tokens
<1> QED BY <1>11, <1>13 DEF ConfigOK

\* Any transition with a label, where it needs one.
LEMMA ApplyKeeps ==
  ASSUME ConfigOK, NEW kind, NEW label, Apply(kind, label),
         kind \in {"LeftArc", "RightArc"} => label \in Labels,
         len' = len, phase' \in Phases
  PROVE  ConfigOK'
<1>1. CASE kind = "Shift" /\ Shift
  BY <1>1, ShiftKeeps
<1>2. CASE kind = "LeftArc" /\ LeftArc(label)
  BY <1>2, LeftArcKeeps
<1>3. CASE kind = "RightArc" /\ RightArc(label)
  BY <1>3, RightArcKeeps
<1>4. CASE kind = "Reduce" /\ Reduce
  BY <1>4, ReduceKeeps
<1> QED BY <1>1, <1>2, <1>3, <1>4 DEF Apply

\* A step that changes no part of the configuration but the phase.
LEMMA RestKeeps ==
  ASSUME ConfigOK, UNCHANGED <<len, config>>, phase' \in Phases
  PROVE  ConfigOK'
  BY DEF ConfigOK, TypeOK, config, Shape, Ascending, BehindFront, UnattachedHeld,
    ArcsBehindFront, StackUncovered, Projective, Crossing, Between, Tokens

\* The empty configuration of a sentence.
LEMMA FreshConfig ==
  ASSUME len \in 0 .. MaxLen, phase \in Phases, stack = << >>, buffer = 1,
         head = Unassigned, relation = Unassigned, bounds = Childless
  PROVE  ConfigOK
<1>1. TypeOK
  BY ParserAssumption DEF TypeOK, Unassigned, Childless
<1>2. \A t \in Tokens : head[t] = None /\ ~(t < buffer)
  BY DEF Unassigned, Tokens
<1>3. Shape(head, stack, buffer)
  BY <1>2 DEF Shape, Ascending, BehindFront, UnattachedHeld, ArcsBehindFront,
    StackUncovered, Projective
<1> QED BY <1>1, <1>3 DEF ConfigOK

\* The label the oracle proposes for an arc is one of the gold tree's.
LEMMA OracleLabelTyped ==
  ASSUME TypeOK, gold \in SentenceParses(len), OracleKind \in {"LeftArc", "RightArc"}
  PROVE  OracleLabel \in Labels
<1>1. gold \in [Tokens -> [head : Tokens \cup {None}, relation : Labels]]
  BY DEF SentenceParses, Tokens
<1>2. stack # << >> /\ BufferNonempty
  BY DEF OracleKind
<1>3. buffer \in Tokens
  BY <1>2 DEF BufferNonempty, TypeOK, Tokens
<1>4. Top \in Tokens
  BY <1>2, TopOfStack
<1> QED BY <1>1, <1>3, <1>4 DEF OracleLabel

\* The label of an action of the action space, where it needs one.
LEMMA ActionLabelTyped ==
  ASSUME NEW a \in Actions, a.kind \in {"LeftArc", "RightArc"}
  PROVE  a.label \in Labels
  BY DEF Actions, ArcLabels

LEMMA InitOK == Init => IInv
<1>1. ASSUME Init PROVE len \in 0 .. MaxLen /\ phase \in Phases /\ GoldKnown
  BY <1>1 DEF Init, Phases, GoldKnown
<1> QED BY <1>1, FreshConfig DEF Init, IInv, ConfigOK

LEMMA StepOK ==
  ASSUME IInv, [Next]_vars
  PROVE  IInv'
<1>0. ConfigOK /\ GoldKnown /\ phase \in Phases
  BY DEF IInv, ConfigOK, TypeOK
<1>1. CASE Predict
  <2>1. /\ len' = len /\ gold' = gold /\ phase' = phase
        /\ \E a \in Actions : Apply(a.kind, a.label)
    BY <1>1 DEF Predict
  <2>2. ConfigOK'
    BY <1>0, <2>1, ActionLabelTyped, ApplyKeeps
  <2> QED BY <1>0, <2>1, <2>2 DEF IInv, ConfigOK, GoldKnown
<1>2. CASE FinishParse
  <2>1. UNCHANGED <<len, config>> /\ phase' = "parsed"
    BY <1>2 DEF FinishParse, config
  <2>2. ConfigOK'
    BY <1>0, <2>1, RestKeeps DEF Phases
  <2> QED BY <2>1, <2>2 DEF IInv, ConfigOK, GoldKnown
<1>3. CASE Derive
  <2>0. len' = len /\ gold' = gold /\ phase = "deriving" /\ gold \in SentenceParses(len)
    BY <1>3, <1>0 DEF Derive, GoldKnown
  <2>1. CASE Apply(OracleKind, OracleLabel) /\ phase' = phase
    <3>1. ConfigOK'
      BY <1>0, <2>0, <2>1, OracleLabelTyped, ApplyKeeps DEF ConfigOK
    <3> QED BY <2>0, <3>1 DEF IInv, ConfigOK, GoldKnown, SentenceParses
  <2>2. CASE phase' = "panicked" /\ UNCHANGED config
    <3>1. ConfigOK'
      BY <1>0, <2>0, <2>2, RestKeeps DEF Phases
    <3> QED BY <2>0, <3>1 DEF IInv, ConfigOK, GoldKnown, SentenceParses
  <2> QED BY <1>3, <2>1, <2>2 DEF Derive
<1>4. CASE DeriveError
  <2>1. UNCHANGED <<len, config>> /\ gold' = gold /\ phase' = "dropped" /\ phase = "deriving"
    BY <1>4 DEF DeriveError, config
  <2>2. ConfigOK'
    BY <1>0, <2>1, RestKeeps DEF Phases
  <2> QED BY <1>0, <2>1, <2>2 DEF IInv, ConfigOK, GoldKnown, SentenceParses
<1>5. CASE Derived
  <2>1. /\ len' = len /\ gold' = gold /\ phase = "deriving" /\ phase' = "training"
        /\ stack' = << >> /\ buffer' = 1
        /\ head' = Unassigned /\ relation' = Unassigned /\ bounds' = Childless
    BY <1>5 DEF Derived
  <2>2. /\ head' = Unassigned' /\ relation' = Unassigned' /\ bounds' = Childless'
        /\ len' \in 0 .. MaxLen /\ phase' \in Phases
    BY <1>0, <2>1 DEF Unassigned, Childless, Tokens, ConfigOK, TypeOK, Phases
  <2>3. TypeOK'
    BY <2>1, <2>2, ParserAssumption DEF TypeOK, Unassigned, Childless
  <2>4. \A t \in Tokens' : head'[t] = None /\ ~(t < buffer')
    BY <2>1, <2>2 DEF Unassigned, Tokens
  <2>5. Shape(head, stack, buffer)'
    BY <2>1, <2>4 DEF Shape, Ascending, BehindFront, UnattachedHeld, ArcsBehindFront,
      StackUncovered, Projective
  <2> QED BY <1>0, <2>1, <2>3, <2>5 DEF IInv, ConfigOK, GoldKnown, SentenceParses
<1>6. CASE Train
  <2>0. /\ len' = len /\ gold' = gold /\ phase = "training"
        /\ \/ phase' = "unindexed" /\ UNCHANGED config
           \/ \E a \in Actions : Apply(a.kind, a.label) /\ phase' = phase
           \/ phase' = "abandoned" /\ UNCHANGED config
    BY <1>6 DEF Train
  <2>1. ConfigOK'
    <3>1. CASE UNCHANGED config /\ phase' \in Phases
      BY <1>0, <2>0, <3>1, RestKeeps
    <3>2. CASE \E a \in Actions : Apply(a.kind, a.label) /\ phase' = phase
      BY <1>0, <2>0, <3>2, ActionLabelTyped, ApplyKeeps
    <3> QED BY <2>0, <3>1, <3>2 DEF Phases
  <2> QED BY <1>0, <2>0, <2>1 DEF IInv, ConfigOK, GoldKnown, SentenceParses
<1>7. CASE FinishTrain
  <2>1. UNCHANGED <<len, config>> /\ gold' = gold /\ phase' = "matched" /\ phase = "training"
    BY <1>7 DEF FinishTrain, config
  <2>2. ConfigOK'
    BY <1>0, <2>1, RestKeeps DEF Phases
  <2> QED BY <1>0, <2>1, <2>2 DEF IInv, ConfigOK, GoldKnown, SentenceParses
<1>8. CASE UNCHANGED vars
  <2>1. UNCHANGED <<len, config>> /\ gold' = gold /\ phase' = phase
    BY <1>8 DEF vars
  <2>2. ConfigOK'
    BY <1>0, <2>1, RestKeeps
  <2> QED BY <1>0, <2>1, <2>2 DEF IInv, ConfigOK, GoldKnown, SentenceParses
<1> QED BY <1>1, <1>2, <1>3, <1>4, <1>5, <1>6, <1>7, <1>8 DEF Next

\* The inductive invariant: types, the gold tree's, and the shape of the
\* stack and the arcs, in every configuration of every loop.
THEOREM Inductive == Spec => []IInv
<1>1. IInv /\ [Next]_vars => IInv'
  BY StepOK
<1> QED BY InitOK, <1>1, PTL DEF Spec

\* Every variable has its type, whatever the scores and the gold trees:
\* heads are tokens of the sentence, and the front never leaves the buffer.
THEOREM TypeCorrect == Spec => []TypeOK
<1>1. IInv => TypeOK
  BY DEF IInv
<1> QED BY <1>1, Inductive, PTL

\* No configuration of the parser, of derive() or of train_sentence() has
\* two arcs that cross or an unattached token under an arc.
THEOREM ArcsProjective == Spec => []ArcsNeverCross
<1>1. IInv => ArcsNeverCross
  BY DEF IInv, Shape, ArcsNeverCross
<1> QED BY <1>1, Inductive, PTL
-----------------------------------------------------------------------------
(***************************************************************************)
(* The trees.  An attached token of the stack has its head on its left     *)
(* (HeadsLeft), which is why an arc to the front never closes a cycle.     *)
(* When the oracle drives, every arc is a gold one (GoldArcs), and while   *)
(* the gold tree is derivable no end of a gold arc still to be drawn has   *)
(* been popped, nor are both behind the front (WithinReach).               *)
(***************************************************************************)
HeadsLeft(H, s) == \A i \in DOMAIN s : H[s[i]] # None => H[s[i]] < s[i]
ScannedBounds(H, B) == \A p \in Tokens : ScannedBound(H, B[p], p)
Forest(H, s, B) == HeadsLeft(H, s) /\ Acyclic(H) /\ ScannedBounds(H, B)

Guided == phase \in {"deriving", "training"}
GoldArcs ==
  \A t \in Tokens : head[t] # None =>
    head[t] = gold[t].head /\ relation[t] = gold[t].relation

OnStack(s, t) == \E i \in DOMAIN s : s[i] = t
WithinReach(G, H, s, b) ==
  \A t \in Tokens : G[t] # None /\ H[t] = None =>
    /\ t >= b \/ G[t] >= b
    /\ G[t] >= b \/ OnStack(s, G[t])

Oracle == Guided => GoldArcs /\ (Derivable => WithinReach(GoldHeads, head, stack, buffer))

TreeInv == IInv /\ Forest(head, stack, bounds) /\ Oracle /\ DerivesTheProjectiveTrees

\* A head inside the arc it hangs from would close a cycle: the arc's span
\* would hold all its heads.
LEMMA CoveredLoop ==
  ASSUME NEW n \in Nat, len = n, None \notin Nat,
         NEW G \in [Tokens -> Tokens \cup {None}], Projective(G), Acyclic(G),
         NEW t \in Tokens, NEW h \in Tokens, G[t] = h, G[h] \in Between(t, h)
  PROVE  FALSE
<1> DEFINE span == Between(t, h) \cup {t, h}
<1>t. Tokens \subseteq Nat /\ None \notin Tokens
  BY DEF Tokens
<1>1. span \in (SUBSET Tokens) \ {{}}
  BY DEF Between
<1>2. ASSUME NEW u \in Between(t, h) PROVE G[u] \in span
  <2>1. u \in Tokens /\ u # t /\ u # h
    BY <1>2, <1>t DEF Between
  <2>2. G[u] # None /\ G[t] # None
    BY <1>2, <1>t DEF Projective
  <2>3. ~Crossing(t, h, u, G[u])
    BY <2>1, <2>2 DEF Projective
  <2>4. G[u] \in {t, h} \/ G[u] \in Between(t, h)
    BY <1>2, <2>1, <2>3 DEF Crossing
  <2> QED BY <2>4
<1>3. \A u \in span : G[u] \in span
  BY <1>2
<1> HIDE DEF span
<1> QED BY <1>1, <1>3 DEF Acyclic

\* What the next configuration needs, over the tokens of this sentence.
LEMMA SameTrees ==
  ASSUME len' = len, Forest(head', stack', bounds')
  PROVE  Forest(head, stack, bounds)'
<1>1. Tokens' = Tokens
  BY DEF Tokens
<1> QED BY <1>1 DEF Forest, HeadsLeft, Acyclic, ScannedBounds, ScannedBound

\* Recording a child keeps the bounds of every token those of a scan.
LEMMA AttachScans ==
  ASSUME ConfigOK, ScannedBounds(head, bounds), NEW child \in Tokens, NEW parent \in Tokens, NEW label,
         Attach(child, parent, label), head[child] = None
  PROVE  ScannedBounds(head', bounds')
<1>0. /\ head \in [Tokens -> Tokens \cup {None}] /\ Tokens \subseteq Nat /\ None \notin Tokens
      /\ bounds \in [Tokens -> [left : Tokens \cup {None}, right : Tokens \cup {None}]]
  BY ParserAssumption DEF ConfigOK, TypeOK, Tokens
<1>1. SUFFICES ASSUME NEW p \in Tokens PROVE ScannedBound(head', bounds'[p], p)
  BY DEF ScannedBounds
<1> DEFINE before == {t \in Tokens : head[t] = p}
           after == {t \in Tokens : head'[t] = p}
<1>2. ScannedBound(head, bounds[p], p)
  BY DEF ScannedBounds
<1>3. CASE p # parent
  <2>1. bounds'[p] = bounds[p]
    BY <1>0, <1>3 DEF Attach
  <2>2. after = before
    BY <1>0, <1>3 DEF Attach
  <2> QED BY <1>2, <2>1, <2>2 DEF ScannedBound
<1>4. CASE p = parent
  <2>1. after = before \cup {child}
    BY <1>0, <1>4 DEF Attach
  <2>2. bounds'[p] = Widened(bounds[p], child)
    BY <1>0, <1>4 DEF Attach
  <2> DEFINE bound == bounds[p]
  <2>3. /\ bound.left \in Tokens \cup {None} /\ bound.right \in Tokens \cup {None}
        /\ before \subseteq Nat /\ child \in Nat
    BY <1>0
  <2>4. /\ (bound.left = None) = (before = {})
        /\ (bound.right = None) = (before = {})
        /\ before # {} => /\ bound.left \in before /\ bound.right \in before
                          /\ \A t \in before : bound.left <= t /\ t <= bound.right
    BY <1>2 DEF ScannedBound
  <2>5. /\ bounds'[p].left = IF bound.left = None \/ child < bound.left THEN child ELSE bound.left
        /\ bounds'[p].right = IF bound.right = None \/ child > bound.right THEN child ELSE bound.right
    BY <2>2 DEF Widened
  <2> HIDE DEF bound, before, after
  <2>6. /\ after # {} /\ bounds'[p].left \in after /\ bounds'[p].right \in after
        /\ bounds'[p].left # None /\ bounds'[p].right # None
    <3>1. CASE before = {}
      BY <2>1, <2>4, <2>5, <3>1, <1>0
    <3>2. CASE before # {}
      BY <2>1, <2>4, <2>5, <3>2, <1>0
    <3> QED BY <3>1, <3>2
  <2>7. ASSUME NEW t \in after PROVE bounds'[p].left <= t /\ t <= bounds'[p].right
    <3>1. CASE before = {}
      BY <2>1, <2>3, <2>4, <2>5, <2>7, <3>1
    <3>2. CASE before # {}
      <4>1. bound.left \in Nat /\ bound.right \in Nat /\ bound.left # None /\ bound.right # None
        BY <2>3, <2>4, <3>2
      <4>2. t = child \/ (t \in before /\ t \in Nat /\ bound.left <= t /\ t <= bound.right)
        BY <2>1, <2>3, <2>4, <2>7, <3>2
      <4> QED BY <2>3, <2>5, <4>1, <4>2
    <3> QED BY <3>1, <3>2
  <2> QED BY <2>6, <2>7 DEF ScannedBound, after
<1> QED BY <1>3, <1>4

LEMMA ShiftGrows ==
  ASSUME ConfigOK, Forest(head, stack, bounds), Shift
  PROVE  Forest(head', stack', bounds')
<1>1. /\ buffer \in Tokens /\ stack' = Append(stack, buffer) /\ head' = head /\ bounds' = bounds
      /\ stack \in Seq(Tokens)
  BY DEF Shift, IsAllowed, BufferNonempty, ConfigOK, TypeOK, Tokens
<1>2. head[buffer] = None
  BY <1>1 DEF ConfigOK, Shape, ArcsBehindFront, Tokens
<1>3. HeadsLeft(head, Append(stack, buffer))
  BY <1>1, <1>2, PushKeeps DEF Forest, HeadsLeft
<1> QED BY <1>1, <1>3 DEF Forest

LEMMA ReduceGrows ==
  ASSUME ConfigOK, Forest(head, stack, bounds), Reduce
  PROVE  Forest(head', stack', bounds')
<1>1. /\ stack # << >> /\ stack' = Pop /\ head' = head /\ bounds' = bounds /\ stack \in Seq(Tokens)
  BY DEF Reduce, IsAllowed, ConfigOK, TypeOK
<1>2. HeadsLeft(head, Pop)
  BY <1>1, PopKeeps DEF Forest, HeadsLeft, Pop
<1> QED BY <1>1, <1>2 DEF Forest

LEMMA LeftArcGrows ==
  ASSUME ConfigOK, Forest(head, stack, bounds), NEW label, LeftArc(label)
  PROVE  Forest(head', stack', bounds')
<1>0. /\ head \in [Tokens -> Tokens \cup {None}] /\ Tokens \subseteq Nat /\ None \notin Tokens
      /\ stack \in Seq(Tokens)
  BY ParserAssumption DEF ConfigOK, TypeOK, Tokens
<1>1. /\ stack # << >> /\ head[Top] = None /\ stack' = Pop /\ Attach(Top, buffer, label)
      /\ buffer \in Tokens
  BY DEF LeftArc, IsAllowed, BufferNonempty, ConfigOK, TypeOK, Tokens
<1>2. /\ Top \in Tokens /\ Len(stack) \in DOMAIN stack /\ stack[Len(stack)] = Top
      /\ Len(stack) \in Nat /\ DOMAIN stack = 1 .. Len(stack)
  BY <1>0, <1>1, TopOfStack DEF ConfigOK, Top
<1>3. Top < buffer /\ Top # buffer
  BY <1>0, <1>1, <1>2 DEF ConfigOK, Shape, BehindFront
<1>4. head' = [head EXCEPT ![Top] = buffer] /\ head[buffer] = None
  BY <1>0, <1>1 DEF Attach, ConfigOK, Shape, ArcsBehindFront
<1>5. HeadsLeft(head', Pop)
  <2>1. SUFFICES ASSUME NEW i \in DOMAIN Pop, head'[Pop[i]] # None
                 PROVE  head'[Pop[i]] < Pop[i]
    BY DEF HeadsLeft
  <2>2. i \in DOMAIN stack /\ Pop[i] = stack[i] /\ i < Len(stack)
    BY <1>0, <1>1, <2>1, PopKeeps DEF Pop
  <2>3. stack[i] < Top /\ stack[i] \in Tokens
    BY <1>0, <1>2, <2>2 DEF ConfigOK, Shape, Ascending
  <2>4. head'[stack[i]] = head[stack[i]]
    BY <1>0, <1>2, <1>4, <2>3
  <2> QED BY <2>1, <2>2, <2>4 DEF Forest, HeadsLeft
<1>6. Acyclic(head')
  <2>1. SUFFICES ASSUME NEW group \in (SUBSET Tokens) \ {{}}, \A t \in group : head'[t] \in group
                 PROVE  FALSE
    BY DEF Acyclic
  <2>2. CASE Top \in group
    <3>1. buffer \in group /\ head'[buffer] = None
      BY <1>0, <1>1, <1>2, <1>3, <1>4, <2>1, <2>2
    <3> QED BY <2>1, <3>1, <1>0
  <2>3. CASE Top \notin group
    <3>1. \A t \in group : head[t] \in group
      BY <1>0, <1>4, <2>1, <2>3
    <3> QED BY <3>1 DEF Forest, Acyclic
  <2> QED BY <2>2, <2>3
<1>7. ScannedBounds(head', bounds')
  BY <1>1, <1>2, AttachScans DEF Forest
<1> QED BY <1>1, <1>5, <1>6, <1>7 DEF Forest

LEMMA RightArcGrows ==
  ASSUME ConfigOK, Forest(head, stack, bounds), NEW label, RightArc(label)
  PROVE  Forest(head', stack', bounds')
<1>0. /\ head \in [Tokens -> Tokens \cup {None}] /\ Tokens \subseteq Nat /\ None \notin Tokens
      /\ stack \in Seq(Tokens)
  BY ParserAssumption DEF ConfigOK, TypeOK, Tokens
<1>1. /\ stack # << >> /\ stack' = Append(stack, buffer) /\ Attach(buffer, Top, label)
      /\ buffer \in Tokens
  BY DEF RightArc, IsAllowed, BufferNonempty, ConfigOK, TypeOK, Tokens
<1>2. /\ Top \in Tokens /\ Len(stack) \in DOMAIN stack /\ stack[Len(stack)] = Top
  BY <1>0, <1>1, TopOfStack DEF ConfigOK, Top
<1>3. Top < buffer
  BY <1>0, <1>1, <1>2 DEF ConfigOK, Shape, BehindFront
<1>4. head' = [head EXCEPT ![buffer] = Top] /\ head[buffer] = None
  BY <1>0, <1>1 DEF Attach, ConfigOK, Shape, ArcsBehindFront
<1>5. HeadsLeft(head', Append(stack, buffer))
  <2> DEFINE s == Append(stack, buffer)
  <2>1. /\ DOMAIN s = 1 .. Len(stack) + 1 /\ DOMAIN stack = 1 .. Len(stack) /\ Len(stack) \in Nat
        /\ \A i \in DOMAIN stack : s[i] = stack[i]
        /\ s[Len(stack) + 1] = buffer
    BY <1>0, <1>1, PushKeeps
  <2> HIDE DEF s
  <2>2. SUFFICES ASSUME NEW i \in DOMAIN s, head'[s[i]] # None PROVE head'[s[i]] < s[i]
    BY DEF HeadsLeft, s
  <2>3. CASE i = Len(stack) + 1
    BY <1>0, <1>1, <1>3, <1>4, <2>1, <2>3
  <2>4. CASE i \in DOMAIN stack
    <3>1. s[i] = stack[i] /\ stack[i] < buffer /\ stack[i] \in Tokens
      BY <1>0, <2>1, <2>4 DEF ConfigOK, Shape, BehindFront
    <3>2. head'[stack[i]] = head[stack[i]]
      BY <1>0, <1>1, <1>4, <3>1
    <3> QED BY <2>2, <2>4, <3>1, <3>2 DEF Forest, HeadsLeft
  <2> QED BY <2>1, <2>2, <2>3, <2>4
<1>6. Acyclic(head')
  <2>1. SUFFICES ASSUME NEW group \in (SUBSET Tokens) \ {{}}, \A t \in group : head'[t] \in group
                 PROVE  FALSE
    BY DEF Acyclic
  <2>2. CASE buffer \notin group
    <3>1. \A t \in group : head[t] \in group
      BY <1>0, <1>4, <2>1, <2>2
    <3> QED BY <3>1 DEF Forest, Acyclic
  <2>3. CASE buffer \in group
    <3> DEFINE left == {t \in group : t <= Top}
    <3>1. Top \in left
      BY <1>0, <1>1, <1>2, <1>4, <2>1, <2>3
    <3>2. ASSUME NEW t \in left PROVE head[t] \in left
      <4>1. t \in Tokens /\ t # buffer /\ t <= Top /\ t \in group
        <5>1. t \in group /\ t <= Top /\ t \in Tokens
          BY <2>1, <3>2
        <5> HIDE DEF left
        <5>2. t \in Nat /\ Top \in Nat /\ buffer \in Nat
          BY <1>0, <1>1, <1>2, <5>1
        <5> QED BY <1>3, <5>1, <5>2
      <4>2. head[t] \in group /\ head[t] \in Tokens /\ head[t] # None
        <5>1. head'[t] \in group
          BY <2>1, <4>1
        <5>2. head'[t] = head[t]
          BY <1>0, <1>4, <4>1
        <5> QED BY <1>0, <5>1, <5>2
      <4>3. CASE t = Top
        <5>1. head[Top] < Top
          BY <1>2, <4>2, <4>3 DEF Forest, HeadsLeft
        <5>2. head[t] = head[Top]
          BY <4>3
        <5>3. head[t] \in Nat /\ Top \in Nat
          BY <1>0, <1>2, <4>2
        <5>4. head[t] <= Top
          BY <5>1, <5>2, <5>3
        <5> QED BY <4>2, <5>4
      <4>4. CASE t # Top
        <5>1. Top \notin Between(t, head[t])
          BY <1>2, <4>1, <4>2 DEF ConfigOK, Shape, StackUncovered
        <5> QED BY <1>0, <1>2, <4>1, <4>2, <4>4, <5>1 DEF Between
      <4> QED BY <4>3, <4>4
    <3>3. left \in (SUBSET Tokens) \ {{}}
      BY <2>1, <3>1
    <3> HIDE DEF left
    <3> QED BY <3>2, <3>3 DEF Forest, Acyclic
  <2> QED BY <2>2, <2>3
<1>7. ScannedBounds(head', bounds')
  BY <1>1, <1>2, <1>4, AttachScans DEF Forest
<1> QED BY <1>1, <1>5, <1>6, <1>7 DEF Forest

\* Any transition keeps the forest.
LEMMA ApplyGrows ==
  ASSUME ConfigOK, Forest(head, stack, bounds), NEW kind, NEW label, Apply(kind, label), len' = len
  PROVE  Forest(head, stack, bounds)'
<1>1. Forest(head', stack', bounds')
  BY ShiftGrows, ReduceGrows, LeftArcGrows, RightArcGrows DEF Apply
<1> QED BY <1>1, SameTrees
-----------------------------------------------------------------------------
\* A gold tree assigns to each token another token or none.
LEMMA GoldTyped ==
  ASSUME TypeOK, gold \in SentenceParses(len)
  PROVE  /\ GoldHeads \in [Tokens -> Tokens \cup {None}]
         /\ \A t \in Tokens : GoldHeads[t] = gold[t].head /\ GoldHeads[t] # t
         /\ gold \in [Tokens -> [head : Tokens \cup {None}, relation : Labels]]
         /\ len \in Nat /\ Tokens = 1 .. len /\ None \notin Tokens
  BY ParserAssumption DEF SentenceParses, GoldHeads, Tokens, TypeOK

\* The oracle's transition is always allowed: a token that must still give
\* an arc to the front has no head, since its head would be the front.
LEMMA OracleAllowed ==
  ASSUME ConfigOK, HeadsLeft(head, stack), GoldArcs, gold \in SentenceParses(len), ~IsTerminal
  PROVE  IsAllowed(OracleKind)
<1>1. CASE OracleKind = "LeftArc"
  <2>1. stack # << >> /\ BufferNonempty /\ gold[Top].head = buffer
    BY <1>1 DEF OracleKind
  <2>2. Top \in Tokens /\ Len(stack) \in DOMAIN stack /\ stack[Len(stack)] = Top
    BY <2>1, TopOfStack DEF ConfigOK, Top
  <2>3. Top < buffer /\ Top \in Nat /\ buffer \in Nat
    BY <2>2 DEF ConfigOK, Shape, BehindFront, TypeOK, Tokens
  <2>4. head[Top] = None
    BY <2>1, <2>2, <2>3 DEF GoldArcs, HeadsLeft
  <2> QED BY <1>1, <2>1, <2>4 DEF IsAllowed
<1>2. CASE OracleKind = "RightArc"
  BY <1>2 DEF OracleKind, IsAllowed
<1>3. CASE OracleKind = "Reduce"
  BY <1>3 DEF OracleKind, IsAllowed
<1>4. CASE OracleKind = "Shift"
  <2>1. CASE ~BufferNonempty
    <3>1. stack # << >> /\ head[Top] # None
      BY <2>1 DEF IsTerminal
    <3>2. ~HasRemainingGoldChild(Top)
      BY <2>1 DEF HasRemainingGoldChild, BufferNonempty, ConfigOK, TypeOK
    <3> QED BY <1>4, <2>1, <3>1, <3>2 DEF OracleKind
  <2> QED BY <1>4, <2>1 DEF IsAllowed
<1> QED BY <1>1, <1>2, <1>3, <1>4 DEF OracleKind

\* What the oracle draws is gold.
LEMMA DrawsGold ==
  ASSUME ConfigOK, GoldArcs, gold \in SentenceParses(len), Apply(OracleKind, OracleLabel)
  PROVE  \A t \in Tokens : head'[t] # None =>
           head'[t] = gold[t].head /\ relation'[t] = gold[t].relation
<1>0. /\ head \in [Tokens -> Tokens \cup {None}]
      /\ relation \in [Tokens -> Labels \cup {None}]
  BY DEF ConfigOK, TypeOK
<1>1. CASE OracleKind = "LeftArc"
  <2>1. stack # << >> /\ BufferNonempty /\ gold[Top].head = buffer /\ LeftArc(gold[Top].relation)
    BY <1>1 DEF OracleKind, OracleLabel, Apply
  <2>2. Top \in Tokens
    BY <2>1, TopOfStack DEF ConfigOK
  <2>3. head' = [head EXCEPT ![Top] = buffer] /\ relation' = [relation EXCEPT ![Top] = gold[Top].relation]
    BY <2>1 DEF LeftArc, Attach
  <2> QED BY <1>0, <2>1, <2>2, <2>3 DEF GoldArcs
<1>2. CASE OracleKind = "RightArc"
  <2>1. stack # << >> /\ BufferNonempty /\ gold[buffer].head = Top /\ RightArc(gold[buffer].relation)
    BY <1>2 DEF OracleKind, OracleLabel, Apply
  <2>2. buffer \in Tokens
    BY <2>1 DEF BufferNonempty, ConfigOK, TypeOK, Tokens
  <2>3. head' = [head EXCEPT ![buffer] = Top] /\ relation' = [relation EXCEPT ![buffer] = gold[buffer].relation]
    BY <2>1 DEF RightArc, Attach
  <2> QED BY <1>0, <2>1, <2>2, <2>3 DEF GoldArcs
<1>3. CASE OracleKind \in {"Shift", "Reduce"}
  <2>1. head' = head /\ relation' = relation
    BY <1>3 DEF Apply, Shift, Reduce
  <2> QED BY <2>1 DEF GoldArcs
<1> QED BY <1>1, <1>2, <1>3 DEF OracleKind

\* The oracle does not shift while a gold arc of the front spans the top: the
\* top would be done, or a token beyond the front would cross that arc.
LEMMA NothingUnderFront ==
  ASSUME ConfigOK, GoldArcs, gold \in SentenceParses(len), Projective(GoldHeads),
         WithinReach(GoldHeads, head, stack, buffer),
         OracleKind = "Shift", BufferNonempty, stack # << >>,
         NEW t \in Tokens, NEW h \in Tokens, GoldHeads[t] = h, t = buffer \/ h = buffer,
         Top \in Between(t, h)
  PROVE  FALSE
<1> DEFINE G == GoldHeads
<1>0. /\ G \in [Tokens -> Tokens \cup {None}] /\ None \notin Tokens
      /\ \A u \in Tokens : G[u] = gold[u].head /\ G[u] # u
  BY GoldTyped DEF ConfigOK
<1>n. /\ Tokens \subseteq Nat /\ buffer \in Tokens /\ Top \in Tokens
  BY DEF ConfigOK, Between, BufferNonempty, TypeOK, Tokens
<1> HIDE DEF G
<1>1. G[Top] # buffer /\ G[buffer] # Top
  BY <1>0, <1>n DEF OracleKind
<1>2. G[Top] # None /\ ~Crossing(t, h, Top, G[Top])
  BY <1>0, <1>n DEF Projective, G
<1>3. Top < buffer
  <2>1. Len(stack) \in DOMAIN stack /\ stack[Len(stack)] = Top
    BY TopOfStack DEF ConfigOK, Top
  <2> QED BY <2>1 DEF ConfigOK, Shape, BehindFront
<1>4. \A u \in Tokens : u = t \/ u = h \/ u \in Between(t, h) => u <= buffer
  <2>1. (t < Top /\ Top < h) \/ (h < Top /\ Top < t)
    BY DEF Between
  <2>2. t <= buffer /\ h <= buffer
    BY <1>3, <1>n, <2>1
  <2> QED BY <1>n, <2>2 DEF Between
<1>5. G[Top] < buffer
  <2>1. Top # t /\ Top # h
    BY <1>n DEF Between
  <2>2. G[Top] = t \/ G[Top] = h \/ G[Top] \in Between(t, h)
    BY <1>2, <2>1 DEF Crossing
  <2>3. G[Top] \in Tokens
    BY <1>0, <1>n, <1>2
  <2>4. G[Top] <= buffer
    BY <1>4, <2>2, <2>3
  <2>5. G[Top] \in Nat /\ buffer \in Nat
    BY <1>n, <2>3
  <2> QED BY <1>1, <2>4, <2>5
<1>6. head[Top] # None
  <2>1. G[Top] \in Nat /\ Top \in Nat /\ buffer \in Nat
    BY <1>0, <1>n, <1>2
  <2>2. ~(Top >= buffer) /\ ~(G[Top] >= buffer)
    BY <1>3, <1>5, <2>1
  <2> QED BY <1>n, <1>2, <2>2 DEF WithinReach, G
<1>7. HasRemainingGoldChild(Top)
  BY <1>6 DEF OracleKind
<1>8. PICK c \in buffer .. len : gold[c].head = Top
  BY <1>7 DEF HasRemainingGoldChild
<1>9. c \in Tokens /\ G[c] = Top /\ c > buffer
  <2>1. c \in Tokens /\ c >= buffer
    BY <1>8, <1>n DEF Tokens, ConfigOK, TypeOK
  <2>2. G[c] = Top
    BY <1>0, <1>8, <2>1
  <2> QED BY <1>1, <1>n, <2>1, <2>2
<1>10. c # t /\ c # h /\ c \notin Between(t, h)
  BY <1>4, <1>9, <1>n
<1>11. ~Crossing(t, h, c, Top)
  BY <1>0, <1>n, <1>9 DEF Projective, G
<1>12. Top # t /\ Top # h
  BY <1>n DEF Between
<1> QED BY <1>10, <1>11, <1>12 DEF Crossing

\* In a derivable tree the oracle's transition leaves within reach both ends
\* of every gold arc still to be drawn.
DerivableState ==
  /\ ConfigOK /\ GoldArcs /\ gold \in SentenceParses(len) /\ Derivable
  /\ WithinReach(GoldHeads, head, stack, buffer)

LEMMA ShiftReaches ==
  ASSUME DerivableState, OracleKind = "Shift", Shift
  PROVE  WithinReach(GoldHeads, head', stack', buffer')
<1> DEFINE G == GoldHeads
<1>0. /\ G \in [Tokens -> Tokens \cup {None}] /\ None \notin Tokens
      /\ \A u \in Tokens : G[u] = gold[u].head /\ G[u] # u
  BY GoldTyped DEF DerivableState, ConfigOK
<1>n. /\ Tokens \subseteq Nat /\ buffer \in Tokens /\ buffer \in Nat /\ BufferNonempty
      /\ head' = head /\ stack' = Append(stack, buffer) /\ buffer' = buffer + 1
      /\ stack \in Seq(Tokens)
  BY DEF Shift, IsAllowed, BufferNonempty, DerivableState, ConfigOK, TypeOK, Tokens
<1>s. \A u : OnStack(stack, u) \/ u = buffer => OnStack(stack', u)
  BY <1>n, PushKeeps DEF OnStack
<1>w. WithinReach(G, head, stack, buffer)
  BY DEF DerivableState
<1>u. \A u \in Tokens : OnStack(stack, u) => stack # << >> /\ u <= Top
  <2>1. SUFFICES ASSUME NEW u \in Tokens, OnStack(stack, u) PROVE stack # << >> /\ u <= Top
    OBVIOUS
  <2>2. stack # << >>
    BY <2>1 DEF OnStack
  <2> QED BY <2>1, <2>2, TopOfStack DEF OnStack, DerivableState, ConfigOK, Shape
<1> HIDE DEF G
<1>1. SUFFICES ASSUME NEW t \in Tokens, G[t] # None, head[t] = None
               PROVE  /\ t >= buffer + 1 \/ G[t] >= buffer + 1
                      /\ G[t] >= buffer + 1 \/ OnStack(stack', G[t])
  BY <1>n DEF WithinReach, G
<1>2. /\ G[t] \in Tokens /\ G[t] \in Nat /\ t \in Nat
      /\ t >= buffer \/ G[t] >= buffer
      /\ G[t] >= buffer \/ OnStack(stack, G[t])
  BY <1>0, <1>1, <1>n, <1>w DEF WithinReach
<1>3. G[t] >= buffer + 1 \/ OnStack(stack', G[t])
  BY <1>2, <1>n, <1>s
<1>4. ASSUME ~(t >= buffer + 1), ~(G[t] >= buffer + 1) PROVE FALSE
  <2> DEFINE other == IF t = buffer THEN G[t] ELSE t
  <2>1. /\ t = buffer \/ G[t] = buffer
        /\ other \in Tokens /\ other \in Nat /\ other < buffer /\ OnStack(stack, other)
        /\ {other, buffer} = {t, G[t]}
    <3>1. CASE t = buffer
      <4>1. G[t] # t /\ G[t] < buffer
        BY <1>0, <1>2, <1>4, <1>n, <3>1
      <4> QED BY <1>2, <1>n, <3>1, <4>1
    <3>2. CASE t # buffer
      <4>1. G[t] = buffer /\ t < buffer
        BY <1>2, <1>4, <1>n, <3>2
      <4>2. OnStack(stack, t)
        BY <1>1, <4>1 DEF DerivableState, ConfigOK, Shape, UnattachedHeld, OnStack
      <4> QED BY <1>2, <1>n, <3>2, <4>1, <4>2
    <3> QED BY <3>1, <3>2
  <2>2. stack # << >> /\ other <= Top /\ Top \in Tokens /\ Top \in Nat /\ Top < buffer
    <3>1. stack # << >> /\ other <= Top
      BY <1>u, <2>1
    <3>2. Len(stack) \in DOMAIN stack /\ stack[Len(stack)] = Top /\ Top \in Tokens
      BY <3>1, TopOfStack DEF DerivableState, ConfigOK, Top
    <3> QED BY <3>1, <3>2, <1>n DEF DerivableState, ConfigOK, Shape, BehindFront
  <2>3. other # Top
    <3>1. G[Top] # buffer /\ G[buffer] # Top
      BY <1>0, <1>n, <2>2 DEF OracleKind
    <3> QED BY <2>1, <3>1
  <2>4. Top \in Between(t, G[t])
    BY <1>2, <1>n, <2>1, <2>2, <2>3 DEF Between
  <2> QED BY <1>2, <1>n, <2>1, <2>2, <2>4, NothingUnderFront DEF DerivableState, Derivable, G
<1> QED BY <1>3, <1>4

\* A pop loses the top only.
LEMMA PoppedHolds ==
  ASSUME NEW S, stack \in Seq(S), stack # << >>
  PROVE  \A u : OnStack(stack, u) /\ u # Top => OnStack(Pop, u)
<1>1. SUFFICES ASSUME NEW u, OnStack(stack, u), u # Top PROVE OnStack(Pop, u)
  OBVIOUS
<1>2. PICK i \in DOMAIN stack : stack[i] = u
  BY <1>1 DEF OnStack
<1>3. i \in 1 .. Len(stack) - 1
  BY <1>1, <1>2 DEF Top
<1>4. i \in DOMAIN Pop /\ Pop[i] = u
  BY <1>2, <1>3, PopKeeps DEF Pop
<1> QED BY <1>4 DEF OnStack

LEMMA ReduceReaches ==
  ASSUME DerivableState, OracleKind = "Reduce", Reduce
  PROVE  WithinReach(GoldHeads, head', stack', buffer')
<1> DEFINE G == GoldHeads
<1>0. \A u \in Tokens : G[u] = gold[u].head
  BY GoldTyped DEF DerivableState, ConfigOK
<1>n. /\ Tokens = 1 .. len /\ len \in Nat /\ buffer \in Nat /\ stack # << >>
      /\ head' = head /\ stack' = Pop /\ buffer' = buffer /\ stack \in Seq(Tokens)
  BY DEF Reduce, IsAllowed, DerivableState, ConfigOK, TypeOK, Tokens
<1>s. \A u : OnStack(stack, u) /\ u # Top => OnStack(Pop, u)
  BY <1>n, PoppedHolds
<1>w. WithinReach(G, head, stack, buffer)
  BY DEF DerivableState
<1> HIDE DEF G
<1>1. SUFFICES ASSUME NEW t \in Tokens, G[t] # None, head[t] = None
               PROVE  /\ t >= buffer \/ G[t] >= buffer
                      /\ G[t] >= buffer \/ OnStack(Pop, G[t])
  BY <1>n DEF WithinReach, G
<1>2. /\ t >= buffer \/ G[t] >= buffer
      /\ G[t] >= buffer \/ OnStack(stack, G[t])
  BY <1>1, <1>w DEF WithinReach
<1>3. ASSUME ~(G[t] >= buffer), G[t] = Top PROVE FALSE
  <2>1. t \in buffer .. len /\ gold[t].head = Top
    BY <1>0, <1>2, <1>3, <1>n
  <2>2. ~HasRemainingGoldChild(Top)
    BY DEF OracleKind
  <2> QED BY <2>1, <2>2 DEF HasRemainingGoldChild
<1> QED BY <1>2, <1>3, <1>s

LEMMA LeftArcReaches ==
  ASSUME DerivableState, OracleKind = "LeftArc", NEW label, LeftArc(label)
  PROVE  WithinReach(GoldHeads, head', stack', buffer')
<1> DEFINE G == GoldHeads
<1>0. /\ G \in [Tokens -> Tokens \cup {None}] /\ None \notin Tokens
      /\ \A u \in Tokens : G[u] = gold[u].head /\ G[u] # u
      /\ len \in Nat /\ None \notin Nat /\ Projective(G) /\ Acyclic(G)
      /\ head \in [Tokens -> Tokens \cup {None}]
  BY GoldTyped, ParserAssumption DEF DerivableState, ConfigOK, Derivable, TypeOK
<1>n. /\ Tokens \subseteq Nat /\ buffer \in Tokens /\ buffer \in Nat /\ stack # << >>
      /\ stack' = Pop /\ buffer' = buffer /\ stack \in Seq(Tokens)
      /\ head' = [head EXCEPT ![Top] = buffer]
  BY DEF LeftArc, Attach, IsAllowed, BufferNonempty, DerivableState, ConfigOK, TypeOK, Tokens
<1>t. Top \in Tokens /\ Top \in Nat /\ Top < buffer /\ G[Top] = buffer
  <2>1. Len(stack) \in DOMAIN stack /\ stack[Len(stack)] = Top /\ Top \in Tokens
    BY <1>n, TopOfStack DEF DerivableState, ConfigOK, Top
  <2>2. Top < buffer
    BY <2>1 DEF DerivableState, ConfigOK, Shape, BehindFront
  <2> QED BY <1>0, <1>n, <2>1, <2>2 DEF OracleKind
<1>s. \A u : OnStack(stack, u) /\ u # Top => OnStack(Pop, u)
  BY <1>n, PoppedHolds
<1>w. WithinReach(G, head, stack, buffer)
  BY DEF DerivableState
<1> HIDE DEF G
<1>1. SUFFICES ASSUME NEW t \in Tokens, G[t] # None, head'[t] = None
               PROVE  /\ t >= buffer \/ G[t] >= buffer
                      /\ G[t] >= buffer \/ OnStack(Pop, G[t])
  BY <1>n DEF WithinReach, G
<1>2. head[t] = None /\ t # Top
  BY <1>0, <1>1, <1>n, <1>t
<1>3. /\ t >= buffer \/ G[t] >= buffer
      /\ G[t] >= buffer \/ OnStack(stack, G[t])
  BY <1>1, <1>2, <1>w DEF WithinReach
<1>4. ASSUME ~(G[t] >= buffer), G[t] = Top PROVE FALSE
  <2>1. CASE t = buffer
    <3>1. \A u \in {Top, buffer} : G[u] \in {Top, buffer}
      BY <1>4, <1>t, <2>1
    <3>2. {Top, buffer} \in (SUBSET Tokens) \ {{}}
      BY <1>n, <1>t
    <3> QED BY <1>0, <3>1, <3>2 DEF Acyclic
  <2>2. CASE t # buffer
    <3>1. buffer \in Between(t, Top)
      BY <1>3, <1>4, <1>n, <1>t, <2>2 DEF Between
    <3> QED BY <1>0, <1>4, <1>t, <3>1, CoveredLoop
  <2> QED BY <2>1, <2>2
<1> QED BY <1>3, <1>4, <1>s

LEMMA RightArcReaches ==
  ASSUME DerivableState, OracleKind = "RightArc", NEW label, RightArc(label)
  PROVE  WithinReach(GoldHeads, head', stack', buffer')
<1> DEFINE G == GoldHeads
<1>0. /\ G \in [Tokens -> Tokens \cup {None}] /\ None \notin Tokens
      /\ \A u \in Tokens : G[u] = gold[u].head /\ G[u] # u
      /\ len \in Nat /\ None \notin Nat /\ Projective(G) /\ Acyclic(G)
      /\ head \in [Tokens -> Tokens \cup {None}]
  BY GoldTyped, ParserAssumption DEF DerivableState, ConfigOK, Derivable, TypeOK
<1>n. /\ Tokens \subseteq Nat /\ buffer \in Tokens /\ buffer \in Nat /\ stack # << >>
      /\ stack' = Append(stack, buffer) /\ buffer' = buffer + 1 /\ stack \in Seq(Tokens)
      /\ head' = [head EXCEPT ![buffer] = Top]
  BY DEF RightArc, Attach, IsAllowed, BufferNonempty, DerivableState, ConfigOK, TypeOK, Tokens
<1>t. Top \in Tokens /\ Top \in Nat /\ Top < buffer /\ G[buffer] = Top /\ G[Top] # buffer
  <2>1. Len(stack) \in DOMAIN stack /\ stack[Len(stack)] = Top /\ Top \in Tokens
    BY <1>n, TopOfStack DEF DerivableState, ConfigOK, Top
  <2>2. Top < buffer
    BY <2>1 DEF DerivableState, ConfigOK, Shape, BehindFront
  <2> QED BY <1>0, <1>n, <2>1, <2>2 DEF OracleKind
<1>s. \A u : OnStack(stack, u) \/ u = buffer => OnStack(stack', u)
  BY <1>n, PushKeeps DEF OnStack
<1>w. WithinReach(G, head, stack, buffer)
  BY DEF DerivableState
<1> HIDE DEF G
<1>1. SUFFICES ASSUME NEW t \in Tokens, G[t] # None, head'[t] = None
               PROVE  /\ t >= buffer + 1 \/ G[t] >= buffer + 1
                      /\ G[t] >= buffer + 1 \/ OnStack(stack', G[t])
  BY <1>n DEF WithinReach, G
<1>2. head[t] = None /\ t # buffer
  BY <1>0, <1>1, <1>n, <1>t
<1>3. /\ G[t] \in Nat /\ t \in Nat /\ G[t] \in Tokens
      /\ t >= buffer \/ G[t] >= buffer
      /\ G[t] >= buffer \/ OnStack(stack, G[t])
  BY <1>0, <1>1, <1>2, <1>n, <1>w DEF WithinReach
<1>4. G[t] >= buffer + 1 \/ OnStack(stack', G[t])
  BY <1>3, <1>n, <1>s
<1>5. ASSUME ~(t >= buffer + 1), ~(G[t] >= buffer + 1) PROVE FALSE
  <2>1. G[t] = buffer /\ t < buffer
    BY <1>2, <1>3, <1>5, <1>n
  <2>2. OnStack(stack, t)
    BY <1>2, <2>1 DEF DerivableState, ConfigOK, Shape, UnattachedHeld, OnStack
  <2>3. t <= Top
    BY <1>n, <2>2, TopOfStack DEF OnStack, DerivableState, ConfigOK, Shape
  <2>4. Top \in Between(t, buffer)
    BY <1>3, <1>n, <1>t, <2>1, <2>3 DEF Between
  <2> QED BY <1>0, <1>n, <1>t, <2>1, <2>4, CoveredLoop
<1> QED BY <1>4, <1>5

LEMMA OracleReaches ==
  ASSUME DerivableState, Apply(OracleKind, OracleLabel)
  PROVE  WithinReach(GoldHeads, head', stack', buffer')
<1>1. CASE OracleKind = "Shift" /\ Shift
  BY <1>1, ShiftReaches
<1>2. CASE OracleKind = "Reduce" /\ Reduce
  BY <1>2, ReduceReaches
<1>3. CASE OracleKind = "LeftArc" /\ LeftArc(OracleLabel)
  BY <1>3, LeftArcReaches
<1>4. CASE OracleKind = "RightArc" /\ RightArc(OracleLabel)
  BY <1>4, RightArcReaches
<1> QED BY <1>1, <1>2, <1>3, <1>4 DEF Apply

-----------------------------------------------------------------------------
\* A terminal replay of a derivable tree has drawn all of it.
LEMMA TerminalReproduces ==
  ASSUME DerivableState, IsTerminal
  PROVE  ReproducesGold
<1>1. SUFFICES ASSUME NEW t \in Tokens
               PROVE  /\ head[t] = gold[t].head
                      /\ gold[t].relation = IF head[t] = None THEN Root ELSE relation[t]
  BY DEF ReproducesGold
<1>2. CASE head[t] # None
  BY <1>2 DEF DerivableState, GoldArcs
<1>3. CASE head[t] = None
  <2>1. /\ GoldHeads[t] = gold[t].head /\ GoldHeads[t] \in Tokens \cup {None}
        /\ Tokens = 1 .. len /\ len \in Nat
    BY GoldTyped DEF DerivableState, ConfigOK
  <2>2. buffer > len /\ buffer \in Nat
    BY DEF DerivableState, IsTerminal, BufferNonempty, ConfigOK, TypeOK
  <2>3. GoldHeads[t] = None
    BY <1>3, <2>1, <2>2 DEF DerivableState, WithinReach
  <2> QED BY <1>3, <2>1, <2>3 DEF DerivableState, Derivable, RootsAreLabelled
<1> QED BY <1>2, <1>3

\* A tree some replay reproduces is derivable, for its arcs are the replay's.
LEMMA ReproducedIsDerivable ==
  ASSUME ConfigOK, Acyclic(head), gold \in SentenceParses(len), ReproducesGold
  PROVE  Derivable
<1>1. GoldHeads = head
  <2>1. head \in [Tokens -> Tokens \cup {None}] /\ \A t \in Tokens : head[t] = gold[t].head
    BY DEF ConfigOK, TypeOK, ReproducesGold
  <2> QED BY <2>1 DEF GoldHeads
<1>2. Projective(head)
  BY DEF ConfigOK, Shape
<1>3. RootsAreLabelled
  BY DEF RootsAreLabelled, ReproducesGold
<1> QED BY <1>1, <1>2, <1>3 DEF Derivable

\* Before the first transition everything is within reach.
LEMMA FreshTrees ==
  ASSUME len \in Nat
  PROVE  /\ Forest(Unassigned, << >>, Childless)
         /\ \A t \in Tokens : Unassigned[t] = None
         /\ \A G \in [Tokens -> Tokens \cup {None}] : WithinReach(G, Unassigned, << >>, 1)
<1>1. /\ \A t \in Tokens : Unassigned[t] = None
      /\ \A t \in Tokens : Childless[t].left = None /\ Childless[t].right = None
      /\ \A t \in Tokens : t \in Nat /\ t >= 1
      /\ None \notin Tokens
  BY ParserAssumption DEF Unassigned, Childless, Tokens
<1>2. Acyclic(Unassigned)
  <2>1. SUFFICES ASSUME NEW group \in (SUBSET Tokens) \ {{}}
                 PROVE  \E t \in group : Unassigned[t] \notin group
    BY DEF Acyclic
  <2>2. PICK t \in group : t \in Tokens
    BY <2>1
  <2> QED BY <1>1, <2>1, <2>2
<1>3. ScannedBounds(Unassigned, Childless)
  BY <1>1 DEF ScannedBounds, ScannedBound
<1>4. HeadsLeft(Unassigned, << >>)
  BY DEF HeadsLeft
<1>5. \A G \in [Tokens -> Tokens \cup {None}] : WithinReach(G, Unassigned, << >>, 1)
  <2>1. SUFFICES ASSUME NEW G \in [Tokens -> Tokens \cup {None}], NEW t \in Tokens, G[t] # None
                 PROVE  t >= 1 /\ G[t] >= 1
    BY DEF WithinReach
  <2> QED BY <1>1, <2>1
<1> QED BY <1>1, <1>2, <1>3, <1>4, <1>5 DEF Forest

LEMMA TreeInitOK ==
  ASSUME Init
  PROVE  TreeInv
<1>1. IInv
  BY InitOK
<1>2. /\ stack = << >> /\ buffer = 1 /\ head = Unassigned /\ bounds = Childless
      /\ phase \in {"parsing", "deriving"}
  BY DEF Init
<1>3. TypeOK /\ len \in Nat
  BY <1>1 DEF IInv, TypeOK
<1>4. /\ Forest(head, stack, bounds) /\ GoldArcs
      /\ \A G \in [Tokens -> Tokens \cup {None}] : WithinReach(G, head, stack, buffer)
  BY <1>2, <1>3, FreshTrees DEF GoldArcs
<1>5. Guided => GoldHeads \in [Tokens -> Tokens \cup {None}]
  BY <1>1, <1>3, GoldTyped DEF IInv, GoldKnown, Guided
<1>6. Oracle
  BY <1>4, <1>5 DEF Oracle
<1> QED BY <1>1, <1>2, <1>4, <1>6 DEF TreeInv, DerivesTheProjectiveTrees

\* The parts of the invariant that speak of the gold tree, in the next state.
LEMMA SameGold ==
  ASSUME UNCHANGED <<len, gold>>
  PROVE  /\ Tokens' = Tokens /\ GoldHeads' = GoldHeads /\ (Derivable' <=> Derivable)
  BY DEF Tokens, GoldHeads, Derivable, Projective, Acyclic, RootsAreLabelled, Between, Crossing

\* A step that leaves the configuration alone.
LEMMA RestGrows ==
  ASSUME UNCHANGED <<len, gold, config>>
  PROVE  /\ Forest(head, stack, bounds) => Forest(head, stack, bounds)'
         /\ GoldArcs => GoldArcs'
         /\ WithinReach(GoldHeads, head, stack, buffer)
              => WithinReach(GoldHeads, head, stack, buffer)'
         /\ ReproducesGold => ReproducesGold'
  BY SameGold DEF config, Forest, HeadsLeft, Acyclic, ScannedBounds, ScannedBound, GoldArcs,
    WithinReach, OnStack, ReproducesGold

\* A transition the oracle picked.
LEMMA OracleGrows ==
  ASSUME TreeInv, Guided, Apply(OracleKind, OracleLabel), UNCHANGED <<len, gold>>
  PROVE  /\ Forest(head, stack, bounds)' /\ GoldArcs'
         /\ Derivable' => WithinReach(GoldHeads, head, stack, buffer)'
<1>1. /\ ConfigOK /\ Forest(head, stack, bounds) /\ GoldArcs /\ gold \in SentenceParses(len)
      /\ Derivable => WithinReach(GoldHeads, head, stack, buffer)
  BY DEF TreeInv, IInv, ConfigOK, Oracle, Guided, GoldKnown
<1>2. Forest(head, stack, bounds)'
  BY <1>1, ApplyGrows
<1>3. GoldArcs'
  <2>1. \A t \in Tokens : head'[t] # None =>
          head'[t] = gold[t].head /\ relation'[t] = gold[t].relation
    BY <1>1, DrawsGold
  <2> QED BY <2>1, SameGold DEF GoldArcs
<1>4. Derivable' => WithinReach(GoldHeads, head, stack, buffer)'
  <2>1. Derivable => WithinReach(GoldHeads, head', stack', buffer')
    BY <1>1, OracleReaches DEF DerivableState
  <2> QED BY <2>1, SameGold DEF WithinReach, OnStack
<1> QED BY <1>2, <1>3, <1>4

LEMMA TreeStepOK ==
  ASSUME TreeInv, [Next]_vars
  PROVE  TreeInv'
<1>0. /\ IInv' /\ ConfigOK /\ GoldKnown /\ Forest(head, stack, bounds) /\ Oracle
      /\ DerivesTheProjectiveTrees
  BY StepOK DEF TreeInv, IInv, ConfigOK
<1>g. Guided => gold \in SentenceParses(len)
  BY <1>0 DEF GoldKnown, Guided
<1>1. CASE Predict
  <2>1. /\ phase = "parsing" /\ phase' = "parsing" /\ len' = len
        /\ \E a \in Actions : Apply(a.kind, a.label)
    BY <1>1 DEF Predict
  <2>2. Forest(head, stack, bounds)'
    BY <1>0, <2>1, ApplyGrows
  <2> QED BY <1>0, <2>1, <2>2 DEF TreeInv, Oracle, Guided, DerivesTheProjectiveTrees
<1>2. CASE FinishParse
  <2>1. phase' = "parsed" /\ UNCHANGED <<len, gold, config>>
    BY <1>2 DEF FinishParse
  <2> QED BY <1>0, <2>1, RestGrows DEF TreeInv, Oracle, Guided, DerivesTheProjectiveTrees
<1>3. CASE Derive
  <2>1. phase = "deriving" /\ ~IsTerminal /\ UNCHANGED <<len, gold>> /\ Guided
    BY <1>3 DEF Derive, Guided
  <2>2. IsAllowed(OracleKind)
    BY <1>0, <1>g, <2>1, OracleAllowed DEF Oracle, Forest
  <2>3. Apply(OracleKind, OracleLabel) /\ phase' = "deriving"
    BY <1>3, <2>1, <2>2 DEF Derive
  <2>4. /\ Forest(head, stack, bounds)' /\ GoldArcs'
        /\ Derivable' => WithinReach(GoldHeads, head, stack, buffer)'
    BY <2>1, <2>3, OracleGrows
  <2> QED BY <1>0, <2>3, <2>4 DEF TreeInv, Oracle, DerivesTheProjectiveTrees
<1>4. CASE DeriveError
  <2>1. /\ phase = "deriving" /\ IsTerminal /\ ~ReproducesGold
        /\ phase' = "dropped" /\ UNCHANGED <<len, gold, config>>
    BY <1>4 DEF DeriveError
  <2>2. ~Derivable
    BY <1>0, <1>g, <2>1, TerminalReproduces DEF Oracle, Guided, DerivableState
  <2>3. ~Derivable'
    BY <2>1, <2>2, SameGold
  <2> QED BY <1>0, <2>1, <2>3, RestGrows DEF TreeInv, Oracle, Guided, DerivesTheProjectiveTrees
<1>5. CASE Derived
  <2>1. /\ phase = "deriving" /\ ReproducesGold /\ phase' = "training" /\ UNCHANGED <<len, gold>>
        /\ stack' = << >> /\ buffer' = 1 /\ head' = Unassigned /\ bounds' = Childless
    BY <1>5 DEF Derived
  <2>2. Derivable
    BY <1>0, <1>g, <2>1, ReproducedIsDerivable DEF Guided, Forest
  <2>3. len \in Nat /\ GoldHeads \in [Tokens -> Tokens \cup {None}]
    BY <1>0, <1>g, <2>1, GoldTyped DEF ConfigOK, Guided, TypeOK
  <2>4. Forest(head, stack, bounds)'
    BY <2>1, <2>3, FreshTrees, SameTrees
  <2>5. GoldArcs'
    BY <2>1, <2>3, FreshTrees, SameGold DEF GoldArcs
  <2>6. WithinReach(GoldHeads, head, stack, buffer)'
    <3>1. WithinReach(GoldHeads, head', stack', buffer')
      BY <2>1, <2>3, FreshTrees
    <3> QED BY <2>1, <3>1, SameGold DEF WithinReach, OnStack
  <2>7. Derivable'
    BY <2>1, <2>2, SameGold
  <2> QED BY <1>0, <2>1, <2>4, <2>5, <2>6, <2>7 DEF TreeInv, Oracle, DerivesTheProjectiveTrees
<1>6. CASE Train
  <2>1. phase = "training" /\ UNCHANGED <<len, gold>> /\ Guided /\ Derivable
    BY <1>0, <1>6 DEF Train, Guided, DerivesTheProjectiveTrees
  <2>2. Derivable'
    BY <2>1, SameGold
  <2>3. CASE phase' \in {"unindexed", "abandoned"} /\ UNCHANGED config
    BY <1>0, <2>1, <2>2, <2>3, RestGrows DEF TreeInv, Oracle, Guided, DerivesTheProjectiveTrees
  <2>4. CASE Apply(OracleKind, OracleLabel) /\ phase' = phase
    <3>1. /\ Forest(head, stack, bounds)' /\ GoldArcs'
          /\ Derivable' => WithinReach(GoldHeads, head, stack, buffer)'
      BY <2>1, <2>4, OracleGrows
    <3> QED BY <1>0, <2>1, <2>2, <2>4, <3>1 DEF TreeInv, Oracle, DerivesTheProjectiveTrees
  <2> QED BY <1>6, <2>3, <2>4 DEF Train, OracleAction
<1>7. CASE FinishTrain
  <2>1. /\ phase = "training" /\ IsTerminal /\ phase' = "matched"
        /\ UNCHANGED <<len, gold, config>> /\ Derivable
    BY <1>0, <1>7 DEF FinishTrain, DerivesTheProjectiveTrees
  <2>2. ReproducesGold
    BY <1>0, <1>g, <2>1, TerminalReproduces DEF Oracle, Guided, DerivableState
  <2>3. Derivable' /\ ReproducesGold'
    BY <2>1, <2>2, SameGold, RestGrows
  <2> QED BY <1>0, <2>1, <2>3, RestGrows DEF TreeInv, Oracle, Guided, DerivesTheProjectiveTrees
<1>8. CASE UNCHANGED vars
  <2>1. phase' = phase /\ UNCHANGED <<len, gold, config>>
    BY <1>8 DEF vars
  <2> QED BY <1>0, <2>1, RestGrows, SameGold DEF TreeInv, Oracle, Guided, DerivesTheProjectiveTrees
<1> QED BY <1>1, <1>2, <1>3, <1>4, <1>5, <1>6, <1>7, <1>8 DEF Next

\* The second inductive invariant: forests with exact bounds, and an oracle
\* that draws gold arcs and lets no needed token go.
THEOREM InductiveTrees == Spec => []TreeInv
<1>1. Init => TreeInv
  BY TreeInitOK
<1>2. TreeInv /\ [Next]_vars => TreeInv'
  BY TreeStepOK
<1> QED BY <1>1, <1>2, PTL DEF Spec

\* In every configuration of every loop no token governs itself through any
\* chain, and each token's bounds are its first and last child.
THEOREM BoundsScanned == Spec => []BoundsAreTheScan
<1>1. TreeInv => BoundsAreTheScan
  BY DEF TreeInv, Forest, ScannedBounds, BoundsAreTheScan
<1> QED BY <1>1, InductiveTrees, PTL

\* derive() never trips the assertion of apply(), drops a gold tree only when
\* it is not derivable, and trains on derivable trees only, for sentences of
\* any length and any gold tree.
THEOREM DerivesExactly == Spec => []DerivesTheProjectiveTrees
<1>1. TreeInv => DerivesTheProjectiveTrees
  BY DEF TreeInv
<1> QED BY <1>1, InductiveTrees, PTL

-----------------------------------------------------------------------------
(***************************************************************************)
(* The weights.                                                            *)
(***************************************************************************)
(* Every set of naturals has a least number, and so induction holds. *)
LEMMA LeastNat ==
  ASSUME NEW T, T \subseteq Nat, T # {}
  PROVE  \E x \in T : \A y \in T : x <= y
<1> DEFINE R == OpToRel(<, Nat)
<1>1. IsWellFoundedOn(R, Nat)
  BY NatLessThanWellFounded
<1> HIDE DEF R
<1>2. PICK x \in T : \A y \in T : ~ (<<y, x>> \in R)
  BY <1>1, WFMin
<1>3. \A y \in T : ~(y < x)
  BY <1>2 DEF OpToRel, R
<1> QED BY <1>2, <1>3

LEMMA NatInduct ==
  ASSUME NEW T, 0 \in T, \A n \in Nat : n \in T => n + 1 \in T
  PROVE  Nat \subseteq T
<1> DEFINE U == Nat \ T
<1>1. SUFFICES ASSUME U # {} PROVE FALSE
  OBVIOUS
<1>2. PICK x \in U : \A y \in U : x <= y
  <2> HIDE DEF U
  <2>1. U \subseteq Nat
    BY DEF U
  <2> QED BY <1>1, <2>1, LeastNat
<1>3. x # 0 /\ x \in Nat /\ x \notin T
  BY <1>2
<1>4. x - 1 \in Nat
  BY <1>3
<1>5. x - 1 \in T
  BY <1>2, <1>4
<1>6. (x - 1) + 1 \in T
  BY <1>4, <1>5
<1> QED BY <1>3, <1>6

DoubleStep(count, capacity, i) == Doubled(count, capacity)
Doubling == INSTANCE FoldFacts WITH Op <- DoubleStep

LEMMA DoublingInducts == Doubling!Inductive
BY NatInduct DEF Doubling!Inductive

LEMMA CapacityIsAFold ==
  ASSUME NEW count
  PROVE  Capacity(count) = Doubling!Folded(count, 1, [i \in 1 .. count |-> i])
  BY DEF Capacity, Doubling!Folded, DoubleStep, FoldLeft, MapThenFoldSet, Max

(* hash_table_capacity: a power of two's worth of doublings later, more than *)
(* count slots (the code calls the table filling up impossible).             *)
LEMMA CapacityExceeds ==
  ASSUME NEW count \in Nat
  PROVE  Capacity(count) \in Nat /\ Capacity(count) > count
<1> DEFINE s == [i \in 1 .. count |-> i]
           Large(k) == {c \in Nat : c >= 1 /\ (count * 10 <= c * 7 \/ c >= 2 * k)}
           I == [k \in 0 .. count |-> Large(k)]
<1>1. DOMAIN s = 1 .. count
  OBVIOUS
<1>2. 1 \in I[0]
  BY DEF I
<1>3. ASSUME NEW k \in 1 .. count, NEW c \in I[k - 1] PROVE DoubleStep(count, c, s[k]) \in I[k]
  <2>1. k - 1 \in 0 .. count /\ k \in 0 .. count /\ k \in Nat
    OBVIOUS
  <2>2. c \in Nat /\ c >= 1 /\ (count * 10 <= c * 7 \/ c >= 2 * (k - 1))
    BY <1>3, <2>1
  <2> DEFINE d == Doubled(count, c)
  <2>3. d \in Nat /\ d >= 1 /\ (count * 10 <= d * 7 \/ d >= 2 * k)
    <3>1. CASE count * 10 > c * 7
      <4>1. d = 2 * c
        BY <3>1 DEF Doubled
      <4>2. c >= 2 * (k - 1)
        BY <2>2, <3>1
      <4>3. 2 * c >= 2 * k
        <5>1. CASE k = 1
          BY <2>2, <5>1
        <5>2. CASE k > 1
          BY <2>1, <2>2, <4>2, <5>2
        <5> QED
          BY <2>1, <5>1, <5>2
      <4> QED
        BY <2>2, <4>1, <4>3
    <3>2. CASE ~(count * 10 > c * 7)
      <4>1. d = c
        BY <3>2 DEF Doubled
      <4> QED
        BY <2>2, <3>2, <4>1
    <3> QED
      BY <3>1, <3>2
  <2> QED
    BY <2>1, <2>3 DEF DoubleStep
<1> HIDE DEF s, I
<1>4. Doubling!IsPassedOn(count, 1, count, s, I)
  BY <1>2, <1>3 DEF Doubling!IsPassedOn
<1>5. Doubling!Folded(count, 1, s) \in I[count]
  BY <1>1, <1>4, DoublingInducts, Doubling!FoldInvariant
<1>6. Capacity(count) \in Large(count)
  <2>1. Capacity(count) \in I[count]
    BY <1>5, CapacityIsAFold DEF s
  <2> QED
    BY <2>1 DEF I
<1> QED
  BY <1>6

(* The least of a set of numbers. *)
LEMMA MinIs ==
  ASSUME NEW T, T \subseteq Nat, T # {}
  PROVE  Min(T) \in T /\ \A y \in T : Min(T) <= y
  BY LeastNat DEF Min

-----------------------------------------------------------------------------
LazyTotals ==
  /\ weights \in [Cells -> Int] /\ totals \in [Cells -> Int]
  /\ timestamps \in [Cells -> Int] /\ summed \in [Cells -> Int] /\ iterations \in Int
  /\ \A cell \in Cells :
       totals[cell] + (iterations - timestamps[cell]) * weights[cell] = summed[cell]

RowsHoldAverages ==
  /\ classes \in ClassOrders
  /\ DOMAIN rows \subseteq Features
  /\ \A f \in Features, c \in Classes : f \notin DOMAIN rows => summed[<<f, c>>] = 0
  /\ \A f \in DOMAIN rows :
       /\ DOMAIN rows[f] = {i \in Classes : summed[<<f, classes[i]>>] # 0}
       /\ \A i \in DOMAIN rows[f] : rows[f][i] = summed[<<f, classes[i]>>]

Reached(key) ==
  \E i \in 0 .. Len(slots) - 1 :
    /\ slots[Probe(key, i)] = key
    /\ \A j \in 0 .. i - 1 : slots[Probe(key, j)] # NoKey

Probed ==
  /\ hash \in [Keys -> HashValues]
  /\ pending \subseteq DOMAIN rows
  /\ slots \in Seq(Keys \cup {NoKey}) /\ Len(slots) > Cardinality(DOMAIN rows)
  /\ \A p \in 1 .. Len(slots) : slots[p] # NoKey => slots[p] \in DOMAIN rows \ pending
  /\ \A p, q \in 1 .. Len(slots) : slots[p] # NoKey /\ slots[p] = slots[q] => p = q
  /\ \A key \in DOMAIN rows \ pending : Reached(key)

WeightsInv ==
  /\ LazyTotals
  /\ training \in BOOLEAN
  /\ training => pending = {}
  /\ ~training => RowsHoldAverages /\ Probed

LEMMA RowsFinite ==
  ASSUME DOMAIN rows \subseteq Features
  PROVE  IsFiniteSet(DOMAIN rows) /\ Cardinality(DOMAIN rows) \in Nat
  BY FeaturesAssumption, FS_Subset, FS_CardinalityType

(* The slots a probe sequence visits are slots of the table. *)
LEMMA ProbeInTable ==
  ASSUME hash \in [Keys -> HashValues], NEW key \in Keys, NEW i \in Nat,
         Len(slots) \in Nat, Len(slots) > 0
  PROVE  Probe(key, i) \in 1 .. Len(slots)
<1> DEFINE h == hash[key] + i
           n == Len(slots)
<1>1. h \in Nat
  <2>1. hash[key] \in HashValues
    OBVIOUS
  <2>2. hash[key] \in Nat
    BY <2>1, HashAssumption
  <2> QED
    BY <2>2
<1> HIDE DEF h
<1>2. h % n \in 0 .. n - 1
  BY <1>1
<1> QED
  BY <1>2 DEF Probe, h

LEMMA InitLazy == WeightsInit => WeightsInv
<1> SUFFICES ASSUME WeightsInit PROVE WeightsInv
  OBVIOUS
<1>1. \A cell \in Cells : Zero[cell] = 0
  BY DEF Zero
<1>2. Zero \in [Cells -> Int]
  BY DEF Zero
<1> QED
  BY <1>1, <1>2 DEF WeightsInit, WeightsInv, LazyTotals

(* A weight w recorded as t at iteration k comes to the sum x at iteration n. *)
ComesTo(t, k, w, n, x) == t + (n - k) * w = x

LEMMA HeldOneMore ==
  ASSUME NEW t \in Int, NEW k \in Int, NEW w \in Int, NEW x \in Int, NEW n \in Int,
         ComesTo(t, k, w, n, x)
  PROVE  ComesTo(t, k, w, n + 1, x + w)
  BY DEF ComesTo

(* One example: the sum grows by the weight, and so does the lazy total,    *)
(* held for one more iteration or settled by bump().                        *)
LEMMA TrainKeeps ==
  ASSUME WeightsInv, NEW features \in SUBSET Features, NEW target \in Classes, NEW allowed,
         TrainOne(features, target, allowed)
  PROVE  WeightsInv'
<1> DEFINE guess == BestAllowed(features, allowed)
           now == iterations + 1
<1>1. /\ LazyTotals /\ training /\ pending = {} /\ UNCHANGED tableVars
      /\ iterations' = now
      /\ summed' = [cell \in Cells |-> summed[cell] + weights[cell]]
  BY DEF WeightsInv, TrainOne
<1>2. LazyTotals'
  <2>1. CASE guess = target
    <3>1. UNCHANGED <<weights, totals, timestamps>>
      BY <2>1 DEF TrainOne
    <3>2. ASSUME NEW cell \in Cells
          PROVE  totals[cell] + (now - timestamps[cell]) * weights[cell] = summed[cell] + weights[cell]
      <4>1. /\ totals[cell] \in Int /\ timestamps[cell] \in Int /\ weights[cell] \in Int
            /\ summed[cell] \in Int /\ iterations \in Int
            /\ ComesTo(totals[cell], timestamps[cell], weights[cell], iterations, summed[cell])
        BY <1>1 DEF LazyTotals, ComesTo
      <4>2. ComesTo(totals[cell], timestamps[cell], weights[cell], iterations + 1,
                    summed[cell] + weights[cell])
        BY <4>1, HeldOneMore
      <4> QED
        BY <4>2 DEF ComesTo
    <3> QED
      BY <1>1, <3>1, <3>2 DEF LazyTotals
  <2>2. CASE guess # target
    <3> DEFINE changed == features \X {target, guess}
    <3>1. Bump(features, target, guess, now)
      BY <2>2 DEF TrainOne
    <3>2. ASSUME NEW cell \in Cells
          PROVE  /\ totals'[cell] \in Int /\ timestamps'[cell] \in Int
                 /\ weights'[cell] \in Int /\ summed'[cell] \in Int
                 /\ totals'[cell] + (now - timestamps'[cell]) * weights'[cell] = summed'[cell]
      <4>1. /\ totals[cell] \in Int /\ timestamps[cell] \in Int /\ weights[cell] \in Int
            /\ summed[cell] \in Int /\ iterations \in Int /\ now \in Int
            /\ ComesTo(totals[cell], timestamps[cell], weights[cell], iterations, summed[cell])
            /\ summed'[cell] = summed[cell] + weights[cell]
        BY <1>1 DEF LazyTotals, ComesTo
      <4>2. totals[cell] + (now - timestamps[cell]) * weights[cell] = summed[cell] + weights[cell]
        <5>1. ComesTo(totals[cell], timestamps[cell], weights[cell], iterations + 1,
                      summed[cell] + weights[cell])
          BY <4>1, HeldOneMore
        <5> QED
          BY <5>1 DEF ComesTo
      <4>3. CASE cell \in changed
        <5>1. /\ totals'[cell] = totals[cell] + (now - timestamps[cell]) * weights[cell]
              /\ timestamps'[cell] = now
              /\ weights'[cell] = weights[cell] + Delta(cell[2], target, guess)
          BY <3>1, <4>3 DEF Bump, Held
        <5>2. Delta(cell[2], target, guess) \in Int
          BY DEF Delta
        <5>3. totals[cell] + (now - timestamps[cell]) * weights[cell] = summed[cell] + weights[cell]
          BY <4>2
        <5>4. now - timestamps'[cell] = 0 /\ weights'[cell] \in Int
          BY <4>1, <5>1, <5>2
        <5>5. (now - timestamps'[cell]) * weights'[cell] = 0
          BY <5>4
        <5> HIDE DEF now
        <5> QED
          BY <4>1, <5>1, <5>3, <5>4, <5>5
      <4>4. CASE cell \notin changed
        <5>1. /\ totals'[cell] = totals[cell] /\ timestamps'[cell] = timestamps[cell]
              /\ weights'[cell] = weights[cell]
          BY <3>1, <4>4 DEF Bump
        <5> QED
          BY <4>1, <4>2, <5>1
      <4> QED
        BY <4>3, <4>4
    <3>3. /\ totals' = [cell \in Cells |-> totals'[cell]]
          /\ timestamps' = [cell \in Cells |-> timestamps'[cell]]
          /\ weights' = [cell \in Cells |-> weights'[cell]]
          /\ summed' = [cell \in Cells |-> summed'[cell]]
      BY <1>1, <3>1 DEF Bump
    <3>4. iterations' \in Int
      BY <1>1 DEF LazyTotals
    <3> QED
      BY <1>1, <3>2, <3>3, <3>4 DEF LazyTotals
  <2> QED
    BY <2>1, <2>2
<1> QED
  BY <1>1, <1>2 DEF WeightsInv, tableVars

(* finish() writes exactly the averages that are not zero, into a table with *)
(* room for all of them.                                                     *)
LEMMA FinishKeeps ==
  ASSUME WeightsInv, NEW order \in ClassOrders, NEW hashes \in [Keys -> HashValues],
         Finish(order, hashes)
  PROVE  WeightsInv'
<1> DEFINE written == {f \in Features : \E c \in Classes : Averaged(<<f, c>>) # 0}
           capacity == Capacity(Cardinality(written))
<1>1. /\ LazyTotals /\ training' = FALSE /\ classes' = order /\ hash' = hashes
      /\ pending' = written /\ slots' = [i \in 1 .. capacity |-> NoKey]
      /\ UNCHANGED trainVars
      /\ rows' = [f \in written |->
                    [i \in {i \in Classes : Averaged(<<f, order[i]>>) # 0} |->
                       Averaged(<<f, order[i]>>)]]
  BY DEF WeightsInv, Finish
<1>2. LazyTotals'
  BY <1>1 DEF LazyTotals, trainVars
<1>3. \A f \in Features, c \in Classes : Averaged(<<f, c>>) = summed[<<f, c>>]
  BY <1>1 DEF LazyTotals, Averaged, Held, Cells
<1>4. \A i \in Classes : order[i] \in Classes
  BY ClassOrdersAssumption
<1>5. written \subseteq Features /\ DOMAIN rows' = written
  BY <1>1
<1> HIDE DEF capacity
<1>6. RowsHoldAverages'
  <2>1. summed' = summed /\ classes' \in ClassOrders
    BY <1>1 DEF trainVars
  <2>2. ASSUME NEW f \in Features, NEW c \in Classes, f \notin written PROVE summed[<<f, c>>] = 0
    BY <1>3, <2>2
  <2>3. ASSUME NEW f \in written
        PROVE  /\ DOMAIN rows'[f] = {i \in Classes : summed[<<f, order[i]>>] # 0}
               /\ \A i \in DOMAIN rows'[f] : rows'[f][i] = summed[<<f, order[i]>>]
    <3>1. f \in Features
      OBVIOUS
    <3>2. \A i \in Classes : Averaged(<<f, order[i]>>) = summed[<<f, order[i]>>]
      BY <1>3, <1>4, <3>1
    <3> HIDE DEF written
    <3>3. rows'[f] = [i \in {i \in Classes : Averaged(<<f, order[i]>>) # 0} |-> Averaged(<<f, order[i]>>)]
      BY <1>1
    <3> QED
      BY <3>2, <3>3
  <2> HIDE DEF written
  <2> QED
    BY <1>1, <1>5, <2>1, <2>2, <2>3 DEF RowsHoldAverages
<1> HIDE DEF written
<1>7. Probed'
  <2>1. Cardinality(written) \in Nat
    BY <1>5, FeaturesAssumption, FS_Subset, FS_CardinalityType
  <2>2. capacity \in Nat /\ capacity > Cardinality(written)
    BY <2>1, CapacityExceeds DEF capacity
  <2>3. /\ slots' \in Seq(Keys \cup {NoKey}) /\ Len(slots') = capacity
        /\ \A p \in 1 .. Len(slots') : slots'[p] = NoKey
    BY <1>1, <2>2
  <2>4. pending' = DOMAIN rows' /\ hash' \in [Keys -> HashValues]
    BY <1>1, <1>5
  <2> QED
    BY <1>5, <2>2, <2>3, <2>4 DEF Probed
<1> QED
  BY <1>1, <1>2, <1>6, <1>7 DEF WeightsInv

(* A feature placed in the first empty slot of its sequence is reached, and  *)
(* filling a slot hides no other feature.                                    *)
LEMMA PlaceKeeps ==
  ASSUME WeightsInv, Place
  PROVE  WeightsInv'
<1> DEFINE key == Min(pending)
           n == Len(slots)
<1>1. /\ LazyTotals /\ training = FALSE /\ RowsHoldAverages /\ Probed
      /\ pending # {} /\ UNCHANGED <<trainVars, training, classes, rows, hash>>
  BY DEF WeightsInv, Place
<1>2. LazyTotals' /\ RowsHoldAverages'
  BY <1>1 DEF LazyTotals, RowsHoldAverages, trainVars
<1>3. key \in pending /\ key \in Keys /\ key \in DOMAIN rows /\ key # NoKey
  <2>1. pending \subseteq Nat /\ pending \subseteq Keys
    BY <1>1, FeaturesAssumption DEF RowsHoldAverages, Probed
  <2>2. key \in pending
    BY <1>1, <2>1, MinIs
  <2> HIDE DEF key
  <2> QED
    BY <1>1, <2>1, <2>2, HashAssumption DEF Probed
<1>4. PICK i \in 0 .. n - 1 :
        /\ slots[Probe(key, i)] = NoKey
        /\ \A j \in 0 .. i - 1 : slots[Probe(key, j)] # NoKey
        /\ slots' = [slots EXCEPT ![Probe(key, i)] = key]
  BY DEF Place
<1>5. pending' = pending \ {key}
  BY DEF Place
<1> DEFINE at == Probe(key, i)
<1> HIDE DEF key
<1>6. n \in Nat /\ n > 0 /\ slots \in Seq(Keys \cup {NoKey})
  <2>1. Cardinality(DOMAIN rows) \in Nat
    BY <1>1, RowsFinite DEF RowsHoldAverages
  <2>2. slots \in Seq(Keys \cup {NoKey}) /\ n > Cardinality(DOMAIN rows)
    BY <1>1 DEF Probed
  <2>3. n \in Nat
    BY <2>2, LenProperties
  <2> QED
    BY <2>1, <2>2, <2>3
<1>7. at \in 1 .. n
  BY <1>1, <1>3, <1>6, ProbeInTable DEF Probed
<1> HIDE DEF at
<1>8. /\ slots' \in Seq(Keys \cup {NoKey}) /\ Len(slots') = n
      /\ \A p \in 1 .. n : slots'[p] = IF p = at THEN key ELSE slots[p]
  <2>1. slots' = [slots EXCEPT ![at] = key]
    BY <1>4 DEF at
  <2> QED
    BY <1>3, <1>6, <1>7, <2>1, ExceptSeq
<1>9. \A k \in Keys, j \in Nat : Probe(k, j)' = Probe(k, j) /\ Probe(k, j) \in 1 .. n
  <2>1. \A k \in Keys, j \in Nat : Probe(k, j)' = Probe(k, j)
    BY <1>1, <1>8 DEF Probe
  <2>2. \A k \in Keys, j \in Nat : Probe(k, j) \in 1 .. n
    BY <1>1, <1>6, ProbeInTable DEF Probed
  <2> QED
    BY <2>1, <2>2
<1> HIDE DEF n
<1>10. slots[at] = NoKey /\ \A j \in 0 .. i - 1 : slots[Probe(key, j)] # NoKey
  BY <1>4 DEF at
<1>11. Probed'
  <2>1. \A p \in 1 .. n : slots'[p] # NoKey => slots'[p] \in DOMAIN rows \ pending'
    BY <1>1, <1>3, <1>5, <1>8 DEF Probed, n
  <2>2. \A p, q \in 1 .. n : slots'[p] # NoKey /\ slots'[p] = slots'[q] => p = q
    <3>1. \A p \in 1 .. n : slots[p] # key
      BY <1>1, <1>3 DEF Probed, n
    <3> QED
      BY <1>1, <1>8, <3>1 DEF Probed, n
  <2>3. ASSUME NEW k \in DOMAIN rows \ pending' PROVE Reached(k)'
    <3>1. k \in Keys
      BY <1>1, FeaturesAssumption DEF RowsHoldAverages
    <3>2. CASE k = key
      <4>1. slots'[Probe(k, i)'] = k
        BY <1>4, <1>7, <1>8, <1>9, <3>1, <3>2 DEF at
      <4>2. \A j \in 0 .. i - 1 : slots'[Probe(k, j)'] # NoKey
        <5> SUFFICES ASSUME NEW j \in 0 .. i - 1 PROVE slots'[Probe(k, j)'] # NoKey
          OBVIOUS
        <5>1. j \in Nat /\ slots[Probe(k, j)] # NoKey
          BY <1>10, <3>2
        <5>2. Probe(k, j)' = Probe(k, j) /\ Probe(k, j) \in 1 .. n
          BY <1>9, <3>1, <5>1
        <5> QED
          BY <1>3, <1>8, <5>1, <5>2
      <4> QED
        BY <1>4, <1>8, <4>1, <4>2 DEF Reached, n
    <3>3. CASE k # key
      <4>1. Reached(k)
        BY <1>1, <1>5, <3>3 DEF Probed
      <4>2. PICK m \in 0 .. n - 1 :
              slots[Probe(k, m)] = k /\ \A j \in 0 .. m - 1 : slots[Probe(k, j)] # NoKey
        BY <4>1 DEF Reached, n
      <4>3. k # NoKey
        BY <3>1, HashAssumption
      <4>4. slots'[Probe(k, m)'] = k
        <5>1. m \in Nat /\ Probe(k, m)' = Probe(k, m) /\ Probe(k, m) \in 1 .. n
          BY <1>9, <3>1
        <5>2. Probe(k, m) # at
          BY <1>10, <4>2, <4>3
        <5> QED
          BY <1>8, <4>2, <5>1, <5>2
      <4>5. \A j \in 0 .. m - 1 : slots'[Probe(k, j)'] # NoKey
        <5> SUFFICES ASSUME NEW j \in 0 .. m - 1 PROVE slots'[Probe(k, j)'] # NoKey
          OBVIOUS
        <5>1. j \in Nat /\ slots[Probe(k, j)] # NoKey
          BY <4>2
        <5>2. Probe(k, j)' = Probe(k, j) /\ Probe(k, j) \in 1 .. n
          BY <1>9, <3>1, <5>1
        <5> QED
          BY <1>3, <1>8, <5>1, <5>2
      <4> QED
        BY <1>8, <4>2, <4>4, <4>5 DEF Reached, n
    <3> QED
      BY <3>2, <3>3
  <2>4. /\ hash' \in [Keys -> HashValues] /\ pending' \subseteq DOMAIN rows
        /\ n > Cardinality(DOMAIN rows)
    BY <1>1, <1>5 DEF Probed, n
  <2> QED
    BY <1>1, <1>8, <2>1, <2>2, <2>3, <2>4 DEF Probed
<1> QED
  BY <1>1, <1>2, <1>11 DEF WeightsInv

LEMMA StepKeeps ==
  ASSUME WeightsInv, [WeightsNext]_<<trainVars, tableVars>>
  PROVE  WeightsInv'
<1>1. CASE UNCHANGED <<trainVars, tableVars>>
  <2>1. LazyTotals' <=> LazyTotals
    BY <1>1 DEF trainVars, LazyTotals
  <2>2. RowsHoldAverages' <=> RowsHoldAverages
    BY <1>1 DEF trainVars, tableVars, RowsHoldAverages
  <2>3. \A key : Reached(key)' <=> Reached(key)
    BY <1>1 DEF tableVars, Reached, Probe
  <2>4. Probed' <=> Probed
    BY <1>1, <2>3 DEF tableVars, Probed
  <2> QED
    BY <1>1, <2>1, <2>2, <2>4 DEF WeightsInv, tableVars
<1>2. CASE WeightsNext
  <2>1. CASE \E features \in SUBSET Features \ {{}}, target \in Classes :
               \E allowed \in {S \in SUBSET Classes : target \in S} : TrainOne(features, target, allowed)
    BY <2>1, TrainKeeps
  <2>2. CASE \E order \in ClassOrders, hashes \in [Keys -> HashValues] : Finish(order, hashes)
    BY <2>2, FinishKeeps
  <2>3. CASE Place
    BY <2>3, PlaceKeeps
  <2> QED
    BY <1>2, <2>1, <2>2, <2>3 DEF WeightsNext
<1> QED
  BY <1>1, <1>2

-----------------------------------------------------------------------------
(* As long as a feature is to be placed, fewer are in the table than it has  *)
(* slots, and none stands twice.                                             *)
LEMMA RoomIsLeft == WeightsInv => PlacingEnds
<1> SUFFICES ASSUME WeightsInv, pending # {}, \A p \in DOMAIN slots : slots[p] # NoKey
             PROVE  FALSE
  BY DEF PlacingEnds
<1> DEFINE n == Len(slots)
           placed == DOMAIN rows \ pending
<1>1. RowsHoldAverages /\ Probed
  BY DEF WeightsInv
<1>2. /\ IsFiniteSet(DOMAIN rows) /\ Cardinality(DOMAIN rows) \in Nat
      /\ n \in Nat /\ n > Cardinality(DOMAIN rows)
      /\ slots \in Seq(Keys \cup {NoKey})
  BY <1>1, RowsFinite, LenProperties DEF RowsHoldAverages, Probed
<1>3. IsFiniteSet(placed) /\ Cardinality(placed) <= Cardinality(DOMAIN rows)
      /\ Cardinality(placed) \in Nat
  BY <1>2, FS_Subset, FS_CardinalityType
<1>4. slots \in [1 .. n -> placed]
  <2>1. DOMAIN slots = 1 .. n /\ slots = [p \in 1 .. n |-> slots[p]]
    BY <1>2
  <2>2. \A p \in 1 .. n : slots[p] \in placed
    BY <1>1, <2>1 DEF Probed
  <2> QED
    BY <2>1, <2>2
<1> HIDE DEF placed, n
<1>5. IsFiniteSet(1 .. n) /\ Cardinality(1 .. n) = n
  <2>1. Cardinality(1 .. n) = IF 1 > n THEN 0 ELSE n - 1 + 1
    BY <1>2, FS_Interval
  <2> QED
    BY <1>2, <2>1, FS_Interval
<1>6. PICK p, q \in 1 .. n : p # q /\ slots[p] = slots[q]
  BY <1>2, <1>3, <1>4, <1>5, FS_PigeonHole
<1>7. slots[p] # NoKey
  BY <1>4
<1> QED
  BY <1>1, <1>6, <1>7 DEF Probed, n

(* The row of a written feature adds to each class what it should. *)
LEMMA RowIsTheAverage ==
  ASSUME RowsHoldAverages, NEW f \in DOMAIN rows, NEW class \in Classes
  PROVE  RowScore(rows[f], class) = summed[<<f, class>>]
<1> DEFINE positions == {i \in DOMAIN rows[f] : classes[i] = class}
<1>1. /\ classes \in [Classes -> Classes]
      /\ \A i, j \in Classes : classes[i] = classes[j] => i = j
      /\ \A c \in Classes : \E i \in Classes : classes[i] = c
  BY ClassOrdersAssumption DEF RowsHoldAverages
<1>2. PICK i \in Classes : classes[i] = class
  BY <1>1
<1>3. /\ DOMAIN rows[f] = {k \in Classes : summed[<<f, classes[k]>>] # 0}
      /\ \A k \in DOMAIN rows[f] : rows[f][k] = summed[<<f, classes[k]>>]
  BY DEF RowsHoldAverages
<1>4. CASE summed[<<f, class>>] = 0
  <2>1. positions = {}
    BY <1>3, <1>4
  <2> QED
    BY <1>4, <2>1 DEF RowScore
<1>5. CASE summed[<<f, class>>] # 0
  <2>1. positions = {i}
    BY <1>1, <1>2, <1>3, <1>5
  <2>2. (CHOOSE k \in positions : TRUE) = i
    BY <2>1
  <2>3. RowScore(rows[f], class) = rows[f][i]
    BY <2>1, <2>2 DEF RowScore
  <2> QED
    BY <1>2, <1>3, <2>1, <2>3
<1> QED
  BY <1>4, <1>5

(* Looking a placed feature up finds it. *)
LEMMA GetFinds ==
  ASSUME RowsHoldAverages, Probed, NEW key \in DOMAIN rows \ pending
  PROVE  Get(key) = key
<1> DEFINE n == Len(slots)
           stops == {i \in 0 .. n - 1 : slots[Probe(key, i)] \in {key, NoKey}}
<1>1. PICK i \in 0 .. n - 1 :
        slots[Probe(key, i)] = key /\ \A j \in 0 .. i - 1 : slots[Probe(key, j)] # NoKey
  BY DEF Probed, Reached
<1>2. i \in stops
  BY <1>1
<1>3. stops \subseteq Nat
  OBVIOUS
<1> HIDE DEF stops
<1> DEFINE first == Min(stops)
<1>4. first \in stops /\ first <= i
  BY <1>2, <1>3, MinIs
<1> HIDE DEF first
<1>5. slots[Probe(key, first)] \in {key, NoKey} /\ first \in 0 .. n - 1
  BY <1>4 DEF stops
<1>6. slots[Probe(key, first)] # NoKey
  <2>1. CASE first = i
    <3>1. key # NoKey
      BY HashAssumption, FeaturesAssumption DEF RowsHoldAverages
    <3> QED
      BY <1>1, <2>1, <3>1
  <2>2. CASE first # i
    <3>1. first \in 0 .. i - 1
      BY <1>4, <1>5, <2>2
    <3> QED
      BY <1>1, <3>1
  <2> QED
    BY <2>1, <2>2
<1> QED
  BY <1>2, <1>5, <1>6 DEF Get, stops, first, n

(* Looking anything else up finds nothing. *)
LEMMA GetMisses ==
  ASSUME RowsHoldAverages, Probed, NEW key \in Keys, key \notin DOMAIN rows
  PROVE  Get(key) = NoKey
<1> DEFINE n == Len(slots)
           stops == {i \in 0 .. n - 1 : slots[Probe(key, i)] \in {key, NoKey}}
<1>1. CASE stops = {}
  BY <1>1 DEF Get
<1>2. CASE stops # {}
  <2> DEFINE first == Min(stops)
  <2>1. stops \subseteq Nat
    OBVIOUS
  <2> HIDE DEF stops
  <2>2. first \in stops
    BY <1>2, <2>1, MinIs
  <2> HIDE DEF first
  <2>3. slots[Probe(key, first)] \in {key, NoKey} /\ first \in 0 .. n - 1
    BY <2>2 DEF stops
  <2>4. Cardinality(DOMAIN rows) \in Nat /\ n \in Nat /\ n > 0
    <3>1. Cardinality(DOMAIN rows) \in Nat
      BY RowsFinite DEF RowsHoldAverages
    <3>2. n > Cardinality(DOMAIN rows) /\ slots \in Seq(Keys \cup {NoKey})
      BY DEF Probed
    <3>3. n \in Nat
      BY <3>2, LenProperties
    <3> QED
      BY <3>1, <3>2, <3>3
  <2>5. Probe(key, first) \in 1 .. n
    BY <2>3, <2>4, ProbeInTable DEF Probed
  <2>6. slots[Probe(key, first)] # key
    <3>1. key # NoKey
      BY HashAssumption
    <3> QED
      BY <2>5, <3>1 DEF Probed
  <2>7. Get(key) = slots[Probe(key, first)]
    BY <1>2 DEF Get, stops, first, n
  <2> QED
    BY <2>3, <2>6, <2>7
<1> QED
  BY <1>1, <1>2

LEMMA InvScores == WeightsInv => TrainedWeightsScore
<1> SUFFICES ASSUME WeightsInv PROVE TrainedWeightsScore
  OBVIOUS
<1>1. LazyAverageIsTheAverage
  BY DEF WeightsInv, LazyTotals, LazyAverageIsTheAverage, Averaged, Held
<1>2. PlacingEnds
  BY RoomIsLeft
<1>3. BackendsScoreTheAverage
  <2> SUFFICES ASSUME ~training, pending = {}, NEW key \in Keys, NEW class \in Classes
               PROVE  /\ OwnedScore(key, class) = Ideal(key, class)
                      /\ ViewScore(key, class) = Ideal(key, class)
    BY Zenon DEF BackendsScoreTheAverage
  <2>1. RowsHoldAverages /\ Probed
    BY DEF WeightsInv
  <2>2. CASE key \in DOMAIN rows
    <3>1. Get(key) = key /\ key # NoKey
      BY <2>1, <2>2, GetFinds, HashAssumption
    <3>2. RowScore(rows[key], class) = summed[<<key, class>>]
      BY <2>1, <2>2, RowIsTheAverage
    <3>3. key \in Features
      BY <2>1, <2>2 DEF RowsHoldAverages
    <3>4. OwnedScore(key, class) = RowScore(rows[key], class)
      BY <2>2 DEF OwnedScore
    <3>5. ViewScore(key, class) = RowScore(rows[key], class)
      BY <3>1 DEF ViewScore
    <3> QED
      BY <3>2, <3>3, <3>4, <3>5 DEF Ideal
  <2>3. CASE key \notin DOMAIN rows
    <3>1. Get(key) = NoKey
      BY <2>1, <2>3, GetMisses
    <3>2. Ideal(key, class) = 0
      <4>1. key \in Features => summed[<<key, class>>] = 0
        BY <2>1, <2>3 DEF RowsHoldAverages
      <4>2. CASE key \in Features
        BY <4>1, <4>2 DEF Ideal
      <4>3. CASE key \notin Features
        BY <4>3 DEF Ideal
      <4> QED
        BY <4>2, <4>3
    <3> QED
      BY <2>3, <3>1, <3>2 DEF OwnedScore, ViewScore
  <2> QED
    BY <2>2, <2>3
<1> QED
  BY <1>1, <1>2, <1>3 DEF TrainedWeightsScore

\* What inference adds to a score for a feature is the average of the weights
\* the training steps really scored with, through the table as from the
\* audited file (TaggerView::accumulate_one, WeightTable::from_features).
THEOREM TrainingPaysOff == WeightsSpec => []TrainedWeightsScore
<1>1. WeightsInv /\ [WeightsNext]_<<trainVars, tableVars>> => WeightsInv'
  BY StepKeeps
<1> QED
  BY <1>1, InitLazy, InvScores, PTL DEF WeightsSpec
-----------------------------------------------------------------------------
(* Why the scan agrees with the classifier: a run that is as long as it can  *)
(* be holds nothing but what the classifier looks for.  The invariant says   *)
(* besides that every token lies in the text.                                *)
TokenKinds == {"number", "word", "punctuation", "symbol"}
Token == [kind : TokenKinds, from : Nat, to : Nat]
TagInv ==
  /\ text \in Seq(Characters) /\ tokens \in Seq(Token)
  /\ \A i \in DOMAIN tokens : 1 <= tokens[i].from /\ tokens[i].from <= tokens[i].to /\ tokens[i].to <= Len(text)
  /\ ScanAgreesWithClassifier

LEMMA RunsAreClassified ==
  ASSUME text \in Seq(Characters), NEW from \in 1 .. Len(text), NEW to \in from .. Len(text),
         text[from] \notin Space, IsRun(from, to)
  PROVE  KindOf(from, to) = Classify(SubSeq(text, from, to)) /\ KindOf(from, to) \in TokenKinds
<1> DEFINE chars == {text[i] : i \in from .. to}
           token == SubSeq(text, from, to)
<1>1. text[from] \in chars /\ text[from] \in Characters
  OBVIOUS
<1>2. \A c \in chars : c \in RunOf(text[from])
  BY DEF IsRun
<1>3. ~(chars \subseteq Space)
  BY <1>1
<1>4. chars \cap Alpha # {} <=> \E i \in from .. to : text[i] \in Alpha
  OBVIOUS
<1>8. Classify(SubSeq(text, from, to)) =
        IF chars \subseteq Space THEN "whitespace"
        ELSE IF text[from] \in Digit /\ chars \subseteq Digit \cup NumberMark THEN "number"
        ELSE IF chars \subseteq Alpha \cup Joiner /\ chars \cap Alpha # {} THEN "word"
        ELSE IF chars \subseteq Punctuation THEN "punctuation"
        ELSE "symbol"
  <2>1. /\ DOMAIN token = 1 .. to - from + 1
        /\ \A i \in 1 .. to - from + 1 : token[i] = text[from + i - 1]
    OBVIOUS
  <2>2. token[1] = text[from]
    BY <2>1
  <2>3. {token[i] : i \in DOMAIN token} = chars
    <3>1. \A i \in from .. to : i - from + 1 \in DOMAIN token /\ token[i - from + 1] = text[i]
      BY <2>1
    <3>2. \A i \in DOMAIN token : from + i - 1 \in from .. to /\ token[i] = text[from + i - 1]
      BY <2>1
    <3> HIDE DEF token
    <3>3. {token[i] : i \in DOMAIN token} \subseteq chars
      BY <3>2
    <3>4. chars \subseteq {token[i] : i \in DOMAIN token}
      BY <3>1
    <3> QED
      BY <3>3, <3>4
  <2> HIDE DEF token, chars
  <2>4. Classify(token) =
          IF chars \subseteq Space THEN "whitespace"
          ELSE IF text[from] \in Digit /\ chars \subseteq Digit \cup NumberMark THEN "number"
          ELSE IF chars \subseteq Alpha \cup Joiner /\ chars \cap Alpha # {} THEN "word"
          ELSE IF chars \subseteq Punctuation THEN "punctuation"
          ELSE "symbol"
    BY <2>2, <2>3 DEF Classify
  <2> QED
    BY <2>4 DEF token
<1>9. KindOf(from, to) =
        IF text[from] \in Digit THEN "number"
        ELSE IF text[from] \in Alpha \cup Joiner
               THEN IF chars \cap Alpha # {} THEN "word" ELSE "punctuation"
        ELSE IF text[from] \in Punctuation THEN "punctuation"
        ELSE "symbol"
  BY <1>4 DEF KindOf
<1> HIDE DEF chars, token
<1>5. CASE text[from] \in Digit
  <2>1. chars \subseteq Digit \cup NumberMark
    BY <1>2, <1>5 DEF RunOf
  <2> QED
    BY <1>3, <1>8, <1>9, <1>5, <2>1 DEF TokenKinds
<1>6. CASE text[from] \in Alpha \cup Joiner
  <2>1. text[from] \notin Digit
    BY <1>6 DEF Alpha, Joiner, Digit
  <2>2. chars \subseteq Alpha \cup Joiner
    BY <1>2, <1>6, <2>1 DEF RunOf
  <2>3. CASE \E i \in from .. to : text[i] \in Alpha
    BY <1>3, <1>4, <1>6, <1>8, <1>9, <2>1, <2>2, <2>3 DEF TokenKinds
  <2>4. CASE ~\E i \in from .. to : text[i] \in Alpha
    <3>1. chars \subseteq Punctuation
      BY <1>4, <2>2, <2>4 DEF Joiner, Punctuation
    <3> QED
      BY <1>3, <1>4, <1>6, <1>8, <1>9, <2>1, <2>2, <2>4, <3>1 DEF TokenKinds
  <2> QED
    BY <2>3, <2>4
<1>7. CASE text[from] \notin Digit /\ text[from] \notin Alpha \cup Joiner
  <2>1. ~(chars \subseteq Alpha \cup Joiner)
    BY <1>1, <1>7
  <2>2. CASE text[from] \in Punctuation
    <3>1. chars \subseteq Punctuation
      BY <1>2, <1>7, <2>2 DEF RunOf
    <3> QED
      BY <1>3, <1>8, <1>9, <1>7, <2>1, <2>2, <3>1 DEF TokenKinds
  <2>3. CASE text[from] \notin Punctuation
    <3>1. ~(chars \subseteq Punctuation)
      BY <1>1, <2>3
    <3> QED
      BY <1>3, <1>8, <1>9, <1>7, <2>1, <2>3, <3>1 DEF TokenKinds
  <2> QED
    BY <2>2, <2>3
<1> QED
  BY <1>5, <1>6, <1>7

LEMMA ScannedToIs ==
  ASSUME TagInv
  PROVE  /\ ScannedTo \in Nat /\ ScannedTo <= Len(text)
         /\ tokens = << >> => ScannedTo = 0
         /\ tokens # << >> => ScannedTo = tokens[Len(tokens)].to
<1>1. CASE tokens = << >>
  BY <1>1 DEF TagInv, ScannedTo
<1>2. CASE tokens # << >>
  <2>1. ScannedTo = tokens[Len(tokens)].to
    BY <1>2 DEF ScannedTo, Last
  <2>2. Len(tokens) \in DOMAIN tokens /\ tokens[Len(tokens)] \in Token
    BY <1>2 DEF TagInv
  <2> QED
    BY <1>2, <2>1, <2>2 DEF TagInv, Token
<1> QED
  BY <1>1, <1>2

LEMMA ScanKeeps == TagInv /\ Scan => TagInv'
<1> SUFFICES ASSUME TagInv, Scan PROVE TagInv'
  OBVIOUS
<1>1. text' = text
  BY DEF Scan
<1>2. PICK from \in Start .. Len(text) :
        /\ text[from] \notin Space /\ \A i \in Start .. from - 1 : text[i] \in Space
        /\ \E to \in from .. Len(text) :
             /\ IsRun(from, to)
             /\ tokens' = Append(tokens, [kind |-> KindOf(from, to), from |-> from, to |-> to])
  BY DEF Scan
<1>0. PICK to \in from .. Len(text) :
        /\ IsRun(from, to)
        /\ tokens' = Append(tokens, [kind |-> KindOf(from, to), from |-> from, to |-> to])
  BY <1>2
<1> DEFINE n == Len(tokens)
           new == [kind |-> KindOf(from, to), from |-> from, to |-> to]
           done == ScannedTo
           L == Len(text)
<1>3. /\ done \in Nat /\ (tokens = << >> => done = 0)
      /\ (tokens # << >> => done = tokens[n].to)
  BY ScannedToIs
<1>4. n \in Nat /\ L \in Nat /\ tokens \in Seq(Token) /\ DOMAIN tokens = 1 .. n /\ (n = 0 => tokens = << >>)
  BY DEF TagInv
<1>5. from \in Nat /\ to \in Nat /\ done < from /\ 1 <= from /\ from <= to /\ to <= L
  BY <1>3, <1>4 DEF Start
<1>6. KindOf(from, to) = Classify(SubSeq(text, from, to)) /\ KindOf(from, to) \in TokenKinds
  BY <1>0, <1>2, <1>5, RunsAreClassified DEF TagInv
<1>7. new \in Token /\ new.kind = Classify(SubSeq(text, from, to)) /\ new.from = from /\ new.to = to
  BY <1>5, <1>6 DEF Token
<1> HIDE DEF new, done, L
<1>8. /\ tokens' \in Seq(Token) /\ Len(tokens') = n + 1 /\ DOMAIN tokens' = 1 .. n + 1
      /\ tokens'[n + 1] = new /\ \A i \in 1 .. n : tokens'[i] = tokens[i]
  BY <1>0, <1>4, <1>7 DEF new
<1> HIDE DEF n
<1>9. \A i \in 1 .. n + 1 : i \in 1 .. n \/ i = n + 1
  BY <1>4
<1>10. ScannedTo' = to
  <2>1. tokens' # << >>
    BY <1>4, <1>8
  <2>2. Last(tokens') = tokens'[n + 1]
    BY <1>8 DEF Last
  <2> QED
    BY <1>7, <1>8, <2>1, <2>2 DEF ScannedTo
<1>11. \A i \in DOMAIN tokens' :
         1 <= tokens'[i].from /\ tokens'[i].from <= tokens'[i].to /\ tokens'[i].to <= Len(text')
  BY <1>1, <1>4, <1>5, <1>7, <1>8, <1>9 DEF TagInv, L
<1>12. \A i \in DOMAIN tokens' :
         tokens'[i].kind = Classify(SubSeq(text', tokens'[i].from, tokens'[i].to))
  <2>1. \A i \in 1 .. n : tokens[i].kind = Classify(SubSeq(text, tokens[i].from, tokens[i].to))
    BY <1>4 DEF TagInv, ScanAgreesWithClassifier
  <2> QED
    BY <1>1, <1>7, <1>8, <1>9, <2>1
<1>13. \A i \in 1 .. Len(tokens') - 1 : tokens'[i].to < tokens'[i + 1].from
  <2>1. ASSUME NEW i, i \in 1 .. n PROVE tokens'[i].to < tokens'[i + 1].from
    <3>1. CASE i = n
      <4>1. tokens # << >> /\ n \in 1 .. n
        BY <1>4, <2>1, <3>1
      <4>2. tokens'[n].to = done /\ tokens'[n + 1].from = from
        BY <1>3, <1>7, <1>8, <4>1
      <4> QED
        BY <1>5, <3>1, <4>2
    <3>2. CASE i < n
      <4>1. i \in 1 .. n - 1 /\ i \in 1 .. n /\ i + 1 \in 1 .. n
        BY <1>4, <2>1, <3>2
      <4>2. tokens[i].to < tokens[i + 1].from
        BY <4>1 DEF TagInv, ScanAgreesWithClassifier, n
      <4> QED
        BY <1>8, <4>1, <4>2
    <3> QED
      BY <1>4, <2>1, <3>1, <3>2
  <2>2. Len(tokens') - 1 = n
    BY <1>4, <1>8
  <2> QED
    BY <2>1, <2>2
<1>14. \A c \in 1 .. to : text[c] \in Space \/ \E i \in DOMAIN tokens' : c \in tokens'[i].from .. tokens'[i].to
  <2>1. ASSUME NEW c, c \in 1 .. to
        PROVE  text[c] \in Space \/ \E i \in DOMAIN tokens' : c \in tokens'[i].from .. tokens'[i].to
    <3>1. CASE c \in 1 .. done
      <4>1. text[c] \in Space \/ \E i \in DOMAIN tokens : c \in tokens[i].from .. tokens[i].to
        BY <3>1 DEF TagInv, ScanAgreesWithClassifier, done
      <4>2. \A i \in DOMAIN tokens : i \in DOMAIN tokens' /\ tokens'[i] = tokens[i]
        BY <1>4, <1>8
      <4> QED
        BY <4>1, <4>2
    <3>2. CASE c \in done + 1 .. from - 1
      BY <1>2, <3>2 DEF Start, done
    <3>3. CASE c \in from .. to
      <4>1. n + 1 \in DOMAIN tokens'
        BY <1>4, <1>8
      <4> QED
        BY <1>7, <1>8, <3>3, <4>1
    <3> QED
      BY <1>3, <1>5, <2>1, <3>1, <3>2, <3>3
  <2> QED
    BY <2>1
<1>15. ScanAgreesWithClassifier'
  BY <1>1, <1>4, <1>5, <1>10, <1>12, <1>13, <1>14 DEF ScanAgreesWithClassifier
<1> QED
  BY <1>1, <1>8, <1>11, <1>15 DEF TagInv

LEMMA TagStarts == TagInit => TagInv
<1> SUFFICES ASSUME TagInit PROVE TagInv
  OBVIOUS
<1>1. tokens = << >>
  BY DEF TagInit
<1>2. text \in Seq(Characters)
  <2>1. PICK m \in 0 .. MaxText : text \in [1 .. m -> Characters]
    BY DEF TagInit, BoundedSeq, SeqOf
  <2> QED
    BY <2>1, MaxTextAssumption
<1>3. ScannedTo = 0
  BY <1>1 DEF ScannedTo
<1> QED
  BY <1>1, <1>2, <1>3 DEF TagInv, ScanAgreesWithClassifier

(* For every text and whatever tags the words get: the scan gives each token *)
(* the kind the shared classifier gives its text, takes no character twice   *)
(* and skips nothing but whitespace.                                         *)
THEOREM ScanIsTheClassifiers == TagSpec => []ScanAgreesWithClassifier
<1>1. TagInv /\ [TagNext]_taggerVars => TagInv'
  <2>1. ASSUME TagInv, UNCHANGED <<text, tokens>> PROVE TagInv'
    BY <2>1 DEF TagInv, ScanAgreesWithClassifier, ScannedTo
  <2> QED
    BY <2>1, ScanKeeps DEF TagNext, Tag, taggerVars
<1>2. TagInv => ScanAgreesWithClassifier
  BY DEF TagInv
<1> QED
  BY <1>1, <1>2, TagStarts, PTL DEF TagSpec
=============================================================================
