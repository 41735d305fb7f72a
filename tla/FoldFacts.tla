------------------------------ MODULE FoldFacts ------------------------------
(***************************************************************************)
(* What a fold over a sequence (FoldLeft, a loop over a slice in the code) *)
(* computes, element by element.  There is one instance for every fold of  *)
(* the model, and an instance brings along all this module extends: so it  *)
(* extends nothing but the integers.  Induction on the naturals, which all *)
(* of it rests on, is the hypothesis Inductive, and is proved once where   *)
(* the instances are made (NatInduct).                                     *)
(***************************************************************************)
EXTENDS Integers
CONSTANT Op(_, _, _)  \* the step: what is kept from the first, the result so far, the element

Inductive ==
  \A T : 0 \in T /\ (\A n \in Nat : n \in T => n + 1 \in T) => Nat \subseteq T

\* The recursion by which FoldLeft is defined, over the sets of positions.
Greatest(t) == CHOOSE x \in t : \A y \in t : x >= y

Iter(c, base, s, D, it) ==
  it = [t \in SUBSET D |-> IF t = {} THEN base ELSE Op(c, it[t \ {Greatest(t)}], s[Greatest(t)])]

LEMMA MaxIs ==
  ASSUME NEW t, NEW x \in t, t \subseteq Int, \A y \in t : y <= x
  PROVE  Greatest(t) = x
<1>1. \A y \in t : x >= y
  OBVIOUS
<1>2. \A z \in t : (\A y \in t : z >= y) => z = x
  BY <1>1
<1> QED BY <1>1, <1>2 DEF Greatest

LEMMA IterExists ==
  ASSUME Inductive, NEW c, NEW base, NEW s, NEW n \in Nat
  PROVE  \E it : Iter(c, base, s, 1 .. n, it)
<1> DEFINE T == {m \in Nat : \E it : Iter(c, base, s, 1 .. m, it)}
<1>1. 0 \in T
  <2> DEFINE it == [t \in SUBSET (1 .. 0) |-> base]
  <2>1. Iter(c, base, s, 1 .. 0, it)
    <3>1. SUBSET (1 .. 0) = {{}}
      OBVIOUS
    <3> QED BY <3>1 DEF Iter
  <2> QED BY <2>1
<1>2. ASSUME NEW m \in Nat, m \in T PROVE m + 1 \in T
  <2>1. PICK it : Iter(c, base, s, 1 .. m, it)
    BY <1>2
  <2> DEFINE D == 1 .. m + 1
             jt == [t \in SUBSET D |->
                      IF m + 1 \in t THEN Op(c, it[t \ {m + 1}], s[m + 1]) ELSE it[t]]
  <2>2. ASSUME NEW t \in SUBSET D
        PROVE  jt[t] = IF t = {} THEN base ELSE Op(c, jt[t \ {Greatest(t)}], s[Greatest(t)])
    <3>1. CASE m + 1 \in t
      <4>1. Greatest(t) = m + 1
        <5>1. t \subseteq Int /\ \A y \in t : y <= m + 1
          OBVIOUS
        <5> QED BY <3>1, <5>1, MaxIs
      <4>2. t \ {m + 1} \in SUBSET (1 .. m) /\ t \ {m + 1} \in SUBSET D
        OBVIOUS
      <4>3. jt[t \ {m + 1}] = it[t \ {m + 1}]
        BY <4>2
      <4> QED BY <3>1, <4>1, <4>3
    <3>2. CASE m + 1 \notin t
      <4>1. t \in SUBSET (1 .. m)
        BY <3>2
      <4>2. it[t] = IF t = {} THEN base ELSE Op(c, it[t \ {Greatest(t)}], s[Greatest(t)])
        BY <2>1, <4>1 DEF Iter
      <4>3. jt[t] = it[t] /\ jt[t \ {Greatest(t)}] = it[t \ {Greatest(t)}]
        BY <3>2, <4>1
      <4> QED BY <4>2, <4>3
    <3> QED BY <3>1, <3>2
  <2>3. jt = [t \in SUBSET D |-> jt[t]]
    OBVIOUS
  <2> HIDE DEF jt
  <2>4. Iter(c, base, s, D, jt)
    BY <2>2, <2>3 DEF Iter
  <2> QED BY <2>4
<1> HIDE DEF T
<1>3. Nat \subseteq T
  BY <1>1, <1>2 DEF Inductive
<1> QED BY <1>3 DEF T

\* FoldLeft, with its definitions unfolded.
Folded(c, base, s) ==
  LET iter[t \in SUBSET DOMAIN s] ==
        IF t = {} THEN base ELSE Op(c, iter[t \ {CHOOSE x \in t : \A y \in t : x >= y}],
                                    s[CHOOSE x \in t : \A y \in t : x >= y])
  IN  iter[DOMAIN s]

(* What a fold has after each element of s, and a property of it by the number *)
(* of elements seen that holds of the base and that every step passes on.     *)
IsTrace(c, base, n, s, g) ==
  g[0] = base /\ \A k \in 1 .. n : g[k] = Op(c, g[k - 1], s[k])
IsPassedOn(c, base, n, s, I) ==
  base \in I[0] /\ \A k \in 1 .. n : \A acc \in I[k - 1] : Op(c, acc, s[k]) \in I[k]

LEMMA FoldHasTrace ==
  ASSUME Inductive, NEW c, NEW base, NEW n \in Nat, NEW s, DOMAIN s = 1 .. n
  PROVE  \E g : IsTrace(c, base, n, s, g) /\ Folded(c, base, s) = g[n]
<1> DEFINE it == CHOOSE it : Iter(c, base, s, DOMAIN s, it)
           g == [k \in 0 .. n |-> it[1 .. k]]
<1>1. Iter(c, base, s, 1 .. n, it)
  BY IterExists
<1>2. Folded(c, base, s) = it[DOMAIN s]
  BY DEF Folded, Iter, Greatest
<1> HIDE DEF it
<1>3. g[0] = base
  <2>1. 1 .. 0 = {}
    OBVIOUS
  <2> QED BY <1>1, <2>1 DEF Iter
<1>4. ASSUME NEW k \in 1 .. n PROVE g[k] = Op(c, g[k - 1], s[k])
  <2>1. Greatest(1 .. k) = k
    <3>1. k \in 1 .. k /\ (1 .. k) \subseteq Int /\ \A y \in 1 .. k : y <= k
      OBVIOUS
    <3> QED BY <3>1, MaxIs
  <2>2. (1 .. k) \ {k} = 1 .. k - 1
    OBVIOUS
  <2>3. (1 .. k) \in SUBSET (1 .. n) /\ (1 .. k) # {}
    <3>1. k \in 1 .. k /\ (1 .. k) \subseteq 1 .. n
      OBVIOUS
    <3> QED BY <3>1
  <2>4. it[1 .. k] = Op(c, it[1 .. k - 1], s[k])
    BY <1>1, <2>1, <2>2, <2>3 DEF Iter
  <2> QED BY <2>4
<1>5. g[n] = it[DOMAIN s]
  OBVIOUS
<1>6. IsTrace(c, base, n, s, g)
  <2> HIDE DEF g
  <2> QED BY <1>3, <1>4 DEF IsTrace
<1> QED BY <1>2, <1>5, <1>6

LEMMA TraceInvariant ==
  ASSUME Inductive, NEW c, NEW base, NEW n \in Nat, NEW s, NEW I, IsPassedOn(c, base, n, s, I),
         NEW g, IsTrace(c, base, n, s, g)
  PROVE  \A k \in 0 .. n : g[k] \in I[k]
<1> DEFINE T == {k \in Nat : k <= n => g[k] \in I[k]}
<1>1. 0 \in T
  BY DEF IsTrace, IsPassedOn
<1>2. ASSUME NEW k \in Nat, k \in T PROVE k + 1 \in T
  <2>1. SUFFICES ASSUME k + 1 <= n PROVE g[k + 1] \in I[k + 1]
    OBVIOUS
  <2>2. g[k] \in I[k] /\ k + 1 \in 1 .. n /\ (k + 1) - 1 = k
    BY <1>2, <2>1
  <2>3. g[k + 1] = Op(c, g[k], s[k + 1])
    BY <2>2 DEF IsTrace
  <2> QED
    BY <2>2, <2>3 DEF IsPassedOn
<1> HIDE DEF T
<1>3. Nat \subseteq T
  BY <1>1, <1>2 DEF Inductive
<1> QED
  BY <1>3 DEF T

HasTraceIn(c, base, n, s, I) ==
  \E g : /\ IsTrace(c, base, n, s, g)
         /\ \A k \in 0 .. n : g[k] \in I[k]
         /\ Folded(c, base, s) = g[n]

(* A fold has a trace, and the property holds all along it. *)
THEOREM FoldTrace ==
  ASSUME Inductive, NEW c, NEW base, NEW n \in Nat, NEW s, DOMAIN s = 1 .. n, NEW I,
         IsPassedOn(c, base, n, s, I)
  PROVE  HasTraceIn(c, base, n, s, I)
<1>1. PICK g : IsTrace(c, base, n, s, g) /\ Folded(c, base, s) = g[n]
  BY FoldHasTrace
<1> QED
  BY <1>1, TraceInvariant DEF HasTraceIn

(* A property that the base has and every step passes on, the result of the   *)
(* fold has, for every step operator and every sequence.                      *)
THEOREM FoldInvariant ==
  ASSUME Inductive, NEW c, NEW base, NEW n \in Nat, NEW s, DOMAIN s = 1 .. n, NEW I,
         IsPassedOn(c, base, n, s, I)
  PROVE  Folded(c, base, s) \in I[n]
<1>1. HasTraceIn(c, base, n, s, I)
  BY FoldTrace
<1>2. n \in 0 .. n
  OBVIOUS
<1> QED
  BY <1>1, <1>2 DEF HasTraceIn

(* There is only one such trace. *)
THEOREM FoldUnique ==
  ASSUME Inductive, NEW c, NEW base, NEW n \in Nat, NEW s, DOMAIN s = 1 .. n,
         NEW g, IsTrace(c, base, n, s, g)
  PROVE  Folded(c, base, s) = g[n]
<1>1. PICK h : IsTrace(c, base, n, s, h) /\ Folded(c, base, s) = h[n]
  BY FoldHasTrace
<1> DEFINE I == [k \in 0 .. n |-> {h[k]}]
<1>2. IsPassedOn(c, base, n, s, I)
  BY <1>1 DEF IsTrace, IsPassedOn
<1> HIDE DEF I
<1>3. g[n] \in I[n]
  BY <1>2, TraceInvariant
<1> QED
  BY <1>1, <1>3 DEF I
=============================================================================
