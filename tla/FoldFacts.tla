------------------------------ MODULE FoldFacts ------------------------------
(***************************************************************************)
(* What FoldLeft computes.  The step of the fold and what is said of it    *)
(* are constants of this module, so that a fold of another module, with    *)
(* its invariant, becomes an instance of it; c and d stand for what that   *)
(* step uses besides its two arguments.                                    *)
(***************************************************************************)
EXTENDS Integers, Sequences, SequencesExt, WellFoundedInduction, TLAPS

CONSTANTS
    Op(_, _, _, _),      \* the step: c, d, what has been computed so far, the next element
    Inv(_, _, _, _, _)   \* what holds on the way: c, d, the sequence, how many elements, what they gave

FoldOf(c, d, base, s) == FoldLeft(LAMBDA a, x : Op(c, d, a, x), base, s)

\* Induction, as a fact about the set of numbers that have the property.
LEMMA CountUp ==
    ASSUME NEW n \in Nat, NEW S, 0 \in S, \A i \in 1..n : i - 1 \in S => i \in S
    PROVE  0..n \subseteq S
<1> DEFINE Missing == (0..n) \ S
<1>1. SUFFICES ASSUME Missing # {} PROVE FALSE
  OBVIOUS
<1>2. Missing \subseteq Nat
  OBVIOUS
<1>3. PICK i \in Missing : \A j \in Missing : <<j, i>> \notin OpToRel(<, Nat)
  BY <1>1, <1>2, NatLessThanWellFounded, WFMin
<1> HIDE DEF Missing
<1>4. i \in 1..n /\ i - 1 \in 0..n /\ i - 1 \in Nat /\ i \in Nat
  BY DEF Missing
<1>5. <<i - 1, i>> \in OpToRel(<, Nat)
  BY <1>4 DEF OpToRel
<1>6. i - 1 \notin Missing
  BY <1>3, <1>5
<1>7. i - 1 \in S
  BY <1>4, <1>6 DEF Missing
<1> QED
  BY <1>4, <1>7 DEF Missing

LEMMA MaxOf ==
    ASSUME NEW n \in Nat, NEW t \in SUBSET (1..n), t # {}
    PROVE  Max(t) \in t /\ \A y \in t : Max(t) >= y
<1> DEFINE S == {i \in 0..n : \A u \in SUBSET (1..i) : u # {} => \E x \in u : \A y \in u : x >= y}
<1>1. 0 \in S
  <2>1. \A u \in SUBSET (1..0) : u = {}
    OBVIOUS
  <2>2. 0 \in 0..n
    OBVIOUS
  <2> QED
    BY <2>1, <2>2
<1>2. ASSUME NEW i \in 1..n, i - 1 \in S PROVE i \in S
  <2>1. ASSUME NEW u \in SUBSET (1..i), u # {} PROVE \E x \in u : \A y \in u : x >= y
    <3>1. CASE i \in u
      BY <3>1
    <3>2. CASE i \notin u
      <4>1. u \in SUBSET (1..(i - 1))
        BY <3>2
      <4> QED
        BY <4>1, <2>1, <1>2
    <3> QED
      BY <3>1, <3>2
  <2> QED
    BY <2>1
<1> HIDE DEF S
<1>3. n \in S
  BY <1>1, <1>2, CountUp
<1>4. \E x \in t : \A y \in t : x >= y
  BY <1>3 DEF S
<1> QED
  BY <1>4 DEF Max

Runs(c, d, base, s, n, h) ==
    /\ DOMAIN h = 0..n
    /\ h[0] = base
    /\ \A i \in 1..n : h[i] = Op(c, d, h[i - 1], s[i])
    /\ FoldOf(c, d, base, s) = h[n]

(***************************************************************************)
(* A fold goes through the sequence from its first element to its last:    *)
(* h[i] is what it has computed after i elements.                          *)
(***************************************************************************)
THEOREM FoldRun ==
    ASSUME NEW c, NEW d, NEW base, NEW s, NEW n \in Nat, DOMAIN s = 1..n
    PROVE  \E h : Runs(c, d, base, s, n, h)
<1> DEFINE Value(f, t) == IF t = {} THEN base ELSE Op(c, d, f[t \ {Max(t)}], s[Max(t)])
           IsIter(f, i) == f = [t \in SUBSET (1..i) |-> Value(f, t)]
           S == {i \in 0..n : \E f : IsIter(f, i)}
<1>1. 0 \in S
  <2> DEFINE f == [t \in SUBSET (1..0) |-> base]
  <2>1. \A t \in SUBSET (1..0) : t = {}
    OBVIOUS
  <2>2. IsIter(f, 0)
    BY <2>1
  <2> QED
    BY <2>2
<1>2. ASSUME NEW i \in 1..n, i - 1 \in S PROVE i \in S
  <2>1. PICK f : IsIter(f, i - 1)
    BY <1>2
  <2> DEFINE g == [t \in SUBSET (1..i) |-> IF i \in t THEN Op(c, d, f[t \ {i}], s[i]) ELSE f[t]]
  <2>i. i \in Nat
    OBVIOUS
  <2>2. ASSUME NEW t \in SUBSET (1..i) PROVE g[t] = Value(g, t)
    <3>1. CASE i \in t
      <4>1. Max(t) = i
        <5>1. Max(t) \in t /\ Max(t) >= i
          BY <3>1, <2>i, MaxOf
        <5>2. Max(t) \in 1..i
          BY <5>1
        <5> HIDE DEF g
        <5> QED
          BY <5>1, <5>2, <2>i
      <4>2. t \ {i} \in SUBSET (1..i) /\ i \notin t \ {i}
        OBVIOUS
      <4>3. g[t \ {i}] = f[t \ {i}]
        BY <4>2
      <4>4. g[t] = Op(c, d, f[t \ {i}], s[i])
        BY <3>1
      <4> HIDE DEF g
      <4> QED
        BY <3>1, <4>1, <4>3, <4>4
    <3>2. CASE i \notin t /\ t # {}
      <4>1. t \in SUBSET (1..(i - 1))
        BY <3>2
      <4>2. Max(t) \in t
        BY <3>2, <2>i, MaxOf
      <4>3. g[t] = f[t] /\ g[t \ {Max(t)}] = f[t \ {Max(t)}]
        BY <3>2
      <4>4. f[t] = Value(f, t)
        BY <4>1, <2>1
      <4> HIDE DEF g
      <4> QED
        BY <3>2, <4>3, <4>4
    <3>3. CASE t = {}
      <4>1. g[t] = f[t]
        BY <3>3
      <4>2. f[t] = Value(f, t)
        BY <3>3, <2>1
      <4> HIDE DEF g
      <4> QED
        BY <3>3, <4>1, <4>2
    <3> QED
      BY <3>1, <3>2, <3>3
  <2>3. DOMAIN g = SUBSET (1..i) /\ g = [t \in SUBSET (1..i) |-> g[t]]
    OBVIOUS
  <2> HIDE DEF g
  <2>4. IsIter(g, i)
    BY <2>2, <2>3
  <2> HIDE DEF IsIter
  <2> QED
    BY <2>4, i \in 0..n
<1>3. n \in S
  <2> HIDE DEF S
  <2> QED
    BY <1>1, <1>2, CountUp
<1> DEFINE iter == CHOOSE f : IsIter(f, n)
           h == [i \in 0..n |-> iter[1..i]]
<1>4. IsIter(iter, n)
  BY <1>3
<1>5. FoldOf(c, d, base, s) = iter[1..n]
  BY DEF FoldOf, FoldLeft, MapThenFoldSet
<1> HIDE DEF iter
<1>6. h[0] = base
  <2>1. (1..0) = {} /\ {} \in SUBSET (1..n)
    OBVIOUS
  <2> QED
    BY <2>1, <1>4
<1>7. ASSUME NEW i \in 1..n PROVE h[i] = Op(c, d, h[i - 1], s[i])
  <2>1. 1..i \in SUBSET (1..n) /\ i \in 1..i /\ (1..i) \ {i} = 1..(i - 1) /\ i \in Nat
    OBVIOUS
  <2>2. Max(1..i) = i
    <3>1. Max(1..i) \in 1..i /\ Max(1..i) >= i
      BY <2>1, MaxOf
    <3> QED
      BY <3>1, <2>1
  <2>3. iter[1..i] = Value(iter, 1..i)
    BY <2>1, <1>4
  <2>4. h[i] = iter[1..i] /\ h[i - 1] = iter[1..(i - 1)]
    OBVIOUS
  <2>5. 1..i # {}
    BY <2>1
  <2> HIDE DEF h
  <2> QED
    BY <2>1, <2>2, <2>3, <2>4, <2>5
<1>8. DOMAIN h = 0..n /\ FoldOf(c, d, base, s) = h[n]
  BY <1>5
<1> QED
  BY <1>6, <1>7, <1>8 DEF Runs

\* Induction along the sequence, for the Inv of an instance.
THEOREM FoldKeeps ==
    ASSUME NEW c, NEW d, NEW base, NEW s, NEW n \in Nat, DOMAIN s = 1..n,
           Inv(c, d, s, 0, base),
           \A i \in 1..n : \A a : Inv(c, d, s, i - 1, a) => Inv(c, d, s, i, Op(c, d, a, s[i]))
    PROVE  Inv(c, d, s, n, FoldOf(c, d, base, s))
<1>p. PICK h : Runs(c, d, base, s, n, h)
  BY FoldRun
<1>1. /\ DOMAIN h = 0..n
      /\ h[0] = base
      /\ \A i \in 1..n : h[i] = Op(c, d, h[i - 1], s[i])
      /\ FoldOf(c, d, base, s) = h[n]
  BY <1>p DEF Runs
<1> DEFINE S == {i \in 0..n : Inv(c, d, s, i, h[i])}
<1>2. 0 \in S
  BY <1>1
<1>3. ASSUME NEW i \in 1..n, i - 1 \in S PROVE i \in S
  <2>1. h[i] = Op(c, d, h[i - 1], s[i]) /\ Inv(c, d, s, i - 1, h[i - 1])
    BY <1>1, <1>3
  <2> QED
    BY <2>1
<1>4. n \in S
  <2> HIDE DEF S
  <2> QED
    BY <1>2, <1>3, CountUp
<1> QED
  BY <1>1, <1>4

\* The empty sequence gives the base, and one more element is one more step.
THEOREM FoldNone == ASSUME NEW c, NEW d, NEW base PROVE FoldOf(c, d, base, <<>>) = base
<1>1. 0 \in Nat /\ DOMAIN <<>> = 1..0
  OBVIOUS
<1>2. PICK h : Runs(c, d, base, <<>>, 0, h)
  BY <1>1, FoldRun
<1> QED
  BY <1>2 DEF Runs

THEOREM FoldMore ==
    ASSUME NEW c, NEW d, NEW base, NEW T, NEW s \in Seq(T), NEW x \in T
    PROVE  FoldOf(c, d, base, Append(s, x)) = Op(c, d, FoldOf(c, d, base, s), x)
<1> DEFINE n == Len(s)
           t == Append(s, x)
<1>1. n \in Nat /\ DOMAIN s = 1..n /\ DOMAIN t = 1..(n + 1) /\ t[n + 1] = x /\ \A i \in 1..n : t[i] = s[i]
  OBVIOUS
<1> HIDE DEF n, t
<1>2. PICK h : Runs(c, d, base, s, n, h)
  BY <1>1, FoldRun
<1>3. PICK g : Runs(c, d, base, t, n + 1, g)
  BY <1>1, n + 1 \in Nat, FoldRun
<1> DEFINE S == {i \in 0..n : g[i] = h[i]}
<1>4. 0 \in S
  BY <1>1, <1>2, <1>3 DEF Runs
<1>5. ASSUME NEW i \in 1..n, i - 1 \in S PROVE i \in S
  <2>1. h[i] = Op(c, d, h[i - 1], s[i])
    BY <1>2 DEF Runs
  <2>2. g[i] = Op(c, d, g[i - 1], t[i])
    BY <1>1, <1>3 DEF Runs
  <2> QED
    BY <2>1, <2>2, <1>1, <1>5
<1>6. n \in S
  <2> HIDE DEF S
  <2> QED
    BY <1>1, <1>4, <1>5, CountUp
<1>7. g[n + 1] = Op(c, d, g[n], t[n + 1])
  BY <1>1, <1>3 DEF Runs
<1>8. FoldOf(c, d, base, t) = g[n + 1] /\ FoldOf(c, d, base, s) = h[n]
  BY <1>2, <1>3 DEF Runs
<1> QED
  BY <1>1, <1>6, <1>7, <1>8 DEF t

=============================================================================
