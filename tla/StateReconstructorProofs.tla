---------------------- MODULE StateReconstructorProofs -----------------------
(***************************************************************************)
(* For any migration definitions and any requests.                         *)
(*                                                                         *)
(* First the planner: NewPlanner accepts well-formed acyclic definitions   *)
(* and no others, and names the strongly connected component of the least  *)
(* migration on a cycle.                                                   *)
(*                                                                         *)
(* Then the projections: what a request replays, each once and in order.   *)
(*                                                                         *)
(* Then the states: a project state as a set of facts, what an operation   *)
(* adds to it and takes from it, a migration, a replay.  From that the     *)
(* executor's invariant, and with it that a record of applied migrations   *)
(* stands for one schema, whatever way led there, and that what is on top  *)
(* of it can be unapplied.                                                 *)
(***************************************************************************)
EXTENDS StateReconstructor, FiniteSetTheorems, FunctionTheorems, TLAPS

\* What ValidateInput builds: finitely many keys, and dependencies among them.
IsGraph(g) ==
    /\ g \in [DOMAIN g -> SUBSET DOMAIN g]
    /\ IsFiniteSet(DOMAIN g)
    /\ DOMAIN g \subseteq Nat

----------------------------------------------------------------------------
\* Paths

LEMMA ReachedParents ==
    ASSUME NEW g, IsGraph(g), NEW k \in DOMAIN g
    PROVE  g[k] \subseteq ReachedFrom(g, k)
BY DEF ReachedFrom, IsGraph

LEMMA ReachedStep ==
    ASSUME NEW g, IsGraph(g), NEW k \in DOMAIN g, NEW m \in ReachedFrom(g, k)
    PROVE  /\ m \in DOMAIN g
           /\ g[m] \subseteq ReachedFrom(g, k)
BY DEF ReachedFrom, IsGraph

\* What is closed under dependencies and holds those of k holds all that k reaches.
LEMMA ReachedLeast ==
    ASSUME NEW g, IsGraph(g), NEW k \in DOMAIN g, NEW S \in SUBSET DOMAIN g,
           g[k] \subseteq S, \A m \in S : g[m] \subseteq S
    PROVE  ReachedFrom(g, k) \subseteq S
BY DEF ReachedFrom

LEMMA ReachedTransitive ==
    ASSUME NEW g, IsGraph(g), NEW k \in DOMAIN g, NEW m \in ReachedFrom(g, k)
    PROVE  ReachedFrom(g, m) \subseteq ReachedFrom(g, k)
<1>1. ReachedFrom(g, k) \in SUBSET DOMAIN g
  BY DEF ReachedFrom
<1>2. m \in DOMAIN g /\ g[m] \subseteq ReachedFrom(g, k)
  BY ReachedStep
<1>3. \A n \in ReachedFrom(g, k) : g[n] \subseteq ReachedFrom(g, k)
  BY ReachedStep
<1> QED
  BY <1>1, <1>2, <1>3, ReachedLeast

LEMMA ReachedFirstStep ==
    ASSUME NEW g, IsGraph(g), NEW k \in DOMAIN g, NEW n \in ReachedFrom(g, k)
    PROVE  \E p \in g[k] : n = p \/ n \in ReachedFrom(g, p)
<1> DEFINE S == {m \in DOMAIN g : \E p \in g[k] : m = p \/ m \in ReachedFrom(g, p)}
<1>1. g[k] \subseteq S /\ g[k] \subseteq DOMAIN g
  BY DEF IsGraph
<1>2. \A m \in S : g[m] \subseteq S
  <2> SUFFICES ASSUME NEW m \in S, NEW z \in g[m]
               PROVE  z \in S
    OBVIOUS
  <2>1. PICK p \in g[k] : m = p \/ m \in ReachedFrom(g, p)
    OBVIOUS
  <2>2. p \in DOMAIN g /\ z \in DOMAIN g
    BY <1>1 DEF IsGraph
  <2>3. z \in ReachedFrom(g, p)
    BY <2>1, <2>2, ReachedParents, ReachedStep
  <2> QED
    BY <2>2, <2>3
<1>3. ReachedFrom(g, k) \subseteq S
  BY <1>1, <1>2, ReachedLeast
<1> QED
  BY <1>3

\* A non-empty set of numbers has a least element.
LEMMA LeastOf ==
    ASSUME NEW S \in SUBSET Nat, S # {}
    PROVE  /\ Min(S) \in S
           /\ \A n \in S : Min(S) <= n
<1>1. PICK x \in S : \A y \in S : ~ (<<y, x>> \in OpToRel(<, Nat))
  BY NatLessThanWellFounded, WFMin
<1>2. ASSUME NEW y \in S
      PROVE  x <= y
  <2>1. x \in Nat /\ y \in Nat /\ ~(<<y, x>> \in {ss \in Nat \X Nat : ss[1] < ss[2]})
    BY <1>1 DEF OpToRel
  <2> QED
    BY <2>1
<1> QED
  BY <1>2 DEF Min

\* How many migrations k reaches, and how many it does not reach.
Below(g, k) == Cardinality(ReachedFrom(g, k))
NotBelow(g, k) == Cardinality(DOMAIN g \ ReachedFrom(g, k))

LEMMA BelowIsSmaller ==
    ASSUME NEW g, IsGraph(g), NEW k \in DOMAIN g, NEW p \in g[k], p \notin ReachedFrom(g, p)
    PROVE  /\ Below(g, p) \in Nat /\ Below(g, k) \in Nat /\ Below(g, p) < Below(g, k)
           /\ NotBelow(g, p) \in Nat /\ NotBelow(g, k) \in Nat /\ NotBelow(g, k) < NotBelow(g, p)
<1> DEFINE R == ReachedFrom(g, k)
           P == ReachedFrom(g, p)
           D == DOMAIN g
<1>1. p \in D /\ p \in R
  BY ReachedParents DEF IsGraph
<1>2. P \subseteq R
  BY <1>1, ReachedTransitive
<1>3. R \in SUBSET D /\ P \in SUBSET R /\ P # R /\ D \ R \in SUBSET (D \ P) /\ D \ R # D \ P
  BY <1>1, <1>2 DEF ReachedFrom
<1>4. IsFiniteSet(D) /\ IsFiniteSet(R) /\ IsFiniteSet(D \ P)
  BY <1>3, FS_Subset, FS_Difference DEF IsGraph
<1>5. Cardinality(P) <= Cardinality(R) /\ Cardinality(P) # Cardinality(R) /\ IsFiniteSet(P)
  BY <1>3, <1>4, FS_Subset
<1>6. /\ Cardinality(D \ R) <= Cardinality(D \ P) /\ Cardinality(D \ R) # Cardinality(D \ P)
      /\ IsFiniteSet(D \ R)
  BY <1>3, <1>4, FS_Subset
<1>7. Cardinality(P) \in Nat /\ Cardinality(R) \in Nat /\ Cardinality(D \ R) \in Nat /\ Cardinality(D \ P) \in Nat
  BY <1>4, <1>5, <1>6, FS_CardinalityType
<1> QED
  BY <1>5, <1>6, <1>7 DEF Below, NotBelow

\* Without a migration on a cycle the graph is acyclic.
LEMMA AcyclicWithoutCycle ==
    ASSUME NEW g, IsGraph(g), OnCycle(g) = {}
    PROVE  Acyclic(g)
<1>1. \A k \in DOMAIN g : k \notin ReachedFrom(g, k)
  BY DEF OnCycle
<1>2. \A k \in DOMAIN g : g[k] \subseteq DOMAIN g
  BY DEF IsGraph
<1>3. ASSUME NEW S \in SUBSET DOMAIN g, S # {}
      PROVE  \E n \in S : g[n] \cap S = {}
  <2> DEFINE T == {Below(g, n) : n \in S}
  <2> SUFFICES ASSUME \A n \in S : \E p \in S : p \in g[n]
               PROVE  FALSE
    OBVIOUS
  <2>1. \A n \in S : \E p \in S : Below(g, p) \in Nat /\ Below(g, n) \in Nat /\ Below(g, p) < Below(g, n)
    BY <1>1, <1>2, BelowIsSmaller
  <2>2. T \in SUBSET Nat /\ T # {}
    BY <1>3, <2>1
  <2>3. Min(T) \in T /\ \A x \in T : Min(T) <= x
    <3> HIDE DEF T
    <3> QED  BY <2>2, LeastOf
  <2>4. PICK n \in S : \A m \in S : Below(g, n) <= Below(g, m)
    BY <2>3
  <2> QED
    BY <2>1, <2>4
<1>4. ASSUME NEW S \in SUBSET DOMAIN g, S # {}
      PROVE  \E n \in S : Children(g, n) \cap S = {}
  <2> DEFINE T == {NotBelow(g, n) : n \in S}
  <2> SUFFICES ASSUME \A n \in S : \E c \in S : n \in g[c]
               PROVE  FALSE
    BY DEF Children
  <2>1. \A n \in S : \E c \in S : NotBelow(g, n) \in Nat /\ NotBelow(g, c) \in Nat /\ NotBelow(g, c) < NotBelow(g, n)
    BY <1>1, <1>2, BelowIsSmaller
  <2>2. T \in SUBSET Nat /\ T # {}
    BY <1>4, <2>1
  <2>3. Min(T) \in T /\ \A x \in T : Min(T) <= x
    <3> HIDE DEF T
    <3> QED  BY <2>2, LeastOf
  <2>4. PICK n \in S : \A m \in S : NotBelow(g, n) <= NotBelow(g, m)
    BY <2>3
  <2> QED
    BY <2>1, <2>4
<1> QED
  BY <1>3, <1>4 DEF Acyclic

----------------------------------------------------------------------------
(***************************************************************************)
(* The search.  g is the graph, idx and low are indices and lowLink, O is  *)
(* the set of the migrations on the stack and fr the calls of visit that   *)
(* have not returned, the innermost one last.  The segment of a call are   *)
(* the migrations on the stack from its own up to the next call's.         *)
(***************************************************************************)

Reaches(g, k, n) == n = k \/ n \in ReachedFrom(g, k)
Visited(idx) == {k \in DOMAIN idx : idx[k] # 0}
Done(idx, O) == Visited(idx) \ O
Before(idx, fr, i, y) == i < Len(fr) => idx[y] < idx[fr[i + 1].node]
Calls(fr) == 1..Len(fr)

Typed(g, idx, low, O, fr) ==
    /\ IsGraph(g)
    /\ idx \in [DOMAIN g -> Nat] /\ low \in [DOMAIN g -> Nat]
    /\ O \in SUBSET DOMAIN g
    /\ fr \in Seq([node : DOMAIN g, rest : SUBSET DOMAIN g])

\* Indices are given in order.
Numbered(idx, O) ==
    /\ \A k \in DOMAIN idx : idx[k] <= Cardinality(Visited(idx))
    /\ O \subseteq Visited(idx)

\* Every call is for a dependency of its caller, and entered after it.
Nested(g, idx, O, fr) ==
    /\ \A i \in Calls(fr) : fr[i].node \in O /\ fr[i].rest \subseteq g[fr[i].node]
    /\ \A i, j \in Calls(fr) : i < j => idx[fr[i].node] < idx[fr[j].node]
    /\ \A i \in Calls(fr) : i < Len(fr) => fr[i + 1].node \in g[fr[i].node]
    /\ fr = <<>> => O = {}
    /\ \A y \in O : idx[fr[1].node] <= idx[y]

\* A call reaches what was pushed after it; what was pushed before the next call reaches it.
Linked(g, idx, O, fr) ==
    \A i \in Calls(fr), y \in O :
        /\ idx[fr[i].node] <= idx[y] => Reaches(g, fr[i].node, y)
        /\ Before(idx, fr, i, y) => Reaches(g, y, fr[i].node)

\* A low link is the index of something on the stack that the call reaches.
LowLinks(g, idx, low, fr) ==
    \A i \in Calls(fr) :
        /\ idx[fr[1].node] <= low[fr[i].node] /\ low[fr[i].node] <= idx[fr[i].node]
        /\ \A j \in Calls(fr) :
              j < i /\ low[fr[i].node] < idx[fr[j + 1].node] => Reaches(g, fr[i].node, fr[j].node)

\* The dependencies of a segment have been visited, and the low link of the call knows them.
Seen(g, idx, low, O, fr) ==
    \A i \in Calls(fr), y \in O : idx[fr[i].node] <= idx[y] /\ Before(idx, fr, i, y) =>
        \A z \in g[y] : \/ y = fr[i].node /\ z \in fr[i].rest
                        \/ idx[z] # 0 /\ (z \in O => low[fr[i].node] <= idx[z])

\* No way leads back from a finished component.
DoneClosed(g, idx, O) == \A k \in Done(idx, O) : g[k] \subseteq Done(idx, O)

Search(g, idx, low, O, fr) ==
    /\ Typed(g, idx, low, O, fr)
    /\ Numbered(idx, O)
    /\ Nested(g, idx, O, fr)
    /\ Linked(g, idx, O, fr)
    /\ LowLinks(g, idx, low, fr)
    /\ Seen(g, idx, low, O, fr)
    /\ DoneClosed(g, idx, O)

\* The strongly connected component of a migration that lies on a cycle.
Component(g, k) == {n \in ReachedFrom(g, k) : k \in ReachedFrom(g, n)}

Found(g, idx, O) == {Component(g, k) : k \in {n \in Done(idx, O) : n \in ReachedFrom(g, n)}}

----------------------------------------------------------------------------
\* visit is called

LEMMA ReachesFurther ==
    ASSUME NEW g, IsGraph(g), NEW k \in DOMAIN g, NEW m \in DOMAIN g, NEW n \in g[m], Reaches(g, k, m)
    PROVE  Reaches(g, k, n)
BY ReachedParents, ReachedStep DEF Reaches

LEMMA ReachesChain ==
    ASSUME NEW g, IsGraph(g), NEW k \in DOMAIN g, NEW m \in DOMAIN g, NEW n \in DOMAIN g,
           Reaches(g, k, m), Reaches(g, m, n)
    PROVE  Reaches(g, k, n)
BY ReachedTransitive DEF Reaches

\* The new call, and the caller that has taken the migration off its list.
Entered(g, idx, low, O, fr, node, idx2, low2, O2, fr2) ==
    LET c == 1 + Cardinality(Visited(idx))
    IN  /\ node \in DOMAIN g /\ idx[node] = 0
        /\ idx2 = [idx EXCEPT ![node] = c]
        /\ low2 = [low EXCEPT ![node] = c]
        /\ O2 = O \union {node}
        /\ fr2 \in Seq([node : DOMAIN g, rest : SUBSET DOMAIN g])
        /\ Len(fr2) = Len(fr) + 1
        /\ fr2[Len(fr2)] = [node |-> node, rest |-> g[node]]
        /\ \A i \in Calls(fr) : /\ fr2[i].node = fr[i].node
                                /\ fr2[i].rest \subseteq fr[i].rest
                                /\ fr[i].rest \subseteq fr2[i].rest \union {node}
        /\ fr # <<>> => node \in g[fr[Len(fr)].node]

LEMMA EnteredNumbered ==
    ASSUME NEW g, NEW idx, NEW low, NEW O, NEW fr, NEW node, NEW idx2, NEW low2, NEW O2, NEW fr2,
           Search(g, idx, low, O, fr), Entered(g, idx, low, O, fr, node, idx2, low2, O2, fr2)
    PROVE  /\ Cardinality(Visited(idx)) \in Nat
           /\ Typed(g, idx2, low2, O2, fr2)
           /\ Numbered(idx2, O2)
           /\ Done(idx2, O2) = Done(idx, O)
           /\ node \notin O
           /\ \A k \in DOMAIN g : k # node => idx2[k] = idx[k] /\ low2[k] = low[k] /\ idx[k] < idx2[node]
           /\ idx2[node] = low2[node] /\ idx2[node] > 0
           /\ IsGraph(g) /\ O \subseteq DOMAIN g /\ node \in DOMAIN g
           /\ idx \in [DOMAIN g -> Nat] /\ idx2 \in [DOMAIN g -> Nat]
           /\ low \in [DOMAIN g -> Nat] /\ low2 \in [DOMAIN g -> Nat]
<1> DEFINE c == 1 + Cardinality(Visited(idx))
<1>1. /\ DOMAIN idx = DOMAIN g /\ IsFiniteSet(DOMAIN g) /\ idx \in [DOMAIN g -> Nat] /\ low \in [DOMAIN g -> Nat]
      /\ node \in DOMAIN g /\ idx[node] = 0 /\ O \subseteq Visited(idx)
      /\ \A k \in DOMAIN g : idx[k] <= Cardinality(Visited(idx))
  BY DEF Search, Typed, IsGraph, Entered, Numbered
<1>2. Visited(idx) \in SUBSET DOMAIN g /\ node \notin Visited(idx)
  BY <1>1 DEF Visited
<1>3. IsFiniteSet(Visited(idx)) /\ Cardinality(Visited(idx)) \in Nat
  BY <1>1, <1>2, FS_Subset, FS_CardinalityType
<1>4. idx2 = [idx EXCEPT ![node] = c] /\ low2 = [low EXCEPT ![node] = c]
  BY DEF Entered
<1>5. idx2 \in [DOMAIN g -> Nat] /\ low2 \in [DOMAIN g -> Nat]
  BY <1>1, <1>3, <1>4
<1>12. /\ c \in Nat /\ idx2[node] = c /\ low2[node] = c /\ c > 0
       /\ \A k \in DOMAIN g : k # node => idx2[k] = idx[k] /\ low2[k] = low[k] /\ idx[k] < c
  BY <1>1, <1>3, <1>4
<1> HIDE DEF c
<1>6. Visited(idx2) = Visited(idx) \union {node}
  BY <1>1, <1>5, <1>12 DEF Visited
<1>7. Cardinality(Visited(idx2)) = c
  BY <1>2, <1>3, <1>6, FS_AddElement DEF c
<1>8. O2 = O \union {node} /\ O2 \in SUBSET DOMAIN g
  BY <1>1 DEF Entered, Search, Typed
<1>9. Typed(g, idx2, low2, O2, fr2)
  BY <1>5, <1>8 DEF Entered, Search, Typed
<1>10. Numbered(idx2, O2)
  BY <1>1, <1>3, <1>5, <1>6, <1>7, <1>8, <1>12 DEF Numbered, c
<1>11. node \notin O /\ Done(idx2, O2) = Done(idx, O)
  BY <1>1, <1>2, <1>6, <1>8 DEF Done
<1> QED
  BY <1>1, <1>3, <1>5, <1>8, <1>9, <1>10, <1>11, <1>12 DEF Search, Typed

LEMMA FramesOf ==
    ASSUME NEW g, NEW fr \in Seq([node : DOMAIN g, rest : SUBSET DOMAIN g])
    PROVE  /\ Len(fr) \in Nat
           /\ (fr = <<>> <=> Len(fr) = 0)
           /\ Calls(fr) = 1..Len(fr)
           /\ \A i \in 1..Len(fr) : fr[i].node \in DOMAIN g /\ fr[i].rest \subseteq DOMAIN g
<1> DEFINE F == [node : DOMAIN g, rest : SUBSET DOMAIN g]
<1>1. /\ \A i \in 1..Len(fr) : fr[i] \in F
      /\ Len(fr) \in Nat /\ (fr = <<>> <=> Len(fr) = 0)
  <2> HIDE DEF F
  <2>1. fr \in Seq(F)
    BY DEF F
  <2> QED
    BY <2>1
<1> QED
  BY <1>1 DEF Calls

LEMMA EnteredFrames ==
    ASSUME NEW g, NEW idx, NEW low, NEW O, NEW fr, NEW node, NEW idx2, NEW low2, NEW O2, NEW fr2,
           Search(g, idx, low, O, fr), Entered(g, idx, low, O, fr, node, idx2, low2, O2, fr2)
    PROVE  /\ Len(fr) \in Nat /\ Len(fr2) = Len(fr) + 1
           /\ Calls(fr) = 1..Len(fr) /\ Calls(fr2) = 1..Len(fr2)
           /\ fr2[Len(fr2)].node = node /\ fr2[Len(fr2)].rest = g[node]
           /\ \A i \in 1..Len(fr2) : i = Len(fr2) \/ i \in 1..Len(fr)
           /\ (fr = <<>> <=> Len(fr) = 0)
           /\ fr2 # <<>>
           /\ O2 = O \union {node}
           /\ \A i \in 1..Len(fr) :
                 /\ fr2[i].node = fr[i].node /\ fr[i].node \in O /\ fr[i].node \in DOMAIN g /\ fr[i].node # node
                 /\ idx2[fr[i].node] = idx[fr[i].node]
                 /\ low2[fr[i].node] = low[fr[i].node]
                 /\ fr2[i].rest \subseteq fr[i].rest
                 /\ fr[i].rest \subseteq fr2[i].rest \union {node}
<1>1. node \notin O /\ \A k \in DOMAIN g : k # node => idx2[k] = idx[k] /\ low2[k] = low[k]
  BY EnteredNumbered
<1>2. fr \in Seq([node : DOMAIN g, rest : SUBSET DOMAIN g])
  BY DEF Search, Typed
<1>3. /\ Len(fr) \in Nat /\ (fr = <<>> <=> Len(fr) = 0)
      /\ Calls(fr) = 1..Len(fr)
      /\ \A i \in 1..Len(fr) : fr[i].node \in DOMAIN g
  BY <1>2, FramesOf
<1>4. fr2 \in Seq([node : DOMAIN g, rest : SUBSET DOMAIN g]) /\ Len(fr2) = Len(fr) + 1 /\ O2 = O \union {node}
  BY DEF Entered
<1>5. fr2[Len(fr2)] = [node |-> node, rest |-> g[node]]
  BY DEF Entered
<1>6. \A i \in 1..Len(fr) : fr[i].node \in O
  BY <1>3 DEF Search, Nested
<1>7. \A i \in 1..Len(fr) : /\ fr2[i].node = fr[i].node
                            /\ fr2[i].rest \subseteq fr[i].rest
                            /\ fr[i].rest \subseteq fr2[i].rest \union {node}
  BY <1>3 DEF Entered
<1>8. fr2 # <<>> /\ Calls(fr2) = 1..Len(fr2)
  BY <1>3, <1>4, FramesOf
<1>9. \A i \in 1..Len(fr2) : i = Len(fr2) \/ i \in 1..Len(fr)
  BY <1>3, <1>4
<1> QED
  BY <1>9, <1>1, <1>3, <1>4, <1>5, <1>6, <1>7, <1>8

LEMMA EnteredNested ==
    ASSUME NEW g, NEW idx, NEW low, NEW O, NEW fr, NEW node, NEW idx2, NEW low2, NEW O2, NEW fr2,
           Search(g, idx, low, O, fr), Entered(g, idx, low, O, fr, node, idx2, low2, O2, fr2)
    PROVE  Nested(g, idx2, O2, fr2)
<1> DEFINE L == Len(fr)
           M == Len(fr2)
<1>1. /\ L \in Nat /\ M = L + 1 /\ Calls(fr) = 1..L /\ Calls(fr2) = 1..M
      /\ fr2[M].node = node /\ fr2[M].rest = g[node] /\ (fr = <<>> <=> L = 0) /\ fr2 # <<>>
      /\ O2 = O \union {node}
      /\ \A i \in 1..M : i = M \/ i \in 1..L
      /\ \A i \in 1..L :
            /\ fr2[i].node = fr[i].node /\ fr[i].node \in O /\ fr[i].node \in DOMAIN g /\ fr[i].node # node
            /\ idx2[fr[i].node] = idx[fr[i].node]
            /\ fr2[i].rest \subseteq fr[i].rest
  BY EnteredFrames
<1>2. /\ \A k \in DOMAIN g : k # node => idx2[k] = idx[k] /\ idx[k] < idx2[node]
      /\ node \notin O /\ O \subseteq DOMAIN g /\ node \in DOMAIN g
      /\ idx \in [DOMAIN g -> Nat] /\ idx2 \in [DOMAIN g -> Nat]
  BY EnteredNumbered
<1>3. /\ \A i \in 1..L : fr[i].rest \subseteq g[fr[i].node]
      /\ \A i, j \in 1..L : i < j => idx[fr[i].node] < idx[fr[j].node]
      /\ \A i \in 1..L : i < L => fr[i + 1].node \in g[fr[i].node]
      /\ fr = <<>> => O = {}
      /\ \A y \in O : idx[fr[1].node] <= idx[y]
  BY <1>1 DEF Search, Nested
<1>4. L > 0 => node \in g[fr[L].node]
  BY <1>1 DEF Entered
<1> HIDE DEF L, M
<1>5. \A i \in 1..M : fr2[i].node \in O2 /\ fr2[i].rest \subseteq g[fr2[i].node]
  BY <1>1, <1>3
<1>6. ASSUME NEW i \in 1..M, NEW j \in 1..M, i < j
      PROVE  idx2[fr2[i].node] < idx2[fr2[j].node]
  <2>1. i \in 1..L
    BY <1>6, <1>1
  <2>2. CASE j = M
    BY <2>1, <2>2, <1>1, <1>2
  <2>3. CASE j \in 1..L
    BY <2>1, <2>3, <1>1, <1>3, <1>6
  <2> QED
    BY <2>2, <2>3, <1>1
<1>7. ASSUME NEW i \in 1..M, i < M
      PROVE  fr2[i + 1].node \in g[fr2[i].node]
  <2>1. i \in 1..L /\ (i = L \/ (i < L /\ i + 1 \in 1..L))
    BY <1>7, <1>1
  <2> QED
    BY <2>1, <1>1, <1>3, <1>4
<1>8. ASSUME NEW y \in O2
      PROVE  idx2[fr2[1].node] <= idx2[y]
  <2>1. CASE L = 0
    BY <2>1, <1>1, <1>2, <1>3
  <2>2. CASE L > 0
    <3>1. 1 \in 1..L
      BY <2>2, <1>1
    <3>2. CASE y = node
      BY <3>1, <3>2, <1>1, <1>2
    <3>3. CASE y \in O
      BY <3>1, <3>3, <1>1, <1>2, <1>3
    <3> QED
      BY <3>2, <3>3, <1>1
  <2> QED
    BY <2>1, <2>2, <1>1
<1> QED
  BY <1>1, <1>5, <1>6, <1>7, <1>8 DEF Nested, M

LEMMA EnteredLinked ==
    ASSUME NEW g, NEW idx, NEW low, NEW O, NEW fr, NEW node, NEW idx2, NEW low2, NEW O2, NEW fr2,
           Search(g, idx, low, O, fr), Entered(g, idx, low, O, fr, node, idx2, low2, O2, fr2)
    PROVE  Linked(g, idx2, O2, fr2)
<1> DEFINE L == Len(fr)
           M == Len(fr2)
<1>1. /\ L \in Nat /\ M = L + 1 /\ Calls(fr) = 1..L /\ Calls(fr2) = 1..M
      /\ fr2[M].node = node /\ (fr = <<>> <=> L = 0)
      /\ O2 = O \union {node}
      /\ \A i \in 1..M : i = M \/ i \in 1..L
      /\ \A i \in 1..L :
            /\ fr2[i].node = fr[i].node /\ fr[i].node \in O /\ fr[i].node \in DOMAIN g /\ fr[i].node # node
            /\ idx2[fr[i].node] = idx[fr[i].node]
  BY EnteredFrames
<1>2. /\ \A k \in DOMAIN g : k # node => idx2[k] = idx[k] /\ idx[k] < idx2[node]
      /\ node \notin O /\ O \subseteq DOMAIN g /\ node \in DOMAIN g
      /\ idx \in [DOMAIN g -> Nat] /\ idx2 \in [DOMAIN g -> Nat] /\ IsGraph(g)
  BY EnteredNumbered
<1>3. /\ \A i, j \in 1..L : i < j => idx[fr[i].node] < idx[fr[j].node]
      /\ fr = <<>> => O = {}
  BY <1>1 DEF Search, Nested
<1>4. L > 0 => node \in g[fr[L].node]
  BY <1>1 DEF Entered
<1>5. \A i \in 1..L, y \in O :
        /\ idx[fr[i].node] <= idx[y] => Reaches(g, fr[i].node, y)
        /\ (i < L => idx[y] < idx[fr[i + 1].node]) => Reaches(g, y, fr[i].node)
  BY <1>1 DEF Search, Linked, Before, M
<1> HIDE DEF L, M
<1>6. L > 0 => /\ \A y \in O : Reaches(g, y, node)
               /\ \A i \in 1..L : Reaches(g, fr[i].node, node)
  <2> HAVE L > 0
  <2>1. L \in 1..L /\ \A i \in 1..L : i = L \/ i < L
    BY <1>1
  <2>2. \A y \in O : Reaches(g, y, fr[L].node)
    BY <2>1, <1>5
  <2>3. \A i \in 1..L : idx[fr[i].node] <= idx[fr[L].node]
    BY <2>1, <1>1, <1>2, <1>3
  <2>4. \A i \in 1..L : Reaches(g, fr[i].node, fr[L].node)
    BY <2>1, <2>3, <1>1, <1>5
  <2> QED
    BY <2>1, <2>2, <2>4, <1>1, <1>2, <1>4, ReachesFurther
<1>7. ASSUME NEW i \in 1..M, NEW y \in O2, idx2[fr2[i].node] <= idx2[y]
      PROVE  Reaches(g, fr2[i].node, y)
  <2>1. CASE i = M
    <3>1. y = node
      BY <2>1, <1>1, <1>2, <1>7
    <3> QED
      BY <3>1, <2>1, <1>1 DEF Reaches
  <2>2. CASE i \in 1..L /\ y = node
    BY <2>2, <1>1, <1>6
  <2>3. CASE i \in 1..L /\ y \in O
    BY <2>3, <1>1, <1>2, <1>5, <1>7
  <2> QED
    BY <2>1, <2>2, <2>3, <1>1
<1>8. ASSUME NEW i \in 1..M, NEW y \in O2, i < M => idx2[y] < idx2[fr2[i + 1].node]
      PROVE  Reaches(g, y, fr2[i].node)
  <2>1. CASE i = M
    <3>1. CASE y = node
      BY <2>1, <3>1, <1>1 DEF Reaches
    <3>2. CASE y \in O
      BY <2>1, <3>2, <1>1, <1>3, <1>6
    <3> QED
      BY <3>1, <3>2, <1>1
  <2>2. CASE i = L /\ i \in 1..L
    <3>1. y # node
      BY <2>2, <1>1, <1>2, <1>8
    <3> QED
      BY <2>2, <3>1, <1>1, <1>5
  <2>3. CASE i \in 1..L /\ i < L
    <3>1. i + 1 \in 1..L
      BY <2>3, <1>1
    <3>2. idx2[fr2[i + 1].node] = idx[fr[i + 1].node] /\ idx2[y] < idx[fr[i + 1].node]
      BY <3>1, <1>1, <1>8
    <3>3. y # node
      BY <3>1, <3>2, <1>1, <1>2
    <3> QED
      BY <2>3, <3>2, <3>3, <1>1, <1>2, <1>5
  <2> QED
    BY <2>1, <2>2, <2>3, <1>1
<1> QED
  BY <1>1, <1>7, <1>8 DEF Linked, Before, M

LEMMA EnteredLowLinks ==
    ASSUME NEW g, NEW idx, NEW low, NEW O, NEW fr, NEW node, NEW idx2, NEW low2, NEW O2, NEW fr2,
           Search(g, idx, low, O, fr), Entered(g, idx, low, O, fr, node, idx2, low2, O2, fr2)
    PROVE  LowLinks(g, idx2, low2, fr2)
<1> DEFINE L == Len(fr)
           M == Len(fr2)
<1>1. /\ L \in Nat /\ M = L + 1 /\ Calls(fr) = 1..L /\ Calls(fr2) = 1..M
      /\ fr2[M].node = node
      /\ \A i \in 1..M : i = M \/ i \in 1..L
      /\ \A i \in 1..L :
            /\ fr2[i].node = fr[i].node /\ fr[i].node \in DOMAIN g /\ fr[i].node # node
            /\ idx2[fr[i].node] = idx[fr[i].node] /\ low2[fr[i].node] = low[fr[i].node]
  BY EnteredFrames
<1>2. /\ \A k \in DOMAIN g : k # node => idx[k] < idx2[node]
      /\ node \in DOMAIN g /\ idx2[node] = low2[node]
      /\ idx \in [DOMAIN g -> Nat] /\ idx2 \in [DOMAIN g -> Nat]
      /\ low \in [DOMAIN g -> Nat] /\ low2 \in [DOMAIN g -> Nat]
  BY EnteredNumbered
<1>3. \A i \in 1..L :
        /\ idx[fr[1].node] <= low[fr[i].node] /\ low[fr[i].node] <= idx[fr[i].node]
        /\ \A j \in 1..L :
              j < i /\ low[fr[i].node] < idx[fr[j + 1].node] => Reaches(g, fr[i].node, fr[j].node)
  BY <1>1 DEF Search, LowLinks
<1> HIDE DEF L, M
<1>4. ASSUME NEW i \in 1..M
      PROVE  idx2[fr2[1].node] <= low2[fr2[i].node] /\ low2[fr2[i].node] <= idx2[fr2[i].node]
  <2>1. CASE i = M /\ L = 0
    BY <2>1, <1>1, <1>2
  <2>2. CASE i = M /\ L > 0
    <3>1. 1 \in 1..L
      BY <2>2, <1>1
    <3>2. fr[1].node \in DOMAIN g /\ idx2[fr2[1].node] = idx[fr[1].node] /\ fr[1].node # node
      BY <3>1, <1>1
    <3>3. idx2[fr2[1].node] \in Nat /\ idx2[node] \in Nat /\ idx2[fr2[1].node] < idx2[node]
      BY <3>2, <1>2
    <3> QED
      BY <3>3, <2>2, <1>1, <1>2
  <2>3. CASE i \in 1..L
    <3>1. 1 \in 1..L
      BY <2>3, <1>1
    <3> QED
      BY <3>1, <2>3, <1>1, <1>3
  <2> QED
    BY <2>1, <2>2, <2>3, <1>1
<1>5. ASSUME NEW i \in 1..M, NEW j \in 1..M, j < i, low2[fr2[i].node] < idx2[fr2[j + 1].node]
      PROVE  Reaches(g, fr2[i].node, fr2[j].node)
  <2>1. j \in 1..L /\ j + 1 \in 1..M
    BY <1>1, <1>5
  <2>2. CASE i = M
    <3>1. idx2[node] < idx2[fr2[j + 1].node]
      BY <2>2, <1>1, <1>2, <1>5
    <3>2. CASE j + 1 = M
      BY <3>1, <3>2, <1>1, <1>2
    <3>3. CASE j + 1 \in 1..L
      <4> DEFINE x == fr[j + 1].node
      <4>1. x \in DOMAIN g /\ idx2[fr2[j + 1].node] = idx[x] /\ x # node
        BY <3>3, <1>1
      <4>2. idx[x] \in Nat /\ idx2[node] \in Nat /\ idx[x] < idx2[node]
        BY <4>1, <1>2
      <4> QED
        BY <3>1, <4>1, <4>2
    <3> QED
      BY <3>2, <3>3, <2>1, <1>1
  <2>3. CASE i \in 1..L
    <3>1. j + 1 \in 1..L
      BY <2>1, <2>3, <1>1, <1>5
    <3> QED
      BY <3>1, <2>1, <2>3, <1>1, <1>3, <1>5
  <2> QED
    BY <2>2, <2>3, <1>1
<1> QED
  BY <1>1, <1>4, <1>5 DEF LowLinks

LEMMA EnteredSeen ==
    ASSUME NEW g, NEW idx, NEW low, NEW O, NEW fr, NEW node, NEW idx2, NEW low2, NEW O2, NEW fr2,
           Search(g, idx, low, O, fr), Entered(g, idx, low, O, fr, node, idx2, low2, O2, fr2)
    PROVE  Seen(g, idx2, low2, O2, fr2)
<1> DEFINE L == Len(fr)
           M == Len(fr2)
<1>1. /\ L \in Nat /\ M = L + 1 /\ Calls(fr) = 1..L /\ Calls(fr2) = 1..M
      /\ fr2[M].node = node /\ fr2[M].rest = g[node]
      /\ O2 = O \union {node}
      /\ \A i \in 1..M : i = M \/ i \in 1..L
      /\ \A i \in 1..L :
            /\ fr2[i].node = fr[i].node /\ fr[i].node \in DOMAIN g /\ fr[i].node # node
            /\ idx2[fr[i].node] = idx[fr[i].node] /\ low2[fr[i].node] = low[fr[i].node]
            /\ fr[i].rest \subseteq fr2[i].rest \union {node}
  BY EnteredFrames
<1>2. /\ \A k \in DOMAIN g : k # node => idx2[k] = idx[k] /\ idx[k] < idx2[node]
      /\ node \in DOMAIN g /\ idx2[node] > 0
      /\ node \notin O /\ O \subseteq DOMAIN g /\ IsGraph(g)
      /\ idx \in [DOMAIN g -> Nat] /\ idx2 \in [DOMAIN g -> Nat] /\ low \in [DOMAIN g -> Nat]
  BY EnteredNumbered
<1>3. \A i \in 1..L, y \in O : idx[fr[i].node] <= idx[y] /\ (i < L => idx[y] < idx[fr[i + 1].node]) =>
        \A z \in g[y] : \/ y = fr[i].node /\ z \in fr[i].rest
                        \/ idx[z] # 0 /\ (z \in O => low[fr[i].node] <= idx[z])
  BY <1>1 DEF Search, Seen, Before
<1>4. \A i \in 1..L : low[fr[i].node] <= idx[fr[i].node]
  BY <1>1 DEF Search, LowLinks
<1>5. \A y \in DOMAIN g : g[y] \subseteq DOMAIN g
  BY <1>2 DEF IsGraph
<1> HIDE DEF L, M
<1>6. ASSUME NEW i \in 1..M, NEW y \in O2, NEW z \in g[y], idx2[fr2[i].node] <= idx2[y],
             i < M => idx2[y] < idx2[fr2[i + 1].node]
      PROVE  \/ y = fr2[i].node /\ z \in fr2[i].rest
             \/ idx2[z] # 0 /\ (z \in O2 => low2[fr2[i].node] <= idx2[z])
  <2>1. CASE i = M
    BY <2>1, <1>1, <1>2, <1>6
  <2>2. CASE i \in 1..L
    <3>1. y # node /\ y \in O /\ idx2[y] = idx[y] /\ y \in DOMAIN g
      <4>1. CASE i = L
        BY <4>1, <2>2, <1>1, <1>2, <1>6
      <4>2. CASE i < L
        <5>1. i + 1 \in 1..L
          BY <4>2, <2>2, <1>1
        <5> DEFINE x == fr[i + 1].node
        <5>2. x \in DOMAIN g /\ idx2[fr2[i + 1].node] = idx[x] /\ x # node
          BY <5>1, <1>1
        <5>3. idx[x] \in Nat /\ idx2[node] \in Nat /\ idx[x] < idx2[node]
          BY <5>2, <1>2
        <5>4. idx2[y] < idx[x]
          BY <5>2, <4>2, <1>1, <1>6
        <5> QED
          BY <5>3, <5>4, <1>1, <1>2
      <4> QED
        BY <4>1, <4>2, <2>2, <1>1
    <3>2. i < L => i + 1 \in 1..L
      BY <2>2, <1>1
    <3>3. idx[fr[i].node] <= idx[y] /\ (i < L => idx[y] < idx[fr[i + 1].node])
      BY <3>1, <3>2, <2>2, <1>1, <1>6
    <3>4. CASE z = node
      <4> DEFINE x == fr[i].node
      <4>1. x \in DOMAIN g /\ x # node /\ low2[fr2[i].node] = low[x] /\ low[x] <= idx[x]
        BY <2>2, <1>1, <1>4
      <4>2. /\ low[x] \in Nat /\ idx[x] \in Nat /\ idx2[node] \in Nat
            /\ idx[x] < idx2[node] /\ idx2[node] > 0
        BY <4>1, <1>2
      <4> QED
        BY <3>4, <4>1, <4>2
    <3>5. CASE z # node
      <4>1. z \in DOMAIN g /\ idx2[z] = idx[z]
        BY <3>1, <3>5, <1>2, <1>5
      <4> QED
        BY <4>1, <3>1, <3>3, <3>5, <2>2, <1>1, <1>3
    <3> QED
      BY <3>4, <3>5
  <2> QED
    BY <2>1, <2>2, <1>1
<1> QED
  BY <1>1, <1>6 DEF Seen, Before, M

LEMMA EnteredKeeps ==
    ASSUME NEW g, NEW idx, NEW low, NEW O, NEW fr, NEW node, NEW idx2, NEW low2, NEW O2, NEW fr2,
           Search(g, idx, low, O, fr), Entered(g, idx, low, O, fr, node, idx2, low2, O2, fr2)
    PROVE  Search(g, idx2, low2, O2, fr2) /\ Found(g, idx2, O2) = Found(g, idx, O)
<1>1. Typed(g, idx2, low2, O2, fr2) /\ Numbered(idx2, O2) /\ Done(idx2, O2) = Done(idx, O)
  BY EnteredNumbered
<1>2. DoneClosed(g, idx2, O2) /\ Found(g, idx2, O2) = Found(g, idx, O)
  BY <1>1 DEF Search, DoneClosed, Found
<1> QED
  BY <1>1, <1>2, EnteredNested, EnteredLinked, EnteredLowLinks, EnteredSeen DEF Search

----------------------------------------------------------------------------
\* A dependency that has been visited

Lesser(a, b) == Min({a, b})

LEMMA LesserOf ==
    ASSUME NEW a \in Nat, NEW b \in Nat
    PROVE  /\ Lesser(a, b) = a \/ Lesser(a, b) = b
           /\ Lesser(a, b) \in Nat
           /\ Lesser(a, b) <= a /\ Lesser(a, b) <= b
<1>1. {a, b} \in SUBSET Nat /\ {a, b} # {}
  OBVIOUS
<1>2. Min({a, b}) \in {a, b} /\ \A n \in {a, b} : Min({a, b}) <= n
  BY <1>1, LeastOf
<1> QED
  BY <1>2 DEF Lesser

LookedBack(g, idx, low, O, fr, p, low2, fr2) ==
    LET L == Len(fr)
        n == fr[L].node
    IN  /\ fr # <<>> /\ p \in fr[L].rest /\ idx[p] # 0
        /\ fr2 \in Seq([node : DOMAIN g, rest : SUBSET DOMAIN g])
        /\ Len(fr2) = L
        /\ \A i \in 1..L : /\ fr2[i].node = fr[i].node
                           /\ fr2[i].rest = IF i = L THEN fr[i].rest \ {p} ELSE fr[i].rest
        /\ low2 = IF p \in O THEN [low EXCEPT ![n] = Lesser(low[n], idx[p])] ELSE low

LEMMA LookedBackKeeps ==
    ASSUME NEW g, NEW idx, NEW low, NEW O, NEW fr, NEW p, NEW low2, NEW fr2,
           Search(g, idx, low, O, fr), LookedBack(g, idx, low, O, fr, p, low2, fr2)
    PROVE  Search(g, idx, low2, O, fr2)
<1> DEFINE L == Len(fr)
           n == fr[L].node
<1>1. /\ IsGraph(g) /\ O \subseteq DOMAIN g
      /\ idx \in [DOMAIN g -> Nat] /\ low \in [DOMAIN g -> Nat]
      /\ fr \in Seq([node : DOMAIN g, rest : SUBSET DOMAIN g])
  BY DEF Search, Typed
<1>2. /\ L \in Nat /\ L > 0 /\ Len(fr2) = L /\ L \in 1..L
      /\ Calls(fr) = 1..L /\ Calls(fr2) = 1..L /\ fr2 # <<>> /\ fr # <<>>
      /\ fr2 \in Seq([node : DOMAIN g, rest : SUBSET DOMAIN g])
      /\ \A i \in 1..L : fr[i].node \in DOMAIN g /\ fr[i].rest \subseteq DOMAIN g
  <2>1. fr # <<>> /\ Len(fr2) = L /\ fr2 \in Seq([node : DOMAIN g, rest : SUBSET DOMAIN g])
    BY DEF LookedBack
  <2>2. /\ L \in Nat /\ (fr = <<>> <=> L = 0) /\ Calls(fr) = 1..L
        /\ \A i \in 1..L : fr[i].node \in DOMAIN g /\ fr[i].rest \subseteq DOMAIN g
    BY <1>1, FramesOf
  <2>3. Calls(fr2) = 1..L /\ (fr2 = <<>> <=> L = 0)
    BY <2>1, FramesOf
  <2> HIDE DEF L
  <2>4. L > 0 /\ L \in 1..L
    BY <2>1, <2>2
  <2> QED
    BY <2>1, <2>2, <2>3, <2>4
<1>3. /\ p \in fr[L].rest /\ idx[p] # 0 /\ p \in DOMAIN g
      /\ \A i \in 1..L : /\ fr2[i].node = fr[i].node
                         /\ fr2[i].rest = IF i = L THEN fr[i].rest \ {p} ELSE fr[i].rest
  BY <1>2 DEF LookedBack
<1>4. /\ \A i \in 1..L : fr[i].node \in O /\ fr[i].rest \subseteq g[fr[i].node]
      /\ \A i, j \in 1..L : i < j => idx[fr[i].node] < idx[fr[j].node]
      /\ \A i \in 1..L : i < L => fr[i + 1].node \in g[fr[i].node]
      /\ \A y \in O : idx[fr[1].node] <= idx[y]
  BY <1>2 DEF Search, Nested
<1>5. \A i \in 1..L, y \in O :
        /\ idx[fr[i].node] <= idx[y] => Reaches(g, fr[i].node, y)
        /\ (i < L => idx[y] < idx[fr[i + 1].node]) => Reaches(g, y, fr[i].node)
  BY <1>2 DEF Search, Linked, Before
<1>6. \A i \in 1..L :
        /\ idx[fr[1].node] <= low[fr[i].node] /\ low[fr[i].node] <= idx[fr[i].node]
        /\ \A j \in 1..L :
              j < i /\ low[fr[i].node] < idx[fr[j + 1].node] => Reaches(g, fr[i].node, fr[j].node)
  BY <1>2 DEF Search, LowLinks
<1>7. \A i \in 1..L, y \in O : idx[fr[i].node] <= idx[y] /\ (i < L => idx[y] < idx[fr[i + 1].node]) =>
        \A z \in g[y] : \/ y = fr[i].node /\ z \in fr[i].rest
                        \/ idx[z] # 0 /\ (z \in O => low[fr[i].node] <= idx[z])
  BY <1>2 DEF Search, Seen, Before
<1>8. low2 = IF p \in O THEN [low EXCEPT ![n] = Lesser(low[n], idx[p])] ELSE low
  BY DEF LookedBack
<1>9. n \in DOMAIN g /\ p \in g[n] /\ low[n] \in Nat /\ idx[p] \in Nat
  BY <1>1, <1>2, <1>3, <1>4
<1>10. \A i \in 1..L : i = L \/ (i < L /\ i + 1 \in 1..L /\ fr[i].node # n)
  <2> SUFFICES ASSUME NEW i \in 1..L, i # L
               PROVE  i < L /\ i + 1 \in 1..L /\ fr[i].node # n
    OBVIOUS
  <2>1. i < L /\ i + 1 \in 1..L
    BY <1>2
  <2>2. idx[fr[i].node] < idx[n] /\ idx[n] \in Nat
    BY <2>1, <1>1, <1>2, <1>4, <1>9
  <2> QED
    BY <2>1, <2>2
<1> HIDE DEF L, n
<1>17. 1 \in 1..L /\ fr2[1].node = fr[1].node
  BY <1>2, <1>3
<1>11. /\ low2 \in [DOMAIN g -> Nat]
       /\ \A k \in DOMAIN g : k # n => low2[k] = low[k]
       /\ low2[n] <= low[n]
       /\ p \in O => low2[n] <= idx[p]
       /\ low2[n] = low[n] \/ (p \in O /\ low2[n] = idx[p])
  <2>1. CASE p \in O
    BY <2>1, <1>1, <1>8, <1>9, LesserOf
  <2>2. CASE p \notin O
    BY <2>2, <1>1, <1>8, <1>9
  <2> QED
    BY <2>1, <2>2
<1>12. Typed(g, idx, low2, O, fr2) /\ Numbered(idx, O) /\ DoneClosed(g, idx, O)
  BY <1>2, <1>11 DEF Search, Typed
<1>13. Nested(g, idx, O, fr2)
  <2>1. \A i \in 1..L : fr2[i].node \in O /\ fr2[i].rest \subseteq g[fr2[i].node]
    BY <1>3, <1>4
  <2>2. \A i \in 1..L : i < L => fr2[i + 1].node \in g[fr2[i].node]
    <3>1. \A i \in 1..L : i < L => fr2[i + 1].node = fr[i + 1].node
      BY <1>2, <1>3, <1>10
    <3> QED
      BY <3>1, <1>3, <1>4
  <2>3. \A i, j \in 1..L : i < j => idx[fr2[i].node] < idx[fr2[j].node]
    BY <1>3, <1>4
  <2>4. \A y \in O : idx[fr2[1].node] <= idx[y]
    BY <1>4, <1>17
  <2> QED
    BY <2>1, <2>2, <2>3, <2>4, <1>2 DEF Nested
<1>14. Linked(g, idx, O, fr2)
  <2>1. ASSUME NEW i \in 1..L, NEW y \in O
        PROVE  /\ idx[fr2[i].node] <= idx[y] => Reaches(g, fr2[i].node, y)
               /\ (i < L => idx[y] < idx[fr2[i + 1].node]) => Reaches(g, y, fr2[i].node)
    <3>1. i < L => fr2[i + 1].node = fr[i + 1].node
      BY <1>2, <1>3, <1>10
    <3> QED
      BY <3>1, <1>3, <1>5
  <2> QED
    BY <2>1, <1>2 DEF Linked, Before
<1>15. LowLinks(g, idx, low2, fr2)
  <2>1. ASSUME NEW i \in 1..L
        PROVE  idx[fr[1].node] <= low2[fr[i].node] /\ low2[fr[i].node] <= idx[fr[i].node]
    <3>1. CASE i # L
      BY <3>1, <1>2, <1>6, <1>10, <1>11
    <3>2. CASE i = L
      <4>1. fr[1].node \in DOMAIN g /\ idx[fr[1].node] \in Nat /\ idx[n] \in Nat /\ low2[n] \in Nat
        BY <1>17, <1>1, <1>2, <1>9, <1>11
      <4>2. idx[fr[1].node] <= low[n] /\ low[n] <= idx[n]
        BY <3>2, <1>6 DEF n
      <4> QED
        BY <4>1, <4>2, <3>2, <1>4, <1>9, <1>11 DEF n
    <3> QED
      BY <3>1, <3>2
  <2>2. ASSUME NEW i \in 1..L, NEW j \in 1..L, j < i, low2[fr[i].node] < idx[fr[j + 1].node]
        PROVE  Reaches(g, fr[i].node, fr[j].node)
    <3>1. CASE i # L
      BY <2>2, <3>1, <1>2, <1>6, <1>10, <1>11
    <3>2. CASE i = L /\ low2[n] = low[n]
      BY <2>2, <3>2, <1>6 DEF n
    <3>3. CASE i = L /\ p \in O /\ low2[n] = idx[p]
      <4>1. Reaches(g, p, fr[j].node)
        BY <2>2, <3>3, <1>5 DEF n
      <4>2. Reaches(g, n, p)
        BY <1>1, <1>9, ReachedParents DEF Reaches
      <4> QED
        BY <4>1, <4>2, <3>3, <1>1, <1>2, <1>3, <1>9, ReachesChain DEF n
    <3> QED
      BY <3>1, <3>2, <3>3, <1>11
  <2>3. \A i \in 1..L, j \in 1..L : j < i => fr2[j + 1].node = fr[j + 1].node
    BY <1>2, <1>3, <1>10
  <2>4. \A i \in 1..L : idx[fr2[1].node] <= low2[fr2[i].node] /\ low2[fr2[i].node] <= idx[fr2[i].node]
    BY <2>1, <1>3, <1>17
  <2>5. \A i \in 1..L, j \in 1..L :
          j < i /\ low2[fr2[i].node] < idx[fr2[j + 1].node] => Reaches(g, fr2[i].node, fr2[j].node)
    BY <2>2, <2>3, <1>3
  <2> QED
    BY <2>4, <2>5, <1>2 DEF LowLinks
<1>16. Seen(g, idx, low2, O, fr2)
  <2>1. ASSUME NEW i \in 1..L, NEW y \in O, NEW z \in g[y], idx[fr[i].node] <= idx[y],
               i < L => idx[y] < idx[fr[i + 1].node]
        PROVE  \/ y = fr[i].node /\ z \in fr2[i].rest
               \/ idx[z] # 0 /\ (z \in O => low2[fr[i].node] <= idx[z])
    <3>1. \/ y = fr[i].node /\ z \in fr[i].rest
          \/ idx[z] # 0 /\ (z \in O => low[fr[i].node] <= idx[z])
      BY <2>1, <1>7
    <3>2. CASE i # L
      BY <3>1, <3>2, <1>2, <1>3, <1>10, <1>11
    <3>3. CASE i = L /\ z = p
      BY <3>3, <1>3, <1>11 DEF n
    <3>4. CASE i = L /\ z # p /\ y = fr[i].node /\ z \in fr[i].rest
      BY <3>4, <1>3
    <3>5. CASE i = L /\ idx[z] # 0 /\ (z \in O => low[fr[i].node] <= idx[z])
      <4>1. z \in O => idx[z] \in Nat /\ low2[n] \in Nat
        BY <1>1, <1>9, <1>11
      <4> QED
        BY <4>1, <3>5, <1>9, <1>11 DEF n
    <3> QED
      BY <3>1, <3>2, <3>3, <3>4, <3>5
  <2>2. \A i \in 1..L : i < L => fr2[i + 1].node = fr[i + 1].node
    BY <1>2, <1>3, <1>10
  <2>3. \A i \in 1..L, y \in O : idx[fr2[i].node] <= idx[y] /\ (i < L => idx[y] < idx[fr2[i + 1].node]) =>
          \A z \in g[y] : \/ y = fr2[i].node /\ z \in fr2[i].rest
                          \/ idx[z] # 0 /\ (z \in O => low2[fr2[i].node] <= idx[z])
    BY <2>1, <2>2, <1>3
  <2> QED
    BY <2>3, <1>2 DEF Seen, Before
<1> QED
  BY <1>12, <1>13, <1>14, <1>15, <1>16 DEF Search

----------------------------------------------------------------------------
\* visit returns

Left(g, idx, low, fr, low2, fr2) ==
    LET L == Len(fr)
        n == fr[L].node
        c == fr[L - 1].node
    IN  /\ fr # <<>> /\ fr[L].rest = {}
        /\ fr2 \in Seq([node : DOMAIN g, rest : SUBSET DOMAIN g])
        /\ Len(fr2) = L - 1
        /\ \A i \in 1..(L - 1) : fr2[i] = fr[i]
        /\ low2 = IF L = 1 THEN low ELSE [low EXCEPT ![c] = Lesser(low[c], low[n])]

LEMMA LeftFrames ==
    ASSUME NEW g, NEW idx, NEW low, NEW O, NEW fr, NEW low2, NEW fr2,
           Search(g, idx, low, O, fr), Left(g, idx, low, fr, low2, fr2)
    PROVE  /\ Len(fr) \in Nat /\ Len(fr) > 0 /\ Len(fr) \in 1..Len(fr)
           /\ Len(fr2) \in Nat /\ Len(fr2) = Len(fr) - 1
           /\ Calls(fr) = 1..Len(fr) /\ Calls(fr2) = 1..Len(fr2) /\ (fr2 = <<>> <=> Len(fr2) = 0)
           /\ \A i \in 1..Len(fr2) : fr2[i] = fr[i] /\ i \in 1..Len(fr) /\ i < Len(fr)
           /\ \A i \in 1..Len(fr2) : i = Len(fr2) \/ (i < Len(fr2) /\ i + 1 \in 1..Len(fr2))
           /\ \A i \in 1..Len(fr) : fr[i].node \in DOMAIN g /\ fr[i].node \in O
           /\ fr[Len(fr)].rest = {}
           /\ low2 \in [DOMAIN g -> Nat]
           /\ \A i \in 1..Len(fr2) :
                 /\ i < Len(fr2) => low2[fr[i].node] = low[fr[i].node]
                 /\ i = Len(fr2) => low2[fr[i].node] = Lesser(low[fr[i].node], low[fr[Len(fr)].node])
<1> DEFINE L == Len(fr)
           K == Len(fr2)
<1>1. fr \in Seq([node : DOMAIN g, rest : SUBSET DOMAIN g]) /\ low \in [DOMAIN g -> Nat] /\ idx \in [DOMAIN g -> Nat]
  BY DEF Search, Typed
<1>2. /\ fr # <<>> /\ fr2 \in Seq([node : DOMAIN g, rest : SUBSET DOMAIN g]) /\ K = L - 1
      /\ fr[L].rest = {}
      /\ \A i \in 1..(L - 1) : fr2[i] = fr[i]
      /\ low2 = IF L = 1 THEN low
                ELSE [low EXCEPT ![fr[L - 1].node] = Lesser(low[fr[L - 1].node], low[fr[L].node])]
  BY DEF Left
<1>3. /\ L \in Nat /\ (fr = <<>> <=> L = 0) /\ Calls(fr) = 1..L
      /\ \A i \in 1..L : fr[i].node \in DOMAIN g
  BY <1>1, FramesOf
<1>4. K \in Nat /\ (fr2 = <<>> <=> K = 0) /\ Calls(fr2) = 1..K
  BY <1>2, FramesOf
<1>5. \A i, j \in 1..L : i < j => idx[fr[i].node] < idx[fr[j].node]
  BY <1>3 DEF Search, Nested
<1>6. \A i \in 1..L : fr[i].node \in O
  BY <1>3 DEF Search, Nested
<1> HIDE DEF L, K
<1>7. L > 0 /\ L \in 1..L /\ \A i \in 1..K : fr2[i] = fr[i] /\ i \in 1..L /\ i < L
  BY <1>2, <1>3, <1>4
<1>8. \A i \in 1..K : i = K \/ (i < K /\ i + 1 \in 1..K)
  BY <1>4
<1>9. /\ low2 \in [DOMAIN g -> Nat]
      /\ \A i \in 1..K :
            /\ i < K => low2[fr[i].node] = low[fr[i].node]
            /\ i = K => low2[fr[i].node] = Lesser(low[fr[i].node], low[fr[L].node])
  <2>1. CASE L = 1
    BY <2>1, <1>1, <1>2, <1>4
  <2>2. CASE L # 1
    <3> DEFINE c == fr[K].node
               m == Lesser(low[c], low[fr[L].node])
    <3>1. K \in 1..K /\ K = L - 1 /\ c \in DOMAIN g
      BY <2>2, <1>2, <1>3, <1>4, <1>7
    <3>2. low2 = [low EXCEPT ![c] = m]
      BY <2>2, <1>2, <3>1
    <3>3. m \in Nat
      <4>1. low[c] \in Nat /\ low[fr[L].node] \in Nat
        BY <1>1, <1>3, <1>7, <3>1
      <4> QED
        BY <4>1, LesserOf
    <3>4. \A i \in 1..K : i < K => fr[i].node # c
      <4> SUFFICES ASSUME NEW i \in 1..K, i < K
                   PROVE  fr[i].node # c
        OBVIOUS
      <4>1. idx[fr[i].node] < idx[c] /\ idx[c] \in Nat
        BY <3>1, <1>1, <1>5, <1>7
      <4> QED
        BY <4>1
    <3> HIDE DEF m
    <3>5. low2 \in [DOMAIN g -> Nat] /\ low2[c] = m
      BY <3>1, <3>2, <3>3, <1>1
    <3>6. ASSUME NEW i \in 1..K, i < K
          PROVE  low2[fr[i].node] = low[fr[i].node]
      BY <3>6, <3>2, <3>4, <1>1, <1>3, <1>7
    <3> QED
      BY <3>5, <3>6 DEF m
  <2> QED
    BY <2>1, <2>2
<1> QED
  BY <1>2, <1>3, <1>4, <1>6, <1>7, <1>8, <1>9 DEF L, K

\* The component is not complete: the caller belongs to it.
LEMMA ReturnedKeeps ==
    ASSUME NEW g, NEW idx, NEW low, NEW O, NEW fr, NEW low2, NEW fr2,
           Search(g, idx, low, O, fr), Left(g, idx, low, fr, low2, fr2),
           low[fr[Len(fr)].node] # idx[fr[Len(fr)].node]
    PROVE  Search(g, idx, low2, O, fr2)
<1> DEFINE L == Len(fr)
           K == Len(fr2)
           n == fr[L].node
           c == fr[K].node
<1>1. /\ L \in Nat /\ L > 0 /\ L \in 1..L /\ K \in Nat /\ K = L - 1
      /\ Calls(fr) = 1..L /\ Calls(fr2) = 1..K /\ (fr2 = <<>> <=> K = 0)
      /\ \A i \in 1..K : fr2[i] = fr[i] /\ i \in 1..L /\ i < L
      /\ \A i \in 1..K : i = K \/ (i < K /\ i + 1 \in 1..K)
      /\ \A i \in 1..L : fr[i].node \in DOMAIN g /\ fr[i].node \in O
      /\ fr[L].rest = {}
      /\ low2 \in [DOMAIN g -> Nat]
      /\ \A i \in 1..K :
            /\ i < K => low2[fr[i].node] = low[fr[i].node]
            /\ i = K => low2[fr[i].node] = Lesser(low[fr[i].node], low[n])
  BY LeftFrames
<1>2. /\ IsGraph(g) /\ O \subseteq DOMAIN g
      /\ idx \in [DOMAIN g -> Nat] /\ low \in [DOMAIN g -> Nat]
      /\ fr2 \in Seq([node : DOMAIN g, rest : SUBSET DOMAIN g])
  BY DEF Search, Typed, Left
<1>3. /\ \A i \in 1..L : fr[i].node \in O /\ fr[i].rest \subseteq g[fr[i].node]
      /\ \A i, j \in 1..L : i < j => idx[fr[i].node] < idx[fr[j].node]
      /\ \A i \in 1..L : i < L => fr[i + 1].node \in g[fr[i].node]
      /\ \A y \in O : idx[fr[1].node] <= idx[y]
  BY <1>1 DEF Search, Nested
<1>4. \A i \in 1..L, y \in O :
        /\ idx[fr[i].node] <= idx[y] => Reaches(g, fr[i].node, y)
        /\ (i < L => idx[y] < idx[fr[i + 1].node]) => Reaches(g, y, fr[i].node)
  BY <1>1 DEF Search, Linked, Before
<1>5. \A i \in 1..L :
        /\ idx[fr[1].node] <= low[fr[i].node] /\ low[fr[i].node] <= idx[fr[i].node]
        /\ \A j \in 1..L :
              j < i /\ low[fr[i].node] < idx[fr[j + 1].node] => Reaches(g, fr[i].node, fr[j].node)
  BY <1>1 DEF Search, LowLinks
<1>6. \A i \in 1..L, y \in O : idx[fr[i].node] <= idx[y] /\ (i < L => idx[y] < idx[fr[i + 1].node]) =>
        \A z \in g[y] : \/ y = fr[i].node /\ z \in fr[i].rest
                        \/ idx[z] # 0 /\ (z \in O => low[fr[i].node] <= idx[z])
  BY <1>1 DEF Search, Seen, Before
<1>7. low[n] # idx[n]
  OBVIOUS
<1>8. n \in DOMAIN g /\ low[n] \in Nat /\ idx[n] \in Nat /\ low[n] < idx[n]
  <2>1. n \in DOMAIN g /\ low[n] <= idx[n]
    BY <1>1, <1>5
  <2> QED
    BY <2>1, <1>2, <1>7
<1>9. K \in 1..K /\ 1 \in 1..K /\ K < L /\ K \in 1..L /\ K + 1 = L
  <2>1. CASE L = 1
    BY <2>1, <1>1, <1>2, <1>5, <1>8
  <2>2. CASE L # 1
    <3> HIDE DEF L, K
    <3> QED
      BY <2>2, <1>1
  <2> QED
    BY <2>1, <2>2
<1>10. c \in DOMAIN g /\ c \in O /\ n \in g[c] /\ n \in O /\ low[c] \in Nat /\ idx[c] \in Nat
  BY <1>1, <1>2, <1>3, <1>9
<1> HIDE DEF L, K
<1>11. /\ low2[c] \in {low[c], low[n]} /\ low2[c] \in Nat
       /\ low2[c] <= low[c] /\ low2[c] <= low[n]
  <2>1. low2[c] = Lesser(low[c], low[n])
    BY <1>1, <1>9
  <2> QED
    BY <2>1, <1>8, <1>10, LesserOf
<1>12. Reaches(g, n, c)
  <2>1. K < L /\ low[fr[L].node] < idx[fr[K + 1].node]
    BY <1>8, <1>9
  <2> QED
    BY <2>1, <1>1, <1>5, <1>9
<1>13. \A i \in 1..K : i < K => fr2[i + 1].node = fr[i + 1].node
  <2>1. \A i \in 1..K : fr2[i] = fr[i] /\ (i = K \/ i + 1 \in 1..K)
    BY <1>1
  <2>2. K \in Nat
    BY <1>1
  <2> QED
    BY <2>1, <2>2
<1>14. Typed(g, idx, low2, O, fr2) /\ Numbered(idx, O) /\ DoneClosed(g, idx, O)
  BY <1>1, <1>2 DEF Search, Typed
<1>15. Nested(g, idx, O, fr2)
  <2>1. \A i \in 1..K : fr2[i].node \in O /\ fr2[i].rest \subseteq g[fr2[i].node]
    BY <1>1, <1>3
  <2>2. \A i \in 1..K : i < K => fr2[i + 1].node \in g[fr2[i].node]
    BY <1>1, <1>3, <1>13
  <2>3. \A i, j \in 1..K : i < j => idx[fr2[i].node] < idx[fr2[j].node]
    BY <1>1, <1>3
  <2>4. \A y \in O : idx[fr2[1].node] <= idx[y]
    BY <1>1, <1>3, <1>9
  <2>5. fr2 # <<>>
    BY <1>1, <1>9
  <2> QED
    BY <2>1, <2>2, <2>3, <2>4, <2>5, <1>1 DEF Nested, K
<1>16. Linked(g, idx, O, fr2)
  <2>1. ASSUME NEW i \in 1..K, NEW y \in O, idx[fr2[i].node] <= idx[y]
        PROVE  Reaches(g, fr2[i].node, y)
    BY <2>1, <1>1, <1>4
  <2>2. ASSUME NEW i \in 1..K, NEW y \in O, i < K => idx[y] < idx[fr2[i + 1].node]
        PROVE  Reaches(g, y, fr2[i].node)
    <3>1. CASE i < K
      <4>1. i \in 1..L /\ idx[y] < idx[fr[i + 1].node]
        BY <2>2, <3>1, <1>1, <1>13
      <4> QED
        BY <4>1, <1>1, <1>4
    <3>2. CASE i = K
      <4>1. Reaches(g, y, n)
        BY <1>1, <1>4
      <4>2. Reaches(g, y, c)
        BY <4>1, <1>2, <1>8, <1>10, <1>12, ReachesChain
      <4> QED
        BY <4>2, <3>2, <1>1
    <3> QED
      BY <3>1, <3>2, <1>1
  <2> QED
    BY <2>1, <2>2, <1>1 DEF Linked, Before, K
<1>17. LowLinks(g, idx, low2, fr2)
  <2>1. ASSUME NEW i \in 1..K
        PROVE  idx[fr2[1].node] <= low2[fr2[i].node] /\ low2[fr2[i].node] <= idx[fr2[i].node]
    <3>1. fr2[1].node = fr[1].node /\ fr2[i].node = fr[i].node /\ i \in 1..L
      BY <1>1, <1>9
    <3>2. CASE i < K
      BY <3>1, <3>2, <1>1, <1>5
    <3>3. CASE i = K
      <4>1. idx[fr[1].node] <= low[c] /\ low[c] <= idx[c] /\ idx[fr[1].node] <= low[n]
        BY <1>1, <1>5, <1>9
      <4> QED
        BY <4>1, <3>1, <3>3, <1>8, <1>10, <1>11
    <3> QED
      BY <3>2, <3>3, <1>1
  <2>2. ASSUME NEW i \in 1..K, NEW j \in 1..K, j < i, low2[fr2[i].node] < idx[fr2[j + 1].node]
        PROVE  Reaches(g, fr2[i].node, fr2[j].node)
    <3>1. /\ fr2[j].node = fr[j].node /\ fr2[i].node = fr[i].node /\ i \in 1..L /\ j \in 1..L /\ j < L
          /\ fr2[j + 1].node = fr[j + 1].node
      BY <2>2, <1>1, <1>13
    <3>2. CASE low2[fr[i].node] = low[fr[i].node]
      BY <2>2, <3>1, <3>2, <1>5
    <3>3. CASE i = K /\ low2[c] = low[n]
      <4>1. low[fr[L].node] < idx[fr[j + 1].node]
        BY <2>2, <3>1, <3>3
      <4>2. Reaches(g, n, fr[j].node)
        BY <4>1, <3>1, <1>1, <1>5
      <4>3. Reaches(g, c, n)
        BY <1>2, <1>10, ReachedParents DEF Reaches
      <4>4. fr[j].node \in DOMAIN g
        BY <3>1, <1>1
      <4>5. Reaches(g, c, fr[j].node)
        BY <4>2, <4>3, <4>4, <1>2, <1>8, <1>10, ReachesChain
      <4> QED
        BY <4>5, <3>1, <3>3
    <3> QED
      BY <3>2, <3>3, <1>1, <1>11
  <2> QED
    BY <2>1, <2>2, <1>1 DEF LowLinks
<1>18. Seen(g, idx, low2, O, fr2)
  <2>1. ASSUME NEW i \in 1..K, NEW y \in O, NEW z \in g[y], idx[fr2[i].node] <= idx[y],
               i < K => idx[y] < idx[fr2[i + 1].node]
        PROVE  \/ y = fr2[i].node /\ z \in fr2[i].rest
               \/ idx[z] # 0 /\ (z \in O => low2[fr2[i].node] <= idx[z])
    <3>1. fr2[i] = fr[i] /\ i \in 1..L
      BY <1>1
    <3>2. CASE i < K
      <4>1. i < L => idx[y] < idx[fr[i + 1].node]
        BY <2>1, <3>2, <1>13
      <4> QED
        BY <4>1, <2>1, <3>1, <3>2, <1>1, <1>6
    <3>3. CASE i = K /\ idx[y] < idx[n]
      <4>1. K < L => idx[y] < idx[fr[K + 1].node]
        BY <3>3, <1>9
      <4>2. \/ y = c /\ z \in fr[K].rest
            \/ idx[z] # 0 /\ (z \in O => low[c] <= idx[z])
        BY <4>1, <2>1, <3>1, <3>3, <1>6, <1>9
      <4>3. z \in O => idx[z] \in Nat
        BY <1>2
      <4> QED
        BY <4>2, <4>3, <3>1, <3>3, <1>10, <1>11
    <3>4. CASE i = K /\ ~(idx[y] < idx[n])
      <4>1. idx[fr[L].node] <= idx[y]
        BY <3>4, <1>2, <1>8
      <4>2. idx[z] # 0 /\ (z \in O => low[n] <= idx[z])
        <5>1. L \in 1..L /\ ~(L < L) /\ ~(z \in fr[L].rest)
          BY <1>1
        <5> QED
          BY <5>1, <4>1, <1>6
      <4>3. z \in O => idx[z] \in Nat
        BY <1>2
      <4> QED
        BY <4>2, <4>3, <3>1, <3>4, <1>8, <1>11
    <3> QED
      BY <3>2, <3>3, <3>4, <1>1
  <2> QED
    BY <2>1, <1>1 DEF Seen, Before, K
<1> QED
  BY <1>14, <1>15, <1>16, <1>17, <1>18 DEF Search

\* What is taken off the stack is a strongly connected component, with a cycle if the code says so.
LEMMA ComponentClosed ==
    ASSUME NEW g, IsGraph(g), NEW n, NEW M \in SUBSET DOMAIN g, NEW D \in SUBSET DOMAIN g, n \in M,
           \A y \in M : Reaches(g, n, y) /\ Reaches(g, y, n),
           \A y \in M : g[y] \subseteq M \union D,
           \A k \in D : g[k] \subseteq D,
           M \intersect D = {}
    PROVE  IF Cardinality(M) > 1 \/ Min(M) \in g[Min(M)]
           THEN \A k \in M : k \in ReachedFrom(g, k) /\ Component(g, k) = M
           ELSE \A k \in M : k \notin ReachedFrom(g, k)
<1>1. IsFiniteSet(M)
  BY FS_Subset DEF IsGraph
<1>2. \A k \in D : ReachedFrom(g, k) \subseteq D
  BY ReachedLeast
<1>3. ASSUME NEW k \in M
      PROVE  ReachedFrom(g, k) \subseteq M \union D
  <2>1. M \union D \in SUBSET DOMAIN g /\ \A m \in M \union D : g[m] \subseteq M \union D
    OBVIOUS
  <2> QED
    BY <2>1, ReachedLeast
<1>4. ASSUME NEW k \in M, NEW y \in M
      PROVE  Reaches(g, k, y)
  BY ReachesChain
<1>5. ASSUME NEW k \in M
      PROVE  Component(g, k) \subseteq M
  BY <1>2, <1>3 DEF Component
<1>6. ASSUME NEW k \in M, k \in ReachedFrom(g, k)
      PROVE  Component(g, k) = M
  <2> SUFFICES ASSUME NEW y \in M
               PROVE  y \in Component(g, k)
    BY <1>5
  <2>1. Reaches(g, k, y) /\ Reaches(g, y, k)
    BY <1>4
  <2> QED
    BY <2>1, <1>6 DEF Reaches, Component
<1>7. CASE Cardinality(M) > 1
  <2> SUFFICES ASSUME NEW k \in M
               PROVE  k \in ReachedFrom(g, k)
    BY <1>6, <1>7
  <2>1. M # {k}
    <3>1. Cardinality({k}) = 1
      BY FS_Singleton
    <3> QED
      BY <3>1, <1>7
  <2>2. PICK y \in M : y # k
    BY <2>1
  <2>3. y \in ReachedFrom(g, k) /\ k \in ReachedFrom(g, y)
    BY <2>2, <1>4 DEF Reaches
  <2> QED
    BY <2>3, ReachedTransitive
<1>8. CASE ~(Cardinality(M) > 1)
  <2>1. M = {n}
    <3>1. Cardinality(M) \in Nat /\ (Cardinality(M) = 0 <=> M = {})
      BY <1>1, FS_CardinalityType, FS_EmptySet
    <3>2. Cardinality(M) = 1
      BY <3>1, <1>8
    <3> QED
      BY <3>2, <1>1, FS_Singleton
  <2>2. Min(M) = n
    <3>1. M \in SUBSET Nat /\ M # {}
      BY DEF IsGraph
    <3> QED
      BY <3>1, <2>1, LeastOf
  <2>3. CASE n \in g[n]
    BY <2>1, <2>2, <2>3, <1>6, ReachedParents
  <2>4. CASE n \notin g[n]
    <3> SUFFICES ASSUME n \in ReachedFrom(g, n)
                 PROVE  FALSE
      BY <1>8, <2>1, <2>2, <2>4
    <3>1. PICK p \in g[n] : n = p \/ n \in ReachedFrom(g, p)
      BY ReachedFirstStep
    <3>2. p \in D /\ n \in ReachedFrom(g, p)
      BY <3>1, <2>1, <2>4
    <3> QED
      BY <3>2, <1>2
  <2> QED
    BY <2>3, <2>4
<1> QED
  BY <1>7, <1>8

\* The root of a component: it leaves the stack, and is remembered if it has a cycle.
Closing(idx, O, n) == {y \in O : idx[n] <= idx[y]}
Remembered(g, M) == IF Cardinality(M) > 1 \/ Min(M) \in g[Min(M)] THEN {M} ELSE {}

ClosedAt(g, idx, low, O, fr, n, low2, O2, fr2) ==
    /\ Left(g, idx, low, fr, low2, fr2)
    /\ n = fr[Len(fr)].node
    /\ low[n] = idx[n]
    /\ O2 = O \ Closing(idx, O, n)

LEMMA ClosedKeeps ==
    ASSUME NEW g, NEW idx, NEW low, NEW O, NEW fr, NEW n, NEW low2, NEW O2, NEW fr2,
           Search(g, idx, low, O, fr), ClosedAt(g, idx, low, O, fr, n, low2, O2, fr2)
    PROVE  /\ Search(g, idx, low2, O2, fr2)
           /\ Found(g, idx, O2) = Found(g, idx, O) \union Remembered(g, Closing(idx, O, n))
<1>0. /\ Search(g, idx, low, O, fr) /\ Left(g, idx, low, fr, low2, fr2)
      /\ n = fr[Len(fr)].node /\ low[n] = idx[n] /\ O2 = O \ Closing(idx, O, n)
  BY DEF ClosedAt
<1> DEFINE L == Len(fr)
           K == Len(fr2)
           M == Closing(idx, O, n)
<1>1. /\ L \in Nat /\ L > 0 /\ L \in 1..L /\ K \in Nat /\ K = L - 1
      /\ Calls(fr) = 1..L /\ Calls(fr2) = 1..K /\ (fr2 = <<>> <=> K = 0)
      /\ \A i \in 1..K : fr2[i] = fr[i] /\ i \in 1..L /\ i < L
      /\ \A i \in 1..K : i = K \/ (i < K /\ i + 1 \in 1..K)
      /\ \A i \in 1..L : fr[i].node \in DOMAIN g /\ fr[i].node \in O
      /\ fr[L].rest = {}
      /\ low2 \in [DOMAIN g -> Nat]
      /\ \A i \in 1..K :
            /\ i < K => low2[fr[i].node] = low[fr[i].node]
            /\ i = K => low2[fr[i].node] = Lesser(low[fr[i].node], low[fr[L].node])
  BY <1>0, LeftFrames
<1>2. /\ IsGraph(g) /\ O \subseteq DOMAIN g
      /\ idx \in [DOMAIN g -> Nat] /\ low \in [DOMAIN g -> Nat]
      /\ fr2 \in Seq([node : DOMAIN g, rest : SUBSET DOMAIN g])
      /\ O \subseteq Visited(idx) /\ DoneClosed(g, idx, O)
  BY <1>0 DEF Search, Typed, Left, Numbered
<1>3. /\ \A i \in 1..L : fr[i].node \in O /\ fr[i].rest \subseteq g[fr[i].node]
      /\ \A i, j \in 1..L : i < j => idx[fr[i].node] < idx[fr[j].node]
      /\ \A i \in 1..L : i < L => fr[i + 1].node \in g[fr[i].node]
      /\ \A y \in O : idx[fr[1].node] <= idx[y]
  BY <1>1 DEF Search, Nested
<1>4. \A i \in 1..L, y \in O :
        /\ idx[fr[i].node] <= idx[y] => Reaches(g, fr[i].node, y)
        /\ (i < L => idx[y] < idx[fr[i + 1].node]) => Reaches(g, y, fr[i].node)
  BY <1>1 DEF Search, Linked, Before
<1>5. \A i \in 1..L :
        /\ idx[fr[1].node] <= low[fr[i].node] /\ low[fr[i].node] <= idx[fr[i].node]
        /\ \A j \in 1..L :
              j < i /\ low[fr[i].node] < idx[fr[j + 1].node] => Reaches(g, fr[i].node, fr[j].node)
  BY <1>1 DEF Search, LowLinks
<1>6. \A i \in 1..L, y \in O : idx[fr[i].node] <= idx[y] /\ (i < L => idx[y] < idx[fr[i + 1].node]) =>
        \A z \in g[y] : \/ y = fr[i].node /\ z \in fr[i].rest
                        \/ idx[z] # 0 /\ (z \in O => low[fr[i].node] <= idx[z])
  BY <1>1 DEF Search, Seen, Before
<1>7. n = fr[L].node /\ n \in DOMAIN g /\ n \in O /\ low[n] = idx[n] /\ idx[n] \in Nat
  BY <1>0, <1>1, <1>2
<1>8. O2 \subseteq O /\ \A y \in O : y \in O2 <=> idx[y] < idx[n]
  <2>1. \A y \in O : idx[y] \in Nat
    BY <1>2
  <2> QED
    BY <2>1, <1>0, <1>7 DEF Closing
<1>9. M \subseteq O /\ n \in M /\ M \intersect O2 = {} /\ O = M \union O2 /\ \A y \in M : idx[n] <= idx[y]
  BY <1>0, <1>7 DEF Closing
<1> HIDE DEF L, K, M
<1>10. \A y \in M : Reaches(g, n, y) /\ Reaches(g, y, n)
  BY <1>1, <1>4, <1>7, <1>9
<1>11. ASSUME NEW y \in M
       PROVE  g[y] \subseteq M \union Done(idx, O)
  <2> SUFFICES ASSUME NEW z \in g[y]
               PROVE  z \in M \union Done(idx, O)
    OBVIOUS
  <2>1. z \in DOMAIN g
    BY <1>2, <1>9 DEF IsGraph
  <2>2. L \in 1..L /\ ~(L < L) /\ ~(z \in fr[L].rest) /\ y \in O /\ idx[fr[L].node] <= idx[y]
    BY <1>1, <1>7, <1>9
  <2>3. idx[z] # 0 /\ (z \in O => low[fr[L].node] <= idx[z])
    BY <2>2, <1>6
  <2>4. CASE z \in O
    BY <2>3, <2>4, <1>7 DEF M, Closing
  <2>5. CASE z \notin O
    BY <2>1, <2>3, <2>5, <1>2 DEF Done, Visited
  <2> QED
    BY <2>4, <2>5
<1>12. Done(idx, O2) = Done(idx, O) \union M /\ M \intersect Done(idx, O) = {} /\ Done(idx, O) \subseteq DOMAIN g
  BY <1>2, <1>9 DEF Done, Visited
<1>13. DoneClosed(g, idx, O2)
  BY <1>2, <1>11, <1>12 DEF DoneClosed
<1>14. Found(g, idx, O2) = Found(g, idx, O) \union Remembered(g, M)
  <2> DEFINE D == Done(idx, O)
  <2>1. \A k \in D : g[k] \subseteq D
    BY <1>2 DEF DoneClosed
  <2>2. M \in SUBSET DOMAIN g /\ D \in SUBSET DOMAIN g
    BY <1>2, <1>9, <1>12
  <2>3. IF Cardinality(M) > 1 \/ Min(M) \in g[Min(M)]
        THEN \A k \in M : k \in ReachedFrom(g, k) /\ Component(g, k) = M
        ELSE \A k \in M : k \notin ReachedFrom(g, k)
    <3> HIDE DEF D
    <3>1. \A y \in M : g[y] \subseteq M \union D
      BY <1>11 DEF D
    <3>2. M \intersect D = {} /\ n \in M /\ IsGraph(g)
      BY <1>2, <1>9, <1>12 DEF D
    <3>3. M \in SUBSET DOMAIN g /\ D \in SUBSET DOMAIN g
      BY <2>2
    <3> QED
      BY ONLY <2>1, <3>1, <3>2, <3>3, <1>10, ComponentClosed
  <2>4. CASE Cardinality(M) > 1 \/ Min(M) \in g[Min(M)]
    <3>1. \A k \in M : k \in ReachedFrom(g, k) /\ Component(g, k) = M
      BY <2>3, <2>4
    <3>2. Found(g, idx, O2) = Found(g, idx, O) \union {M}
      BY <3>1, <1>9, <1>12 DEF Found
    <3> QED
      BY <3>2, <2>4 DEF Remembered
  <2>5. CASE ~(Cardinality(M) > 1 \/ Min(M) \in g[Min(M)])
    <3>1. \A k \in M : k \notin ReachedFrom(g, k)
      BY <2>3, <2>5
    <3>2. Found(g, idx, O2) = Found(g, idx, O)
      BY <3>1, <1>12 DEF Found
    <3> QED
      BY <3>2, <2>5 DEF Remembered
  <2> QED
    BY <2>4, <2>5
<1>15. \A i \in 1..K : fr[i].node \in O2 /\ idx[fr[i].node] < idx[n]
  BY <1>1, <1>3, <1>7, <1>8
<1>16. ASSUME NEW i \in 1..K
       PROVE  low2[fr[i].node] = low[fr[i].node]
  <2>1. CASE i < K
    BY <2>1, <1>1
  <2>2. CASE i = K
    <3> DEFINE x == fr[i].node
    <3>1. low2[x] = Lesser(low[x], low[n]) /\ x \in DOMAIN g
      BY <2>2, <1>1, <1>7
    <3>2. low[x] \in Nat /\ low[n] \in Nat /\ idx[x] \in Nat
      BY <3>1, <1>2, <1>7
    <3>3. low[x] <= idx[x] /\ idx[x] < idx[n]
      BY <1>1, <1>5, <1>15
    <3>4. (Lesser(low[x], low[n]) = low[x] \/ Lesser(low[x], low[n]) = low[n]) /\ Lesser(low[x], low[n]) <= low[x]
      BY <3>2, LesserOf
    <3> QED
      BY <3>1, <3>2, <3>3, <3>4, <1>7
  <2> QED
    BY <2>1, <2>2, <1>1
<1>17. \A i \in 1..K : i < K => fr2[i + 1].node = fr[i + 1].node
  BY <1>1
<1>18. K > 0 => 1 \in 1..K /\ fr2[1].node = fr[1].node
  BY <1>1
<1>19. Typed(g, idx, low2, O2, fr2) /\ Numbered(idx, O2)
  BY <1>1, <1>2, <1>8 DEF Search, Typed, Numbered
<1>20. Nested(g, idx, O2, fr2)
  <2>1. \A i \in 1..K : fr2[i].node \in O2 /\ fr2[i].rest \subseteq g[fr2[i].node]
    BY <1>1, <1>3, <1>15
  <2>2. \A i \in 1..K : i < K => fr2[i + 1].node \in g[fr2[i].node]
    BY <1>1, <1>3, <1>17
  <2>3. \A i, j \in 1..K : i < j => idx[fr2[i].node] < idx[fr2[j].node]
    BY <1>1, <1>3
  <2>4. K = 0 => O2 = {}
    <3> SUFFICES ASSUME K = 0, NEW y \in O2
                 PROVE  FALSE
      OBVIOUS
    <3>1. n = fr[1].node
      BY <1>1, <1>7
    <3>2. idx[n] <= idx[y] /\ idx[y] < idx[n] /\ idx[y] \in Nat
      BY <3>1, <1>2, <1>3, <1>8
    <3> QED
      BY <3>2, <1>7
  <2>5. \A y \in O2 : idx[fr2[1].node] <= idx[y]
    <3>1. CASE K = 0
      BY <3>1, <2>4
    <3>2. CASE K > 0
      BY <3>2, <1>3, <1>8, <1>18
    <3> QED
      BY <3>1, <3>2, <1>1
  <2> QED
    BY <2>1, <2>2, <2>3, <2>4, <2>5, <1>1 DEF Nested, K
<1>21. Linked(g, idx, O2, fr2)
  <2>1. ASSUME NEW i \in 1..K, NEW y \in O2, idx[fr2[i].node] <= idx[y]
        PROVE  Reaches(g, fr2[i].node, y)
    BY <2>1, <1>1, <1>4, <1>8
  <2>2. ASSUME NEW i \in 1..K, NEW y \in O2, i < K => idx[y] < idx[fr2[i + 1].node]
        PROVE  Reaches(g, y, fr2[i].node)
    <3>1. i \in 1..L /\ idx[y] < idx[fr[i + 1].node]
      <4>1. CASE i < K
        BY <2>2, <4>1, <1>1, <1>17
      <4>2. CASE i = K
        <5>1. i + 1 = L
          BY <4>2, <1>1
        <5> QED
          BY <5>1, <1>1, <1>7, <1>8
      <4> QED
        BY <4>1, <4>2, <1>1
    <3> QED
      BY <3>1, <1>1, <1>4, <1>8
  <2> QED
    BY <2>1, <2>2, <1>1 DEF Linked, Before, K
<1>22. LowLinks(g, idx, low2, fr2)
  <2>1. ASSUME NEW i \in 1..K
        PROVE  idx[fr2[1].node] <= low2[fr2[i].node] /\ low2[fr2[i].node] <= idx[fr2[i].node]
    <3>1. fr2[1].node = fr[1].node /\ fr2[i].node = fr[i].node /\ i \in 1..L
      BY <1>1, <1>18
    <3> QED
      BY <3>1, <1>5, <1>16
  <2>2. ASSUME NEW i \in 1..K, NEW j \in 1..K, j < i, low2[fr2[i].node] < idx[fr2[j + 1].node]
        PROVE  Reaches(g, fr2[i].node, fr2[j].node)
    <3>1. /\ fr2[j].node = fr[j].node /\ fr2[i].node = fr[i].node /\ i \in 1..L /\ j \in 1..L
          /\ fr2[j + 1].node = fr[j + 1].node
      <4>1. j < K /\ j \in 1..L /\ i \in 1..L
        BY <2>2, <1>1
      <4> QED
        BY <4>1, <1>1, <1>17
    <3> QED
      BY <2>2, <3>1, <1>5, <1>16
  <2> QED
    BY <2>1, <2>2, <1>1 DEF LowLinks
<1>23. Seen(g, idx, low2, O2, fr2)
  <2>1. ASSUME NEW i \in 1..K, NEW y \in O2, NEW z \in g[y], idx[fr2[i].node] <= idx[y],
               i < K => idx[y] < idx[fr2[i + 1].node]
        PROVE  \/ y = fr2[i].node /\ z \in fr2[i].rest
               \/ idx[z] # 0 /\ (z \in O2 => low2[fr2[i].node] <= idx[z])
    <3>1. fr2[i] = fr[i] /\ i \in 1..L
      BY <1>1
    <3>2. i < L => idx[y] < idx[fr[i + 1].node]
      <4>1. CASE i < K
        BY <2>1, <4>1, <1>1, <1>17
      <4>2. CASE i = K
        <5>1. i + 1 = L
          BY <4>2, <1>1
        <5> QED
          BY <5>1, <1>7, <1>8
      <4> QED
        BY <4>1, <4>2, <1>1
    <3>3. \/ y = fr[i].node /\ z \in fr[i].rest
          \/ idx[z] # 0 /\ (z \in O => low[fr[i].node] <= idx[z])
      BY <2>1, <3>1, <3>2, <1>6, <1>8
    <3> QED
      BY <3>1, <3>3, <1>8, <1>16
  <2> QED
    BY <2>1, <1>1 DEF Seen, Before, K
<1> QED
  BY <1>13, <1>14, <1>19, <1>20, <1>21, <1>22, <1>23 DEF Search, M

----------------------------------------------------------------------------
\* The graph, and the end of the search

LEMMA GraphOfInput ==
    ASSUME NEW ms \in Inputs, InputError(ms) = NoError
    PROVE  IsGraph(GraphOf(ms))
<1>1. /\ DOMAIN ms = 1..Len(ms) /\ Len(ms) \in Nat
      /\ \A i \in DOMAIN ms : ms[i].key \in Nat /\ ms[i].dependencies \in Seq(Nat)
  BY InputsAssumption
<1>2. MissingEdges(ms) = {}
  BY DEF InputError, NodeError, EdgeError, NoError
<1>3. DOMAIN GraphOf(ms) = Keys(ms) /\ Keys(ms) \subseteq Nat
  BY <1>1 DEF GraphOf, Keys
<1>4. IsFiniteSet(Keys(ms))
  <2> DEFINE f == [i \in 1..Len(ms) |-> ms[i].key]
  <2>1. f \in Surjection(1..Len(ms), Keys(ms))
    BY <1>1 DEF Surjection, Keys
  <2>2. IsFiniteSet(1..Len(ms))
    BY <1>1, FS_Interval
  <2> QED
    BY <2>1, <2>2, FS_Surjection
<1>5. \A e \in Edges(ms) : e[2] \in Keys(ms)
  BY <1>2 DEF MissingEdges
<1>6. GraphOf(ms) \in [Keys(ms) -> SUBSET Keys(ms)]
  BY <1>5 DEF GraphOf
<1> QED
  BY <1>3, <1>4, <1>6 DEF IsGraph

LEMMA InputErrorCode == \A ms : InputError(ms).code # "dependency_cycle"
BY DEF InputError, NodeError, EdgeError, NoError

\* Before anything is visited.
LEMMA SearchBegins ==
    ASSUME NEW g, IsGraph(g)
    PROVE  LET zero == [k \in DOMAIN g |-> 0]
           IN  Search(g, zero, zero, {}, <<>>) /\ Found(g, zero, {}) = {}
<1> DEFINE zero == [k \in DOMAIN g |-> 0]
<1>1. Visited(zero) = {} /\ Done(zero, {}) = {}
  BY DEF Visited, Done
<1>2. Cardinality(Visited(zero)) = 0
  BY <1>1, FS_EmptySet
<1>3. Typed(g, zero, zero, {}, <<>>)
  BY DEF Typed
<1>4. Numbered(zero, {})
  BY <1>2 DEF Numbered
<1>5. /\ Nested(g, zero, {}, <<>>) /\ Linked(g, zero, {}, <<>>)
      /\ LowLinks(g, zero, zero, <<>>) /\ Seen(g, zero, zero, {}, <<>>)
  BY DEF Nested, Linked, LowLinks, Seen, Calls
<1>6. DoneClosed(g, zero, {}) /\ Found(g, zero, {}) = {}
  BY <1>1 DEF DoneClosed, Found
<1> QED
  BY <1>3, <1>4, <1>5, <1>6 DEF Search

\* All components are known when every migration has been visited and no call is left.
LEMMA SearchEnds ==
    ASSUME NEW g, NEW idx, NEW low, NEW O, Search(g, idx, low, O, <<>>), \A k \in DOMAIN g : idx[k] # 0
    PROVE  Found(g, idx, O) = {Component(g, k) : k \in OnCycle(g)}
<1>1. O = {} /\ DOMAIN idx = DOMAIN g
  BY DEF Search, Nested, Typed
<1>2. Done(idx, O) = DOMAIN g
  BY <1>1 DEF Done, Visited
<1> QED
  BY <1>2 DEF Found, OnCycle

\* The component with the least first key is that of the least migration on a cycle.
LEMMA LeastComponent ==
    ASSUME NEW g, IsGraph(g), OnCycle(g) # {}
    PROVE  LET C == {Component(g, k) : k \in OnCycle(g)}
           IN  (CHOOSE c \in C : \A d \in C : Min(c) <= Min(d)) = Component(g, Min(OnCycle(g)))
<1> DEFINE C == {Component(g, k) : k \in OnCycle(g)}
           k0 == Min(OnCycle(g))
<1>1. OnCycle(g) \in SUBSET Nat /\ OnCycle(g) \subseteq DOMAIN g
  BY DEF OnCycle, IsGraph
<1>2. k0 \in OnCycle(g) /\ \A k \in OnCycle(g) : k0 <= k
  BY <1>1, LeastOf
<1> HIDE DEF k0
<1>3. ASSUME NEW k \in OnCycle(g)
      PROVE  /\ k \in Component(g, k)
             /\ Component(g, k) \subseteq OnCycle(g)
             /\ Min(Component(g, k)) \in Component(g, k)
             /\ \A n \in Component(g, k) : Min(Component(g, k)) <= n
  <2>1. k \in DOMAIN g /\ k \in ReachedFrom(g, k)
    BY <1>3 DEF OnCycle
  <2>2. k \in Component(g, k)
    BY <2>1 DEF Component
  <2>3. ASSUME NEW n \in Component(g, k)
        PROVE  n \in OnCycle(g)
    <3>1. n \in DOMAIN g /\ n \in ReachedFrom(g, k) /\ k \in ReachedFrom(g, n)
      BY DEF Component, ReachedFrom
    <3> QED
      BY <3>1, ReachedTransitive DEF OnCycle
  <2> QED
    BY <2>2, <2>3, <1>1, LeastOf
<1>4. \A k \in OnCycle(g) : k0 <= Min(Component(g, k)) /\ Min(Component(g, k)) \in Nat
  BY <1>1, <1>2, <1>3
<1>5. Min(Component(g, k0)) = k0
  <2>1. Min(Component(g, k0)) <= k0 /\ k0 <= Min(Component(g, k0)) /\ Min(Component(g, k0)) \in Nat /\ k0 \in Nat
    BY <1>1, <1>2, <1>3, <1>4
  <2> QED
    BY <2>1
<1>6. ASSUME NEW k \in OnCycle(g), k0 \in Component(g, k)
      PROVE  Component(g, k) = Component(g, k0)
  <2>1. k \in DOMAIN g /\ k0 \in DOMAIN g /\ k0 \in ReachedFrom(g, k) /\ k \in ReachedFrom(g, k0)
    BY <1>1, <1>2, <1>6 DEF Component
  <2>2. ReachedFrom(g, k) = ReachedFrom(g, k0)
    BY <2>1, ReachedTransitive
  <2>3. \A n \in ReachedFrom(g, k) : k \in ReachedFrom(g, n) <=> k0 \in ReachedFrom(g, n)
    <3> SUFFICES ASSUME NEW n \in ReachedFrom(g, k)
                 PROVE  k \in ReachedFrom(g, n) <=> k0 \in ReachedFrom(g, n)
      OBVIOUS
    <3>1. n \in DOMAIN g
      BY DEF ReachedFrom
    <3> QED
      BY <3>1, <2>1, ReachedTransitive
  <2> QED
    BY <2>2, <2>3 DEF Component
<1>7. Component(g, k0) \in C /\ \A d \in C : Min(Component(g, k0)) <= Min(d)
  BY <1>2, <1>4, <1>5
<1>8. ASSUME NEW c \in C, \A d \in C : Min(c) <= Min(d)
      PROVE  c = Component(g, k0)
  <2>1. PICK k \in OnCycle(g) : c = Component(g, k)
    OBVIOUS
  <2>2. Min(c) <= k0 /\ k0 <= Min(c) /\ Min(c) \in Nat /\ k0 \in Nat
    BY <2>1, <1>1, <1>2, <1>4, <1>5, <1>7, <1>8
  <2>3. Min(c) = k0
    BY <2>2
  <2> QED
    BY <2>1, <2>3, <1>3, <1>6
<1> HIDE DEF C
<1>9. (CHOOSE c \in C : \A d \in C : Min(c) <= Min(d)) = Component(g, k0)
  BY <1>7, <1>8
<1> QED
  BY <1>9 DEF C, k0

----------------------------------------------------------------------------
\* The inductive invariant, and its steps

OnStack == {stack[i] : i \in 1..Len(stack)}

\* The stack holds migrations in the order of their indices.
Stacked ==
    /\ stack \in Seq(DOMAIN parents)
    /\ \A i, j \in 1..Len(stack) : i < j => indices[stack[i]] < indices[stack[j]]

Diagnosed ==
    /\ migrations \in Inputs
    /\ label = "validate" =>
          stack = <<>> /\ frames = <<>> /\ components = {}
    /\ label \notin {"validate", "refused"} =>
          InputError(migrations) = NoError /\ parents = GraphOf(migrations)
    /\ label = "search" =>
          /\ Stacked
          /\ Search(parents, indices, lowLink, OnStack, frames)
          /\ components = Found(parents, indices, OnStack)
    /\ DiagnosisExact

LEMMA InitDiagnosed == Init => Diagnosed
BY DEF Init, DiagnosisInit, Diagnosed, DiagnosisExact

LEMMA ValidateInputKeeps == Diagnosed /\ ValidateInput => Diagnosed'
<1> SUFFICES ASSUME Diagnosed, ValidateInput
             PROVE  Diagnosed'
  OBVIOUS
<1>1. /\ migrations \in Inputs /\ label = "validate"
      /\ stack = <<>> /\ frames = <<>> /\ components = {} /\ migrations' = migrations
  BY DEF ValidateInput, Diagnosed, Refuse
<1>2. CASE InputError(migrations) # NoError
  <2>1. label' = "refused" /\ diagnosis' = InputError(migrations)
    BY <1>2 DEF ValidateInput, Refuse
  <2>2. diagnosis'.code # "dependency_cycle"
    BY <2>1, InputErrorCode
  <2> QED
    BY <1>1, <2>1, <2>2 DEF Diagnosed, DiagnosisExact
<1>3. CASE InputError(migrations) = NoError
  <2>1. /\ label' = "search" /\ parents' = GraphOf(migrations)
        /\ indices' = [k \in Keys(migrations) |-> 0] /\ lowLink' = [k \in Keys(migrations) |-> 0]
        /\ stack' = <<>> /\ frames' = <<>> /\ components' = {}
    BY <1>1, <1>3 DEF ValidateInput
  <2>2. DOMAIN GraphOf(migrations) = Keys(migrations) /\ IsGraph(GraphOf(migrations))
    BY <1>1, <1>3, GraphOfInput DEF GraphOf
  <2>3. OnStack' = {} /\ Stacked'
    BY <2>1 DEF OnStack, Stacked
  <2>4. /\ Search(parents', indices', lowLink', {}, frames')
        /\ components' = Found(parents', indices', {})
    BY <2>1, <2>2, SearchBegins
  <2> QED
    BY <1>1, <1>3, <2>1, <2>3, <2>4 DEF Diagnosed, DiagnosisExact
<1> QED
  BY <1>2, <1>3

LEMMA EnterKeeps ==
    ASSUME Diagnosed, label = "search", NEW node \in DOMAIN parents, indices[node] = 0,
           NEW callers \in Seq([node : DOMAIN parents, rest : SUBSET DOMAIN parents]),
           Len(callers) = Len(frames),
           \A i \in Calls(frames) : /\ callers[i].node = frames[i].node
                                    /\ callers[i].rest \subseteq frames[i].rest
                                    /\ frames[i].rest \subseteq callers[i].rest \union {node},
           frames # <<>> => node \in parents[frames[Len(frames)].node],
           Enter(node, callers)
    PROVE  Diagnosed'
<1> DEFINE c == 1 + Cardinality(Visited(indices))
           F == [node : DOMAIN parents, rest : SUBSET DOMAIN parents]
           r == [node |-> node, rest |-> parents[node]]
<1>1. /\ migrations \in Inputs /\ InputError(migrations) = NoError /\ parents = GraphOf(migrations)
      /\ stack \in Seq(DOMAIN parents)
      /\ \A i, j \in 1..Len(stack) : i < j => indices[stack[i]] < indices[stack[j]]
      /\ Search(parents, indices, lowLink, OnStack, frames)
      /\ components = Found(parents, indices, OnStack)
  BY DEF Diagnosed, Stacked
<1>2. /\ indices' = [indices EXCEPT ![node] = c] /\ lowLink' = [lowLink EXCEPT ![node] = c]
      /\ stack' = Append(stack, node) /\ frames' = Append(callers, r)
      /\ UNCHANGED <<migrations, label, diagnosis, parents, components>>
  BY DEF Enter, Visited
<1>3. /\ Len(stack) \in Nat /\ Len(stack') = Len(stack) + 1
      /\ stack' \in Seq(DOMAIN parents)
      /\ \A i \in 1..Len(stack') : i = Len(stack') \/ i \in 1..Len(stack)
      /\ \A i \in 1..Len(stack) : stack'[i] = stack[i] /\ stack[i] \in DOMAIN parents /\ i \in 1..Len(stack')
      /\ stack'[Len(stack')] = node /\ Len(stack') \in 1..Len(stack')
  <2> DEFINE D == DOMAIN parents
  <2> HIDE DEF D
  <2>1. stack \in Seq(D) /\ node \in D /\ stack' = Append(stack, node)
    BY <1>1, <1>2 DEF D
  <2>2. Len(stack) \in Nat /\ Len(stack') = Len(stack) + 1 /\ stack' \in Seq(D)
    BY <2>1
  <2>3. /\ \A i \in 1..Len(stack) : stack'[i] = stack[i] /\ stack[i] \in D
        /\ stack'[Len(stack')] = node
    BY <2>1, <2>2
  <2> QED
    BY <2>2, <2>3 DEF D
<1>4. OnStack' = OnStack \union {node}
  BY <1>3 DEF OnStack
<1>5. Entered(parents, indices, lowLink, OnStack, frames, node, indices', lowLink', OnStack', frames')
  <2>1. IsGraph(parents) /\ frames \in Seq(F)
    BY <1>1 DEF Search, Typed
  <2>2. r \in F
    BY <2>1 DEF IsGraph
  <2>3. /\ frames' \in Seq(F) /\ Len(frames') = Len(frames) + 1 /\ frames'[Len(frames')] = r
        /\ \A i \in 1..Len(frames) : frames'[i] = callers[i]
    <3>1. callers \in Seq(F) /\ Len(callers) = Len(frames)
      OBVIOUS
    <3> HIDE DEF F, r
    <3> QED
      BY <3>1, <2>2, <1>2
  <2>4. Calls(frames) = 1..Len(frames)
    BY DEF Calls
  <2> QED
    BY <2>3, <2>4, <1>2, <1>4 DEF Entered
<1>6. Search(parents, indices', lowLink', OnStack', frames') /\ Found(parents, indices', OnStack') = components
  BY <1>1, <1>5, EnteredKeeps
<1>7. ASSUME NEW i \in 1..Len(stack'), NEW j \in 1..Len(stack'), i < j
      PROVE  indices'[stack'[i]] < indices'[stack'[j]]
  <2>1. /\ \A k \in DOMAIN parents : k # node => indices'[k] = indices[k] /\ indices[k] < indices'[node]
        /\ node \notin OnStack
    BY <1>1, <1>5, EnteredNumbered
  <2>2. i \in 1..Len(stack) /\ stack'[i] = stack[i] /\ stack[i] \in DOMAIN parents /\ stack[i] # node
    BY <2>1, <1>3, <1>7 DEF OnStack
  <2>3. CASE j = Len(stack')
    BY <2>1, <2>2, <2>3, <1>3
  <2>4. CASE j \in 1..Len(stack)
    <3>1. stack'[j] = stack[j] /\ stack[j] \in DOMAIN parents /\ stack[j] # node
      BY <2>1, <2>4, <1>3 DEF OnStack
    <3> QED
      BY <3>1, <2>1, <2>2, <2>4, <1>1, <1>7
  <2> QED
    BY <2>3, <2>4, <1>3
<1>8. Stacked'
  BY <1>2, <1>3, <1>7 DEF Stacked
<1> QED
  BY <1>1, <1>2, <1>6, <1>8 DEF Diagnosed, DiagnosisExact

LEMMA VisitRootKeeps == Diagnosed /\ VisitRoot => Diagnosed'
<1> SUFFICES ASSUME Diagnosed, label = "search", frames = <<>>,
                    NEW n \in DOMAIN parents, IsFirst(n, {k \in DOMAIN parents : indices[k] = 0}), Enter(n, <<>>)
             PROVE  Diagnosed'
  BY DEF VisitRoot
<1>1. indices[n] = 0
  BY DEF IsFirst
<1>2. <<>> \in Seq([node : DOMAIN parents, rest : SUBSET DOMAIN parents]) /\ Len(<<>>) = Len(frames)
  OBVIOUS
<1>3. \A i \in Calls(frames) : FALSE
  BY DEF Calls
<1> QED
  BY <1>1, <1>2, <1>3, EnterKeeps

LEMMA FrontOf ==
    ASSUME NEW F, NEW s \in Seq(F), s # <<>>
    PROVE  /\ Front(s) \in Seq(F) /\ Len(Front(s)) = Len(s) - 1
           /\ \A i \in 1..(Len(s) - 1) : Front(s)[i] = s[i]
<1> DEFINE K == Len(s) - 1
<1>1. K \in Nat /\ \A i \in 1..K : i \in 1..Len(s)
  OBVIOUS
<1>2. \A i \in 1..K : s[i] \in F
  BY <1>1
<1> HIDE DEF K
<1>3. /\ SubSeq(s, 1, K) \in Seq(F) /\ Len(SubSeq(s, 1, K)) = K
      /\ \A i \in 1..K : SubSeq(s, 1, K)[i] = s[i]
  BY <1>1, <1>2
<1> QED
  BY <1>3 DEF Front, K

\* The innermost call with p taken off its list.
LEMMA TopReplaced ==
    ASSUME Diagnosed, label = "search", frames # <<>>, NEW p \in Top.rest
    PROVE  LET L == Len(frames)
               s == Append(Front(frames), [Top EXCEPT !.rest = @ \ {p}])
           IN  /\ L \in Nat /\ L > 0 /\ L \in 1..L
               /\ Top = frames[L]
               /\ s \in Seq([node : DOMAIN parents, rest : SUBSET DOMAIN parents])
               /\ Len(s) = L
               /\ \A i \in 1..L : /\ s[i].node = frames[i].node
                                  /\ s[i].rest = IF i = L THEN frames[i].rest \ {p} ELSE frames[i].rest
               /\ p \in parents[frames[L].node]
               /\ p \in DOMAIN parents
<1> DEFINE L == Len(frames)
           F == [node : DOMAIN parents, rest : SUBSET DOMAIN parents]
           r == [Top EXCEPT !.rest = @ \ {p}]
           s == Append(Front(frames), r)
<1>1. Search(parents, indices, lowLink, OnStack, frames)
  BY DEF Diagnosed
<1>2. frames \in Seq(F) /\ IsGraph(parents)
  BY <1>1 DEF Search, Typed
<1>3. L \in Nat /\ L > 0 /\ L \in 1..L /\ Top = frames[L] /\ frames[L] \in F
  <2> HIDE DEF F
  <2>1. L \in Nat /\ L > 0
    BY <1>2
  <2> QED
    BY <2>1, <1>2 DEF Top, Last
<1>4. r \in F /\ r.node = frames[L].node /\ r.rest = frames[L].rest \ {p}
  BY <1>3
<1>5. /\ s \in Seq(F) /\ Len(s) = L /\ s[L] = r
      /\ \A i \in 1..L : i # L => s[i] = frames[i]
  <2> HIDE DEF F, r
  <2>1. Front(frames) \in Seq(F) /\ Len(Front(frames)) = L - 1 /\ \A i \in 1..(L - 1) : Front(frames)[i] = frames[i]
    BY <1>2, <1>3, FrontOf
  <2> QED
    BY <2>1, <1>3, <1>4
<1>6. p \in parents[frames[L].node] /\ p \in DOMAIN parents
  <2>1. frames[L].rest \subseteq parents[frames[L].node] /\ frames[L].node \in DOMAIN parents
    BY <1>1, <1>3 DEF Search, Nested, Calls
  <2> QED
    BY <2>1, <1>2, <1>3 DEF IsGraph
<1>7. \A i \in 1..L : /\ s[i].node = frames[i].node
                      /\ s[i].rest = IF i = L THEN frames[i].rest \ {p} ELSE frames[i].rest
  BY <1>4, <1>5
<1> QED
  BY <1>3, <1>5, <1>6, <1>7

LEMMA DescendKeeps ==
    ASSUME Diagnosed, label = "search", frames # <<>>, NEW p \in Top.rest, Descend(p)
    PROVE  Diagnosed'
<1> DEFINE L == Len(frames)
           s == Append(Front(frames), [Top EXCEPT !.rest = @ \ {p}])
<1>1. /\ L \in Nat /\ L > 0 /\ L \in 1..L
      /\ s \in Seq([node : DOMAIN parents, rest : SUBSET DOMAIN parents])
      /\ Len(s) = L
      /\ \A i \in 1..L : /\ s[i].node = frames[i].node
                         /\ s[i].rest = IF i = L THEN frames[i].rest \ {p} ELSE frames[i].rest
      /\ p \in parents[frames[L].node]
      /\ p \in DOMAIN parents
  BY TopReplaced
<1>2. indices[p] = 0 /\ Enter(p, s)
  BY DEF Descend
<1> HIDE DEF s
<1>3. \A i \in Calls(frames) : /\ s[i].node = frames[i].node
                               /\ s[i].rest \subseteq frames[i].rest
                               /\ frames[i].rest \subseteq s[i].rest \union {p}
  BY <1>1 DEF Calls
<1> QED
  BY <1>1, <1>2, <1>3, EnterKeeps

LEMMA LookBackKeeps ==
    ASSUME Diagnosed, label = "search", frames # <<>>, NEW p \in Top.rest, LookBack(p)
    PROVE  Diagnosed'
<1> DEFINE L == Len(frames)
           s == Append(Front(frames), [Top EXCEPT !.rest = @ \ {p}])
<1>1. /\ L \in Nat /\ L > 0 /\ L \in 1..L /\ Top = frames[L]
      /\ s \in Seq([node : DOMAIN parents, rest : SUBSET DOMAIN parents])
      /\ Len(s) = L
      /\ \A i \in 1..L : /\ s[i].node = frames[i].node
                         /\ s[i].rest = IF i = L THEN frames[i].rest \ {p} ELSE frames[i].rest
  BY TopReplaced
<1>2. /\ indices[p] # 0 /\ frames' = s
      /\ lowLink' = IF Contains(stack, p)
                    THEN [lowLink EXCEPT ![Top.node] = Min({lowLink[Top.node], indices[p]})] ELSE lowLink
      /\ UNCHANGED <<migrations, label, diagnosis, parents, indices, stack, components>>
  BY DEF LookBack
<1> HIDE DEF s
<1>3. Contains(stack, p) <=> p \in OnStack
  BY DEF Contains, OnStack
<1>4. LookedBack(parents, indices, lowLink, OnStack, frames, p, lowLink', frames')
  BY <1>1, <1>2, <1>3 DEF LookedBack, Lesser
<1>5. /\ Search(parents, indices, lowLink, OnStack, frames)
      /\ components = Found(parents, indices, OnStack)
  BY DEF Diagnosed
<1>6. Search(parents, indices, lowLink', OnStack, frames')
  BY <1>4, <1>5, LookedBackKeeps
<1>7. OnStack' = OnStack /\ (Stacked => Stacked')
  BY <1>2 DEF OnStack, Stacked
<1> QED
  BY <1>2, <1>5, <1>6, <1>7 DEF Diagnosed, DiagnosisExact

LEMMA LeaveNodeKeeps == Diagnosed /\ LeaveNode => Diagnosed'
<1> SUFFICES ASSUME Diagnosed, LeaveNode
             PROVE  Diagnosed'
  OBVIOUS
<1> DEFINE L == Len(frames)
           F == [node : DOMAIN parents, rest : SUBSET DOMAIN parents]
           n == frames[L].node
           M == Closing(indices, OnStack, n)
<1>1. /\ label = "search" /\ frames # <<>> /\ Top.rest = {}
      /\ UNCHANGED <<migrations, label, diagnosis, parents, indices>>
  BY DEF LeaveNode
<1>2. /\ Search(parents, indices, lowLink, OnStack, frames)
      /\ components = Found(parents, indices, OnStack)
      /\ stack \in Seq(DOMAIN parents)
      /\ \A i, j \in 1..Len(stack) : i < j => indices[stack[i]] < indices[stack[j]]
  BY <1>1 DEF Diagnosed, Stacked
<1>3. /\ frames \in Seq(F) /\ indices \in [DOMAIN parents -> Nat]
      /\ OnStack \subseteq DOMAIN parents
  BY <1>2 DEF Search, Typed
<1>4. L \in Nat /\ L > 0 /\ L \in 1..L /\ Top = frames[L] /\ frames[L] \in F /\ n \in OnStack
  <2>1. n \in OnStack
    <3>1. L \in 1..L
      <4> HIDE DEF F
      <4> QED
        BY <1>1, <1>3
    <3> QED
      BY <3>1, <1>2 DEF Search, Nested, Calls
  <2> HIDE DEF F
  <2>2. L \in Nat /\ L > 0
    BY <1>1, <1>3
  <2> QED
    BY <2>1, <2>2, <1>3 DEF Top, Last
<1>5. /\ frames' = Front(frames)
      /\ stack' = IF lowLink[n] = indices[n] THEN SubSeq(stack, 1, Place(n) - 1) ELSE stack
      /\ components' = IF lowLink[n] = indices[n]
                          /\ (Cardinality(PopFrom(n)) > 1 \/ Min(PopFrom(n)) \in parents[Min(PopFrom(n))])
                       THEN components \union {PopFrom(n)} ELSE components
      /\ lowLink' = IF Len(frames) = 1 THEN lowLink
                    ELSE [lowLink EXCEPT ![Last(Front(frames)).node]
                                            = Min({lowLink[Last(Front(frames)).node], lowLink[n]})]
  BY <1>4 DEF LeaveNode, HasSelfLoop
<1>6. Left(parents, indices, lowLink, frames, lowLink', frames')
  <2> HIDE DEF F
  <2>1. frames' \in Seq(F) /\ Len(frames') = L - 1 /\ \A i \in 1..(L - 1) : frames'[i] = frames[i]
    BY <1>1, <1>3, <1>5, FrontOf
  <2>2. L # 1 => Last(Front(frames)) = frames[L - 1]
    BY <2>1, <1>4, <1>5 DEF Last
  <2>3. lowLink' = IF L = 1 THEN lowLink
                   ELSE [lowLink EXCEPT ![frames[L - 1].node] = Lesser(lowLink[frames[L - 1].node], lowLink[n])]
    BY <2>2, <1>5 DEF Lesser
  <2> QED
    BY <2>1, <2>3, <1>1, <1>4 DEF Left, F
<1> HIDE DEF L, F
<1>7. CASE lowLink[n] # indices[n]
  <2>1. Search(parents, indices, lowLink', OnStack, frames')
    BY <1>2, <1>6, <1>7, ReturnedKeeps DEF L
  <2>2. stack' = stack /\ components' = components
    BY <1>5, <1>7
  <2>3. OnStack' = OnStack /\ (Stacked => Stacked')
    BY <2>2, <1>1 DEF OnStack, Stacked
  <2> QED
    BY <2>1, <2>2, <2>3, <1>1 DEF Diagnosed, DiagnosisExact
<1>8. CASE lowLink[n] = indices[n]
  <2>1. /\ Place(n) \in 1..Len(stack) /\ stack[Place(n)] = n /\ Len(stack) \in Nat
        /\ \A i \in 1..Len(stack) : stack[i] \in DOMAIN parents
    <3>1. \E i \in 1..Len(stack) : stack[i] = n
      BY <1>4 DEF OnStack
    <3>2. DOMAIN stack = 1..Len(stack) /\ Len(stack) \in Nat /\ \A i \in 1..Len(stack) : stack[i] \in DOMAIN parents
      <4> DEFINE D == DOMAIN parents
      <4> HIDE DEF D
      <4>1. stack \in Seq(D)
        BY <1>2 DEF D
      <4> QED
        BY <4>1 DEF D
    <3> QED
      BY <3>1, <3>2 DEF Place
  <2> DEFINE q == Place(n)
  <2>2. \A i \in 1..Len(stack) : q <= i <=> indices[n] <= indices[stack[i]]
    <3> SUFFICES ASSUME NEW i \in 1..Len(stack)
                 PROVE  q <= i <=> indices[n] <= indices[stack[i]]
      OBVIOUS
    <3>1. indices[stack[i]] \in Nat /\ indices[n] \in Nat /\ stack[q] = n /\ q \in 1..Len(stack)
      BY <2>1, <1>3
    <3>2. CASE i < q
      BY <3>1, <3>2, <1>2
    <3>3. CASE i = q
      BY <3>1, <3>3
    <3>4. CASE q < i
      BY <3>1, <3>4, <1>2
    <3> QED
      BY <3>1, <3>2, <3>3, <3>4
  <2> HIDE DEF q
  <2>3. PopFrom(n) = M
    <3>1. PopFrom(n) = {stack[i] : i \in q..Len(stack)}
      BY DEF PopFrom, q
    <3>2. q \in 1..Len(stack) /\ Len(stack) \in Nat
      BY <2>1 DEF q
    <3>3. \A i \in q..Len(stack) : i \in 1..Len(stack) /\ q <= i
      BY <3>2
    <3>4. \A i \in 1..Len(stack) : q <= i => i \in q..Len(stack)
      BY <3>2
    <3> QED
      BY <3>1, <3>3, <3>4, <2>2 DEF Closing, OnStack
  <2>4. /\ stack' = SubSeq(stack, 1, q - 1)
        /\ stack' \in Seq(DOMAIN parents) /\ Len(stack') = q - 1
        /\ \A i \in 1..Len(stack') : stack'[i] = stack[i] /\ i \in 1..Len(stack) /\ i < q
    <3> DEFINE D == DOMAIN parents
    <3> HIDE DEF D
    <3>1. stack \in Seq(D) /\ stack' = SubSeq(stack, 1, q - 1) /\ q \in 1..Len(stack) /\ Len(stack) \in Nat
      BY <1>2, <1>5, <1>8, <2>1 DEF D, q
    <3>2. stack' \in Seq(D) /\ Len(stack') = q - 1 /\ \A i \in 1..Len(stack') : stack'[i] = stack[i]
      BY <3>1
    <3> QED
      BY <3>1, <3>2 DEF D
  <2>5. OnStack' = OnStack \ M
    <3>1. \A i \in 1..Len(stack) : i < q => i \in 1..Len(stack')
      BY <2>1, <2>4 DEF q
    <3>2. \A i \in 1..Len(stack) : i < q <=> ~(q <= i)
      BY <2>1 DEF q
    <3> QED
      BY <3>1, <3>2, <2>2, <2>4 DEF OnStack, Closing
  <2>6. Stacked'
    BY <2>4, <1>1, <1>2 DEF Stacked
  <2>7. /\ Search(parents, indices, lowLink', OnStack', frames')
        /\ Found(parents, indices, OnStack') = components \union Remembered(parents, M)
    <3>1. n = frames[Len(frames)].node
      BY DEF L
    <3>2. OnStack' = OnStack \ Closing(indices, OnStack, n)
      BY <2>5
    <3> HIDE DEF n
    <3>3. ClosedAt(parents, indices, lowLink, OnStack, frames, n, lowLink', OnStack', frames')
      BY <3>1, <3>2, <1>6, <1>8 DEF ClosedAt
    <3> QED
      BY <3>3, <1>2, ClosedKeeps
  <2>8. components' = Found(parents, indices, OnStack')
    BY <2>3, <2>7, <1>5, <1>8 DEF Remembered
  <2> QED
    BY <2>6, <2>7, <2>8, <1>1 DEF Diagnosed, DiagnosisExact
<1> QED
  BY <1>7, <1>8

LEMMA FinishSearchKeeps == Diagnosed /\ FinishSearch => Diagnosed'
<1> SUFFICES ASSUME Diagnosed, FinishSearch
             PROVE  Diagnosed'
  OBVIOUS
<1> DEFINE g == GraphOf(migrations)
<1>1. label = "search" /\ frames = <<>> /\ (\A k \in DOMAIN parents : indices[k] # 0) /\ UNCHANGED <<migrations, parents>>
  BY DEF FinishSearch, Refuse
<1>2. /\ migrations \in Inputs /\ InputError(migrations) = NoError /\ parents = g
      /\ Search(parents, indices, lowLink, OnStack, <<>>)
      /\ components = Found(parents, indices, OnStack)
  BY <1>1 DEF Diagnosed
<1>3. components = {Component(g, k) : k \in OnCycle(g)} /\ IsGraph(g)
  BY <1>1, <1>2, SearchEnds, GraphOfInput
<1>4. CASE components # {}
  <2>1. OnCycle(g) # {}
    BY <1>3, <1>4
  <2>2. label' = "refused" /\ diagnosis'.members = CHOOSE c \in components : \A d \in components : Min(c) <= Min(d)
    BY <1>4 DEF FinishSearch, Refuse, NoError
  <2>3. diagnosis'.members = Component(g, Min(OnCycle(g)))
    BY <2>1, <2>2, <1>3, LeastComponent
  <2> QED
    BY <2>1, <2>2, <2>3, <1>1, <1>2 DEF Diagnosed, DiagnosisExact, Component
<1>5. CASE components = {}
  <2>1. OnCycle(g) = {}
    BY <1>3, <1>5
  <2>2. Acyclic(g)
    BY <2>1, <1>3, AcyclicWithoutCycle
  <2>3. label' = "planner"
    BY <1>5 DEF FinishSearch
  <2> QED
    BY <2>2, <2>3, <1>1, <1>2 DEF Diagnosed, DiagnosisExact
<1> QED
  BY <1>4, <1>5

LEMMA NextDiagnosed == Diagnosed /\ [Next]_vars => Diagnosed'
<1> SUFFICES ASSUME Diagnosed, [Next]_vars
             PROVE  Diagnosed'
  OBVIOUS
<1>1. CASE ValidateInput
  BY <1>1, ValidateInputKeeps
<1>2. CASE VisitRoot
  BY <1>2, VisitRootKeeps
<1>3. CASE ExamineParent
  BY <1>3, DescendKeeps, LookBackKeeps DEF ExamineParent
<1>4. CASE LeaveNode
  BY <1>4, LeaveNodeKeeps
<1>5. CASE FinishSearch
  BY <1>5, FinishSearchKeeps
<1>6. CASE CloneDefinitions
  <2>1. label = "planner" /\ UNCHANGED <<migrations, parents>>
    BY <1>6 DEF CloneDefinitions
  <2>2. label' = "ready" \/ (label' = "refused" /\ diagnosis'.code = "invalid_state")
    BY <1>6 DEF CloneDefinitions, NoError
  <2> QED
    BY <2>1, <2>2 DEF Diagnosed, DiagnosisExact
<1>7. CASE UNCHANGED diagnosisVars
  <2>1. UNCHANGED <<migrations, label, diagnosis, parents, indices, lowLink, stack, frames, components>>
    BY <1>7 DEF diagnosisVars, tarjanVars
  <2>2. OnStack' = OnStack /\ (Stacked => Stacked')
    BY <2>1 DEF OnStack, Stacked
  <2> QED
    BY <2>1, <2>2 DEF Diagnosed, DiagnosisExact
<1>8. CASE label = "ready" /\ label' = "answered" /\ UNCHANGED <<migrations, diagnosis, parents>>
  BY <1>8 DEF Diagnosed, DiagnosisExact
<1>9. CASE Next
  <2>1. \/ ValidateInput \/ VisitRoot \/ ExamineParent \/ LeaveNode \/ FinishSearch
        \/ CloneDefinitions \/ (\E r \in Requests : Ask(r)) \/ (\E k \in DOMAIN parents : Apply(k) \/ Unapply(k))
        \/ RecordUnknown \/ LoadAppliedState \/ ReconstructHistory
    BY <1>9 DEF Next, Construct, NewPlanner
  <2>2. (\E r \in Requests : Ask(r)) \/ ReconstructHistory =>
            label = "ready" /\ label' = "answered" /\ UNCHANGED <<migrations, diagnosis, parents>>
    BY DEF Ask, ReconstructHistory
  <2>3. (\E k \in DOMAIN parents : Apply(k) \/ Unapply(k)) \/ RecordUnknown \/ LoadAppliedState => UNCHANGED diagnosisVars
    BY DEF Apply, Unapply, RecordUnknown, LoadAppliedState
  <2> QED
    BY <2>1, <2>2, <2>3, <1>1, <1>2, <1>3, <1>4, <1>5, <1>6, <1>7, <1>8
<1>10. CASE UNCHANGED vars
  BY <1>7, <1>10 DEF vars
<1> QED
  BY <1>9, <1>10

\* Through the whole of NewPlanner the search is in order, and so is the answer it leads to.
THEOREM SpecDiagnosed == Spec => []Diagnosed
BY InitDiagnosed, NextDiagnosed, PTL DEF Spec

(***************************************************************************)
(* NewPlanner accepts exactly the well-formed acyclic definitions, however *)
(* many there are, and of a cyclic graph names the strongly connected      *)
(* component of the least migration on a cycle: the search of              *)
(* firstCycleComponent finds every component with a cycle, whole.          *)
(***************************************************************************)
THEOREM SpecDiagnosisExact == Spec => []DiagnosisExact
<1>1. Diagnosed => DiagnosisExact
  BY DEF Diagnosed
<1> QED
  BY <1>1, SpecDiagnosed, PTL

----------------------------------------------------------------------------
\* Loops that keep some of a sequence, and arrangements of migrations

\* p finds in s what was kept, in its order.
Selects(p, k, s, n, S) ==
    /\ p \in [1..Len(k) -> 1..n]
    /\ \A i \in 1..Len(k) : k[i] = s[p[i]]
    /\ \A i, j \in 1..Len(k) : i < j => p[i] < p[j]
    /\ \A j \in 1..n : s[j] \in S <=> \E i \in 1..Len(k) : p[i] = j

KeepOne(S, T, kept, x) == IF x \in S THEN Append(kept, x) ELSE kept
KeptSoFar(S, T, s, n, kept) == kept \in Seq(T) /\ \E p : Selects(p, kept, s, n, S)

Keeping == INSTANCE FoldFacts WITH Op <- KeepOne, Inv <- KeptSoFar

LEMMA KeepSelects ==
    ASSUME NEW T, NEW s \in Seq(T), NEW S
    PROVE  Keep(s, S) \in Seq(T) /\ \E p : Selects(p, Keep(s, S), s, Len(s), S)
<1> DEFINE n == Len(s)
<1>1. n \in Nat /\ DOMAIN s = 1..n
  OBVIOUS
<1>2. Keep(s, S) = Keeping!FoldOf(S, T, <<>>, s)
  BY DEF Keep, Keeping!FoldOf, KeepOne, FoldLeft, MapThenFoldSet, Max, Keeping!FoldLeft, Keeping!MapThenFoldSet, Keeping!Max
<1>3. KeptSoFar(S, T, s, 0, <<>>)
  <2>1. Selects(<<>>, <<>>, s, 0, S)
    BY DEF Selects
  <2> QED
    BY <2>1 DEF KeptSoFar
<1>4. ASSUME NEW i \in 1..n, NEW kept, KeptSoFar(S, T, s, i - 1, kept)
      PROVE  KeptSoFar(S, T, s, i, KeepOne(S, T, kept, s[i]))
  <2>1. PICK p : Selects(p, kept, s, i - 1, S)
    BY <1>4 DEF KeptSoFar
  <2>2. kept \in Seq(T) /\ s[i] \in T /\ i \in Nat /\ Len(kept) \in Nat
    BY <1>4 DEF KeptSoFar
  <2>p. /\ p \in [1..Len(kept) -> 1..(i - 1)]
        /\ \A a \in 1..Len(kept) : kept[a] = s[p[a]]
        /\ \A a, b \in 1..Len(kept) : a < b => p[a] < p[b]
        /\ \A j \in 1..(i - 1) : s[j] \in S <=> \E a \in 1..Len(kept) : p[a] = j
    BY <2>1 DEF Selects
  <2>3. CASE s[i] \notin S
    <3>1. KeepOne(S, T, kept, s[i]) = kept
      BY <2>3 DEF KeepOne
    <3>2. Selects(p, kept, s, i, S)
      <4>1. p \in [1..Len(kept) -> 1..i]
        BY <2>p, <2>2
      <4>2. ASSUME NEW j \in 1..i PROVE s[j] \in S <=> \E a \in 1..Len(kept) : p[a] = j
        <5>1. CASE j = i
          BY <5>1, <2>3, <2>p, <2>2
        <5>2. CASE j # i
          <6>1. j \in 1..(i - 1)
            BY <5>2, <2>2
          <6> QED
            BY <6>1, <2>p
        <5> QED
          BY <5>1, <5>2
      <4> QED
        BY <4>1, <4>2, <2>p DEF Selects
    <3> QED
      BY <3>1, <3>2, <2>2 DEF KeptSoFar
  <2>4. CASE s[i] \in S
    <3> DEFINE m == Len(kept)
               k == Append(kept, s[i])
               q == [a \in 1..(m + 1) |-> IF a = m + 1 THEN i ELSE p[a]]
    <3>1. KeepOne(S, T, kept, s[i]) = k
      BY <2>4 DEF KeepOne
    <3>2. k \in Seq(T) /\ Len(k) = m + 1 /\ k[m + 1] = s[i] /\ \A a \in 1..m : k[a] = kept[a]
      BY <2>2
    <3> HIDE DEF k
    <3>q. /\ q[m + 1] = i
          /\ \A a \in 1..m : q[a] = p[a] /\ p[a] \in 1..(i - 1)
      BY <2>2, <2>p, <3>2
    <3>f. q = [a \in 1..Len(k) |-> q[a]]
      BY <3>2
    <3> HIDE DEF q
    <3>s. \A a \in 1..Len(k) : a = m + 1 \/ a \in 1..m
      BY <2>2, <3>2
    <3>3. Selects(q, k, s, i, S)
      <4>1. q \in [1..Len(k) -> 1..i]
        <5>1. \A a \in 1..Len(k) : q[a] \in 1..i
          <6>1. \A a \in 1..m : q[a] \in 1..i
            BY <3>q, <2>2
          <6>2. q[m + 1] \in 1..i
            BY <3>q, <2>2
          <6> QED
            BY <6>1, <6>2, <3>s
        <5> QED
          BY <5>1, <3>f
      <4>2. \A a \in 1..Len(k) : k[a] = s[q[a]]
        BY <2>p, <3>q, <3>s, <3>2
      <4>3. \A a, b \in 1..Len(k) : a < b => q[a] < q[b]
        <5>1. \A a, b \in 1..m : a < b => q[a] < q[b]
          BY <2>p, <3>q
        <5>2. \A a \in 1..m : q[a] < q[m + 1] /\ a < m + 1 /\ ~(m + 1 < a)
          BY <2>2, <3>q
        <5> QED
          BY <5>1, <5>2, <3>s, <2>2
      <4>4. ASSUME NEW j \in 1..i PROVE s[j] \in S <=> \E a \in 1..Len(k) : q[a] = j
        <5>1. CASE j = i
          <6>1. m + 1 \in 1..Len(k)
            BY <2>2, <3>2
          <6> QED
            BY <5>1, <6>1, <2>4, <3>q
        <5>2. CASE j # i
          <6>1. j \in 1..(i - 1)
            BY <5>2, <2>2
          <6>2. s[j] \in S <=> \E a \in 1..m : p[a] = j
            BY <6>1, <2>p
          <6>3. \A a \in 1..m : a \in 1..Len(k)
            BY <2>2, <3>2
          <6> QED
            BY <6>2, <6>3, <3>s, <3>q, <5>2
        <5> QED
          BY <5>1, <5>2
      <4> QED
        BY <4>1, <4>2, <4>3, <4>4 DEF Selects
    <3> QED
      BY <3>1, <3>2, <3>3 DEF KeptSoFar
  <2> QED
    BY <2>3, <2>4
<1>5. KeptSoFar(S, T, s, n, Keeping!FoldOf(S, T, <<>>, s))
  BY <1>1, <1>3, <1>4, Keeping!FoldKeeps
<1> QED
  BY <1>2, <1>5 DEF KeptSoFar

----------------------------------------------------------------------------
\* Arrangements: every member of C once, none before one it depends on

Arranged(g, s, C) ==
    /\ s \in Seq(Nat)
    /\ {s[i] : i \in 1..Len(s)} = C
    /\ \A i, j \in 1..Len(s) : s[i] = s[j] => i = j
    /\ \A i, j \in 1..Len(s) : s[i] \in g[s[j]] => i < j

LEMMA ArrangedRange ==
    ASSUME NEW g, NEW s, NEW C, Arranged(g, s, C)
    PROVE  /\ Range(s) = C /\ DOMAIN s = 1..Len(s) /\ Len(s) \in Nat
           /\ \A i \in 1..Len(s) : s[i] \in C
           /\ C \subseteq Nat
<1>1. DOMAIN s = 1..Len(s) /\ Len(s) \in Nat /\ \A i \in 1..Len(s) : s[i] \in Nat
  BY DEF Arranged
<1> QED
  BY <1>1 DEF Arranged, Range

LEMMA ArrangedLength ==
    ASSUME NEW g, NEW s, NEW C, Arranged(g, s, C)
    PROVE  IsFiniteSet(C) /\ Cardinality(C) = Len(s)
<1> DEFINE n == Len(s)
           f == [i \in 1..n |-> s[i]]
<1>1. n \in Nat /\ IsFiniteSet(1..n) /\ Cardinality(1..n) = n
  <2>1. n \in Nat
    BY ArrangedRange
  <2> HIDE DEF n
  <2> QED
    BY <2>1, FS_Interval
<1>2. f \in [1..n -> C] /\ (\A i, j \in 1..n : f[i] = f[j] => i = j) /\ \A c \in C : \E i \in 1..n : f[i] = c
  BY DEF Arranged
<1> HIDE DEF f, n
<1>3. f \in Bijection(1..n, C)
  BY <1>2, Fun_IsBij
<1>4. ExistsBijection(1..n, C)
  BY <1>3 DEF ExistsBijection
<1> QED
  BY <1>1, <1>4, FS_Bijection DEF n

\* The arrangement of nothing.
LEMMA ArrangedNothing == \A g : Arranged(g, <<>>, {})
BY DEF Arranged

\* What is kept of an arrangement.
LEMMA KeepArranged ==
    ASSUME NEW g, NEW s, NEW C, Arranged(g, s, C), NEW S
    PROVE  Arranged(g, Keep(s, S), C \intersect S)
<1> DEFINE k == Keep(s, S)
<1>1. s \in Seq(Nat) /\ Len(s) \in Nat
  BY DEF Arranged
<1>2. k \in Seq(Nat) /\ \E p : Selects(p, k, s, Len(s), S)
  BY <1>1, KeepSelects
<1> HIDE DEF k
<1>3. PICK p : Selects(p, k, s, Len(s), S)
  BY <1>2
<1>4. /\ \A i \in 1..Len(k) : p[i] \in 1..Len(s) /\ k[i] = s[p[i]]
      /\ \A i, j \in 1..Len(k) : i < j => p[i] < p[j]
      /\ \A j \in 1..Len(s) : s[j] \in S <=> \E i \in 1..Len(k) : p[i] = j
  BY <1>3 DEF Selects
<1>5. {k[i] : i \in 1..Len(k)} = C \intersect S
  <2>1. ASSUME NEW i \in 1..Len(k) PROVE k[i] \in C \intersect S
    BY <1>4 DEF Arranged
  <2>2. ASSUME NEW c \in C \intersect S PROVE \E i \in 1..Len(k) : k[i] = c
    <3>1. PICK j \in 1..Len(s) : s[j] = c
      BY DEF Arranged
    <3> QED
      BY <3>1, <1>4
  <2> QED
    BY <2>1, <2>2
<1>6. ASSUME NEW i \in 1..Len(k), NEW j \in 1..Len(k), i # j PROVE p[i] # p[j]
  <2>1. i < j \/ j < i
    BY <1>6
  <2>2. p[i] \in Int /\ p[j] \in Int
    BY <1>1, <1>4
  <2> QED
    BY <2>1, <2>2, <1>4
<1>7. ASSUME NEW i \in 1..Len(k), NEW j \in 1..Len(k), k[i] = k[j] PROVE i = j
  BY <1>4, <1>6, <1>7 DEF Arranged
<1>8. ASSUME NEW i \in 1..Len(k), NEW j \in 1..Len(k), k[i] \in g[k[j]] PROVE i < j
  <2>1. p[i] < p[j]
    BY <1>4, <1>8 DEF Arranged
  <2>2. p[i] \in Int /\ p[j] \in Int /\ i \in Int /\ j \in Int
    BY <1>1, <1>4
  <2>3. ~(j < i) /\ i # j
    BY <2>1, <2>2, <1>4
  <2> QED
    BY <2>2, <2>3
<1> QED
  BY <1>2, <1>5, <1>7, <1>8 DEF Arranged, k

\* Two arrangements one after the other, when nothing in the first depends on the second.
LEMMA ConcatArranged ==
    ASSUME NEW g, NEW s, NEW C, Arranged(g, s, C), NEW t, NEW D, Arranged(g, t, D),
           C \intersect D = {}, \A c \in C : g[c] \intersect D = {}
    PROVE  Arranged(g, s \o t, C \union D)
<1> DEFINE m == Len(s)
           n == Len(t)
           u == s \o t
<1>1. /\ s \in Seq(Nat) /\ t \in Seq(Nat) /\ m \in Nat /\ n \in Nat
      /\ \A i \in 1..m : s[i] \in C
      /\ \A i \in 1..n : t[i] \in D
  BY ArrangedRange DEF Arranged
<1>2. /\ u \in Seq(Nat) /\ Len(u) = m + n
      /\ \A i \in 1..m : u[i] = s[i]
      /\ \A i \in 1..(m + n) : i > m => u[i] = t[i - m]
  BY <1>1
<1>a. /\ C = {s[i] : i \in 1..m} /\ D = {t[i] : i \in 1..n}
      /\ \A i, j \in 1..m : s[i] = s[j] => i = j
      /\ \A i, j \in 1..n : t[i] = t[j] => i = j
      /\ \A i, j \in 1..m : s[i] \in g[s[j]] => i < j
      /\ \A i, j \in 1..n : t[i] \in g[t[j]] => i < j
  BY DEF Arranged
<1> HIDE DEF m, n, u
<1>3. \A i \in 1..(m + n) : \/ i \in 1..m /\ u[i] = s[i] /\ u[i] \in C
                            \/ i > m /\ i - m \in 1..n /\ u[i] = t[i - m] /\ u[i] \in D
  BY <1>1, <1>2
<1>4. {u[i] : i \in 1..Len(u)} = C \union D
  <2>1. ASSUME NEW i \in 1..n PROVE i + m \in 1..(m + n) /\ u[i + m] = t[i]
    <3>1. i + m \in 1..(m + n) /\ i + m > m /\ (i + m) - m = i
      BY <1>1
    <3> QED
      BY <3>1, <1>2
  <2>2. \A i \in 1..m : i \in 1..(m + n)
    BY <1>1
  <2>3. \A c \in C : \E i \in 1..Len(u) : u[i] = c
    BY <2>2, <1>2, <1>a
  <2>4. \A c \in D : \E i \in 1..Len(u) : u[i] = c
    BY <2>1, <1>2, <1>a
  <2>5. \A i \in 1..Len(u) : u[i] \in C \union D
    BY <1>2, <1>3
  <2> QED
    BY <2>3, <2>4, <2>5
<1>5. ASSUME NEW i \in 1..(m + n), NEW j \in 1..(m + n), u[i] = u[j] PROVE i = j
  <2>1. CASE i \in 1..m
    <3>1. j \in 1..m /\ u[i] = s[i] /\ u[j] = s[j]
      <4>1. u[i] \in C /\ u[i] = s[i]
        BY <1>1, <1>2, <2>1
      <4>2. u[j] \notin D
        BY <4>1, <1>5
      <4> QED
        BY <4>1, <4>2, <1>3
    <3> QED
      BY <3>1, <2>1, <1>5, <1>a
  <2>2. CASE i \notin 1..m
    <3>1. i > m /\ i - m \in 1..n /\ u[i] = t[i - m] /\ u[i] \in D
      BY <2>2, <1>3
    <3>2. u[j] \notin C
      BY <3>1, <1>5
    <3>3. j > m /\ j - m \in 1..n /\ u[j] = t[j - m]
      BY <3>2, <1>3
    <3>4. i - m = j - m
      BY <3>1, <3>3, <1>5, <1>a
    <3> QED
      BY <3>4, <1>1
  <2> QED
    BY <2>1, <2>2
<1>6. ASSUME NEW i \in 1..(m + n), NEW j \in 1..(m + n), u[i] \in g[u[j]] PROVE i < j
  <2>1. CASE i \in 1..m /\ j \in 1..m
    BY <2>1, <1>2, <1>6, <1>a
  <2>2. CASE i \in 1..m /\ j \notin 1..m
    BY <2>2, <1>1
  <2>3. CASE i \notin 1..m /\ j \in 1..m
    <3>1. u[i] \in D /\ u[j] \in C
      <4>1. u[i] \in D
        BY <2>3, <1>3
      <4>2. u[j] \in C
        BY <2>3, <1>1, <1>2
      <4> QED
        BY <4>1, <4>2
    <3> QED
      BY <3>1, <1>6
  <2>4. CASE i \notin 1..m /\ j \notin 1..m
    <3>1. i - m \in 1..n /\ u[i] = t[i - m] /\ j - m \in 1..n /\ u[j] = t[j - m]
      BY <2>4, <1>3
    <3>2. i - m < j - m
      BY <3>1, <1>6, <1>a
    <3> QED
      BY <3>2, <1>1
  <2> QED
    BY <2>1, <2>2, <2>3, <2>4
<1> QED
  BY <1>2, <1>4, <1>5, <1>6 DEF Arranged, u

----------------------------------------------------------------------------
\* Emitted

EmitNext(g, C, plan, i) == Append(plan, Min({n \in C \ Range(plan) : g[n] \subseteq Range(plan)}))

\* After i steps: i members, and with each all it depends on.
EmittedSoFar(g, C, s, i, plan) ==
    /\ Arranged(g, plan, Range(plan))
    /\ Len(plan) = i
    /\ Range(plan) \subseteq C
    /\ \A n \in Range(plan) : g[n] \subseteq Range(plan)

Emitting == INSTANCE FoldFacts WITH Op <- EmitNext, Inv <- EmittedSoFar

\* A set of migrations that holds all its members depend on can be put in order.
LEMMA EmittedArranged ==
    ASSUME NEW g, NEW C \in SUBSET DOMAIN g, DOMAIN g \subseteq Nat, IsFiniteSet(C), Acyclic(g),
           \A n \in C : g[n] \subseteq C
    PROVE  Arranged(g, Emitted(g, C), C)
<1> DEFINE card == Cardinality(C)
           s == [i \in 1..card |-> i]
<1>1. card \in Nat /\ DOMAIN s = 1..card
  <2>1. card \in Nat
    BY FS_CardinalityType
  <2> QED
    BY <2>1
<1>2. Emitted(g, C) = Emitting!FoldOf(g, C, <<>>, s)
  BY DEF Emitted, Emitting!FoldOf, EmitNext, FoldLeft, MapThenFoldSet, Max,
         Emitting!FoldLeft, Emitting!MapThenFoldSet, Emitting!Max
<1>3. EmittedSoFar(g, C, s, 0, <<>>)
  <2>1. Range(<<>>) = {} /\ Len(<<>>) = 0
    BY ArrangedNothing, ArrangedRange
  <2> QED
    BY <2>1, ArrangedNothing DEF EmittedSoFar
<1>4. ASSUME NEW i \in 1..card, NEW plan, EmittedSoFar(g, C, s, i - 1, plan)
      PROVE  EmittedSoFar(g, C, s, i, EmitNext(g, C, plan, s[i]))
  <2> DEFINE R == Range(plan)
             ready == {n \in C \ R : g[n] \subseteq R}
             next == Min(ready)
  <2>1. Arranged(g, plan, R) /\ Len(plan) = i - 1 /\ R \subseteq C /\ \A n \in R : g[n] \subseteq R
    BY <1>4 DEF EmittedSoFar
  <2> HIDE DEF R
  <2>2. C \ R # {}
    <3>1. Cardinality(R) = i - 1
      BY <2>1, ArrangedLength
    <3>2. R # C
      BY <3>1, <1>1
    <3> QED
      BY <3>2, <2>1
  <2>3. next \in C \ R /\ g[next] \subseteq R /\ next \in Nat
    <3>1. PICK n \in C \ R : g[n] \intersect (C \ R) = {}
      BY <2>2 DEF Acyclic
    <3>2. n \in ready
      BY <3>1
    <3>3. ready \in SUBSET Nat
      OBVIOUS
    <3>4. next \in ready
      <4> HIDE DEF ready
      <4> QED
        BY <3>2, <3>3, LeastOf
    <3> QED
      BY <3>3, <3>4
  <2> DEFINE one == <<next>>
  <2>4. Arranged(g, one, {next})
    <3>1. one \in Seq(Nat) /\ Len(one) = 1 /\ \A j \in 1..1 : one[j] = next
      <4> HIDE DEF next
      <4> QED
        BY <2>3
    <3>2. next \notin g[next]
      BY <2>3
    <3>3. {one[j] : j \in 1..1} = {next}
      <4> HIDE DEF one
      <4>1. 1 \in 1..1
        OBVIOUS
      <4>2. one[1] = next
        BY <3>1, <4>1
      <4>3. \A x \in {one[j] : j \in 1..1} : x = next
        BY <3>1
      <4> QED
        BY <4>1, <4>2, <4>3
    <3> HIDE DEF one
    <3>4. \A a, b \in 1..Len(one) : a = b /\ one[a] = next /\ one[b] = next
      BY <3>1
    <3> QED
      BY <3>1, <3>2, <3>3, <3>4 DEF Arranged
  <2>5. Arranged(g, plan \o one, R \union {next})
    <3> HIDE DEF next, one
    <3> QED
      BY <2>1, <2>3, <2>4, ConcatArranged
  <2>6. EmitNext(g, C, plan, s[i]) = plan \o one /\ Len(plan \o one) = i
    <3>1. plan \in Seq(Nat) /\ i \in Nat
      BY <2>1, <1>1 DEF Arranged
    <3>2. EmitNext(g, C, plan, s[i]) = Append(plan, next)
      BY DEF EmitNext, R
    <3> HIDE DEF next
    <3>3. Append(plan, next) = plan \o <<next>> /\ Len(plan \o <<next>>) = i
      BY <3>1, <2>1, <2>3
    <3> QED
      BY <3>2, <3>3
  <2>7. Range(plan \o one) = R \union {next}
    BY <2>5, ArrangedRange
  <2> HIDE DEF next, one
  <2>8. R \union {next} \subseteq C /\ \A n \in R \union {next} : g[n] \subseteq R \union {next}
    BY <2>1, <2>3
  <2> QED
    BY <2>5, <2>6, <2>7, <2>8 DEF EmittedSoFar
<1> DEFINE plan == Emitting!FoldOf(g, C, <<>>, s)
<1>5. EmittedSoFar(g, C, s, card, plan)
  <2> HIDE DEF card, s
  <2> QED
    BY <1>1, <1>3, <1>4, Emitting!FoldKeeps
<1> HIDE DEF plan
<1>6. Arranged(g, plan, Range(plan)) /\ Len(plan) = card /\ Range(plan) \subseteq C
  BY <1>5 DEF EmittedSoFar
<1>7. Cardinality(Range(plan)) = card
  BY <1>6, ArrangedLength
<1>8. Range(plan) = C
  BY <1>6, <1>7, FS_Subset
<1> QED
  BY <1>2, <1>6, <1>8 DEF plan

----------------------------------------------------------------------------
\* Projections

LEMMA ClosureClosed ==
    ASSUME NEW g, IsGraph(g), NEW k \in DOMAIN g
    PROVE  /\ k \in Closure(g, k)
           /\ Closure(g, k) \subseteq DOMAIN g
           /\ IsFiniteSet(Closure(g, k))
           /\ \A n \in Closure(g, k) : g[n] \subseteq Closure(g, k)
<1>1. Closure(g, k) \in SUBSET DOMAIN g
  BY DEF Closure, ReachedFrom
<1>2. IsFiniteSet(Closure(g, k))
  BY <1>1, FS_Subset DEF IsGraph
<1> QED
  BY <1>1, <1>2, ReachedParents, ReachedStep DEF Closure

LEMMA ForwardPlanArranged ==
    ASSUME NEW g, IsGraph(g), Acyclic(g), NEW k \in DOMAIN g
    PROVE  Arranged(g, ForwardPlan(g, k), Closure(g, k))
BY ClosureClosed, EmittedArranged DEF ForwardPlan, IsGraph

ProjectNext(g, d, steps, t) == steps \o Keep(ForwardPlan(g, t), Closure(g, t) \ Range(steps))

\* After the first i of the targets ts.
ProjectedSoFar(g, d, ts, i, steps) == Arranged(g, steps, UNION {Closure(g, ts[j]) : j \in 1..i})

Projecting == INSTANCE FoldFacts WITH Op <- ProjectNext, Inv <- ProjectedSoFar

\* The closures of the targets, one after the other.
LEMMA TargetProjectionArranged ==
    ASSUME NEW g, IsGraph(g), Acyclic(g), NEW ts, NEW n \in Nat, DOMAIN ts = 1..n,
           \A i \in 1..n : ts[i] \in DOMAIN g
    PROVE  Arranged(g, TargetProjection(g, ts), UNION {Closure(g, t) : t \in Range(ts)})
<1> DEFINE Upto(i) == UNION {Closure(g, ts[j]) : j \in 1..i}
<1>1. TargetProjection(g, ts) = Projecting!FoldOf(g, 0, <<>>, ts)
  BY DEF TargetProjection, Projecting!FoldOf, ProjectNext, FoldLeft, MapThenFoldSet, Max,
         Projecting!FoldLeft, Projecting!MapThenFoldSet, Projecting!Max
<1>2. ProjectedSoFar(g, 0, ts, 0, <<>>)
  <2>1. Upto(0) = {}
    OBVIOUS
  <2> QED
    BY <2>1, ArrangedNothing DEF ProjectedSoFar
<1>3. ASSUME NEW i \in 1..n, NEW steps, ProjectedSoFar(g, 0, ts, i - 1, steps)
      PROVE  ProjectedSoFar(g, 0, ts, i, ProjectNext(g, 0, steps, ts[i]))
  <2> DEFINE C == Upto(i - 1)
             D == Closure(g, ts[i])
             more == Keep(ForwardPlan(g, ts[i]), D \ Range(steps))
  <2>1. Arranged(g, steps, C)
    BY <1>3 DEF ProjectedSoFar
  <2>2. Arranged(g, ForwardPlan(g, ts[i]), D)
    BY ForwardPlanArranged
  <2>3. \A c \in C : g[c] \subseteq C
    <3>1. \A j \in 1..(i - 1) : j \in 1..n
      OBVIOUS
    <3>2. \A j \in 1..(i - 1) : \A c \in Closure(g, ts[j]) : g[c] \subseteq Closure(g, ts[j])
      BY <3>1, ClosureClosed
    <3> QED
      BY <3>2
  <2>4. Upto(i) = C \union (D \ C)
    <3>1. \A j \in 1..i : j = i \/ j \in 1..(i - 1)
      OBVIOUS
    <3>2. i \in 1..i /\ \A j \in 1..(i - 1) : j \in 1..i
      OBVIOUS
    <3> QED
      BY <3>1, <3>2
  <2> HIDE DEF Upto, D
  <2>5. Arranged(g, more, D \ C)
    <3>1. Range(steps) = C /\ D \intersect (D \ C) = D \ C
      BY <2>1, ArrangedRange
    <3>2. Arranged(g, Keep(ForwardPlan(g, ts[i]), D \ C), D \intersect (D \ C))
      BY <2>2, KeepArranged
    <3> QED
      BY <3>1, <3>2
  <2> HIDE DEF more
  <2>6. Arranged(g, steps \o more, C \union (D \ C))
    BY <2>1, <2>3, <2>5, ConcatArranged
  <2> QED
    BY <2>4, <2>6 DEF ProjectedSoFar, ProjectNext, more, D, Upto
<1>4. ProjectedSoFar(g, 0, ts, n, Projecting!FoldOf(g, 0, <<>>, ts))
  BY <1>2, <1>3, Projecting!FoldKeeps
<1>5. UNION {Closure(g, t) : t \in Range(ts)} = Upto(n)
  BY DEF Range
<1> QED
  BY <1>1, <1>4, <1>5 DEF ProjectedSoFar

Leaves(g) == {n \in DOMAIN g : \A c \in Children(g, n) : AppOf[c] # AppOf[n]}

LEMMA AppLeavesArranged ==
    ASSUME NEW g, IsGraph(g)
    PROVE  \E h : Arranged(h, AppLeaves(g), Leaves(g))
<1> DEFINE L == Leaves(g)
           h == [n \in L |-> {}]
<1>1. L \in SUBSET DOMAIN g
  BY DEF Leaves
<1>2. IsFiniteSet(L) /\ DOMAIN h = L /\ L \subseteq Nat
  BY <1>1, FS_Subset DEF IsGraph
<1> HIDE DEF L
<1>3. Acyclic(h)
  <2> SUFFICES ASSUME NEW S \in SUBSET L, S # {}
               PROVE  (\E n \in S : h[n] \intersect S = {}) /\ \E n \in S : Children(h, n) \intersect S = {}
    BY <1>2 DEF Acyclic
  <2>1. PICK n \in S : TRUE
    OBVIOUS
  <2>2. h[n] \intersect S = {} /\ Children(h, n) = {}
    BY <2>1 DEF Children
  <2> QED
    BY <2>1, <2>2
<1>4. \A n \in L : h[n] \subseteq L
  OBVIOUS
<1>5. Arranged(h, Emitted(h, L), L)
  <2> HIDE DEF h
  <2> QED
    BY <1>2, <1>3, <1>4, EmittedArranged
<1> QED
  BY <1>5 DEF AppLeaves, Leaves, L

\* Every migration is, or is needed by, the last of some app.
LEMMA LeavesReachAll ==
    ASSUME NEW g, IsGraph(g), Acyclic(g)
    PROVE  UNION {Closure(g, l) : l \in Leaves(g)} = DOMAIN g
<1> DEFINE U == {k \in DOMAIN g : \A l \in Leaves(g) : k \notin Closure(g, l)}
<1>1. U = {}
  <2>1. SUFFICES ASSUME U # {} PROVE FALSE
    OBVIOUS
  <2>2. PICK k \in U : Children(g, k) \intersect U = {}
    BY <2>1 DEF Acyclic
  <2>3. k \notin Leaves(g)
    BY ClosureClosed
  <2>4. PICK c \in Children(g, k) : TRUE
    BY <2>3 DEF Leaves
  <2>5. c \in DOMAIN g /\ k \in g[c] /\ c \notin U
    BY <2>2, <2>4 DEF Children
  <2>6. PICK l \in Leaves(g) : c \in Closure(g, l)
    BY <2>5
  <2>7. k \in Closure(g, l)
    BY <2>5, <2>6, ClosureClosed DEF Leaves
  <2> QED
    BY <2>6, <2>7
<1>2. \A l \in Leaves(g) : Closure(g, l) \subseteq DOMAIN g
  BY ClosureClosed DEF Leaves
<1> QED
  BY <1>1, <1>2

\* A request for the latest state is about every migration.
LEMMA LatestArranged ==
    ASSUME NEW g, IsGraph(g), Acyclic(g)
    PROVE  Arranged(g, TargetProjection(g, AppLeaves(g)), DOMAIN g)
<1> DEFINE ts == AppLeaves(g)
<1>1. PICK h : Arranged(h, ts, Leaves(g))
  BY AppLeavesArranged
<1>2. /\ Range(ts) = Leaves(g) /\ DOMAIN ts = 1..Len(ts) /\ Len(ts) \in Nat
      /\ \A i \in 1..Len(ts) : ts[i] \in DOMAIN g
  BY <1>1, ArrangedRange DEF Leaves
<1> HIDE DEF ts
<1>3. Arranged(g, TargetProjection(g, ts), UNION {Closure(g, t) : t \in Leaves(g)})
  BY <1>2, TargetProjectionArranged
<1> QED
  BY <1>3, LeavesReachAll DEF ts

LEMMA ProjectionArranged ==
    ASSUME IsGraph(parents), Acyclic(parents), NEW r, r.targets \in Seq(Nat), RequestError(r) = "none"
    PROVE  Arranged(parents, Projection(parents, r), Meant(r))
<1> DEFINE ts == r.targets
           steps == TargetProjection(parents, ts)
<1>1. DOMAIN ts = 1..Len(ts) /\ Len(ts) \in Nat
  OBVIOUS
<1>2. r.kind \in {"empty", "latest", "before", "after", "applied"}
  BY DEF RequestError
<1>3. CASE r.kind = "empty"
  BY <1>3, ArrangedNothing DEF Projection, Meant
<1>4. CASE r.kind = "latest"
  BY <1>4, LatestArranged DEF Projection, Meant
<1>5. CASE r.kind = "applied"
  <2>1. Arranged(parents, OnlyAppliedSteps(TargetProjection(parents, AppLeaves(parents)), r.applied),
                 DOMAIN parents \intersect r.applied)
    BY LatestArranged, KeepArranged DEF OnlyAppliedSteps
  <2> QED
    BY <2>1, <1>5 DEF Projection, Meant
<1>6. CASE r.kind \in {"before", "after"}
  <2>1. \A i \in 1..Len(ts) : ts[i] \in DOMAIN parents
    BY <1>1, <1>6 DEF RequestError
  <2>2. Arranged(parents, steps, UNION {Closure(parents, t) : t \in Range(ts)})
    BY <1>1, <2>1, TargetProjectionArranged
  <2>3. {r.targets[i] : i \in DOMAIN r.targets} = Range(ts)
    BY DEF Range
  <2> HIDE DEF ts, steps
  <2>4. CASE r.kind = "after"
    BY <2>2, <2>3, <2>4 DEF Projection, Meant, ts, steps
  <2>5. CASE r.kind = "before"
    <3> DEFINE C == UNION {Closure(parents, t) : t \in Range(ts)}
    <3> HIDE DEF C
    <3>1. Arranged(parents, Keep(steps, C \ Range(ts)), C \intersect (C \ Range(ts))) /\ Range(steps) = C
      BY <2>2, KeepArranged, ArrangedRange DEF C
    <3>2. C \intersect (C \ Range(ts)) = C \ Range(ts)
      OBVIOUS
    <3>3. Projection(parents, r) = Keep(steps, Range(steps) \ Range(ts))
      BY <2>5 DEF Projection, WithoutExplicitTargets, steps, ts
    <3>4. Meant(r) = C \ Range(ts)
      BY <2>3, <2>5 DEF Meant, C
    <3> QED
      BY <3>1, <3>2, <3>3, <3>4
  <2> QED
    BY <1>6, <2>4, <2>5
<1> QED
  BY <1>2, <1>3, <1>4, <1>5, <1>6

\* The answer is what Reconstruct returned for some request, from the graph as it still is.
Answered ==
    label = "answered" => \E r : r.targets \in Seq(Nat) /\ answer = Reconstruct(r)

LEMMA GraphKnown ==
    ASSUME Diagnosed, label \notin {"validate", "search", "refused"}
    PROVE  IsGraph(parents) /\ Acyclic(parents) /\ parents = GraphOf(migrations)
BY GraphOfInput DEF Diagnosed, DiagnosisExact

LEMMA AnsweredExact == Diagnosed /\ Answered => ProjectionExact
<1> SUFFICES ASSUME Diagnosed, Answered, label = "answered", answer.error \in {"none", "invalid_state"}
             PROVE  /\ {answer.steps[i] : i \in DOMAIN answer.steps} = Meant(answer.request)
                    /\ Len(answer.steps) = Cardinality(Meant(answer.request))
                    /\ \A i, j \in DOMAIN answer.steps : answer.steps[i] \in parents[answer.steps[j]] => i < j
                    /\ answer.request.kind = "applied" => Closed(parents, answer.request.applied)
  BY DEF ProjectionExact
<1>1. PICK r : r.targets \in Seq(Nat) /\ answer = Reconstruct(r)
  BY DEF Answered
<1>2. /\ answer.request = r
      /\ answer.steps = IF RequestError(r) = "none" THEN Projection(parents, r) ELSE <<>>
      /\ answer.error = "none" \/ answer.error = "invalid_state" => RequestError(r) = "none"
  BY <1>1 DEF Reconstruct, RequestError
<1>3. RequestError(r) = "none"
  BY <1>2
<1>4. Arranged(parents, answer.steps, Meant(r))
  BY <1>1, <1>2, <1>3, GraphKnown, ProjectionArranged
<1>5. /\ Range(answer.steps) = Meant(r)
      /\ DOMAIN answer.steps = 1..Len(answer.steps)
      /\ Len(answer.steps) = Cardinality(Meant(r))
  BY <1>4, ArrangedRange, ArrangedLength
<1>6. r.kind = "applied" => Closed(parents, r.applied)
  BY <1>3 DEF RequestError
<1> QED
  BY <1>2, <1>4, <1>5, <1>6 DEF Arranged, Range

LEMMA InitAnswered == Init => Answered
BY DEF Init, DiagnosisInit, Answered

LEMMA NextAnswered == Answered /\ [Next]_vars => Answered'
<1> SUFFICES ASSUME Answered, [Next]_vars, label' = "answered"
             PROVE  \E r : r.targets \in Seq(Nat) /\ answer' = Reconstruct(r)'
  BY DEF Answered
<1>1. ASSUME NEW r, r.targets \in Seq(Nat), answer' = Reconstruct(r), UNCHANGED <<parents, definitions>>
      PROVE  r.targets \in Seq(Nat) /\ answer' = Reconstruct(r)'
  BY <1>1 DEF Reconstruct, RequestError
<1>2. ASSUME NEW r \in Requests, Ask(r)
      PROVE  \E q : q.targets \in Seq(Nat) /\ answer' = Reconstruct(q)'
  <2>1. r.targets \in Seq(Nat)
    BY ReconstructorAssumption
  <2> QED
    BY <2>1, <1>1, <1>2 DEF Ask
<1>3. CASE ReconstructHistory
  <2> DEFINE r == [kind |-> "applied", targets |-> <<>>, applied |-> history.keys]
  <2>1. r.targets \in Seq(Nat) /\ answer' = Reconstruct(r) /\ UNCHANGED <<parents, definitions>>
    BY <1>3 DEF ReconstructHistory
  <2> HIDE DEF r
  <2> QED
    BY <2>1, <1>1
<1>4. CASE UNCHANGED vars
  <2>1. label = "answered" /\ UNCHANGED <<parents, definitions, answer>>
    BY <1>4 DEF vars, diagnosisVars, tarjanVars
  <2>2. PICK r : r.targets \in Seq(Nat) /\ answer = Reconstruct(r)
    BY <2>1 DEF Answered
  <2> QED
    BY <2>1, <2>2, <1>1
<1>5. CASE Next /\ ~ReconstructHistory /\ ~ \E r \in Requests : Ask(r)
  <2>1. label' # "answered" \/ label = "answered"
    BY <1>5 DEF Next, Construct, NewPlanner, ValidateInput, VisitRoot, ExamineParent, LeaveNode, FinishSearch, Refuse,
                Descend, LookBack, Enter, CloneDefinitions, Apply, Unapply, RecordUnknown, LoadAppliedState,
                diagnosisVars, tarjanVars
  <2>2. label # "answered"
    BY <1>5 DEF Next, Construct, NewPlanner, ValidateInput, VisitRoot, ExamineParent, LeaveNode, FinishSearch,
                CloneDefinitions, Apply, Unapply, RecordUnknown, LoadAppliedState
  <2> QED
    BY <2>1, <2>2
<1> QED
  BY <1>2, <1>3, <1>4, <1>5

THEOREM SpecProjectionExact == Spec => []ProjectionExact
<1>1. Spec => []Answered
  BY InitAnswered, NextAnswered, PTL DEF Spec
<1> QED
  BY <1>1, SpecDiagnosed, AnsweredExact, PTL

----------------------------------------------------------------------------
\* Taking one element out of a sequence

Without(s, j) == [i \in 1..(Len(s) - 1) |-> IF i < j THEN s[i] ELSE s[i + 1]]

\* The first i elements of s without the one at place j.
WithoutUpto(s, j, i) == [a \in 1..(IF i < j THEN i ELSE i - 1) |-> IF a < j THEN s[a] ELSE s[a + 1]]

KeepThis(S, d, kept, x) == IF x \in S THEN Append(kept, x) ELSE kept
KeptAllBut(S, d, s, i, kept) == kept = WithoutUpto(s, d[1], i) /\ kept \in Seq(d[2])

Removing == INSTANCE FoldFacts WITH Op <- KeepThis, Inv <- KeptAllBut

LEMMA WithoutUptoNext ==
    ASSUME NEW T, NEW s \in Seq(T), NEW j \in 1..Len(s), NEW i \in 1..Len(s), WithoutUpto(s, j, i - 1) \in Seq(T)
    PROVE  /\ i = j => WithoutUpto(s, j, i) = WithoutUpto(s, j, i - 1)
           /\ i # j => WithoutUpto(s, j, i) = Append(WithoutUpto(s, j, i - 1), s[i])
           /\ WithoutUpto(s, j, i) \in Seq(T)
<1> DEFINE k == WithoutUpto(s, j, i - 1)
           m == WithoutUpto(s, j, i)
<1>0. Len(s) \in Nat /\ i \in Nat /\ j \in Nat /\ s[i] \in T
  OBVIOUS
<1>1. CASE i = j
  <2>1. m = k
    BY <1>0, <1>1 DEF WithoutUpto
  <2> QED
    BY <1>1, <2>1
<1>2. CASE i # j
  <2> DEFINE n == IF i < j THEN i ELSE i - 1
  <2>1. n \in Nat /\ n >= 1 /\ (IF i - 1 < j THEN i - 1 ELSE (i - 1) - 1) = n - 1
    BY <1>0, <1>2
  <2>2. DOMAIN k = 1..(n - 1) /\ \A a \in 1..(n - 1) : k[a] = IF a < j THEN s[a] ELSE s[a + 1]
    BY <2>1 DEF WithoutUpto
  <2>3. DOMAIN m = 1..n /\ (\A a \in 1..n : m[a] = IF a < j THEN s[a] ELSE s[a + 1]) /\ m = [a \in 1..n |-> m[a]]
    BY <2>1 DEF WithoutUpto
  <2>4. m[n] = s[i]
    <3>1. n \in 1..n /\ (i < j => n = i) /\ (~(i < j) => n + 1 = i /\ ~(n < j))
      BY <2>1, <1>0, <1>2
    <3> HIDE DEF n, m
    <3> QED
      BY <3>1, <2>3
  <2> HIDE DEF n, k, m
  <2>5. k \in Seq(T) /\ Len(k) = n - 1
    <3>1. k \in Seq(T)
      BY DEF k
    <3> QED
      BY <3>1, <2>1, <2>2
  <2>6. Append(k, s[i]) \in Seq(T) /\ Len(Append(k, s[i])) = n /\ Append(k, s[i])[n] = s[i]
        /\ \A a \in 1..(n - 1) : Append(k, s[i])[a] = k[a]
    BY <2>5, <2>1, <1>0
  <2>7. \A a \in 1..n : m[a] = Append(k, s[i])[a]
    <3>1. \A a \in 1..n : a = n \/ a \in 1..(n - 1)
      BY <2>1
    <3> QED
      BY <3>1, <2>2, <2>3, <2>4, <2>6
  <2>8. m = Append(k, s[i])
    <3>1. Append(k, s[i]) = [a \in 1..n |-> Append(k, s[i])[a]]
      BY <2>6
    <3> QED
      BY <3>1, <2>3, <2>7
  <2> QED
    BY <2>6, <2>8, <1>2 DEF k, m
<1> QED
  BY <1>1, <1>2

LEMMA KeepAllBut ==
    ASSUME NEW T, NEW s \in Seq(T), NEW S, NEW j \in 1..Len(s), \A i \in 1..Len(s) : s[i] \in S <=> i # j
    PROVE  Keep(s, S) = Without(s, j) /\ Without(s, j) \in Seq(T) /\ Len(Without(s, j)) = Len(s) - 1
<1> DEFINE n == Len(s)
           d == <<j, T>>
<1>1. n \in Nat /\ DOMAIN s = 1..n /\ d[1] = j /\ d[2] = T
  OBVIOUS
<1> HIDE DEF d
<1>2. Keep(s, S) = Removing!FoldOf(S, d, <<>>, s)
  BY DEF Keep, Removing!FoldOf, KeepThis, FoldLeft, MapThenFoldSet, Max,
         Removing!FoldLeft, Removing!MapThenFoldSet, Removing!Max
<1>3. KeptAllBut(S, d, s, 0, <<>>)
  <2>1. j \in Nat /\ 0 < j
    OBVIOUS
  <2>2. WithoutUpto(s, j, 0) = <<>>
    BY <2>1 DEF WithoutUpto
  <2> QED
    BY <1>1, <2>2 DEF KeptAllBut
<1>4. ASSUME NEW i \in 1..n, NEW kept, KeptAllBut(S, d, s, i - 1, kept)
      PROVE  KeptAllBut(S, d, s, i, KeepThis(S, d, kept, s[i]))
  <2>1. kept = WithoutUpto(s, j, i - 1) /\ kept \in Seq(T)
    BY <1>4, <1>1 DEF KeptAllBut
  <2>2. /\ i = j => WithoutUpto(s, j, i) = kept
        /\ i # j => WithoutUpto(s, j, i) = Append(kept, s[i])
        /\ WithoutUpto(s, j, i) \in Seq(T)
    <3>1. WithoutUpto(s, j, i - 1) \in Seq(T) /\ kept = WithoutUpto(s, j, i - 1)
      BY <2>1
    <3>2. /\ i = j => WithoutUpto(s, j, i) = WithoutUpto(s, j, i - 1)
          /\ i # j => WithoutUpto(s, j, i) = Append(WithoutUpto(s, j, i - 1), s[i])
          /\ WithoutUpto(s, j, i) \in Seq(T)
      BY <3>1, WithoutUptoNext
    <3> QED
      BY <3>1, <3>2
  <2>3. KeepThis(S, d, kept, s[i]) = WithoutUpto(s, j, i)
    BY <2>2 DEF KeepThis
  <2> QED
    BY <2>2, <2>3, <1>1 DEF KeptAllBut
<1>5. KeptAllBut(S, d, s, n, Removing!FoldOf(S, d, <<>>, s))
  <2> HIDE DEF n
  <2> QED
    BY <1>1, <1>3, <1>4, Removing!FoldKeeps
<1>6. WithoutUpto(s, j, n) = Without(s, j)
  <2>1. ~(n < j)
    BY <1>1
  <2> QED
    BY <2>1 DEF WithoutUpto, Without
<1>7. Keep(s, S) = Without(s, j) /\ Without(s, j) \in Seq(T)
  BY <1>1, <1>2, <1>5, <1>6 DEF KeptAllBut
<1>8. DOMAIN Without(s, j) = 1..(n - 1) /\ n - 1 \in Nat
  BY <1>1 DEF Without
<1> QED
  BY <1>7, <1>8

\* The place in s of the element at place i of what is left without the one at place j.
From(j, i) == IF i < j THEN i ELSE i + 1

LeavesOut(s, j) ==
    /\ DOMAIN Without(s, j) = 1..(Len(s) - 1)
    /\ \A i \in 1..(Len(s) - 1) : From(j, i) \in 1..Len(s) /\ From(j, i) # j /\ Without(s, j)[i] = s[From(j, i)]
    /\ \A a, b \in 1..(Len(s) - 1) : From(j, a) = From(j, b) => a = b
    /\ \A a \in 1..Len(s) : a # j => \E i \in 1..(Len(s) - 1) : From(j, i) = a

LEMMA WithoutFrom ==
    ASSUME NEW T, NEW s \in Seq(T), NEW j \in 1..Len(s)
    PROVE  LeavesOut(s, j)
<1> DEFINE n == Len(s)
<1>1. n \in Nat /\ j \in 1..n
  OBVIOUS
<1> HIDE DEF n
<1>2. \A i \in 1..(n - 1) : From(j, i) \in 1..n /\ From(j, i) # j /\ Without(s, j)[i] = s[From(j, i)]
  BY <1>1 DEF Without, From, n
<1>3. \A a, b \in 1..(n - 1) : From(j, a) = From(j, b) => a = b
  BY <1>1 DEF From
<1>4. ASSUME NEW a \in 1..n, a # j PROVE \E i \in 1..(n - 1) : From(j, i) = a
  <2>1. CASE a < j
    <3>1. a \in 1..(n - 1) /\ From(j, a) = a
      BY <1>1, <2>1 DEF From
    <3> QED
      BY <3>1
  <2>2. CASE ~(a < j)
    <3>1. a - 1 \in 1..(n - 1) /\ From(j, a - 1) = a
      BY <1>1, <1>4, <2>2 DEF From
    <3> QED
      BY <3>1
  <2> QED
    BY <2>1, <2>2
<1>5. DOMAIN Without(s, j) = 1..(n - 1)
  BY DEF Without, n
<1> QED
  BY <1>2, <1>3, <1>4, <1>5 DEF n, LeavesOut

----------------------------------------------------------------------------
\* Fields, models and their normal form

LEMMA ColumnOf ==
    ASSUME NEW f \in FieldType
    PROVE  /\ WithColumn(f) \in FieldType
           /\ WithColumn(f).name = f.name /\ WithColumn(f).kind = f.kind
           /\ f.column # "" => WithColumn(f) = f
           /\ WithColumn(WithColumn(f)) = WithColumn(f)
<1> DEFINE c == IF f.column = "" THEN f.name ELSE f.column
           g == [f EXCEPT !.column = c]
<1>1. /\ f = [name |-> f.name, goName |-> f.goName, column |-> f.column, kind |-> f.kind,
              primaryKey |-> f.primaryKey, nullable |-> f.nullable, maxLength |-> f.maxLength, default |-> f.default]
      /\ f.name \in Texts /\ f.goName \in Texts /\ f.column \in Texts /\ f.kind \in Texts
      /\ f.primaryKey \in BOOLEAN /\ f.nullable \in BOOLEAN /\ f.maxLength \in Int
      /\ f.default \in SUBSET [kind : Texts, length : Nat, validUTF8 : BOOLEAN, otherPayload : BOOLEAN]
  BY DEF FieldType
<1>2. WithColumn(f) = g /\ c \in Texts
  BY <1>1 DEF WithColumn
<1> HIDE DEF c
<1>3. g = [name |-> f.name, goName |-> f.goName, column |-> c, kind |-> f.kind,
           primaryKey |-> f.primaryKey, nullable |-> f.nullable, maxLength |-> f.maxLength, default |-> f.default]
  BY <1>1
<1>4. g \in FieldType
  BY <1>1, <1>2, <1>3 DEF FieldType
<1>5. g.name = f.name /\ g.kind = f.kind /\ g.column = c
  BY <1>3
<1>6. f.column # "" => g = f
  BY <1>1, <1>3 DEF c
<1>7. WithColumn(g) = g
  <2>1. (IF c = "" THEN g.name ELSE c) = c
    BY <1>5 DEF c
  <2>2. WithColumn(g) = [g EXCEPT !.column = c]
    BY <2>1, <1>5 DEF WithColumn
  <2> HIDE DEF g
  <2>3. [g EXCEPT !.column = c] = g
    BY <1>4, <1>5 DEF FieldType
  <2> QED
    BY <2>2, <2>3
<1> QED
  BY <1>2, <1>4, <1>5, <1>6, <1>7

NormalModel(m) ==
    /\ m \in ModelType
    /\ m.dbTable # <<>>
    /\ \A i \in 1..Len(m.fields) : WithColumn(m.fields[i]) = m.fields[i]

ValidModel(m) == m.name \in Identifiers /\ m.goName \in GoIdentifiers /\ ValidTable(m.dbTable) /\ ValidFields(m.fields)

LEMMA ModelRecord ==
    ASSUME NEW m \in ModelType
    PROVE  /\ m = [name |-> m.name, goName |-> m.goName, dbTable |-> m.dbTable, fields |-> m.fields]
           /\ m.name \in Texts /\ m.goName \in Texts /\ m.dbTable \in Seq(Texts)
           /\ m.fields \in Seq(FieldType)
           /\ DOMAIN m.fields = 1..Len(m.fields) /\ Len(m.fields) \in Nat
           /\ \A i \in 1..Len(m.fields) : m.fields[i] \in FieldType
<1>1. /\ m = [name |-> m.name, goName |-> m.goName, dbTable |-> m.dbTable, fields |-> m.fields]
      /\ m.name \in Texts /\ m.goName \in Texts /\ m.dbTable \in Seq(Texts)
      /\ m.fields \in Seq(FieldType)
  BY DEF ModelType
<1> QED
  BY <1>1

LEMMA ModelRecordOf ==
    ASSUME NEW name \in Texts, NEW goName \in Texts, NEW table \in Seq(Texts), NEW fs \in Seq(FieldType)
    PROVE  [name |-> name, goName |-> goName, dbTable |-> table, fields |-> fs] \in ModelType
BY DEF ModelType

LEMMA FieldRecordOf ==
    ASSUME NEW name \in Texts, NEW goName \in Texts, NEW column \in Texts, NEW kind \in Texts,
           NEW primaryKey \in BOOLEAN, NEW nullable \in BOOLEAN, NEW maxLength \in Int,
           NEW default \in SUBSET [kind : Texts, length : Nat, validUTF8 : BOOLEAN, otherPayload : BOOLEAN]
    PROVE  [name |-> name, goName |-> goName, column |-> column, kind |-> kind, primaryKey |-> primaryKey,
            nullable |-> nullable, maxLength |-> maxLength, default |-> default] \in FieldType
BY DEF FieldType

LEMMA ImplicitIDTyped == ImplicitID \in FieldType
<1>1. ImplicitID = [name |-> "id", goName |-> "ID", column |-> "id", kind |-> "auto",
                    primaryKey |-> TRUE, nullable |-> FALSE, maxLength |-> 0, default |-> {}]
  BY DEF ImplicitID, DeclaredField
<1>2. {} \in SUBSET [kind : Texts, length : Nat, validUTF8 : BOOLEAN, otherPayload : BOOLEAN]
  OBVIOUS
<1>3. TRUE \in BOOLEAN /\ FALSE \in BOOLEAN
  BY Zenon
<1>5. 0 \in Int
  OBVIOUS
<1>6. "id" \in Texts /\ "ID" \in Texts /\ "auto" \in Texts
  BY ReconstructorAssumption
<1>4. [name |-> "id", goName |-> "ID", column |-> "id", kind |-> "auto",
       primaryKey |-> TRUE, nullable |-> FALSE, maxLength |-> 0, default |-> {}] \in FieldType
  BY <1>2, <1>3, <1>5, <1>6, FieldRecordOf
<1> QED
  BY <1>1, <1>4

LEMMA KeyedTyped ==
    ASSUME NEW fs \in Seq(FieldType)
    PROVE  WithPrimaryKey(fs) \in Seq(FieldType)
<1>1. <<ImplicitID>> \in Seq(FieldType)
  BY ImplicitIDTyped
<1>2. <<ImplicitID>> \o fs \in Seq(FieldType)
  BY <1>1
<1> QED
  BY <1>2 DEF WithPrimaryKey

\* What NormalizeModel makes of a model, field by field.
LEMMA NormalizedIs ==
    ASSUME NEW app \in Texts, NEW m \in ModelType
    PROVE  LET keyed == WithPrimaryKey(m.fields)
           IN  NormalizeModel(app, m) =
                   [name |-> m.name, goName |-> m.goName,
                    dbTable |-> IF m.dbTable = <<>> THEN <<app, m.name>> ELSE m.dbTable,
                    fields |-> [i \in 1..Len(keyed) |-> WithColumn(keyed[i])]]
<1> DEFINE keyed == WithPrimaryKey(m.fields)
           t == IF m.dbTable = <<>> THEN <<app, m.name>> ELSE m.dbTable
           fs == [i \in 1..Len(keyed) |-> WithColumn(keyed[i])]
<1>1. keyed \in Seq(FieldType)
  BY ModelRecord, KeyedTyped
<1>2. DOMAIN keyed = 1..Len(keyed)
  BY <1>1
<1>3. NormalizeModel(app, m) = [[m EXCEPT !.dbTable = t] EXCEPT !.fields = fs]
  BY <1>2 DEF NormalizeModel
<1>4. m = [name |-> m.name, goName |-> m.goName, dbTable |-> m.dbTable, fields |-> m.fields]
  BY ModelRecord
<1> HIDE DEF t, fs
<1>5. [[m EXCEPT !.dbTable = t] EXCEPT !.fields = fs] = [name |-> m.name, goName |-> m.goName, dbTable |-> t, fields |-> fs]
  <2>1. [m EXCEPT !.dbTable = t] = [name |-> m.name, goName |-> m.goName, dbTable |-> t, fields |-> m.fields]
    BY <1>4
  <2> DEFINE n == [m EXCEPT !.dbTable = t]
  <2> HIDE DEF n
  <2>2. n = [name |-> m.name, goName |-> m.goName, dbTable |-> t, fields |-> m.fields]
    BY <2>1 DEF n
  <2>3. [n EXCEPT !.fields = fs] = [name |-> m.name, goName |-> m.goName, dbTable |-> t, fields |-> fs]
    BY <2>2
  <2> QED
    BY <2>3 DEF n
<1> QED
  BY <1>3, <1>5 DEF t, fs

LEMMA NormalizedNormal ==
    ASSUME NEW app \in Texts, NEW m \in ModelType
    PROVE  /\ NormalModel(NormalizeModel(app, m))
           /\ NormalizeModel(app, m).name = m.name
<1> DEFINE keyed == WithPrimaryKey(m.fields)
           t == IF m.dbTable = <<>> THEN <<app, m.name>> ELSE m.dbTable
           fs == [i \in 1..Len(keyed) |-> WithColumn(keyed[i])]
           n == [name |-> m.name, goName |-> m.goName, dbTable |-> t, fields |-> fs]
<1>1. NormalizeModel(app, m) = n
  BY NormalizedIs
<1>2. /\ m.name \in Texts /\ m.goName \in Texts /\ m.dbTable \in Seq(Texts)
      /\ keyed \in Seq(FieldType)
  BY ModelRecord, KeyedTyped
<1>3. t \in Seq(Texts) /\ t # <<>>
  <2>1. <<app, m.name>> \in Seq(Texts) /\ <<app, m.name>> # <<>>
    BY <1>2
  <2> QED
    BY <2>1, <1>2
<1> HIDE DEF keyed, t
<1>4. Len(keyed) \in Nat /\ \A i \in 1..Len(keyed) : keyed[i] \in FieldType
  BY <1>2
<1>5. \A i \in 1..Len(keyed) : WithColumn(keyed[i]) \in FieldType /\ WithColumn(WithColumn(keyed[i])) = WithColumn(keyed[i])
  BY <1>4, ColumnOf
<1>6. fs \in Seq(FieldType) /\ Len(fs) = Len(keyed)
  BY <1>4, <1>5
<1>7. \A i \in 1..Len(fs) : WithColumn(fs[i]) = fs[i]
  BY <1>5, <1>6
<1> HIDE DEF fs
<1>8. n \in ModelType
  BY <1>2, <1>3, <1>6, ModelRecordOf
<1> QED
  BY <1>1, <1>3, <1>7, <1>8 DEF NormalModel

\* A model in normal form is its own normal form.
LEMMA NormalFixed ==
    ASSUME NEW app \in Texts, NEW m, NormalModel(m), ValidFields(m.fields)
    PROVE  NormalizeModel(app, m) = m
<1>1. m \in ModelType /\ m.dbTable # <<>> /\ \A i \in 1..Len(m.fields) : WithColumn(m.fields[i]) = m.fields[i]
  BY DEF NormalModel
<1>2. \E i \in DOMAIN m.fields : m.fields[i].kind = "auto"
  BY DEF ValidFields, ValidField
<1>3. WithPrimaryKey(m.fields) = m.fields
  BY <1>2 DEF WithPrimaryKey
<1>4. m.fields = [i \in 1..Len(m.fields) |-> WithColumn(m.fields[i])]
  <2>1. m.fields = [i \in 1..Len(m.fields) |-> m.fields[i]]
    BY <1>1, ModelRecord
  <2> QED
    BY <2>1, <1>1
<1> DEFINE keyed == WithPrimaryKey(m.fields)
<1>5. NormalizeModel(app, m) =
          [name |-> m.name, goName |-> m.goName,
           dbTable |-> IF m.dbTable = <<>> THEN <<app, m.name>> ELSE m.dbTable,
           fields |-> [i \in 1..Len(keyed) |-> WithColumn(keyed[i])]]
  BY <1>1, NormalizedIs
<1>6. [i \in 1..Len(keyed) |-> WithColumn(keyed[i])] = m.fields
  BY <1>3, <1>4
<1>7. m = [name |-> m.name, goName |-> m.goName, dbTable |-> m.dbTable, fields |-> m.fields]
  BY <1>1, ModelRecord
<1> HIDE DEF keyed
<1> QED
  BY <1>1, <1>5, <1>6, <1>7

----------------------------------------------------------------------------
\* States in normal form, and the facts of a state

NormalModels(models) ==
    /\ models \in Seq(ModelType)
    /\ ValidModels(models)
    /\ \A i \in 1..Len(models) : NormalModel(models[i])

SchemaOf(app, models) == [version |-> FormatVersion, app |-> app, models |-> models]

GoodState(s) ==
    \A a \in DOMAIN s :
        /\ a \in Identifiers /\ a \in Texts
        /\ s[a] = SchemaOf(a, s[a].models)
        /\ NormalModels(s[a].models)

LEMMA ModelsSeq ==
    ASSUME NEW models \in Seq(ModelType)
    PROVE  /\ DOMAIN models = 1..Len(models) /\ Len(models) \in Nat
           /\ \A i \in 1..Len(models) : models[i] \in ModelType
           /\ models = [i \in 1..Len(models) |-> models[i]]
OBVIOUS

\* Normalize of models whose normal forms are known.
LEMMA NormalizeIs ==
    ASSUME NEW app, NEW old, NEW new \in Seq(ModelType), DOMAIN old = 1..Len(new),
           \A i \in 1..Len(new) : NormalizeModel(app, old[i]) = new[i]
    PROVE  Normalize(SchemaOf(app, old)) = {s \in {SchemaOf(app, new)} : app \in Identifiers /\ ValidModels(new)}
<1> DEFINE schema == SchemaOf(app, old)
           normalized == [[schema EXCEPT !.version = IF schema.version = 0 THEN FormatVersion ELSE schema.version]
                              EXCEPT !.models = [i \in DOMAIN schema.models |-> NormalizeModel(schema.app, schema.models[i])]]
<1>1. schema.version = 2 /\ schema.app = app /\ schema.models = old
  BY DEF SchemaOf, FormatVersion
<1>2. [i \in DOMAIN schema.models |-> NormalizeModel(schema.app, schema.models[i])] = new
  BY <1>1, ModelsSeq
<1>3. [schema EXCEPT !.version = IF schema.version = 0 THEN FormatVersion ELSE schema.version] = SchemaOf(app, old)
  BY DEF SchemaOf, FormatVersion
<1>4. normalized = [SchemaOf(app, old) EXCEPT !.models = new]
  BY <1>2, <1>3
<1>5. [SchemaOf(app, old) EXCEPT !.models = new] = SchemaOf(app, new)
  BY DEF SchemaOf
<1>6. Normalize(schema) = {s \in {normalized} : s.version = FormatVersion /\ s.app \in Identifiers /\ ValidModels(s.models)}
  BY DEF Normalize
<1>7. SchemaOf(app, new).version = FormatVersion /\ SchemaOf(app, new).app = app /\ SchemaOf(app, new).models = new
  BY DEF SchemaOf
<1> HIDE DEF normalized
<1> QED
  BY <1>4, <1>5, <1>6, <1>7

LEMMA NormalModelsFixed ==
    ASSUME NEW app \in Texts, NEW models, NormalModels(models)
    PROVE  \A i \in 1..Len(models) : NormalizeModel(app, models[i]) = models[i]
<1> SUFFICES ASSUME NEW i \in 1..Len(models)
             PROVE  NormalizeModel(app, models[i]) = models[i]
  OBVIOUS
<1>1. NormalModel(models[i]) /\ ValidFields(models[i].fields)
  BY ModelsSeq DEF NormalModels, ValidModels
<1> QED
  BY <1>1, NormalFixed

\* validate finds nothing in a state that is in normal form.
LEMMA GoodValid ==
    ASSUME NEW s, GoodState(s)
    PROVE  ValidState(s)
<1> SUFFICES ASSUME NEW a \in DOMAIN s
             PROVE  s[a].app = a /\ Normalize(s[a]) = {s[a]}
  BY DEF ValidState
<1> DEFINE models == s[a].models
<1>1. a \in Identifiers /\ a \in Texts /\ s[a] = SchemaOf(a, models) /\ NormalModels(models)
  BY DEF GoodState
<1> HIDE DEF models
<1>2. models \in Seq(ModelType) /\ ValidModels(models) /\ DOMAIN models = 1..Len(models)
  BY <1>1, ModelsSeq DEF NormalModels
<1>3. Normalize(SchemaOf(a, models)) = {x \in {SchemaOf(a, models)} : a \in Identifiers /\ ValidModels(models)}
  BY <1>1, <1>2, NormalModelsFixed, NormalizeIs
<1>4. s[a].app = a
  BY <1>1 DEF SchemaOf
<1> QED
  BY <1>1, <1>2, <1>3, <1>4

\* What WithModels makes of models whose normal forms are known.
LEMMA WithModelsIs ==
    ASSUME NEW s, NEW app, NEW old, NEW new \in Seq(ModelType), DOMAIN old = 1..Len(new),
           \A i \in 1..Len(new) : NormalizeModel(app, old[i]) = new[i]
    PROVE  /\ app \in Identifiers /\ ValidModels(new) => WithModels(s, app, old) = {WithSchema(s, SchemaOf(app, new))}
           /\ ~(app \in Identifiers /\ ValidModels(new)) => WithModels(s, app, old) = {}
<1>1. Normalize(SchemaOf(app, old)) = {x \in {SchemaOf(app, new)} : app \in Identifiers /\ ValidModels(new)}
  BY NormalizeIs
<1>2. WithModels(s, app, old) = {WithSchema(s, x) : x \in Normalize(SchemaOf(app, old))}
  BY DEF WithModels, SchemaOf
<1> QED
  BY <1>1, <1>2

ModelFacts(a, m) ==
    {<<"model", a, m.name, <<m.goName, m.dbTable>>>>} \union {<<"field", a, m.name, f>> : f \in Range(m.fields)}

FactsOf(a, models) == UNION {ModelFacts(a, models[i]) : i \in DOMAIN models}

\* Which models there are and which fields they have.
Facts(s) == UNION {FactsOf(a, s[a].models) : a \in DOMAIN s}

OtherFacts(s, app) == UNION {FactsOf(a, s[a].models) : a \in DOMAIN s \ {app}}

LEMMA FactsSplit ==
    ASSUME NEW s, NEW app
    PROVE  /\ Facts(s) = OtherFacts(s, app) \union FactsOf(app, ModelsOf(s, app))
           /\ \A x \in OtherFacts(s, app) : x[2] # app
           /\ \A models : \A x \in FactsOf(app, models) : x[2] = app
<1>1. \A a, m : \A x \in ModelFacts(a, m) : x[2] = a
  BY DEF ModelFacts
<1>2. \A a, models : \A x \in FactsOf(a, models) : x[2] = a
  BY <1>1 DEF FactsOf
<1>3. FactsOf(app, <<>>) = {}
  BY DEF FactsOf
<1>4. \A x \in OtherFacts(s, app) : x[2] # app
  BY <1>2 DEF OtherFacts
<1>5. Facts(s) = OtherFacts(s, app) \union FactsOf(app, ModelsOf(s, app))
  BY <1>3 DEF Facts, OtherFacts, ModelsOf
<1> QED
  BY <1>2, <1>4, <1>5

\* Other models for one app.
LEMMA SchemaReplaced ==
    ASSUME NEW s, GoodState(s), NEW app \in Texts, app \in Identifiers, NEW models, NormalModels(models)
    PROVE  LET t == WithSchema(s, SchemaOf(app, models))
           IN  /\ GoodState(t)
               /\ ModelsOf(t, app) = models
               /\ \A a : a # app => ModelsOf(t, a) = ModelsOf(s, a)
               /\ OtherFacts(t, app) = OtherFacts(s, app)
<1> DEFINE sch == SchemaOf(app, models)
           t == WithSchema(s, sch)
<1>1. sch.app = app /\ sch.models = models /\ sch = SchemaOf(app, sch.models)
  BY DEF SchemaOf
<1>2. t = [a \in DOMAIN s \union {app} |-> IF a = app THEN sch ELSE s[a]]
  BY <1>1 DEF WithSchema
<1> HIDE DEF sch
<1>3. DOMAIN t = DOMAIN s \union {app} /\ t[app] = sch /\ \A a \in DOMAIN s : a # app => t[a] = s[a]
  BY <1>2
<1> HIDE DEF t
<1>4. GoodState(t)
  BY <1>1, <1>3 DEF GoodState
<1>5. ModelsOf(t, app) = models /\ \A a : a # app => ModelsOf(t, a) = ModelsOf(s, a)
  BY <1>1, <1>3 DEF ModelsOf
<1>6. DOMAIN t \ {app} = DOMAIN s \ {app}
  BY <1>3
<1>7. OtherFacts(t, app) = OtherFacts(s, app)
  BY <1>3, <1>6 DEF OtherFacts
<1> QED
  BY <1>4, <1>5, <1>7 DEF t, sch

\* The last model of an app gone, and the app with it.
LEMMA SchemaRemoved ==
    ASSUME NEW s, GoodState(s), NEW app
    PROVE  LET t == WithoutApp(s, app)
           IN  /\ GoodState(t)
               /\ ModelsOf(t, app) = <<>>
               /\ \A a : a # app => ModelsOf(t, a) = ModelsOf(s, a)
               /\ OtherFacts(t, app) = OtherFacts(s, app)
<1> DEFINE t == WithoutApp(s, app)
<1>1. DOMAIN t = DOMAIN s \ {app} /\ \A a \in DOMAIN t : t[a] = s[a] /\ a \in DOMAIN s
  BY DEF WithoutApp
<1> HIDE DEF t
<1>2. GoodState(t)
  BY <1>1 DEF GoodState
<1>3. ModelsOf(t, app) = <<>> /\ \A a : a # app => ModelsOf(t, a) = ModelsOf(s, a)
  BY <1>1 DEF ModelsOf
<1>4. OtherFacts(t, app) = OtherFacts(s, app)
  <2>1. DOMAIN t \ {app} = DOMAIN s \ {app}
    BY <1>1
  <2> QED
    BY <1>1, <2>1 DEF OtherFacts
<1> QED
  BY <1>2, <1>3, <1>4 DEF t

LEMMA ModelsOfGood ==
    ASSUME NEW s, GoodState(s), NEW app
    PROVE  /\ ModelsOf(s, app) \in Seq(ModelType)
           /\ DOMAIN ModelsOf(s, app) = 1..Len(ModelsOf(s, app)) /\ Len(ModelsOf(s, app)) \in Nat
           /\ \A i \in 1..Len(ModelsOf(s, app)) :
                 /\ ModelsOf(s, app)[i] \in ModelType
                 /\ NormalModel(ModelsOf(s, app)[i]) /\ ValidModel(ModelsOf(s, app)[i])
           /\ \A i, j \in 1..Len(ModelsOf(s, app)) :
                 \/ i = j
                 \/ /\ ModelsOf(s, app)[i].name # ModelsOf(s, app)[j].name
                    /\ ModelsOf(s, app)[i].goName # ModelsOf(s, app)[j].goName
                    /\ ModelsOf(s, app)[i].dbTable # ModelsOf(s, app)[j].dbTable
           /\ ModelsOf(s, app) # <<>> => app \in Identifiers /\ app \in Texts /\ NormalModels(ModelsOf(s, app))
<1> DEFINE models == ModelsOf(s, app)
<1>1. CASE app \notin DOMAIN s
  <2>1. models = <<>>
    BY <1>1 DEF ModelsOf
  <2> QED
    BY <2>1
<1>2. CASE app \in DOMAIN s
  <2>1. app \in Identifiers /\ app \in Texts /\ NormalModels(models)
    BY <1>2 DEF GoodState, ModelsOf
  <2> HIDE DEF models
  <2>2. models \in Seq(ModelType) /\ DOMAIN models = 1..Len(models) /\ Len(models) \in Nat
        /\ \A i \in 1..Len(models) : models[i] \in ModelType /\ NormalModel(models[i])
    BY <2>1, ModelsSeq DEF NormalModels
  <2>3. \A i \in 1..Len(models) : ValidModel(models[i])
    BY <2>1, <2>2 DEF NormalModels, ValidModels, ValidModel
  <2>4. \A i, j \in 1..Len(models) :
           \/ i = j
           \/ models[i].name # models[j].name /\ models[i].goName # models[j].goName /\ models[i].dbTable # models[j].dbTable
    <3>1. /\ Distinct([i \in 1..Len(models) |-> models[i].name])
          /\ Distinct([i \in 1..Len(models) |-> models[i].goName])
          /\ Distinct([i \in 1..Len(models) |-> models[i].dbTable])
      BY <2>1, <2>2 DEF NormalModels, ValidModels
    <3> QED
      BY <3>1 DEF Distinct
  <2> QED
    BY <2>1, <2>2, <2>3, <2>4 DEF models
<1> QED
  BY <1>1, <1>2

LEMMA InFactsOf ==
    ASSUME NEW models, NEW app
    PROVE  /\ \A n, h : <<"model", app, n, h>> \in FactsOf(app, models) <=>
                  \E i \in DOMAIN models : models[i].name = n /\ h = <<models[i].goName, models[i].dbTable>>
           /\ \A n, f : <<"field", app, n, f>> \in FactsOf(app, models) <=>
                  \E i \in DOMAIN models : models[i].name = n /\ f \in Range(models[i].fields)
<1>1. ASSUME NEW n, NEW h, NEW i \in DOMAIN models
      PROVE  <<"model", app, n, h>> \in ModelFacts(app, models[i]) <=>
                models[i].name = n /\ h = <<models[i].goName, models[i].dbTable>>
  BY DEF ModelFacts
<1>2. ASSUME NEW n, NEW f, NEW i \in DOMAIN models
      PROVE  <<"field", app, n, f>> \in ModelFacts(app, models[i]) <=>
                models[i].name = n /\ f \in Range(models[i].fields)
  BY DEF ModelFacts
<1> QED
  BY <1>1, <1>2 DEF FactsOf

LEMMA InFacts ==
    ASSUME NEW s, NEW app
    PROVE  LET models == ModelsOf(s, app)
           IN  /\ \A n, h : <<"model", app, n, h>> \in Facts(s) <=>
                     \E i \in DOMAIN models : models[i].name = n /\ h = <<models[i].goName, models[i].dbTable>>
               /\ \A n, f : <<"field", app, n, f>> \in Facts(s) <=>
                     \E i \in DOMAIN models : models[i].name = n /\ f \in Range(models[i].fields)
<1> DEFINE models == ModelsOf(s, app)
<1>1. \A n, h : <<"model", app, n, h>> \in Facts(s) <=> <<"model", app, n, h>> \in FactsOf(app, models)
  <2> SUFFICES ASSUME NEW n, NEW h
               PROVE  <<"model", app, n, h>> \in Facts(s) <=> <<"model", app, n, h>> \in FactsOf(app, models)
    OBVIOUS
  <2>1. <<"model", app, n, h>> \notin OtherFacts(s, app)
    BY FactsSplit
  <2> QED
    BY <2>1, FactsSplit
<1>2. \A n, f : <<"field", app, n, f>> \in Facts(s) <=> <<"field", app, n, f>> \in FactsOf(app, models)
  <2> SUFFICES ASSUME NEW n, NEW f
               PROVE  <<"field", app, n, f>> \in Facts(s) <=> <<"field", app, n, f>> \in FactsOf(app, models)
    OBVIOUS
  <2>1. <<"field", app, n, f>> \notin OtherFacts(s, app)
    BY FactsSplit
  <2> QED
    BY <2>1, FactsSplit
<1> HIDE DEF models
<1>3. /\ \A n, h : <<"model", app, n, h>> \in FactsOf(app, models) <=>
               \E i \in DOMAIN models : models[i].name = n /\ h = <<models[i].goName, models[i].dbTable>>
      /\ \A n, f : <<"field", app, n, f>> \in FactsOf(app, models) <=>
               \E i \in DOMAIN models : models[i].name = n /\ f \in Range(models[i].fields)
  BY InFactsOf
<1> QED
  BY <1>1, <1>2, <1>3 DEF models

\* Two fields of a valid model share neither name nor Go name nor column.
LEMMA FieldsApart ==
    ASSUME NEW m, NormalModel(m), ValidModel(m)
    PROVE  /\ m.fields \in Seq(FieldType) /\ DOMAIN m.fields = 1..Len(m.fields) /\ Len(m.fields) \in Nat
           /\ \A i \in 1..Len(m.fields) :
                 /\ m.fields[i] \in FieldType /\ WithColumn(m.fields[i]) = m.fields[i]
                 /\ {m.fields[i].name, m.fields[i].column} \subseteq Identifiers
                 /\ m.fields[i].goName \in GoIdentifiers
                 /\ ValidField(m.fields[i])
           /\ \A i, j \in 1..Len(m.fields) :
                 \/ i = j
                 \/ /\ m.fields[i].name # m.fields[j].name
                    /\ m.fields[i].goName # m.fields[j].goName
                    /\ m.fields[i].column # m.fields[j].column
           /\ \E i \in DOMAIN m.fields : \A j \in DOMAIN m.fields : m.fields[j].primaryKey <=> j = i
<1> DEFINE fs == m.fields
<1>1. /\ fs \in Seq(FieldType) /\ DOMAIN fs = 1..Len(fs) /\ Len(fs) \in Nat
      /\ \A i \in 1..Len(fs) : fs[i] \in FieldType /\ WithColumn(fs[i]) = fs[i]
      /\ ValidFields(fs)
  BY ModelRecord DEF NormalModel, ValidModel
<1> HIDE DEF fs
<1>2. \A i \in 1..Len(fs) : /\ {fs[i].name, fs[i].column} \subseteq Identifiers
                            /\ fs[i].goName \in GoIdentifiers
                            /\ ValidField(fs[i])
  BY <1>1 DEF ValidFields
<1>3. \A i, j \in 1..Len(fs) :
          i = j \/ (fs[i].name # fs[j].name /\ fs[i].goName # fs[j].goName /\ fs[i].column # fs[j].column)
  <2>1. /\ Distinct([i \in 1..Len(fs) |-> fs[i].name])
        /\ Distinct([i \in 1..Len(fs) |-> fs[i].goName])
        /\ Distinct([i \in 1..Len(fs) |-> fs[i].column])
    BY <1>1 DEF ValidFields
  <2> QED
    BY <2>1 DEF Distinct
<1>4. \E i \in DOMAIN fs : \A j \in DOMAIN fs : fs[j].primaryKey <=> j = i
  BY <1>1, Zenon DEF ValidFields
<1> QED
  BY <1>1, <1>2, <1>3, <1>4 DEF fs

\* No two models of an app share a name, a Go name or a table.
LEMMA ModelFactsApart ==
    ASSUME NEW s, GoodState(s), NEW app, NEW n, NEW g, NEW t, NEW n2, NEW g2, NEW t2,
           <<"model", app, n, <<g, t>>>> \in Facts(s), <<"model", app, n2, <<g2, t2>>>> \in Facts(s),
           n = n2 \/ g = g2 \/ t = t2
    PROVE  n = n2 /\ g = g2 /\ t = t2
<1> DEFINE models == ModelsOf(s, app)
<1>1. PICK i \in DOMAIN models : models[i].name = n /\ <<g, t>> = <<models[i].goName, models[i].dbTable>>
  BY InFacts
<1>2. PICK j \in DOMAIN models : models[j].name = n2 /\ <<g2, t2>> = <<models[j].goName, models[j].dbTable>>
  BY InFacts
<1>3. i = j
  BY <1>1, <1>2, ModelsOfGood
<1> QED
  BY <1>1, <1>2, <1>3

LEMMA FieldFactsApart ==
    ASSUME NEW s, GoodState(s), NEW app, NEW n, NEW f, <<"field", app, n, f>> \in Facts(s)
    PROVE  /\ f \in FieldType /\ WithColumn(f) = f
           /\ {f.name, f.column} \subseteq Identifiers /\ f.goName \in GoIdentifiers /\ ValidField(f)
           /\ \A h : /\ <<"field", app, n, h>> \in Facts(s)
                     /\ f.name = h.name \/ f.goName = h.goName \/ f.column = h.column
                     => f = h
<1> DEFINE models == ModelsOf(s, app)
<1>1. PICK i \in DOMAIN models : models[i].name = n /\ f \in Range(models[i].fields)
  BY InFacts
<1>2. /\ DOMAIN models = 1..Len(models)
      /\ NormalModel(models[i]) /\ ValidModel(models[i])
      /\ \A j \in DOMAIN models : models[j].name = n => j = i
  BY <1>1, ModelsOfGood
<1> DEFINE fs == models[i].fields
<1>3. /\ DOMAIN fs = 1..Len(fs)
      /\ \A a \in 1..Len(fs) :
            /\ fs[a] \in FieldType /\ WithColumn(fs[a]) = fs[a]
            /\ {fs[a].name, fs[a].column} \subseteq Identifiers
            /\ fs[a].goName \in GoIdentifiers
            /\ ValidField(fs[a])
      /\ \A a, b \in 1..Len(fs) :
            a = b \/ (fs[a].name # fs[b].name /\ fs[a].goName # fs[b].goName /\ fs[a].column # fs[b].column)
  BY <1>2, FieldsApart
<1>4. \A h : <<"field", app, n, h>> \in Facts(s) => h \in Range(fs)
  BY <1>2, InFacts
<1> HIDE DEF models, fs
<1>5. PICK a \in 1..Len(fs) : f = fs[a]
  BY <1>1, <1>3 DEF Range, fs
<1>6. ASSUME NEW h, <<"field", app, n, h>> \in Facts(s), f.name = h.name \/ f.goName = h.goName \/ f.column = h.column
      PROVE  f = h
  <2>1. PICK b \in 1..Len(fs) : h = fs[b]
    BY <1>3, <1>4, <1>6 DEF Range
  <2> QED
    BY <2>1, <1>3, <1>5, <1>6
<1> QED
  BY <1>3, <1>5, <1>6

Flat(m) == [m EXCEPT !.fields = Range(m.fields)]

LEMMA FlatIn ==
    ASSUME NEW s, GoodState(s), NEW t, GoodState(t), Facts(s) = Facts(t), NEW app,
           NEW i \in 1..Len(ModelsOf(s, app))
    PROVE  \E j \in 1..Len(ModelsOf(t, app)) : Flat(ModelsOf(s, app)[i]) = Flat(ModelsOf(t, app)[j])
<1> DEFINE ms == ModelsOf(s, app)
           mt == ModelsOf(t, app)
<1>1. /\ DOMAIN ms = 1..Len(ms) /\ DOMAIN mt = 1..Len(mt)
      /\ \A a \in 1..Len(ms) : ms[a] \in ModelType
      /\ \A a \in 1..Len(mt) : mt[a] \in ModelType
      /\ \A a, b \in 1..Len(ms) : ms[a].name = ms[b].name => a = b
      /\ \A a, b \in 1..Len(mt) : mt[a].name = mt[b].name => a = b
  BY ModelsOfGood
<1>2. /\ \A n, h : <<"model", app, n, h>> \in Facts(s) <=>
              \E a \in 1..Len(ms) : ms[a].name = n /\ h = <<ms[a].goName, ms[a].dbTable>>
      /\ \A n, f : <<"field", app, n, f>> \in Facts(s) <=>
              \E a \in 1..Len(ms) : ms[a].name = n /\ f \in Range(ms[a].fields)
      /\ \A n, h : <<"model", app, n, h>> \in Facts(s) <=>
              \E a \in 1..Len(mt) : mt[a].name = n /\ h = <<mt[a].goName, mt[a].dbTable>>
      /\ \A n, f : <<"field", app, n, f>> \in Facts(s) <=>
              \E a \in 1..Len(mt) : mt[a].name = n /\ f \in Range(mt[a].fields)
  BY <1>1, InFacts
<1> HIDE DEF ms, mt
<1>3. i \in 1..Len(ms)
  BY DEF ms
<1>4. <<"model", app, ms[i].name, <<ms[i].goName, ms[i].dbTable>>>> \in Facts(s)
  BY <1>2, <1>3
<1>5. PICK j \in 1..Len(mt) : mt[j].name = ms[i].name /\ <<ms[i].goName, ms[i].dbTable>> = <<mt[j].goName, mt[j].dbTable>>
  BY <1>2, <1>4
<1>6. Range(ms[i].fields) = Range(mt[j].fields)
  <2>1. \A f : f \in Range(ms[i].fields) <=> <<"field", app, ms[i].name, f>> \in Facts(s)
    BY <1>1, <1>2, <1>3
  <2>2. \A f : f \in Range(mt[j].fields) <=> <<"field", app, mt[j].name, f>> \in Facts(s)
    BY <1>1, <1>2, <1>5
  <2> QED
    BY <2>1, <2>2, <1>5
<1>7. \A m \in ModelType : Flat(m) = [name |-> m.name, goName |-> m.goName, dbTable |-> m.dbTable, fields |-> Range(m.fields)]
  BY DEF Flat, ModelType
<1>8. Flat(ms[i]) = Flat(mt[j])
  BY <1>1, <1>3, <1>5, <1>6, <1>7
<1> QED
  BY <1>8 DEF ms, mt

LEMMA AppsIn ==
    ASSUME NEW s, GoodState(s), NEW t, Facts(s) = Facts(t)
    PROVE  DOMAIN s \subseteq DOMAIN t
<1> SUFFICES ASSUME NEW a \in DOMAIN s
             PROVE  a \in DOMAIN t
  OBVIOUS
<1>1. ModelsOf(s, a) # <<>> /\ ModelsOf(s, a) \in Seq(ModelType)
  BY DEF ModelsOf, GoodState, NormalModels, ValidModels
<1>2. 1 \in 1..Len(ModelsOf(s, a)) /\ DOMAIN ModelsOf(s, a) = 1..Len(ModelsOf(s, a))
  BY <1>1
<1> DEFINE m == ModelsOf(s, a)[1]
<1>3. <<"model", a, m.name, <<m.goName, m.dbTable>>>> \in Facts(s)
  BY <1>2, InFacts
<1>4. PICK i \in DOMAIN ModelsOf(t, a) : TRUE
  BY <1>3, InFacts
<1> QED
  BY <1>4 DEF ModelsOf

\* The facts are all that AsSets sees.
LEMMA FactsDetermine ==
    ASSUME NEW s, GoodState(s), NEW t, GoodState(t), Facts(s) = Facts(t)
    PROVE  AsSets(s) = AsSets(t)
<1>1. DOMAIN s = DOMAIN t
  BY AppsIn
<1>2. ASSUME NEW u, GoodState(u), NEW a \in DOMAIN u
      PROVE  {[m EXCEPT !.fields = Range(m.fields)] : m \in Range(u[a].models)}
                 = {Flat(ModelsOf(u, a)[i]) : i \in 1..Len(ModelsOf(u, a))}
  <2>1. ModelsOf(u, a) = u[a].models
    BY DEF ModelsOf
  <2>2. DOMAIN ModelsOf(u, a) = 1..Len(ModelsOf(u, a))
    BY <1>2, ModelsOfGood
  <2> QED
    BY <2>1, <2>2 DEF Range, Flat
<1>3. ASSUME NEW a \in DOMAIN s
      PROVE  {Flat(ModelsOf(s, a)[i]) : i \in 1..Len(ModelsOf(s, a))} = {Flat(ModelsOf(t, a)[i]) : i \in 1..Len(ModelsOf(t, a))}
  <2>1. \A i \in 1..Len(ModelsOf(s, a)) : \E j \in 1..Len(ModelsOf(t, a)) : Flat(ModelsOf(s, a)[i]) = Flat(ModelsOf(t, a)[j])
    BY FlatIn
  <2>2. \A i \in 1..Len(ModelsOf(t, a)) : \E j \in 1..Len(ModelsOf(s, a)) : Flat(ModelsOf(t, a)[i]) = Flat(ModelsOf(s, a)[j])
    BY FlatIn
  <2> QED
    BY <2>1, <2>2
<1>4. ASSUME NEW a \in DOMAIN s
      PROVE  {[m EXCEPT !.fields = Range(m.fields)] : m \in Range(s[a].models)}
                 = {[m EXCEPT !.fields = Range(m.fields)] : m \in Range(t[a].models)}
  BY <1>1, <1>2, <1>3
<1> QED
  BY <1>1, <1>4 DEF AsSets

----------------------------------------------------------------------------
\* CreateModel

\* What an operation contributes to a state.
Made(op) ==
    IF op.kind = "CreateModel" THEN UNION {ModelFacts(op.app, n) : n \in NormalizedSingleModel(op.app, op.model)}
    ELSE {<<"field", op.app, op.modelName, WithColumn(op.field)>>}

LEMMA SingleModel ==
    ASSUME NEW app \in Texts, NEW model \in ModelType, NEW n \in NormalizedSingleModel(app, model)
    PROVE  /\ NormalizedSingleModel(app, model) = {n}
           /\ NormalModel(n) /\ ValidModel(n) /\ n \in ModelType
           /\ n.name = model.name
           /\ app \in Identifiers
<1> DEFINE m == NormalizeModel(app, model)
<1>1. NormalModel(m) /\ m \in ModelType /\ m.name = model.name
  BY NormalizedNormal DEF NormalModel
<1> HIDE DEF m
<1>2. <<m>> \in Seq(ModelType) /\ Len(<<m>>) = 1 /\ <<m>>[1] = m /\ DOMAIN <<model>> = 1..1 /\ <<model>>[1] = model
  BY <1>1
<1>3. \A i \in 1..Len(<<m>>) : NormalizeModel(app, <<model>>[i]) = <<m>>[i]
  BY <1>2 DEF m
<1>4. Normalize(SchemaOf(app, <<model>>)) = {s \in {SchemaOf(app, <<m>>)} : app \in Identifiers /\ ValidModels(<<m>>)}
  BY <1>2, <1>3, NormalizeIs
<1>5. NormalizedSingleModel(app, model) = {s.models[1] : s \in Normalize(SchemaOf(app, <<model>>))}
  BY DEF NormalizedSingleModel, SchemaOf
<1>6. SchemaOf(app, <<m>>).models[1] = m
  BY <1>2 DEF SchemaOf
<1>7. n = m /\ app \in Identifiers /\ ValidModels(<<m>>) /\ NormalizedSingleModel(app, model) = {m}
  BY <1>4, <1>5, <1>6
<1>8. ValidModel(m)
  BY <1>2, <1>7 DEF ValidModels, ValidModel
<1> QED
  BY <1>1, <1>7, <1>8

\* A further model is accepted exactly when it clashes with none.
LEMMA AppendedValid ==
    ASSUME NEW s, GoodState(s), NEW app, NEW n, NormalModel(n), ValidModel(n)
    PROVE  LET models == ModelsOf(s, app)
               longer == Append(models, n)
           IN  /\ longer \in Seq(ModelType) /\ Len(longer) = Len(models) + 1 /\ DOMAIN longer = 1..(Len(models) + 1)
               /\ longer[Len(models) + 1] = n /\ \A i \in 1..Len(models) : longer[i] = models[i]
               /\ \A i \in 1..(Len(models) + 1) : NormalModel(longer[i])
               /\ ValidModels(longer) => NormalModels(longer)
               /\ (\A i \in 1..Len(models) : models[i].name # n.name /\ models[i].goName # n.goName
                                             /\ models[i].dbTable # n.dbTable)
                  => ValidModels(longer)
<1> DEFINE models == ModelsOf(s, app)
           longer == Append(models, n)
           L == Len(models)
<1>1. /\ models \in Seq(ModelType) /\ DOMAIN models = 1..L /\ L \in Nat
      /\ \A i \in 1..L : NormalModel(models[i]) /\ ValidModel(models[i])
      /\ \A i, j \in 1..L :
            \/ i = j
            \/ models[i].name # models[j].name /\ models[i].goName # models[j].goName /\ models[i].dbTable # models[j].dbTable
  BY ModelsOfGood
<1> HIDE DEF models
<1>2. n \in ModelType
  BY DEF NormalModel
<1>3. /\ longer \in Seq(ModelType) /\ Len(longer) = L + 1 /\ DOMAIN longer = 1..(L + 1)
      /\ longer[L + 1] = n /\ \A i \in 1..L : longer[i] = models[i]
  BY <1>1, <1>2
<1> HIDE DEF longer, L
<1>4. \A i \in 1..(L + 1) : i = L + 1 \/ i \in 1..L
  BY <1>1
<1>5. \A i \in 1..(L + 1) : NormalModel(longer[i]) /\ ValidModel(longer[i])
  BY <1>1, <1>3, <1>4
<1>6. ASSUME ValidModels(longer) PROVE NormalModels(longer)
  BY <1>3, <1>5, <1>6 DEF NormalModels
<1>7. ASSUME \A i \in 1..L : models[i].name # n.name /\ models[i].goName # n.goName /\ models[i].dbTable # n.dbTable
      PROVE  ValidModels(longer)
  <2>1. longer # <<>>
    BY <1>1, <1>3
  <2>2. \A i, j \in 1..(L + 1) :
            \/ i = j
            \/ longer[i].name # longer[j].name /\ longer[i].goName # longer[j].goName /\ longer[i].dbTable # longer[j].dbTable
    BY <1>1, <1>3, <1>4, <1>7
  <2>3. /\ Distinct([i \in DOMAIN longer |-> longer[i].name])
        /\ Distinct([i \in DOMAIN longer |-> longer[i].goName])
        /\ Distinct([i \in DOMAIN longer |-> longer[i].dbTable])
    BY <1>3, <2>2 DEF Distinct
  <2> QED
    BY <1>3, <1>5, <2>1, <2>3 DEF ValidModels, ValidModel
<1> QED
  BY <1>3, <1>5, <1>6, <1>7 DEF longer, L, models

LEMMA CreateForwardIs ==
    ASSUME NEW s, GoodState(s), NEW op, op.kind = "CreateModel", op.app \in Texts, op.model \in ModelType,
           NEW n \in NormalizedSingleModel(op.app, op.model)
    PROVE  LET models == ModelsOf(s, op.app)
               fits == (\A i \in 1..Len(models) : models[i].name # n.name) /\ ValidModels(Append(models, n))
           IN  /\ fits => CreateModelForward(op, s) = {WithSchema(s, SchemaOf(op.app, Append(models, n)))}
               /\ ~fits => CreateModelForward(op, s) = {}
<1> DEFINE app == op.app
           models == ModelsOf(s, app)
           longer == Append(models, n)
           L == Len(models)
<1>1. NormalizedSingleModel(app, op.model) = {n} /\ NormalModel(n) /\ ValidModel(n) /\ app \in Identifiers
  BY SingleModel
<1>2. /\ DOMAIN models = 1..L /\ models \in Seq(ModelType)
      /\ \A i \in 1..L : NormalModel(models[i]) /\ ValidModel(models[i])
  BY ModelsOfGood
<1>3. CreateModelForward(op, s) =
          IF \A i \in 1..L : models[i].name # n.name THEN WithModels(s, app, longer) ELSE {}
  BY <1>1, <1>2 DEF CreateModelForward
<1>4. /\ longer \in Seq(ModelType) /\ DOMAIN longer = 1..Len(longer)
      /\ \A i \in 1..Len(longer) : NormalModel(longer[i]) /\ ValidFields(longer[i].fields)
  <2>1. /\ longer \in Seq(ModelType) /\ Len(longer) = L + 1 /\ DOMAIN longer = 1..(L + 1)
        /\ longer[L + 1] = n /\ \A i \in 1..L : longer[i] = models[i]
    <3>1. n \in ModelType
      BY <1>1 DEF NormalModel
    <3> HIDE DEF models
    <3> QED
      BY <3>1, <1>2
  <2>2. \A i \in 1..(L + 1) : i = L + 1 \/ i \in 1..L
    BY <1>2
  <2> HIDE DEF models, longer, L
  <2>3. \A i \in 1..(L + 1) : NormalModel(longer[i]) /\ ValidModel(longer[i])
    BY <2>1, <2>2, <1>1, <1>2
  <2> QED
    BY <2>1, <2>3 DEF ValidModel
<1> HIDE DEF models, longer, L
<1>5. \A i \in 1..Len(longer) : NormalizeModel(app, longer[i]) = longer[i]
  BY <1>4, NormalFixed
<1>6. /\ ValidModels(longer) => WithModels(s, app, longer) = {WithSchema(s, SchemaOf(app, longer))}
      /\ ~ValidModels(longer) => WithModels(s, app, longer) = {}
  BY <1>1, <1>4, <1>5, WithModelsIs
<1> QED
  BY <1>3, <1>6 DEF models, longer, L

\* CreateModel adds a model that is new in its app, with its fields, and nothing else changes.
LEMMA CreateForwardStep ==
    ASSUME NEW s, GoodState(s), NEW op, op.kind = "CreateModel", op.app \in Texts, op.model \in ModelType,
           NEW t \in CreateModelForward(op, s)
    PROVE  \E n \in NormalizedSingleModel(op.app, op.model) :
               /\ GoodState(t)
               /\ ModelsOf(t, op.app) = Append(ModelsOf(s, op.app), n)
               /\ \A a : a # op.app => ModelsOf(t, a) = ModelsOf(s, a)
               /\ \A i \in DOMAIN ModelsOf(s, op.app) : ModelsOf(s, op.app)[i].name # n.name
               /\ Facts(t) = Facts(s) \union Made(op)
               /\ Facts(s) \intersect Made(op) = {}
<1> DEFINE app == op.app
           models == ModelsOf(s, app)
           L == Len(models)
<1>1. PICK n \in NormalizedSingleModel(app, op.model) : TRUE
  BY DEF CreateModelForward
<1> DEFINE longer == Append(models, n)
<1>2. NormalizedSingleModel(app, op.model) = {n} /\ NormalModel(n) /\ ValidModel(n) /\ app \in Identifiers
  BY SingleModel
<1>3. /\ \A i \in 1..L : models[i].name # n.name
      /\ ValidModels(longer)
      /\ t = WithSchema(s, SchemaOf(app, longer))
  BY CreateForwardIs
<1>4. DOMAIN models = 1..L /\ L \in Nat
  BY ModelsOfGood
<1>5. /\ DOMAIN longer = 1..(L + 1) /\ longer[L + 1] = n /\ \A i \in 1..L : longer[i] = models[i]
      /\ NormalModels(longer)
  BY <1>2, <1>3, AppendedValid
<1> HIDE DEF longer, models, L
<1>6. GoodState(t) /\ ModelsOf(t, app) = longer /\ (\A a : a # app => ModelsOf(t, a) = ModelsOf(s, a))
      /\ OtherFacts(t, app) = OtherFacts(s, app)
  BY <1>2, <1>3, <1>5, SchemaReplaced
<1>7. Made(op) = ModelFacts(app, n)
  BY <1>2 DEF Made
<1>8. FactsOf(app, longer) = FactsOf(app, models) \union ModelFacts(app, n)
  <2>1. /\ \A i \in 1..(L + 1) : i = L + 1 \/ i \in 1..L
        /\ \A i \in 1..L : i \in 1..(L + 1)
        /\ L + 1 \in 1..(L + 1)
    BY <1>4
  <2> QED
    BY <2>1, <1>4, <1>5 DEF FactsOf
<1>9. Facts(t) = Facts(s) \union Made(op)
  <2>1. Facts(s) = OtherFacts(s, app) \union FactsOf(app, models)
    BY FactsSplit DEF models
  <2>2. Facts(t) = OtherFacts(t, app) \union FactsOf(app, longer)
    BY <1>6, FactsSplit
  <2> QED
    BY <2>1, <2>2, <1>6, <1>7, <1>8
<1>10. Facts(s) \intersect Made(op) = {}
  <2>1. SUFFICES ASSUME NEW x \in Facts(s), x \in ModelFacts(app, n) PROVE FALSE
    BY <1>7
  <2>2. \/ x = <<"model", app, n.name, <<n.goName, n.dbTable>>>>
        \/ \E f : x = <<"field", app, n.name, f>>
    BY <2>1 DEF ModelFacts
  <2>3. \E i \in DOMAIN models : models[i].name = n.name
    BY <2>1, <2>2, InFacts DEF models
  <2> QED
    BY <2>3, <1>3, <1>4
<1> QED
  BY <1>3, <1>4, <1>6, <1>9, <1>10 DEF longer, models

----------------------------------------------------------------------------
\* AddField

WithFields(m, fs) == [m EXCEPT !.fields = fs]
ReplaceFields(models, i, fs) == [models EXCEPT ![i] = WithFields(models[i], fs)]

LEMMA WithFieldsIs ==
    ASSUME NEW m \in ModelType, NEW fs \in Seq(FieldType)
    PROVE  /\ WithFields(m, fs) = [name |-> m.name, goName |-> m.goName, dbTable |-> m.dbTable, fields |-> fs]
           /\ WithFields(m, fs) \in ModelType
           /\ WithFields(m, fs).name = m.name /\ WithFields(m, fs).goName = m.goName
           /\ WithFields(m, fs).dbTable = m.dbTable /\ WithFields(m, fs).fields = fs
<1>1. WithFields(m, fs) = [name |-> m.name, goName |-> m.goName, dbTable |-> m.dbTable, fields |-> fs]
  BY ModelRecord DEF WithFields
<1>2. m.name \in Texts /\ m.goName \in Texts /\ m.dbTable \in Seq(Texts)
  BY ModelRecord
<1>3. WithFields(m, fs) \in ModelType
  BY <1>1, <1>2, ModelRecordOf
<1> QED
  BY <1>1, <1>3

LEMMA ReplaceFieldsIs ==
    ASSUME NEW models \in Seq(ModelType), NEW i \in 1..Len(models), NEW fs \in Seq(FieldType)
    PROVE  LET new == ReplaceFields(models, i, fs)
           IN  /\ new \in Seq(ModelType) /\ Len(new) = Len(models) /\ DOMAIN new = 1..Len(models)
               /\ new[i] = WithFields(models[i], fs)
               /\ \A j \in 1..Len(models) : j # i => new[j] = models[j]
               /\ \A j \in 1..Len(models) : /\ new[j].name = models[j].name /\ new[j].goName = models[j].goName
                                            /\ new[j].dbTable = models[j].dbTable
<1> DEFINE w == WithFields(models[i], fs)
           new == ReplaceFields(models, i, fs)
<1>1. models[i] \in ModelType
  OBVIOUS
<1>2. /\ w \in ModelType /\ w.name = models[i].name /\ w.goName = models[i].goName /\ w.dbTable = models[i].dbTable
  BY <1>1, WithFieldsIs
<1> HIDE DEF w
<1>3. new = [models EXCEPT ![i] = w]
  BY DEF ReplaceFields, w
<1> HIDE DEF new
<1>4. /\ new \in Seq(ModelType) /\ Len(new) = Len(models) /\ DOMAIN new = 1..Len(models)
      /\ new[i] = w
      /\ \A j \in 1..Len(models) : j # i => new[j] = models[j]
  BY <1>2, <1>3
<1>5. \A j \in 1..Len(models) : new[j].name = models[j].name /\ new[j].goName = models[j].goName
                                /\ new[j].dbTable = models[j].dbTable
  BY <1>2, <1>4
<1> QED
  BY <1>4, <1>5 DEF new, w

LEMMA AppendIs ==
    ASSUME NEW T, NEW s \in Seq(T), NEW x \in T
    PROVE  /\ Append(s, x) \in Seq(T) /\ Len(Append(s, x)) = Len(s) + 1 /\ DOMAIN Append(s, x) = 1..(Len(s) + 1)
           /\ Append(s, x)[Len(s) + 1] = x /\ \A i \in 1..Len(s) : Append(s, x)[i] = s[i]
OBVIOUS

LEMMA SeqIs ==
    ASSUME NEW T, NEW s \in Seq(T)
    PROVE  s = [i \in 1..Len(s) |-> s[i]] /\ DOMAIN s = 1..Len(s) /\ Len(s) \in Nat
OBVIOUS

\* A field added to a normal model only gets its column.
LEMMA AppendedFieldNormal ==
    ASSUME NEW app \in Texts, NEW m, NormalModel(m), ValidModel(m), NEW f \in FieldType
    PROVE  LET old == WithFields(m, Append(m.fields, f))
               new == WithFields(m, Append(m.fields, WithColumn(f)))
           IN  /\ NormalizeModel(app, old) = new
               /\ NormalModel(new)
<1> DEFINE fs == m.fields
           g == WithColumn(f)
           L == Len(fs)
           old == WithFields(m, Append(fs, f))
           new == WithFields(m, Append(fs, g))
<1>1. /\ fs \in Seq(FieldType) /\ DOMAIN fs = 1..L /\ L \in Nat
      /\ \A a \in 1..L : WithColumn(fs[a]) = fs[a]
      /\ m \in ModelType /\ m.dbTable # <<>>
  BY FieldsApart DEF NormalModel
<1>2. g \in FieldType /\ WithColumn(g) = g
  BY ColumnOf
<1>3. PICK a \in 1..L : fs[a].kind = "auto"
  <2>1. \E a \in DOMAIN fs : fs[a].kind = "auto"
    BY DEF ValidModel, ValidFields, ValidField
  <2> QED
    BY <2>1, <1>1
<1> HIDE DEF fs, g, L
<1>4. /\ Append(fs, f) \in Seq(FieldType) /\ Len(Append(fs, f)) = L + 1 /\ DOMAIN Append(fs, f) = 1..(L + 1)
      /\ Append(fs, f)[L + 1] = f /\ \A b \in 1..L : Append(fs, f)[b] = fs[b]
  BY <1>1 DEF L
<1>5. /\ Append(fs, g) \in Seq(FieldType) /\ Len(Append(fs, g)) = L + 1 /\ DOMAIN Append(fs, g) = 1..(L + 1)
      /\ Append(fs, g)[L + 1] = g /\ \A b \in 1..L : Append(fs, g)[b] = fs[b]
  BY <1>1, <1>2 DEF L
<1>a. Append(fs, g) = [b \in 1..(L + 1) |-> Append(fs, g)[b]]
  <2> DEFINE longer == Append(fs, g)
  <2>1. longer \in Seq(FieldType) /\ Len(longer) = L + 1
    BY <1>5
  <2> HIDE DEF longer
  <2>2. longer = [b \in 1..Len(longer) |-> longer[b]]
    BY <2>1, SeqIs
  <2>3. longer = [b \in 1..(L + 1) |-> longer[b]]
    BY <2>1, <2>2
  <2> QED
    BY <2>3 DEF longer
<1>6. WithPrimaryKey(Append(fs, f)) = Append(fs, f)
  <2>1. a \in DOMAIN Append(fs, f) /\ Append(fs, f)[a].kind = "auto"
    BY <1>1, <1>3, <1>4
  <2> QED
    BY <2>1 DEF WithPrimaryKey
<1>s. \A b \in 1..(L + 1) : b = L + 1 \/ b \in 1..L
  BY <1>1
<1>7. \A b \in 1..(L + 1) : WithColumn(Append(fs, f)[b]) = Append(fs, g)[b]
  BY <1>1, <1>4, <1>5, <1>s DEF g
<1>8. [b \in 1..Len(Append(fs, f)) |-> WithColumn(Append(fs, f)[b])] = Append(fs, g)
  BY <1>4, <1>a, <1>7
<1>9. /\ old \in ModelType /\ old.name = m.name /\ old.goName = m.goName /\ old.dbTable = m.dbTable /\ old.fields = Append(fs, f)
      /\ new = [name |-> m.name, goName |-> m.goName, dbTable |-> m.dbTable, fields |-> Append(fs, g)]
      /\ new \in ModelType /\ new.dbTable = m.dbTable /\ new.fields = Append(fs, g)
  BY <1>1, <1>4, <1>5, WithFieldsIs
<1> HIDE DEF old, new
<1>10. NormalizeModel(app, old) = new
  <2> DEFINE keyed == WithPrimaryKey(old.fields)
  <2>1. NormalizeModel(app, old) =
            [name |-> old.name, goName |-> old.goName,
             dbTable |-> IF old.dbTable = <<>> THEN <<app, old.name>> ELSE old.dbTable,
             fields |-> [i \in 1..Len(keyed) |-> WithColumn(keyed[i])]]
    BY <1>9, NormalizedIs
  <2>2. keyed = Append(fs, f)
    BY <1>6, <1>9
  <2> HIDE DEF keyed
  <2>3. [i \in 1..Len(keyed) |-> WithColumn(keyed[i])] = Append(fs, g)
    BY <2>2, <1>8
  <2> QED
    BY <2>1, <2>3, <1>1, <1>9
<1>11. \A b \in 1..(L + 1) : WithColumn(Append(fs, g)[b]) = Append(fs, g)[b]
  BY <1>1, <1>2, <1>5, <1>s
<1>12. NormalModel(new)
  BY <1>1, <1>5, <1>9, <1>11 DEF NormalModel
<1> QED
  BY <1>10, <1>12 DEF old, new, fs, g

\* Other fields for one model of an app, when they suit each other.
LEMMA ReplacedValid ==
    ASSUME NEW s, GoodState(s), NEW app, NEW i \in 1..Len(ModelsOf(s, app)), NEW fs \in Seq(FieldType),
           NormalModel(WithFields(ModelsOf(s, app)[i], fs))
    PROVE  LET new == ReplaceFields(ModelsOf(s, app), i, fs)
           IN  /\ ValidModels(new) <=> ValidFields(fs)
               /\ ValidModels(new) => NormalModels(new)
<1> DEFINE models == ModelsOf(s, app)
           new == ReplaceFields(models, i, fs)
<1>1. /\ models \in Seq(ModelType) /\ DOMAIN models = 1..Len(models) /\ Len(models) \in Nat
      /\ \A j \in 1..Len(models) : models[j] \in ModelType /\ NormalModel(models[j]) /\ ValidModel(models[j])
      /\ \A j, k \in 1..Len(models) :
            \/ j = k
            \/ models[j].name # models[k].name /\ models[j].goName # models[k].goName /\ models[j].dbTable # models[k].dbTable
  BY ModelsOfGood
<1> HIDE DEF models
<1>i. i \in 1..Len(models) /\ NormalModel(WithFields(models[i], fs))
  BY DEF models
<1>2. /\ new \in Seq(ModelType) /\ Len(new) = Len(models) /\ DOMAIN new = 1..Len(models)
      /\ new[i] = WithFields(models[i], fs)
      /\ \A j \in 1..Len(models) : j # i => new[j] = models[j]
      /\ \A j \in 1..Len(models) : /\ new[j].name = models[j].name /\ new[j].goName = models[j].goName
                                   /\ new[j].dbTable = models[j].dbTable
  BY <1>1, <1>i, ReplaceFieldsIs
<1>3. new[i].fields = fs
  BY <1>1, <1>2, <1>i, WithFieldsIs
<1> HIDE DEF new
<1>4. ASSUME ValidModels(new) PROVE ValidFields(fs)
  BY <1>2, <1>3, <1>4, <1>i DEF ValidModels
<1>5. ASSUME ValidFields(fs) PROVE ValidModels(new)
  <2>1. new # <<>>
    BY <1>2, <1>i
  <2>2. \A j \in 1..Len(models) : /\ new[j].name \in Identifiers /\ new[j].goName \in GoIdentifiers
                                 /\ ValidTable(new[j].dbTable) /\ ValidFields(new[j].fields)
    BY <1>1, <1>2, <1>3, <1>5 DEF ValidModel
  <2>3. /\ Distinct([j \in DOMAIN new |-> new[j].name])
        /\ Distinct([j \in DOMAIN new |-> new[j].goName])
        /\ Distinct([j \in DOMAIN new |-> new[j].dbTable])
    BY <1>1, <1>2 DEF Distinct
  <2> QED
    BY <1>2, <2>1, <2>2, <2>3 DEF ValidModels
<1>6. ASSUME ValidModels(new) PROVE NormalModels(new)
  BY <1>1, <1>2, <1>6, <1>i DEF NormalModels
<1> QED
  BY <1>4, <1>5, <1>6 DEF new, models

HeadFact(app, m) == <<"model", app, m.name, <<m.goName, m.dbTable>>>>
FieldFacts(app, name, fields) == {<<"field", app, name, f>> : f \in fields}

\* The facts of every model of an app but one.
FactsBut(app, models, i) == UNION {ModelFacts(app, models[j]) : j \in (1..Len(models)) \ {i}}

LEMMA ModelFactsIs ==
    ASSUME NEW app, NEW m
    PROVE  ModelFacts(app, m) = {HeadFact(app, m)} \union FieldFacts(app, m.name, Range(m.fields))
BY DEF ModelFacts, HeadFact, FieldFacts

\* The facts of one model and those of the others.
LEMMA FactsAround ==
    ASSUME NEW app, NEW models \in Seq(ModelType), NEW i \in 1..Len(models)
    PROVE  FactsOf(app, models) =
               FactsBut(app, models, i) \union {HeadFact(app, models[i])}
                   \union FieldFacts(app, models[i].name, Range(models[i].fields))
<1>1. FactsOf(app, models) = FactsBut(app, models, i) \union ModelFacts(app, models[i])
  BY DEF FactsOf, FactsBut
<1>2. ModelFacts(app, models[i]) = {HeadFact(app, models[i])} \union FieldFacts(app, models[i].name, Range(models[i].fields))
  BY ModelFactsIs
<1> QED
  BY <1>1, <1>2

\* With other fields, an app's facts differ in that model's fields only.
LEMMA ReplacedFacts ==
    ASSUME NEW app, NEW models \in Seq(ModelType), NEW i \in 1..Len(models), NEW fs \in Seq(FieldType),
           NEW new, new = ReplaceFields(models, i, fs)
    PROVE  FactsOf(app, new) =
               FactsBut(app, models, i) \union {HeadFact(app, models[i])}
                   \union FieldFacts(app, models[i].name, Range(fs))
<1>1. /\ DOMAIN new = 1..Len(models)
      /\ new[i] = WithFields(models[i], fs)
      /\ \A j \in 1..Len(models) : j # i => new[j] = models[j]
      /\ new[i].name = models[i].name /\ new[i].goName = models[i].goName /\ new[i].dbTable = models[i].dbTable
  BY ReplaceFieldsIs
<1>2. new[i].fields = fs
  BY <1>1, WithFieldsIs
<1>3. FactsOf(app, new) = FactsBut(app, models, i) \union ModelFacts(app, new[i])
  BY <1>1 DEF FactsOf, FactsBut
<1>4. ModelFacts(app, new[i]) = {HeadFact(app, models[i])} \union FieldFacts(app, models[i].name, Range(fs))
  BY <1>1, <1>2, ModelFactsIs DEF HeadFact
<1> QED
  BY <1>3, <1>4

\* AddField finds its model, and the result depends on the fields alone.
LEMMA AddFieldForwardIs ==
    ASSUME NEW s, GoodState(s), NEW op, op.kind = "AddField", op.field \in FieldType,
           NEW i \in 1..Len(ModelsOf(s, op.app)), ModelsOf(s, op.app)[i].name = op.modelName
    PROVE  LET models == ModelsOf(s, op.app)
               longer == Append(models[i].fields, WithColumn(op.field))
               new == ReplaceFields(models, i, longer)
           IN  /\ longer \in Seq(FieldType) /\ NormalModel(WithFields(models[i], longer))
               /\ op.app \in Identifiers /\ op.app \in Texts
               /\ ValidFields(longer) => NormalModels(new) /\ AddFieldForward(op, s) = {WithSchema(s, SchemaOf(op.app, new))}
               /\ ~ValidFields(longer) => AddFieldForward(op, s) = {}
<1> DEFINE app == op.app
           models == ModelsOf(s, app)
           f == WithColumn(op.field)
           fs == models[i].fields
           L == Len(fs)
           longer == Append(fs, f)
           new == ReplaceFields(models, i, longer)
           old == [models EXCEPT ![i].fields = Append(@, op.field)]
           clash(h) == h.name = op.field.name \/ (op.field.column # "" /\ h.column = op.field.column)
<1>1. /\ models \in Seq(ModelType) /\ DOMAIN models = 1..Len(models) /\ models # <<>>
      /\ \A j \in 1..Len(models) : models[j] \in ModelType /\ NormalModel(models[j]) /\ ValidModel(models[j])
      /\ \A j, k \in 1..Len(models) : models[j].name = models[k].name => j = k
      /\ app \in Identifiers /\ app \in Texts
  BY ModelsOfGood
<1>i. i \in 1..Len(models) /\ models[i].name = op.modelName
  OBVIOUS
<1> HIDE DEF models, app
<1>2. fs \in Seq(FieldType) /\ DOMAIN fs = 1..L /\ L \in Nat
  BY <1>1, <1>i, FieldsApart
<1>3. f \in FieldType /\ f.name = op.field.name /\ (op.field.column # "" => f = op.field)
  BY ColumnOf
<1> HIDE DEF f
<1>4. /\ longer \in Seq(FieldType) /\ Len(longer) = L + 1 /\ DOMAIN longer = 1..(L + 1)
      /\ longer[L + 1] = f /\ \A b \in 1..L : longer[b] = fs[b]
  <2>1. fs \in Seq(FieldType) /\ f \in FieldType
    BY <1>2, <1>3
  <2> HIDE DEF fs
  <2> QED
    BY <2>1, AppendIs
<1>a. Append(fs, op.field) \in Seq(FieldType)
  <2> HIDE DEF fs
  <2> QED
    BY <1>2
<1>5. ModelIndex(op, models) = {i}
  BY <1>1, <1>i DEF ModelIndex
<1>6. AddFieldForward(op, s) = UNION {WithModels(s, app, [models EXCEPT ![j].fields = Append(@, op.field)]) :
                                  j \in {k \in {i} : \A b \in DOMAIN models[k].fields : ~clash(models[k].fields[b])}}
  BY <1>5 DEF AddFieldForward, models, app
<1>7. /\ (\A b \in 1..L : ~clash(fs[b])) => AddFieldForward(op, s) = WithModels(s, app, old)
      /\ ~(\A b \in 1..L : ~clash(fs[b])) => AddFieldForward(op, s) = {}
  <2>1. (\A b \in DOMAIN models[i].fields : ~clash(models[i].fields[b])) <=> (\A b \in 1..L : ~clash(fs[b]))
    BY <1>2
  <2> HIDE DEF clash
  <2> DEFINE chosen == {k \in {i} : \A b \in DOMAIN models[k].fields : ~clash(models[k].fields[b])}
  <2>2. /\ (\A b \in 1..L : ~clash(fs[b])) => chosen = {i}
        /\ ~(\A b \in 1..L : ~clash(fs[b])) => chosen = {}
    BY <2>1
  <2> DEFINE W(j) == WithModels(s, app, [models EXCEPT ![j].fields = Append(@, op.field)])
  <2>3. AddFieldForward(op, s) = UNION {W(j) : j \in chosen}
    BY <1>6 DEF clash
  <2>4. W(i) = WithModels(s, app, old)
    OBVIOUS
  <2> HIDE DEF chosen, W, old
  <2>5. UNION {W(j) : j \in {i}} = W(i) /\ UNION {W(j) : j \in {}} = {}
    OBVIOUS
  <2> QED
    BY <2>2, <2>3, <2>4, <2>5
<1>8. /\ DOMAIN old = 1..Len(models)
      /\ old[i] = WithFields(models[i], Append(fs, op.field))
      /\ \A j \in 1..Len(models) : j # i => old[j] = models[j]
  BY <1>1, <1>i DEF WithFields
<1> HIDE DEF old, longer, L
<1>9. /\ NormalizeModel(app, WithFields(models[i], Append(fs, op.field))) = WithFields(models[i], longer)
      /\ NormalModel(WithFields(models[i], longer))
  BY <1>1, <1>i, AppendedFieldNormal DEF longer, f
<1>10. /\ new \in Seq(ModelType) /\ Len(new) = Len(models)
       /\ new[i] = WithFields(models[i], longer)
       /\ \A j \in 1..Len(models) : j # i => new[j] = models[j]
  <2>1. models \in Seq(ModelType) /\ longer \in Seq(FieldType)
    BY <1>1, <1>4
  <2> QED
    BY <2>1, <1>i, ReplaceFieldsIs
<1>11. (ValidModels(new) <=> ValidFields(longer)) /\ (ValidModels(new) => NormalModels(new))
  BY <1>4, <1>9, <1>i, ReplacedValid DEF models
<1> HIDE DEF new
<1>12. \A j \in 1..Len(new) : NormalizeModel(app, old[j]) = new[j]
  <2> SUFFICES ASSUME NEW j \in 1..Len(models)
               PROVE  NormalizeModel(app, old[j]) = new[j]
    BY <1>10
  <2>1. CASE j = i
    BY <2>1, <1>8, <1>9, <1>10
  <2>2. CASE j # i
    <3>1. NormalizeModel(app, models[j]) = models[j]
      BY <1>1, NormalFixed DEF ValidModel
    <3> QED
      BY <2>2, <3>1, <1>8, <1>10
  <2> QED
    BY <2>1, <2>2
<1>13. /\ ValidModels(new) => WithModels(s, app, old) = {WithSchema(s, SchemaOf(app, new))}
       /\ ~ValidModels(new) => WithModels(s, app, old) = {}
  <2>1. DOMAIN old = 1..Len(new) /\ new \in Seq(ModelType)
    BY <1>8, <1>10
  <2>2. /\ app \in Identifiers /\ ValidModels(new) => WithModels(s, app, old) = {WithSchema(s, SchemaOf(app, new))}
        /\ ~(app \in Identifiers /\ ValidModels(new)) => WithModels(s, app, old) = {}
    BY <2>1, <1>12, WithModelsIs
  <2>3. app \in Identifiers
    BY <1>1
  <2> QED
    BY <2>2, <2>3
<1>14. ASSUME ValidFields(longer), NEW b \in 1..L PROVE ~clash(fs[b])
  <2>1. /\ Distinct([k \in DOMAIN longer |-> longer[k].name])
        /\ Distinct([k \in DOMAIN longer |-> longer[k].column])
    BY <1>14 DEF ValidFields
  <2>2. b \in 1..(L + 1) /\ L + 1 \in 1..(L + 1) /\ b # L + 1
    BY <1>2
  <2>3. fs[b].name # f.name /\ fs[b].column # f.column
    BY <2>1, <2>2, <1>4 DEF Distinct
  <2> QED
    BY <2>3, <1>3
<1> HIDE DEF clash
<1>15. /\ ValidFields(longer) => AddFieldForward(op, s) = {WithSchema(s, SchemaOf(app, new))}
       /\ ~ValidFields(longer) => AddFieldForward(op, s) = {}
  BY <1>7, <1>11, <1>13, <1>14
<1> QED
  BY <1>1, <1>4, <1>9, <1>11, <1>15 DEF new, longer, f, models, app

\* AddField adds one field to one model and nothing else changes; the field is no primary key.
LEMMA AddFieldForwardStep ==
    ASSUME NEW s, GoodState(s), NEW op, op.kind = "AddField", op.field \in FieldType,
           NEW t \in AddFieldForward(op, s)
    PROVE  \E i \in 1..Len(ModelsOf(s, op.app)) :
               LET models == ModelsOf(s, op.app)
                   longer == Append(models[i].fields, WithColumn(op.field))
               IN  /\ models[i].name = op.modelName
                   /\ longer \in Seq(FieldType)
                   /\ GoodState(t)
                   /\ ModelsOf(t, op.app) = ReplaceFields(models, i, longer)
                   /\ \A a : a # op.app => ModelsOf(t, a) = ModelsOf(s, a)
                   /\ Facts(t) = Facts(s) \union Made(op)
                   /\ Facts(s) \intersect Made(op) = {}
                   /\ op.field.kind # "auto"
<1> DEFINE app == op.app
           models == ModelsOf(s, app)
           f == WithColumn(op.field)
<1>1. PICK i \in DOMAIN models : models[i].name = op.modelName
  BY DEF AddFieldForward, ModelIndex
<1>2. /\ models \in Seq(ModelType) /\ DOMAIN models = 1..Len(models)
      /\ \A j \in 1..Len(models) : models[j] \in ModelType /\ NormalModel(models[j]) /\ ValidModel(models[j])
      /\ \A j, k \in 1..Len(models) : models[j].name = models[k].name => j = k
  BY ModelsOfGood
<1> DEFINE fs == models[i].fields
           L == Len(fs)
           longer == Append(fs, f)
           new == ReplaceFields(models, i, longer)
<1>i. i \in 1..Len(models)
  BY <1>1, <1>2
<1>3. /\ longer \in Seq(FieldType)
      /\ app \in Identifiers /\ app \in Texts
      /\ ValidFields(longer) => NormalModels(new) /\ AddFieldForward(op, s) = {WithSchema(s, SchemaOf(app, new))}
      /\ ~ValidFields(longer) => AddFieldForward(op, s) = {}
  BY <1>1, <1>i, AddFieldForwardIs
<1>4. ValidFields(longer) /\ NormalModels(new) /\ t = WithSchema(s, SchemaOf(app, new))
  BY <1>3
<1>5. /\ GoodState(t) /\ ModelsOf(t, app) = new
      /\ \A a : a # app => ModelsOf(t, a) = ModelsOf(s, a)
      /\ OtherFacts(t, app) = OtherFacts(s, app)
  <2> HIDE DEF new, app
  <2> QED
    BY <1>3, <1>4, SchemaReplaced
<1>6. /\ FactsOf(app, models) = FactsBut(app, models, i) \union {HeadFact(app, models[i])} \union FieldFacts(app, models[i].name, Range(models[i].fields))
      /\ FactsOf(app, new) = FactsBut(app, models, i) \union {HeadFact(app, models[i])}
                                \union FieldFacts(app, models[i].name, Range(longer))
  <2>1. models \in Seq(ModelType) /\ longer \in Seq(FieldType)
    BY <1>2, <1>3
  <2> HIDE DEF longer, models, app
  <2>4. new = ReplaceFields(models, i, longer)
    OBVIOUS
  <2> HIDE DEF new
  <2>2. FactsOf(app, new) =
            FactsBut(app, models, i) \union {HeadFact(app, models[i])}
                \union FieldFacts(app, models[i].name, Range(longer))
    BY <2>1, <2>4, <1>i, ReplacedFacts
  <2>3. FactsOf(app, models) = FactsBut(app, models, i) \union {HeadFact(app, models[i])}
                                 \union FieldFacts(app, models[i].name, Range(models[i].fields))
    BY <2>1, <1>i, FactsAround
  <2> QED
    BY <2>2, <2>3
<1>7. Facts(s) = OtherFacts(s, app) \union FactsOf(app, models) /\ Facts(t) = OtherFacts(t, app) \union FactsOf(app, new)
  BY <1>5, FactsSplit
<1>8. fs \in Seq(FieldType) /\ DOMAIN fs = 1..L /\ L \in Nat /\ f \in FieldType
  <2>1. f \in FieldType
    BY ColumnOf
  <2> QED
    BY <2>1, <1>2, <1>i, FieldsApart
<1>k. \E a \in DOMAIN fs : \A b \in DOMAIN fs : fs[b].primaryKey <=> b = a
  <2>1. ValidFields(fs)
    BY <1>2, <1>i DEF ValidModel
  <2> QED
    BY <2>1, Zenon DEF ValidFields
<1> HIDE DEF fs, f, models, app
<1>9. /\ DOMAIN longer = 1..(L + 1)
      /\ longer[L + 1] = f /\ \A b \in 1..L : longer[b] = fs[b]
  BY <1>8
<1>s. /\ \A b \in 1..(L + 1) : b = L + 1 \/ b \in 1..L
      /\ \A b \in 1..L : b \in 1..(L + 1) /\ b # L + 1
      /\ L + 1 \in 1..(L + 1)
  BY <1>8
<1> HIDE DEF L, longer
<1>10. Range(longer) = Range(fs) \union {f}
  BY <1>8, <1>9, <1>s DEF Range
<1>11. Made(op) = {<<"field", app, models[i].name, f>>}
  BY <1>1 DEF Made, f, app
<1> HIDE DEF new
<1>12. Facts(t) = Facts(s) \union Made(op)
  <2>1. FieldFacts(app, models[i].name, Range(longer))
            = FieldFacts(app, models[i].name, Range(models[i].fields)) \union {<<"field", app, models[i].name, f>>}
    BY <1>10 DEF FieldFacts, fs
  <2> QED
    BY <2>1, <1>5, <1>6, <1>7, <1>11
<1>13. f \notin Range(fs)
  <2>1. Distinct([k \in DOMAIN longer |-> longer[k].name])
    BY <1>4 DEF ValidFields
  <2>2. \A b \in 1..L : fs[b].name # f.name
    BY <2>1, <1>9, <1>s DEF Distinct
  <2> QED
    BY <2>2, <1>8 DEF Range
<1>14. Facts(s) \intersect Made(op) = {}
  <2>1. SUFFICES ASSUME <<"field", app, models[i].name, f>> \in Facts(s) PROVE FALSE
    BY <1>11
  <2>2. PICK j \in 1..Len(models) : models[j].name = models[i].name /\ f \in Range(models[j].fields)
    BY <2>1, <1>2, InFacts DEF models
  <2>3. j = i
    BY <2>2, <1>2, <1>i
  <2> QED
    BY <2>2, <2>3, <1>13 DEF fs
<1>15. op.field.kind # "auto"
  <2>1. SUFFICES ASSUME f.kind = "auto" PROVE FALSE
    BY ColumnOf DEF f
  <2>2. ValidField(f)
    BY <1>4, <1>9, <1>s DEF ValidFields
  <2>3. f.primaryKey
    BY <2>1, <2>2 DEF ValidField
  <2>4. PICK a \in DOMAIN fs : \A b \in DOMAIN fs : fs[b].primaryKey <=> b = a
    BY <1>k, Zenon
  <2>5. fs[a].primaryKey
    BY <2>4, Zenon
  <2>6. \E c \in DOMAIN longer : \A b \in DOMAIN longer : longer[b].primaryKey <=> b = c
    BY <1>4, Zenon DEF ValidFields
  <2>7. PICK c \in DOMAIN longer : \A b \in DOMAIN longer : longer[b].primaryKey <=> b = c
    BY <2>6, Zenon
  <2>8. a \in DOMAIN longer /\ L + 1 \in DOMAIN longer /\ a # L + 1 /\ longer[a] = fs[a] /\ longer[L + 1] = f
    BY <1>8, <1>9, <1>s, <2>4
  <2>9. longer[a].primaryKey /\ longer[L + 1].primaryKey
    BY <2>3, <2>5, <2>8, Zenon
  <2>10. a = c /\ L + 1 = c
    BY <2>7, <2>8, <2>9, Zenon
  <2> QED
    BY <2>8, <2>10, Zenon
<1> QED
  BY <1>1, <1>3, <1>5, <1>12, <1>14, <1>15, <1>i DEF new, longer, fs, f, models, app

----------------------------------------------------------------------------
\* Backward: one model or one field less

LEMMA WithoutRange ==
    ASSUME NEW T, NEW s \in Seq(T), NEW j \in 1..Len(s), \A a \in 1..Len(s) : s[a] = s[j] => a = j
    PROVE  Range(Without(s, j)) = Range(s) \ {s[j]}
<1>1. /\ \A i \in 1..(Len(s) - 1) : From(j, i) \in 1..Len(s) /\ From(j, i) # j /\ Without(s, j)[i] = s[From(j, i)]
      /\ \A a \in 1..Len(s) : a # j => \E i \in 1..(Len(s) - 1) : From(j, i) = a
  BY WithoutFrom DEF LeavesOut
<1>2. DOMAIN Without(s, j) = 1..(Len(s) - 1) /\ DOMAIN s = 1..Len(s)
  BY DEF Without
<1> DEFINE left == Without(s, j)
<1> HIDE DEF left
<1>3. ASSUME NEW x \in Range(left) PROVE x \in Range(s) \ {s[j]}
  <2>1. PICK i \in 1..(Len(s) - 1) : x = left[i]
    BY <1>2 DEF Range, left
  <2>2. From(j, i) \in 1..Len(s) /\ From(j, i) # j /\ x = s[From(j, i)]
    BY <1>1, <2>1 DEF left
  <2> QED
    BY <2>2, <1>2 DEF Range
<1>4. ASSUME NEW x \in Range(s), x # s[j] PROVE x \in Range(left)
  <2>1. PICK a \in 1..Len(s) : x = s[a]
    BY <1>2 DEF Range
  <2>2. a # j
    BY <2>1, <1>4
  <2>3. PICK i \in 1..(Len(s) - 1) : From(j, i) = a
    BY <1>1, <2>2
  <2>4. x = left[i]
    BY <1>1, <2>1, <2>3 DEF left
  <2> QED
    BY <2>3, <2>4, <1>2 DEF Range, left
<1> QED
  BY <1>3, <1>4 DEF left

\* The models that are left are in normal form.
LEMMA WithoutNormal ==
    ASSUME NEW s, GoodState(s), NEW app, NEW j \in 1..Len(ModelsOf(s, app))
    PROVE  LET models == ModelsOf(s, app)
           IN  /\ Without(models, j) \in Seq(ModelType)
               /\ FactsOf(app, Without(models, j)) = FactsBut(app, models, j)
               /\ Without(models, j) # <<>> => NormalModels(Without(models, j))
<1> DEFINE models == ModelsOf(s, app)
           L == Len(models)
           left == Without(models, j)
<1>1. /\ models \in Seq(ModelType) /\ DOMAIN models = 1..L /\ L \in Nat
      /\ \A i \in 1..L : NormalModel(models[i]) /\ ValidModel(models[i])
      /\ \A a, b \in 1..L :
            \/ a = b
            \/ models[a].name # models[b].name /\ models[a].goName # models[b].goName /\ models[a].dbTable # models[b].dbTable
  BY ModelsOfGood
<1>j. j \in 1..L
  OBVIOUS
<1> HIDE DEF models
<1>2. /\ \A i \in 1..(L - 1) : From(j, i) \in 1..L /\ From(j, i) # j /\ left[i] = models[From(j, i)]
      /\ \A a, b \in 1..(L - 1) : From(j, a) = From(j, b) => a = b
      /\ \A a \in 1..L : a # j => \E i \in 1..(L - 1) : From(j, i) = a
  <2>1. LeavesOut(models, j)
    <3>1. models \in Seq(ModelType)
      BY <1>1
    <3> QED
      BY <3>1, <1>j, WithoutFrom
  <2> QED
    BY <2>1 DEF LeavesOut
<1>3. DOMAIN left = 1..(L - 1)
  BY DEF Without
<1>4. \A i \in 1..L : models[i] \in ModelType
  BY <1>1, ModelsSeq
<1> HIDE DEF left
<1>5. left \in Seq(ModelType) /\ Len(left) = L - 1
  <2>1. left = [i \in 1..(L - 1) |-> left[i]] /\ \A i \in 1..(L - 1) : left[i] \in ModelType
    <3>1. left = [i \in 1..(L - 1) |-> left[i]]
      BY DEF left, Without
    <3> QED
      BY <3>1, <1>2, <1>4
  <2>2. L - 1 \in Nat
    BY <1>1, <1>j
  <2> QED
    BY <2>1, <2>2
<1>6. FactsOf(app, left) = FactsBut(app, models, j)
  <2>1. \A i \in 1..(L - 1) : \E k \in (1..L) \ {j} : left[i] = models[k]
    BY <1>2
  <2>2. \A k \in (1..L) \ {j} : \E i \in 1..(L - 1) : left[i] = models[k]
    BY <1>2
  <2> HIDE DEF L
  <2>3. ASSUME NEW x PROVE x \in FactsOf(app, left) <=> x \in FactsBut(app, models, j)
    <3>1. x \in FactsOf(app, left) <=> \E i \in 1..(L - 1) : x \in ModelFacts(app, left[i])
      BY <1>3 DEF FactsOf
    <3>2. x \in FactsBut(app, models, j) <=> \E k \in (1..L) \ {j} : x \in ModelFacts(app, models[k])
      BY DEF FactsBut, L
    <3> QED
      BY <2>1, <2>2, <3>1, <3>2
  <2> QED
    BY <2>3
<1>7. ASSUME left # <<>> PROVE NormalModels(left)
  <2>1. \A i \in 1..(L - 1) : NormalModel(left[i]) /\ ValidModel(left[i])
    BY <1>1, <1>2
  <2>2. \A a, b \in 1..(L - 1) :
            \/ a = b
            \/ left[a].name # left[b].name /\ left[a].goName # left[b].goName /\ left[a].dbTable # left[b].dbTable
    <3> SUFFICES ASSUME NEW a \in 1..(L - 1), NEW b \in 1..(L - 1), a # b
                 PROVE  left[a].name # left[b].name /\ left[a].goName # left[b].goName /\ left[a].dbTable # left[b].dbTable
      OBVIOUS
    <3>1. /\ From(j, a) \in 1..L /\ From(j, b) \in 1..L /\ From(j, a) # From(j, b)
          /\ left[a] = models[From(j, a)] /\ left[b] = models[From(j, b)]
      BY <1>2
    <3> QED
      BY <1>1, <3>1
  <2>3. /\ Distinct([i \in DOMAIN left |-> left[i].name])
        /\ Distinct([i \in DOMAIN left |-> left[i].goName])
        /\ Distinct([i \in DOMAIN left |-> left[i].dbTable])
    BY <1>3, <2>2 DEF Distinct
  <2>4. ValidModels(left)
    BY <1>3, <1>7, <2>1, <2>3 DEF ValidModels, ValidModel
  <2> QED
    BY <1>5, <2>1, <2>4 DEF NormalModels
<1> QED
  BY <1>5, <1>6, <1>7 DEF left, models

\* CreateModel backward takes the model away if it is still what was created.
LEMMA CreateBackwardIs ==
    ASSUME NEW s, GoodState(s), NEW op, op.kind = "CreateModel", op.app \in Texts, op.model \in ModelType,
           NEW n \in NormalizedSingleModel(op.app, op.model),
           NEW j \in 1..Len(ModelsOf(s, op.app)), ModelsOf(s, op.app)[j] = n
    PROVE  LET left == Without(ModelsOf(s, op.app), j)
           IN  CreateModelBackward(op, s) =
                   {IF left = <<>> THEN WithoutApp(s, op.app) ELSE WithSchema(s, SchemaOf(op.app, left))}
<1> DEFINE app == op.app
           models == ModelsOf(s, app)
           L == Len(models)
           left == Without(models, j)
           others == {m \in Range(models) : m.name # n.name}
<1>1. NormalizedSingleModel(app, op.model) = {n} /\ app \in Identifiers
  BY SingleModel
<1>2. /\ models \in Seq(ModelType) /\ DOMAIN models = 1..L /\ L \in Nat
      /\ \A a, b \in 1..L : models[a].name = models[b].name => a = b
  BY ModelsOfGood
<1>j. j \in 1..L /\ models[j] = n
  OBVIOUS
<1>3. left \in Seq(ModelType) /\ (left # <<>> => NormalModels(left))
  BY WithoutNormal
<1>n. app \in Texts
  OBVIOUS
<1>4. CreateModelBackward(op, s) =
          UNION {IF Keep(models, {m \in Range(models) : m.name # want.name}) = <<>> THEN {WithoutApp(s, app)}
                 ELSE WithModels(s, app, Keep(models, {m \in Range(models) : m.name # want.name})) :
                     want \in {x \in {n} : Contains(models, x)}}
  BY <1>1 DEF CreateModelBackward
<1> HIDE DEF models, app
<1>5. Contains(models, n)
  BY <1>2, <1>j DEF Contains
<1>6. CreateModelBackward(op, s) = IF Keep(models, others) = <<>> THEN {WithoutApp(s, app)} ELSE WithModels(s, app, Keep(models, others))
  <2> DEFINE W(want) == IF Keep(models, {m \in Range(models) : m.name # want.name}) = <<>> THEN {WithoutApp(s, app)}
                        ELSE WithModels(s, app, Keep(models, {m \in Range(models) : m.name # want.name}))
             wants == {x \in {n} : Contains(models, x)}
  <2>1. CreateModelBackward(op, s) = UNION {W(want) : want \in wants}
    BY <1>4
  <2>2. wants = {n}
    BY <1>5
  <2>3. W(n) = IF Keep(models, others) = <<>> THEN {WithoutApp(s, app)} ELSE WithModels(s, app, Keep(models, others))
    OBVIOUS
  <2> HIDE DEF W, wants
  <2>4. UNION {W(want) : want \in {n}} = W(n)
    OBVIOUS
  <2> QED
    BY <2>1, <2>2, <2>3, <2>4
<1>7. \A i \in 1..L : models[i] \in others <=> i # j
  BY <1>2, <1>j DEF Range
<1>8. Keep(models, others) = left
  <2> HIDE DEF others, L
  <2> QED
    BY <1>2, <1>7, <1>j, KeepAllBut DEF L
<1> HIDE DEF left, others
<1>9. ASSUME left # <<>> PROVE WithModels(s, app, left) = {WithSchema(s, SchemaOf(app, left))}
  <2>1. NormalModels(left) /\ ValidModels(left) /\ DOMAIN left = 1..Len(left)
    BY <1>3, <1>9, ModelsSeq DEF NormalModels
  <2>2. \A i \in 1..Len(left) : NormalizeModel(app, left[i]) = left[i]
    BY <2>1, <1>n, NormalModelsFixed
  <2> QED
    BY <1>1, <1>3, <2>1, <2>2, WithModelsIs
<1>10. CreateModelBackward(op, s) = {IF left = <<>> THEN WithoutApp(s, app) ELSE WithSchema(s, SchemaOf(app, left))}
  BY <1>6, <1>8, <1>9
<1> QED
  BY <1>10 DEF left, models, app

LEMMA CreateBackwardStep ==
    ASSUME NEW s, GoodState(s), NEW op, op.kind = "CreateModel", op.app \in Texts, op.model \in ModelType,
           NEW t \in CreateModelBackward(op, s)
    PROVE  /\ GoodState(t)
           /\ Made(op) \subseteq Facts(s)
           /\ Facts(t) = Facts(s) \ Made(op)
           /\ \A a : a # op.app => ModelsOf(t, a) = ModelsOf(s, a)
           /\ \A i \in DOMAIN ModelsOf(t, op.app) : \E k \in DOMAIN ModelsOf(s, op.app) :
                 ModelsOf(t, op.app)[i] = ModelsOf(s, op.app)[k]
<1> DEFINE app == op.app
           models == ModelsOf(s, app)
           L == Len(models)
<1>1. PICK n \in NormalizedSingleModel(app, op.model) : Contains(models, n)
  BY DEF CreateModelBackward
<1>2. /\ models \in Seq(ModelType) /\ DOMAIN models = 1..L /\ L \in Nat
      /\ \A a, b \in 1..L : models[a].name = models[b].name => a = b
  BY ModelsOfGood
<1>3. PICK j \in 1..L : models[j] = n
  BY <1>1 DEF Contains
<1> DEFINE left == Without(models, j)
<1>4. t = IF left = <<>> THEN WithoutApp(s, app) ELSE WithSchema(s, SchemaOf(app, left))
  BY <1>1, <1>3, CreateBackwardIs
<1>5. /\ left \in Seq(ModelType)
      /\ FactsOf(app, left) = FactsBut(app, models, j)
      /\ left # <<>> => NormalModels(left)
  BY <1>3, WithoutNormal
<1>6. NormalizedSingleModel(app, op.model) = {n} /\ app \in Identifiers /\ app \in Texts
  BY SingleModel
<1>f. /\ \A i \in 1..(L - 1) : \E k \in 1..L : left[i] = models[k]
      /\ DOMAIN left = 1..(L - 1)
  <2>1. DOMAIN left = 1..(L - 1)
    BY DEF Without
  <2>2. ASSUME NEW i \in 1..(L - 1) PROVE \E k \in 1..L : left[i] = models[k]
    <3>1. From(j, i) \in 1..L /\ left[i] = models[From(j, i)]
      BY <1>2, <1>3, WithoutFrom DEF LeavesOut
    <3> HIDE DEF left, models
    <3> QED
      BY <3>1
  <2> QED
    BY <2>1, <2>2
<1> HIDE DEF left, models, L, app
<1>7. /\ GoodState(t) /\ ModelsOf(t, app) = left
      /\ \A a : a # app => ModelsOf(t, a) = ModelsOf(s, a)
      /\ OtherFacts(t, app) = OtherFacts(s, app)
  <2>1. CASE left = <<>>
    BY <2>1, <1>4, SchemaRemoved
  <2>2. CASE left # <<>>
    BY <2>2, <1>4, <1>5, <1>6, SchemaReplaced
  <2> QED
    BY <2>1, <2>2
<1>8. Facts(s) = OtherFacts(s, app) \union FactsOf(app, models) /\ Facts(t) = OtherFacts(s, app) \union FactsBut(app, models, j)
  BY <1>5, <1>7, FactsSplit DEF models
<1>9. FactsOf(app, models) = FactsBut(app, models, j) \union ModelFacts(app, n)
  BY <1>2, <1>3 DEF FactsOf, FactsBut
<1>10. Made(op) = ModelFacts(app, n)
  BY <1>6 DEF Made, app
<1>11. (OtherFacts(s, app) \union FactsBut(app, models, j)) \intersect ModelFacts(app, n) = {}
  <2> SUFFICES ASSUME NEW x \in ModelFacts(app, n), x \in OtherFacts(s, app) \union FactsBut(app, models, j)
               PROVE  FALSE
    OBVIOUS
  <2>1. x[2] = app /\ x[3] = n.name
    BY DEF ModelFacts
  <2>2. x \notin OtherFacts(s, app)
    BY <2>1, FactsSplit
  <2>3. PICK k \in (1..L) \ {j} : x \in ModelFacts(app, models[k])
    BY <2>2 DEF FactsBut, L
  <2>4. x[3] = models[k].name
    BY <2>3 DEF ModelFacts
  <2> QED
    BY <2>1, <2>3, <2>4, <1>2, <1>3
<1>12. Facts(t) = Facts(s) \ Made(op) /\ Made(op) \subseteq Facts(s)
  BY <1>8, <1>9, <1>10, <1>11
<1>13. \A i \in DOMAIN ModelsOf(t, app) : \E k \in DOMAIN models : ModelsOf(t, app)[i] = models[k]
  BY <1>7, <1>f, <1>2
<1> QED
  BY <1>7, <1>12, <1>13 DEF models, app

\* A model without one of its fields, not its primary key, is in normal form.
LEMMA FieldsLeft ==
    ASSUME NEW m, NormalModel(m), ValidModel(m), NEW j \in 1..Len(m.fields), m.fields[j].kind # "auto"
    PROVE  LET left == Without(m.fields, j)
           IN  /\ left \in Seq(FieldType)
               /\ ValidFields(left)
               /\ NormalModel(WithFields(m, left))
               /\ Range(left) = Range(m.fields) \ {m.fields[j]}
<1> DEFINE fs == m.fields
           L == Len(fs)
           left == Without(fs, j)
<1>1. /\ fs \in Seq(FieldType) /\ DOMAIN fs = 1..L /\ L \in Nat
      /\ \A a \in 1..L : /\ fs[a] \in FieldType /\ WithColumn(fs[a]) = fs[a]
                         /\ {fs[a].name, fs[a].column} \subseteq Identifiers
                         /\ fs[a].goName \in GoIdentifiers
                         /\ ValidField(fs[a])
      /\ \A a, b \in 1..L :
            \/ a = b
            \/ fs[a].name # fs[b].name /\ fs[a].goName # fs[b].goName /\ fs[a].column # fs[b].column
  BY FieldsApart
<1>k. \E a \in DOMAIN fs : \A b \in DOMAIN fs : fs[b].primaryKey <=> b = a
  BY Zenon DEF ValidModel, ValidFields
<1>j. j \in 1..L /\ fs[j].kind # "auto"
  OBVIOUS
<1>m. m \in ModelType /\ m.dbTable # <<>>
  BY DEF NormalModel
<1> HIDE DEF fs
<1>2. /\ \A i \in 1..(L - 1) : From(j, i) \in 1..L /\ From(j, i) # j /\ left[i] = fs[From(j, i)]
      /\ \A a, b \in 1..(L - 1) : From(j, a) = From(j, b) => a = b
      /\ \A a \in 1..L : a # j => \E i \in 1..(L - 1) : From(j, i) = a
  <2>1. fs \in Seq(FieldType) /\ j \in 1..Len(fs)
    BY <1>1, <1>j
  <2>2. /\ \A i \in 1..(Len(fs) - 1) : From(j, i) \in 1..Len(fs) /\ From(j, i) # j /\ Without(fs, j)[i] = fs[From(j, i)]
        /\ \A a, b \in 1..(Len(fs) - 1) : From(j, a) = From(j, b) => a = b
        /\ \A a \in 1..Len(fs) : a # j => \E i \in 1..(Len(fs) - 1) : From(j, i) = a
    <3>1. LeavesOut(fs, j)
      BY <2>1, WithoutFrom
    <3> QED
      BY <3>1 DEF LeavesOut
  <2> QED
    BY <2>2
<1>3. DOMAIN left = 1..(L - 1)
  BY DEF Without
<1>r. Range(left) = Range(fs) \ {fs[j]}
  <2>1. fs \in Seq(FieldType) /\ \A a \in 1..L : fs[a] = fs[j] => a = j
    BY <1>1, <1>j
  <2> QED
    BY <2>1, <1>j, WithoutRange
<1>5. left \in Seq(FieldType) /\ Len(left) = L - 1
  <2>1. left = [i \in 1..(L - 1) |-> left[i]]
    BY DEF left, Without
  <2> HIDE DEF left
  <2>2. \A i \in 1..(L - 1) : left[i] \in FieldType
    BY <1>1, <1>2
  <2>3. L - 1 \in Nat
    BY <1>1, <1>j
  <2> QED
    BY <2>1, <2>2, <2>3
<1> HIDE DEF left
<1>6. \A i \in 1..(L - 1) : /\ WithColumn(left[i]) = left[i]
                            /\ {left[i].name, left[i].column} \subseteq Identifiers
                            /\ left[i].goName \in GoIdentifiers
                            /\ ValidField(left[i])
  <2> SUFFICES ASSUME NEW i \in 1..(L - 1)
               PROVE  /\ WithColumn(left[i]) = left[i]
                      /\ {left[i].name, left[i].column} \subseteq Identifiers
                      /\ left[i].goName \in GoIdentifiers
                      /\ ValidField(left[i])
    OBVIOUS
  <2>1. From(j, i) \in 1..L /\ left[i] = fs[From(j, i)]
    BY <1>2
  <2> QED
    BY <1>1, <2>1
<1>7. \A a, b \in 1..(L - 1) :
            \/ a = b
            \/ left[a].name # left[b].name /\ left[a].goName # left[b].goName /\ left[a].column # left[b].column
  <2> SUFFICES ASSUME NEW a \in 1..(L - 1), NEW b \in 1..(L - 1), a # b
               PROVE  left[a].name # left[b].name /\ left[a].goName # left[b].goName /\ left[a].column # left[b].column
    OBVIOUS
  <2>1. /\ From(j, a) \in 1..L /\ From(j, b) \in 1..L /\ From(j, a) # From(j, b)
        /\ left[a] = fs[From(j, a)] /\ left[b] = fs[From(j, b)]
    BY <1>2
  <2> QED
    BY <1>1, <2>1
<1>8. /\ Distinct([i \in DOMAIN left |-> left[i].name])
      /\ Distinct([i \in DOMAIN left |-> left[i].goName])
      /\ Distinct([i \in DOMAIN left |-> left[i].column])
  BY <1>3, <1>7 DEF Distinct
<1>9. \E a \in DOMAIN left : \A b \in DOMAIN left : left[b].primaryKey <=> b = a
  <2>1. PICK a \in DOMAIN fs : \A b \in DOMAIN fs : fs[b].primaryKey <=> b = a
    BY <1>k, Zenon
  <2>2. fs[a].primaryKey
    BY <2>1, Zenon
  <2>3. ~fs[j].primaryKey
    BY <1>1, <1>j DEF ValidField
  <2>4. a # j
    BY <2>2, <2>3, Zenon
  <2>5. PICK i \in 1..(L - 1) : From(j, i) = a
    BY <1>1, <1>2, <2>1, <2>4
  <2>6. i \in DOMAIN left
    BY <2>5, <1>3
  <2>7. ASSUME NEW b \in DOMAIN left PROVE left[b].primaryKey <=> b = i
    <3>1. b \in 1..(L - 1) /\ From(j, b) \in DOMAIN fs /\ left[b] = fs[From(j, b)]
      BY <2>7, <1>1, <1>2, <1>3
    <3>2. fs[From(j, b)].primaryKey <=> From(j, b) = a
      BY <2>1, <3>1, Zenon
    <3>3. From(j, b) = a <=> b = i
      BY <2>5, <3>1, <1>2
    <3> QED
      BY <3>1, <3>2, <3>3, Zenon
  <2> QED
    BY <2>6, <2>7, Zenon
<1>10. ValidFields(left)
  <2>1. \A i \in DOMAIN left : /\ {left[i].name, left[i].column} \subseteq Identifiers
                               /\ left[i].goName \in GoIdentifiers
                               /\ ValidField(left[i])
    BY <1>3, <1>6
  <2> QED
    BY <2>1, <1>8, <1>9, Zenon DEF ValidFields
<1>11. NormalModel(WithFields(m, left))
  <2>1. /\ WithFields(m, left) \in ModelType /\ WithFields(m, left).dbTable = m.dbTable
        /\ WithFields(m, left).fields = left
    BY <1>5, <1>m, WithFieldsIs
  <2> QED
    BY <2>1, <1>m, <1>5, <1>6 DEF NormalModel
<1> QED
  BY <1>5, <1>10, <1>11, <1>r DEF left, fs

\* AddField backward takes the field away that it finds under the name.
TakesBack(s, op, i, j) ==
    LET models == ModelsOf(s, op.app)
        left == Without(models[i].fields, j)
        new == ReplaceFields(models, i, left)
    IN  /\ left \in Seq(FieldType)
        /\ Range(left) = Range(models[i].fields) \ {WithColumn(op.field)}
        /\ op.app \in Identifiers /\ op.app \in Texts
        /\ NormalModels(new)
        /\ AddFieldBackward(op, s) = {WithSchema(s, SchemaOf(op.app, new))}

LEMMA AddFieldBackwardIs ==
    ASSUME NEW s, GoodState(s), NEW op, op.kind = "AddField", op.field \in FieldType, op.field.kind # "auto",
           NEW i \in 1..Len(ModelsOf(s, op.app)), ModelsOf(s, op.app)[i].name = op.modelName,
           NEW j \in 1..Len(ModelsOf(s, op.app)[i].fields),
           ModelsOf(s, op.app)[i].fields[j] = WithColumn(op.field)
    PROVE  TakesBack(s, op, i, j)
<1> DEFINE app == op.app
           models == ModelsOf(s, app)
           f == WithColumn(op.field)
           fs == models[i].fields
           left == Without(fs, j)
           new == ReplaceFields(models, i, left)
           others == {h \in Range(fs) : h.name # op.field.name}
           old == [models EXCEPT ![i].fields = Keep(@, {h \in Range(@) : h.name # op.field.name})]
<1>1. /\ models \in Seq(ModelType) /\ DOMAIN models = 1..Len(models) /\ models # <<>>
      /\ \A k \in 1..Len(models) : models[k] \in ModelType /\ NormalModel(models[k]) /\ ValidModel(models[k])
      /\ \A a, b \in 1..Len(models) : models[a].name = models[b].name => a = b
      /\ app \in Identifiers /\ app \in Texts
  BY ModelsOfGood
<1>i. i \in 1..Len(models) /\ models[i].name = op.modelName /\ j \in 1..Len(fs) /\ fs[j] = f
  OBVIOUS
<1>3. f \in FieldType /\ f.name = op.field.name /\ f.kind # "auto"
  BY ColumnOf
<1>b. AddFieldBackward(op, s) =
          UNION {WithModels(s, app, [models EXCEPT ![k].fields = Keep(@, {h \in Range(@) : h.name # op.field.name})]) :
                     k \in {x \in ModelIndex(op, models) : Contains(models[x].fields, f)}}
  BY DEF AddFieldBackward
<1> HIDE DEF models, app, f
<1>2. /\ fs \in Seq(FieldType) /\ DOMAIN fs = 1..Len(fs)
      /\ \A a, b \in 1..Len(fs) : a = b \/ fs[a].name # fs[b].name
  BY <1>1, <1>i, FieldsApart
<1>4. /\ left \in Seq(FieldType) /\ ValidFields(left)
      /\ NormalModel(WithFields(models[i], left))
      /\ Range(left) = Range(fs) \ {f}
  BY <1>1, <1>i, <1>3, FieldsLeft
<1>5. Keep(fs, others) = left
  <2>1. \A a \in 1..Len(fs) : fs[a] \in others <=> a # j
    BY <1>2, <1>3, <1>i DEF Range
  <2>2. fs \in Seq(FieldType)
    BY <1>2
  <2> HIDE DEF others, fs
  <2> QED
    BY <2>1, <2>2, <1>i, KeepAllBut
<1>6. AddFieldBackward(op, s) = WithModels(s, app, old)
  <2> DEFINE W(k) == WithModels(s, app, [models EXCEPT ![k].fields = Keep(@, {h \in Range(@) : h.name # op.field.name})])
             chosen == {x \in ModelIndex(op, models) : Contains(models[x].fields, f)}
  <2>1. ModelIndex(op, models) = {i}
    BY <1>1, <1>i DEF ModelIndex
  <2>2. Contains(models[i].fields, f)
    BY <1>i DEF Contains
  <2>3. chosen = {i}
    BY <2>1, <2>2
  <2>4. AddFieldBackward(op, s) = UNION {W(k) : k \in chosen}
    BY <1>b
  <2>5. W(i) = WithModels(s, app, old)
    OBVIOUS
  <2> HIDE DEF W, chosen, old
  <2>6. UNION {W(k) : k \in {i}} = W(i)
    OBVIOUS
  <2> QED
    BY <2>3, <2>4, <2>5, <2>6
<1>7. old = new
  <2>1. old = [models EXCEPT ![i] = [models[i] EXCEPT !.fields = Keep(fs, others)]]
    OBVIOUS
  <2>2. old = [models EXCEPT ![i] = [models[i] EXCEPT !.fields = left]]
    BY <2>1, <1>5
  <2> QED
    BY <2>2 DEF ReplaceFields, WithFields
<1>8. ValidModels(new) /\ NormalModels(new)
  <2>1. left \in Seq(FieldType) /\ i \in 1..Len(ModelsOf(s, op.app)) /\ NormalModel(WithFields(ModelsOf(s, op.app)[i], left))
    BY <1>4, <1>i DEF models, app
  <2> HIDE DEF left
  <2>2. /\ ValidModels(ReplaceFields(ModelsOf(s, op.app), i, left)) <=> ValidFields(left)
        /\ ValidModels(ReplaceFields(ModelsOf(s, op.app), i, left)) => NormalModels(ReplaceFields(ModelsOf(s, op.app), i, left))
    BY <2>1, ReplacedValid
  <2> QED
    BY <2>2, <1>4 DEF models, app
<1> HIDE DEF new, old
<1>9. WithModels(s, app, new) = {WithSchema(s, SchemaOf(app, new))}
  <2>1. new \in Seq(ModelType) /\ DOMAIN new = 1..Len(new)
    BY <1>8, ModelsSeq DEF NormalModels
  <2>2. app \in Texts /\ app \in Identifiers
    BY <1>1
  <2>3. \A k \in 1..Len(new) : NormalizeModel(app, new[k]) = new[k]
    BY <2>2, <1>8, NormalModelsFixed
  <2> QED
    BY <1>8, <2>1, <2>2, <2>3, WithModelsIs
<1> QED
  BY <1>1, <1>4, <1>6, <1>7, <1>8, <1>9 DEF new, left, f, models, app, TakesBack

LEMMA AddFieldBackwardStep ==
    ASSUME NEW s, GoodState(s), NEW op, op.kind = "AddField", op.field \in FieldType, op.field.kind # "auto",
           NEW t \in AddFieldBackward(op, s)
    PROVE  \E i \in 1..Len(ModelsOf(s, op.app)) : \E j \in 1..Len(ModelsOf(s, op.app)[i].fields) :
               LET models == ModelsOf(s, op.app)
                   left == Without(models[i].fields, j)
               IN  /\ models[i].name = op.modelName
                   /\ models[i].fields[j] = WithColumn(op.field)
                   /\ left \in Seq(FieldType)
                   /\ GoodState(t)
                   /\ ModelsOf(t, op.app) = ReplaceFields(models, i, left)
                   /\ \A a : a # op.app => ModelsOf(t, a) = ModelsOf(s, a)
                   /\ Made(op) \subseteq Facts(s)
                   /\ Facts(t) = Facts(s) \ Made(op)
<1> DEFINE app == op.app
           models == ModelsOf(s, app)
           f == WithColumn(op.field)
<1>1. PICK i \in DOMAIN models : models[i].name = op.modelName /\ Contains(models[i].fields, f)
  BY DEF AddFieldBackward, ModelIndex
<1>2. /\ models \in Seq(ModelType) /\ DOMAIN models = 1..Len(models)
      /\ \A k \in 1..Len(models) : models[k] \in ModelType /\ NormalModel(models[k]) /\ ValidModel(models[k])
      /\ \A a, b \in 1..Len(models) : models[a].name = models[b].name => a = b
  BY ModelsOfGood
<1> DEFINE fs == models[i].fields
<1>3. PICK j \in 1..Len(fs) : fs[j] = f
  BY <1>1 DEF Contains
<1> DEFINE left == Without(fs, j)
           new == ReplaceFields(models, i, left)
<1>i. i \in 1..Len(models)
  BY <1>1, <1>2
<1>4. /\ left \in Seq(FieldType)
      /\ Range(left) = Range(fs) \ {f}
      /\ app \in Identifiers /\ app \in Texts
      /\ NormalModels(new)
      /\ AddFieldBackward(op, s) = {WithSchema(s, SchemaOf(app, new))}
  <2>1. /\ i \in 1..Len(ModelsOf(s, op.app)) /\ ModelsOf(s, op.app)[i].name = op.modelName
        /\ j \in 1..Len(ModelsOf(s, op.app)[i].fields)
        /\ ModelsOf(s, op.app)[i].fields[j] = WithColumn(op.field)
    BY <1>1, <1>3, <1>i
  <2>2. TakesBack(s, op, i, j)
    BY <2>1, AddFieldBackwardIs
  <2> QED
    BY <2>2 DEF TakesBack
<1>5. /\ GoodState(t) /\ ModelsOf(t, app) = new
      /\ \A a : a # app => ModelsOf(t, a) = ModelsOf(s, a)
      /\ OtherFacts(t, app) = OtherFacts(s, app)
  <2> HIDE DEF new, app
  <2>1. t = WithSchema(s, SchemaOf(app, new))
    BY <1>4 DEF app
  <2> QED
    BY <2>1, <1>4, SchemaReplaced
<1> HIDE DEF left, models, app, f
<1>6. /\ FactsOf(app, models) = FactsBut(app, models, i) \union {HeadFact(app, models[i])}
                                  \union FieldFacts(app, models[i].name, Range(fs))
      /\ FactsOf(app, new) = FactsBut(app, models, i) \union {HeadFact(app, models[i])}
                                  \union FieldFacts(app, models[i].name, Range(left))
  <2>1. models \in Seq(ModelType) /\ left \in Seq(FieldType)
    BY <1>2, <1>4
  <2>2. new = ReplaceFields(models, i, left)
    OBVIOUS
  <2> HIDE DEF new
  <2>3. FactsOf(app, new) = FactsBut(app, models, i) \union {HeadFact(app, models[i])}
                                  \union FieldFacts(app, models[i].name, Range(left))
    BY <2>1, <2>2, <1>i, ReplacedFacts
  <2>4. FactsOf(app, models) = FactsBut(app, models, i) \union {HeadFact(app, models[i])}
                                  \union FieldFacts(app, models[i].name, Range(fs))
    BY <2>1, <1>i, FactsAround
  <2> QED
    BY <2>3, <2>4
<1>7. Facts(s) = OtherFacts(s, app) \union FactsOf(app, models) /\ Facts(t) = OtherFacts(t, app) \union FactsOf(app, new)
  <2> HIDE DEF new
  <2> QED
    BY <1>5, FactsSplit DEF models
<1> HIDE DEF new
<1>8. Made(op) = {<<"field", app, models[i].name, f>>}
  BY <1>1 DEF Made, f, app
<1>9. f \in Range(fs)
  <2>1. DOMAIN fs = 1..Len(fs)
    BY <1>2, <1>i, FieldsApart
  <2> QED
    BY <2>1, <1>3 DEF Range
<1>10. FieldFacts(app, models[i].name, Range(left)) = FieldFacts(app, models[i].name, Range(fs)) \ Made(op)
  <2> HIDE DEF fs
  <2> QED
    BY <1>4, <1>8 DEF FieldFacts, fs
<1>11. Made(op) \subseteq FieldFacts(app, models[i].name, Range(fs))
  <2> HIDE DEF fs
  <2> QED
    BY <1>8, <1>9 DEF FieldFacts
<1>12. (OtherFacts(s, app) \union FactsBut(app, models, i) \union {HeadFact(app, models[i])}) \intersect Made(op) = {}
  <2> DEFINE x == <<"field", app, models[i].name, f>>
  <2>1. x[1] = "field" /\ x[2] = app /\ x[3] = models[i].name
    OBVIOUS
  <2> HIDE DEF x
  <2>2. x \notin OtherFacts(s, app)
    BY <2>1, FactsSplit
  <2>3. x # HeadFact(app, models[i])
    BY <2>1 DEF HeadFact
  <2>4. x \notin FactsBut(app, models, i)
    <3>1. \A k : \A y \in ModelFacts(app, models[k]) : y[3] = models[k].name
      BY DEF ModelFacts
    <3> QED
      BY <2>1, <3>1, <1>2, <1>i DEF FactsBut
  <2> QED
    BY <2>2, <2>3, <2>4, <1>8 DEF x
<1>13. Facts(t) = Facts(s) \ Made(op) /\ Made(op) \subseteq Facts(s)
  BY <1>5, <1>6, <1>7, <1>10, <1>11, <1>12
<1> QED
  BY <1>1, <1>3, <1>4, <1>5, <1>13, <1>i DEF new, left, fs, f, models, app

----------------------------------------------------------------------------
\* What a set of operations leaves behind, in whatever order they were performed

At(defs, p) == defs[p[1]][p[2]]

Positions(defs, K) == UNION {{<<k, i>> : i \in 1..Len(defs[k])} : k \in K}

KnownOperation(op) ==
    /\ op.app \in Texts
    /\ op.kind \in {"CreateModel", "AddField"}
    /\ op.kind = "CreateModel" => op.model \in ModelType
    /\ op.kind = "AddField" => op.field \in FieldType

Begins(a, b) == Len(a) <= Len(b) /\ \A i \in 1..Len(a) : a[i] = b[i]

\* A model of that name has the fields of n first.
StartsWith(s, app, n) ==
    \A i \in DOMAIN ModelsOf(s, app) :
        ModelsOf(s, app)[i].name = n.name => Begins(n.fields, ModelsOf(s, app)[i].fields)

(***************************************************************************)
(* The operations at the places P of the definitions have been performed:  *)
(* the facts of the state are those they made, every fact made once; what  *)
(* CreateModel made is still the beginning of its model.                   *)
(***************************************************************************)
Holds(defs, P, s) ==
    /\ GoodState(s)
    /\ Facts(s) = UNION {Made(At(defs, p)) : p \in P}
    /\ \A p, q \in P : p # q => Made(At(defs, p)) \intersect Made(At(defs, q)) = {}
    /\ \A p \in P : At(defs, p).kind = "CreateModel" =>
          \E n \in NormalizedSingleModel(At(defs, p).app, At(defs, p).model) : StartsWith(s, At(defs, p).app, n)
    /\ \A p \in P : At(defs, p).kind = "AddField" => At(defs, p).field.kind # "auto"

LEMMA BeginsTrans ==
    ASSUME NEW T, NEW a \in Seq(T), NEW b \in Seq(T), NEW c \in Seq(T), Begins(a, b), Begins(b, c)
    PROVE  Begins(a, c)
<1>1. Len(a) \in Nat /\ Len(b) \in Nat /\ Len(c) \in Nat
  OBVIOUS
<1> QED
  BY <1>1 DEF Begins

LEMMA BeginsAppend ==
    ASSUME NEW T, NEW a \in Seq(T), NEW x \in T
    PROVE  Begins(a, Append(a, x)) /\ Begins(a, a)
BY AppendIs DEF Begins

\* What a known CreateModel makes: the model itself and its fields.
LEMMA MadeByCreate ==
    ASSUME NEW op, KnownOperation(op), op.kind = "CreateModel",
           NEW n \in NormalizedSingleModel(op.app, op.model)
    PROVE  /\ NormalizedSingleModel(op.app, op.model) = {n}
           /\ NormalModel(n) /\ ValidModel(n) /\ n.name = op.model.name
           /\ n.fields \in Seq(FieldType)
           /\ Made(op) = ModelFacts(op.app, n)
           /\ HeadFact(op.app, n) \in Made(op)
<1>1. NormalizedSingleModel(op.app, op.model) = {n} /\ NormalModel(n) /\ ValidModel(n) /\ n.name = op.model.name
  BY SingleModel DEF KnownOperation
<1>2. Made(op) = ModelFacts(op.app, n)
  BY <1>1 DEF Made
<1>3. n.fields \in Seq(FieldType)
  BY <1>1, FieldsApart
<1> QED
  BY <1>1, <1>2, <1>3, ModelFactsIs

\* A model with the name of a created one is in the state.
LEMMA CreatedThere ==
    ASSUME NEW s, NEW op, KnownOperation(op), op.kind = "CreateModel", Made(op) \subseteq Facts(s),
           NEW n \in NormalizedSingleModel(op.app, op.model)
    PROVE  \E i \in DOMAIN ModelsOf(s, op.app) :
               /\ ModelsOf(s, op.app)[i].name = n.name
               /\ ModelsOf(s, op.app)[i].goName = n.goName
               /\ ModelsOf(s, op.app)[i].dbTable = n.dbTable
<1>1. <<"model", op.app, n.name, <<n.goName, n.dbTable>>>> \in Facts(s)
  BY MadeByCreate DEF HeadFact
<1>2. PICK i \in DOMAIN ModelsOf(s, op.app) :
          ModelsOf(s, op.app)[i].name = n.name
          /\ <<n.goName, n.dbTable>> = <<ModelsOf(s, op.app)[i].goName, ModelsOf(s, op.app)[i].dbTable>>
  BY <1>1, InFacts
<1> QED
  BY <1>2

\* One more operation: its facts come to the others.
LEMMA FactsAdded ==
    ASSUME NEW defs, NEW P, NEW s, Holds(defs, P, s), NEW p, NEW t,
           Facts(t) = Facts(s) \union Made(At(defs, p)), Facts(s) \intersect Made(At(defs, p)) = {}
    PROVE  /\ Facts(t) = UNION {Made(At(defs, q)) : q \in P \union {p}}
           /\ \A q, r \in P \union {p} : q # r => Made(At(defs, q)) \intersect Made(At(defs, r)) = {}
<1>1. /\ Facts(s) = UNION {Made(At(defs, q)) : q \in P}
      /\ \A q, r \in P : q # r => Made(At(defs, q)) \intersect Made(At(defs, r)) = {}
  BY DEF Holds
<1>2. \A q \in P : Made(At(defs, q)) \intersect Made(At(defs, p)) = {}
  BY <1>1
<1>3. UNION {Made(At(defs, q)) : q \in P \union {p}} = (UNION {Made(At(defs, q)) : q \in P}) \union Made(At(defs, p))
  OBVIOUS
<1>4. \A q, r \in P \union {p} : q # r => Made(At(defs, q)) \intersect Made(At(defs, r)) = {}
  BY <1>1, <1>2
<1> QED
  BY <1>1, <1>3, <1>4

\* One operation less.
LEMMA FactsTaken ==
    ASSUME NEW defs, NEW P, NEW s, Holds(defs, P, s), NEW p \in P, NEW t,
           Facts(t) = Facts(s) \ Made(At(defs, p))
    PROVE  Facts(t) = UNION {Made(At(defs, q)) : q \in P \ {p}}
<1>1. /\ Facts(s) = UNION {Made(At(defs, q)) : q \in P}
      /\ \A q, r \in P : q # r => Made(At(defs, q)) \intersect Made(At(defs, r)) = {}
  BY DEF Holds
<1>2. UNION {Made(At(defs, q)) : q \in P} = (UNION {Made(At(defs, q)) : q \in P \ {p}}) \union Made(At(defs, p))
  OBVIOUS
<1>3. (UNION {Made(At(defs, q)) : q \in P \ {p}}) \intersect Made(At(defs, p)) = {}
  BY <1>1
<1> QED
  BY <1>1, <1>2, <1>3

\* Models that only get longer still start as they did.
LEMMA StartsKept ==
    ASSUME NEW s, GoodState(s), NEW t, GoodState(t), NEW app, NEW n, n.fields \in Seq(FieldType),
           StartsWith(s, app, n),
           \A i \in DOMAIN ModelsOf(t, app) : ModelsOf(t, app)[i].name = n.name =>
               \E k \in DOMAIN ModelsOf(s, app) :
                   /\ ModelsOf(s, app)[k].name = n.name
                   /\ Begins(ModelsOf(s, app)[k].fields, ModelsOf(t, app)[i].fields)
    PROVE  StartsWith(t, app, n)
<1> SUFFICES ASSUME NEW i \in DOMAIN ModelsOf(t, app), ModelsOf(t, app)[i].name = n.name
             PROVE  Begins(n.fields, ModelsOf(t, app)[i].fields)
  BY DEF StartsWith
<1>1. PICK k \in DOMAIN ModelsOf(s, app) :
          /\ ModelsOf(s, app)[k].name = n.name
          /\ Begins(ModelsOf(s, app)[k].fields, ModelsOf(t, app)[i].fields)
  OBVIOUS
<1>2. Begins(n.fields, ModelsOf(s, app)[k].fields)
  BY <1>1 DEF StartsWith
<1>3. ModelsOf(s, app)[k].fields \in Seq(FieldType)
  BY ModelsOfGood, FieldsApart
<1>4. ModelsOf(t, app)[i].fields \in Seq(FieldType)
  BY ModelsOfGood, FieldsApart
<1> QED
  BY <1>1, <1>2, <1>3, <1>4, BeginsTrans

\* The rest of Holds after one more operation.
LEMMA HoldsMore ==
    ASSUME NEW defs, NEW P, NEW s, Holds(defs, P, s), NEW p, NEW t, GoodState(t),
           \A q \in P : KnownOperation(At(defs, q)),
           Facts(t) = Facts(s) \union Made(At(defs, p)), Facts(s) \intersect Made(At(defs, p)) = {},
           \A q \in P : At(defs, q).kind = "CreateModel" =>
               \A n \in NormalizedSingleModel(At(defs, q).app, At(defs, q).model) :
                   StartsWith(s, At(defs, q).app, n) => StartsWith(t, At(defs, q).app, n),
           At(defs, p).kind = "CreateModel" =>
               \E n \in NormalizedSingleModel(At(defs, p).app, At(defs, p).model) : StartsWith(t, At(defs, p).app, n),
           At(defs, p).kind = "AddField" => At(defs, p).field.kind # "auto"
    PROVE  Holds(defs, P \union {p}, t)
<1>1. /\ Facts(t) = UNION {Made(At(defs, q)) : q \in P \union {p}}
      /\ \A q, r \in P \union {p} : q # r => Made(At(defs, q)) \intersect Made(At(defs, r)) = {}
  BY FactsAdded
<1>2. \A q \in P \union {p} : At(defs, q).kind = "CreateModel" =>
          \E n \in NormalizedSingleModel(At(defs, q).app, At(defs, q).model) : StartsWith(t, At(defs, q).app, n)
  BY DEF Holds
<1>3. \A q \in P \union {p} : At(defs, q).kind = "AddField" => At(defs, q).field.kind # "auto"
  BY DEF Holds
<1> QED
  BY <1>1, <1>2, <1>3 DEF Holds

LEMMA CreateForwardHolds ==
    ASSUME NEW defs, NEW P, NEW s, Holds(defs, P, s), NEW p,
           \A q \in P \union {p} : KnownOperation(At(defs, q)), At(defs, p).kind = "CreateModel",
           NEW t \in CreateModelForward(At(defs, p), s)
    PROVE  Holds(defs, P \union {p}, t)
<1> DEFINE op == At(defs, p)
           app == op.app
<1>1. GoodState(s) /\ KnownOperation(op) /\ app \in Texts /\ op.model \in ModelType
  BY DEF Holds, KnownOperation
<1>2. PICK n \in NormalizedSingleModel(app, op.model) :
          /\ GoodState(t)
          /\ ModelsOf(t, app) = Append(ModelsOf(s, app), n)
          /\ \A a : a # app => ModelsOf(t, a) = ModelsOf(s, a)
          /\ \A i \in DOMAIN ModelsOf(s, app) : ModelsOf(s, app)[i].name # n.name
          /\ Facts(t) = Facts(s) \union Made(op)
          /\ Facts(s) \intersect Made(op) = {}
  BY <1>1, CreateForwardStep
<1> DEFINE models == ModelsOf(s, app)
           L == Len(models)
<1>3. n \in ModelType /\ n.fields \in Seq(FieldType)
  BY <1>1, MadeByCreate DEF NormalModel
<1>4. /\ models \in Seq(ModelType) /\ DOMAIN models = 1..L /\ L \in Nat
      /\ \A i \in 1..L : models[i].fields \in Seq(FieldType)
  BY <1>1, ModelsOfGood, FieldsApart
<1>5. /\ DOMAIN ModelsOf(t, app) = 1..(L + 1)
      /\ ModelsOf(t, app)[L + 1] = n
      /\ \A i \in 1..L : ModelsOf(t, app)[i] = models[i]
  BY <1>2, <1>3, <1>4, AppendIs
<1>s. \A i \in 1..(L + 1) : i = L + 1 \/ i \in 1..L
  BY <1>4
<1> HIDE DEF models, L, app, op
<1>6. StartsWith(t, app, n)
  <2>1. Begins(n.fields, n.fields)
    BY <1>3, BeginsTrans DEF Begins
  <2>2. \A i \in 1..L : ModelsOf(t, app)[i].name # n.name
    BY <1>2, <1>4, <1>5 DEF models
  <2> QED
    BY <2>1, <2>2, <1>5, <1>s DEF StartsWith
<1>7. ASSUME NEW q \in P, At(defs, q).kind = "CreateModel",
             NEW m \in NormalizedSingleModel(At(defs, q).app, At(defs, q).model),
             StartsWith(s, At(defs, q).app, m)
      PROVE  StartsWith(t, At(defs, q).app, m)
  <2> DEFINE a == At(defs, q).app
  <2>1. KnownOperation(At(defs, q)) /\ Made(At(defs, q)) \subseteq Facts(s)
    BY DEF Holds
  <2>2. m.fields \in Seq(FieldType)
    BY <2>1, <1>7, MadeByCreate
  <2>3. CASE a # app
    <3>1. ModelsOf(t, a) = ModelsOf(s, a)
      BY <2>3, <1>2
    <3> QED
      BY <3>1, <1>7 DEF StartsWith
  <2>4. CASE a = app
    <3>1. PICK k \in DOMAIN models : models[k].name = m.name
      BY <2>1, <2>4, <1>7, CreatedThere DEF models
    <3>2. n.name # m.name
      BY <3>1, <1>2 DEF models
    <3>3. \A i \in 1..(L + 1) : ModelsOf(t, app)[i].name = m.name => i \in 1..L
      BY <3>2, <1>5, <1>s
    <3> QED
      BY <3>3, <2>4, <1>4, <1>5, <1>7 DEF StartsWith, models
  <2> QED
    BY <2>3, <2>4
<1>8. op.kind = "CreateModel"
  BY DEF op
<1> QED
  BY <1>2, <1>6, <1>7, <1>8, HoldsMore DEF op, app

LEMMA AddFieldForwardHolds ==
    ASSUME NEW defs, NEW P, NEW s, Holds(defs, P, s), NEW p,
           \A q \in P \union {p} : KnownOperation(At(defs, q)), At(defs, p).kind = "AddField",
           NEW t \in AddFieldForward(At(defs, p), s)
    PROVE  Holds(defs, P \union {p}, t)
<1> DEFINE op == At(defs, p)
           app == op.app
           models == ModelsOf(s, app)
           f == WithColumn(op.field)
<1>1. GoodState(s) /\ KnownOperation(op) /\ op.kind = "AddField" /\ op.field \in FieldType /\ f \in FieldType
  BY ColumnOf DEF Holds, KnownOperation
<1>2. PICK i \in 1..Len(models) :
          /\ models[i].name = op.modelName
          /\ Append(models[i].fields, f) \in Seq(FieldType)
          /\ GoodState(t)
          /\ ModelsOf(t, app) = ReplaceFields(models, i, Append(models[i].fields, f))
          /\ \A a : a # app => ModelsOf(t, a) = ModelsOf(s, a)
          /\ Facts(t) = Facts(s) \union Made(op)
          /\ Facts(s) \intersect Made(op) = {}
          /\ op.field.kind # "auto"
  BY <1>1, AddFieldForwardStep
<1> DEFINE longer == Append(models[i].fields, f)
<1>3. /\ models \in Seq(ModelType) /\ DOMAIN models = 1..Len(models)
      /\ \A k \in 1..Len(models) : models[k] \in ModelType /\ models[k].fields \in Seq(FieldType)
  BY <1>1, ModelsOfGood, FieldsApart
<1>b. \A k \in 1..Len(models) : Begins(models[k].fields, models[k].fields)
  BY <1>1, <1>3, BeginsAppend
<1>c. Begins(models[i].fields, longer)
  BY <1>1, <1>3, BeginsAppend
<1> HIDE DEF longer, models, app, f, op
<1>4. /\ DOMAIN ModelsOf(t, app) = 1..Len(models)
      /\ ModelsOf(t, app)[i] = WithFields(models[i], longer)
      /\ \A j \in 1..Len(models) : j # i => ModelsOf(t, app)[j] = models[j]
      /\ \A j \in 1..Len(models) : ModelsOf(t, app)[j].name = models[j].name
  <2>1. ModelsOf(t, app) = ReplaceFields(models, i, longer) /\ longer \in Seq(FieldType)
    BY <1>2 DEF longer
  <2>2. models \in Seq(ModelType)
    BY <1>3
  <2> QED
    BY <2>1, <2>2, ReplaceFieldsIs
<1>5. ModelsOf(t, app)[i].fields = longer
  <2>1. longer \in Seq(FieldType) /\ models[i] \in ModelType
    BY <1>2, <1>3 DEF longer
  <2> QED
    BY <2>1, <1>4, WithFieldsIs
<1>6. \A j \in 1..Len(models) : Begins(models[j].fields, ModelsOf(t, app)[j].fields)
  BY <1>4, <1>5, <1>b, <1>c
<1>7. ASSUME NEW q \in P, At(defs, q).kind = "CreateModel",
             NEW m \in NormalizedSingleModel(At(defs, q).app, At(defs, q).model),
             StartsWith(s, At(defs, q).app, m)
      PROVE  StartsWith(t, At(defs, q).app, m)
  <2> DEFINE a == At(defs, q).app
  <2>1. KnownOperation(At(defs, q))
    OBVIOUS
  <2>2. m.fields \in Seq(FieldType)
    BY <2>1, <1>7, MadeByCreate
  <2>3. CASE a # app
    <3>1. ModelsOf(t, a) = ModelsOf(s, a)
      BY <2>3, <1>2
    <3> QED
      BY <3>1, <1>7 DEF StartsWith
  <2>4. CASE a = app
    <3>1. \A j \in DOMAIN ModelsOf(t, app) : ModelsOf(t, app)[j].name = m.name =>
              \E k \in DOMAIN ModelsOf(s, app) :
                   /\ ModelsOf(s, app)[k].name = m.name
                   /\ Begins(ModelsOf(s, app)[k].fields, ModelsOf(t, app)[j].fields)
      BY <1>3, <1>4, <1>6 DEF models
    <3>2. StartsWith(s, app, m)
      BY <2>4, <1>7
    <3>3. StartsWith(t, app, m)
      BY <3>1, <3>2, <2>2, <1>1, <1>2, StartsKept
    <3> QED
      BY <3>3, <2>4
  <2> QED
    BY <2>3, <2>4
<1> QED
  BY <1>1, <1>2, <1>7, HoldsMore DEF op, app

\* The rest of Holds after one operation less.
LEMMA HoldsLess ==
    ASSUME NEW defs, NEW P, NEW s, Holds(defs, P, s), NEW p \in P, NEW t, GoodState(t),
           Facts(t) = Facts(s) \ Made(At(defs, p)),
           \A q \in P \ {p} : At(defs, q).kind = "CreateModel" =>
               \A n \in NormalizedSingleModel(At(defs, q).app, At(defs, q).model) :
                   StartsWith(s, At(defs, q).app, n) => StartsWith(t, At(defs, q).app, n)
    PROVE  Holds(defs, P \ {p}, t)
<1>1. Facts(t) = UNION {Made(At(defs, q)) : q \in P \ {p}}
  BY FactsTaken
<1>2. \A q \in P \ {p} : At(defs, q).kind = "CreateModel" =>
          \E n \in NormalizedSingleModel(At(defs, q).app, At(defs, q).model) : StartsWith(t, At(defs, q).app, n)
  BY DEF Holds
<1>3. /\ \A q, r \in P \ {p} : q # r => Made(At(defs, q)) \intersect Made(At(defs, r)) = {}
      /\ \A q \in P \ {p} : At(defs, q).kind = "AddField" => At(defs, q).field.kind # "auto"
  BY DEF Holds
<1> QED
  BY <1>1, <1>2, <1>3 DEF Holds

LEMMA CreateBackwardHolds ==
    ASSUME NEW defs, NEW P, NEW s, Holds(defs, P, s), NEW p \in P,
           \A q \in P : KnownOperation(At(defs, q)), At(defs, p).kind = "CreateModel",
           NEW t \in CreateModelBackward(At(defs, p), s)
    PROVE  Holds(defs, P \ {p}, t)
<1> DEFINE op == At(defs, p)
           app == op.app
<1>1. GoodState(s) /\ KnownOperation(op) /\ op.kind = "CreateModel" /\ app \in Texts /\ op.model \in ModelType
  BY DEF Holds, KnownOperation
<1>2. /\ GoodState(t)
      /\ Facts(t) = Facts(s) \ Made(op)
      /\ \A a : a # app => ModelsOf(t, a) = ModelsOf(s, a)
      /\ \A i \in DOMAIN ModelsOf(t, app) : \E k \in DOMAIN ModelsOf(s, app) :
            ModelsOf(t, app)[i] = ModelsOf(s, app)[k]
  BY <1>1, CreateBackwardStep
<1> HIDE DEF app, op
<1>3. ASSUME NEW a, NEW n, StartsWith(s, a, n) PROVE StartsWith(t, a, n)
  <2>1. CASE a # app
    <3>1. ModelsOf(t, a) = ModelsOf(s, a)
      BY <2>1, <1>2
    <3> QED
      BY <3>1, <1>3 DEF StartsWith
  <2>2. CASE a = app
    BY <2>2, <1>2, <1>3 DEF StartsWith
  <2> QED
    BY <2>1, <2>2
<1> QED
  BY <1>2, <1>3, HoldsLess DEF op

LEMMA AddFieldBackwardHolds ==
    ASSUME NEW defs, NEW P, NEW s, Holds(defs, P, s), NEW p \in P,
           \A q \in P : KnownOperation(At(defs, q)), At(defs, p).kind = "AddField",
           NEW t \in AddFieldBackward(At(defs, p), s)
    PROVE  Holds(defs, P \ {p}, t)
<1> DEFINE op == At(defs, p)
           app == op.app
           models == ModelsOf(s, app)
           f == WithColumn(op.field)
<1>1. GoodState(s) /\ KnownOperation(op) /\ op.kind = "AddField" /\ op.field \in FieldType /\ op.field.kind # "auto"
  BY DEF Holds, KnownOperation
<1> DEFINE Taken(i, j) ==
          /\ models[i].name = op.modelName
          /\ models[i].fields[j] = f
          /\ Without(models[i].fields, j) \in Seq(FieldType)
          /\ GoodState(t)
          /\ ModelsOf(t, app) = ReplaceFields(models, i, Without(models[i].fields, j))
          /\ \A a : a # app => ModelsOf(t, a) = ModelsOf(s, a)
          /\ Facts(t) = Facts(s) \ Made(op)
<1>a. PICK i \in 1..Len(models) : \E j \in 1..Len(models[i].fields) : Taken(i, j)
  BY <1>1, AddFieldBackwardStep
<1>2. PICK j \in 1..Len(models[i].fields) : Taken(i, j)
  BY <1>a
<1> DEFINE fs == models[i].fields
           left == Without(fs, j)
<1>3. /\ models \in Seq(ModelType) /\ DOMAIN models = 1..Len(models)
      /\ \A k \in 1..Len(models) : models[k] \in ModelType /\ models[k].fields \in Seq(FieldType)
  BY <1>1, ModelsOfGood, FieldsApart
<1>4. fs \in Seq(FieldType) /\ LeavesOut(fs, j) /\ fs[j] = f /\ j \in 1..Len(fs) /\ i \in 1..Len(models)
  BY <1>2, <1>3, WithoutFrom
<1> HIDE DEF left, fs, models, app, f, op
<1>5. /\ DOMAIN ModelsOf(t, app) = 1..Len(models)
      /\ ModelsOf(t, app)[i] = WithFields(models[i], left)
      /\ \A k \in 1..Len(models) : k # i => ModelsOf(t, app)[k] = models[k]
      /\ \A k \in 1..Len(models) : ModelsOf(t, app)[k].name = models[k].name
  <2>1. ModelsOf(t, app) = ReplaceFields(models, i, left) /\ left \in Seq(FieldType)
    BY <1>2 DEF left, fs
  <2>2. models \in Seq(ModelType)
    BY <1>3
  <2> QED
    BY <2>1, <2>2, <1>4, ReplaceFieldsIs
<1>6. ModelsOf(t, app)[i].fields = left
  <2>1. left \in Seq(FieldType) /\ models[i] \in ModelType
    BY <1>2, <1>3, <1>4 DEF left, fs
  <2> QED
    BY <2>1, <1>5, WithFieldsIs
<1>7. ASSUME NEW q \in P \ {p}, At(defs, q).kind = "CreateModel",
             NEW m \in NormalizedSingleModel(At(defs, q).app, At(defs, q).model),
             StartsWith(s, At(defs, q).app, m)
      PROVE  StartsWith(t, At(defs, q).app, m)
  <2> DEFINE a == At(defs, q).app
  <2>1. KnownOperation(At(defs, q)) /\ Made(At(defs, q)) \intersect Made(op) = {}
    BY DEF Holds, op
  <2>2. m.fields \in Seq(FieldType) /\ Made(At(defs, q)) = ModelFacts(a, m)
    BY <2>1, <1>7, MadeByCreate
  <2>3. CASE a # app
    <3>1. ModelsOf(t, a) = ModelsOf(s, a)
      BY <2>3, <1>2
    <3> QED
      BY <3>1, <1>7 DEF StartsWith
  <2>4. CASE a = app /\ m.name # models[i].name
    <3>1. \A k \in DOMAIN ModelsOf(t, app) : ModelsOf(t, app)[k].name = m.name =>
              k \in DOMAIN models /\ models[k].name = m.name /\ ModelsOf(t, app)[k] = models[k]
      BY <2>4, <1>3, <1>5
    <3> QED
      BY <3>1, <2>4, <1>7 DEF StartsWith, models
  <2>5. CASE a = app /\ m.name = models[i].name
    <3>1. Begins(m.fields, fs)
      BY <2>5, <1>3, <1>4, <1>7 DEF StartsWith, models, fs
    <3>2. Len(m.fields) \in Nat /\ Len(fs) \in Nat /\ DOMAIN m.fields = 1..Len(m.fields)
      BY <2>2, <1>4
    <3>3. Made(op) = {<<"field", app, m.name, f>>}
      BY <2>5, <1>1, <1>2 DEF Made, f, app, op
    <3>4. f \notin Range(m.fields)
      BY <3>3, <2>1, <2>2, <2>5 DEF ModelFacts
    <3>5. Len(m.fields) < j
      <4>1. SUFFICES ASSUME j \in 1..Len(m.fields) PROVE FALSE
        BY <3>2, <1>4
      <4>2. m.fields[j] = f
        BY <4>1, <3>1, <1>4 DEF Begins
      <4> QED
        BY <4>1, <4>2, <3>2, <3>4 DEF Range
    <3>6. Begins(m.fields, left)
      <4>1. Len(left) = Len(fs) - 1
        <5>1. left \in Seq(FieldType) /\ DOMAIN left = 1..(Len(fs) - 1) /\ Len(fs) - 1 \in Nat
          BY <1>2, <1>4, <3>2 DEF left, fs, LeavesOut
        <5> QED
          BY <5>1
      <4>2. \A b \in 1..Len(m.fields) : left[b] = fs[b]
        <5>1. \A b \in 1..Len(m.fields) : b \in 1..(Len(fs) - 1) /\ From(j, b) = b
          BY <3>2, <3>5, <1>4 DEF From
        <5>2. \A b \in 1..(Len(fs) - 1) : left[b] = fs[From(j, b)]
          BY <1>4 DEF LeavesOut, left
        <5> QED
          BY <5>1, <5>2
      <4> QED
        BY <4>1, <4>2, <3>1, <3>2, <3>5, <1>4 DEF Begins
    <3>7. \A k \in DOMAIN ModelsOf(t, app) : ModelsOf(t, app)[k].name = m.name => k = i
      BY <2>5, <1>1, <1>3, <1>4, <1>5, ModelsOfGood DEF models
    <3> QED
      BY <3>6, <3>7, <2>5, <1>6 DEF StartsWith
  <2> QED
    BY <2>3, <2>4, <2>5
<1> QED
  BY <1>2, <1>7, HoldsLess DEF op

----------------------------------------------------------------------------
\* What has been possible once stays possible

\* Part of what a state holds, and one operation of the rest.
LEMMA Within ==
    ASSUME NEW defs, NEW P, NEW s, Holds(defs, P, s), NEW Q, NEW B, Holds(defs, Q, B),
           P \subseteq Q, NEW p \in Q, p \notin P
    PROVE  /\ Facts(s) \subseteq Facts(B)
           /\ Made(At(defs, p)) \subseteq Facts(B)
           /\ Facts(s) \intersect Made(At(defs, p)) = {}
<1>1. Facts(s) = UNION {Made(At(defs, q)) : q \in P} /\ Facts(B) = UNION {Made(At(defs, q)) : q \in Q}
  BY DEF Holds
<1>2. \A q \in P : Made(At(defs, q)) \intersect Made(At(defs, p)) = {}
  BY DEF Holds
<1> QED
  BY <1>1, <1>2

LEMMA CreateForwardPossible ==
    ASSUME NEW defs, NEW P, NEW s, Holds(defs, P, s), NEW Q, NEW B, Holds(defs, Q, B),
           P \subseteq Q, NEW p \in Q, p \notin P, KnownOperation(At(defs, p)), At(defs, p).kind = "CreateModel"
    PROVE  CreateModelForward(At(defs, p), s) # {}
<1> DEFINE op == At(defs, p)
           app == op.app
           models == ModelsOf(s, app)
<1>1. /\ Facts(s) \subseteq Facts(B) /\ Made(op) \subseteq Facts(B) /\ Facts(s) \intersect Made(op) = {}
      /\ GoodState(s) /\ GoodState(B)
  BY Within DEF Holds
<1>2. PICK n \in NormalizedSingleModel(app, op.model) : TRUE
  BY DEF Holds
<1>3. NormalModel(n) /\ ValidModel(n) /\ HeadFact(app, n) \in Made(op)
  BY <1>2, MadeByCreate
<1>4. DOMAIN models = 1..Len(models)
  BY <1>1, ModelsOfGood
<1>5. ASSUME NEW i \in 1..Len(models),
             models[i].name = n.name \/ models[i].goName = n.goName \/ models[i].dbTable = n.dbTable
      PROVE  FALSE
  <2>1. <<"model", app, models[i].name, <<models[i].goName, models[i].dbTable>>>> \in Facts(s)
    BY <1>4, InFacts
  <2>2. <<"model", app, n.name, <<n.goName, n.dbTable>>>> \in Facts(B)
    BY <1>1, <1>3 DEF HeadFact
  <2> HIDE DEF models, app, op
  <2>3. models[i].name = n.name /\ models[i].goName = n.goName /\ models[i].dbTable = n.dbTable
    BY <2>1, <2>2, <1>1, <1>5, ModelFactsApart
  <2>4. HeadFact(app, n) \in Facts(s)
    BY <2>1, <2>3 DEF HeadFact
  <2> QED
    BY <2>4, <1>1, <1>3
<1>6. ValidModels(Append(models, n)) /\ \A i \in 1..Len(models) : models[i].name # n.name
  BY <1>1, <1>3, <1>5, AppendedValid
<1>7. CreateModelForward(op, s) = {WithSchema(s, SchemaOf(app, Append(models, n)))}
  BY <1>1, <1>2, <1>6, CreateForwardIs DEF KnownOperation
<1> QED
  BY <1>7

\* The model an AddField is about has been created.
Supplied(defs, P, op) ==
    \E q \in P : /\ At(defs, q).kind = "CreateModel"
                 /\ At(defs, q).app = op.app
                 /\ At(defs, q).model.name = op.modelName

LEMMA AddFieldForwardPossible ==
    ASSUME NEW defs, NEW P, NEW s, Holds(defs, P, s), NEW Q, NEW B, Holds(defs, Q, B),
           P \subseteq Q, NEW p \in Q, p \notin P, \A q \in Q : KnownOperation(At(defs, q)),
           At(defs, p).kind = "AddField", Supplied(defs, P, At(defs, p))
    PROVE  AddFieldForward(At(defs, p), s) # {}
<1> DEFINE op == At(defs, p)
           app == op.app
           models == ModelsOf(s, app)
           f == WithColumn(op.field)
<1>1. /\ Facts(s) \subseteq Facts(B) /\ Made(op) \subseteq Facts(B) /\ Facts(s) \intersect Made(op) = {}
      /\ GoodState(s) /\ GoodState(B)
  BY Within DEF Holds
<1>k. op.kind = "AddField" /\ op.field \in FieldType /\ op.field.kind # "auto"
  BY DEF Holds, KnownOperation
<1>2. PICK q \in P : At(defs, q).kind = "CreateModel" /\ At(defs, q).app = app /\ At(defs, q).model.name = op.modelName
  BY DEF Supplied
<1>3. PICK n \in NormalizedSingleModel(At(defs, q).app, At(defs, q).model) : TRUE
  BY <1>2 DEF Holds
<1>4. Made(At(defs, q)) \subseteq Facts(s) /\ KnownOperation(At(defs, q))
  BY <1>2 DEF Holds
<1>5. n.name = op.modelName
  BY <1>2, <1>3, <1>4, MadeByCreate
<1>6. PICK i \in DOMAIN models : models[i].name = op.modelName
  BY <1>2, <1>3, <1>4, <1>5, CreatedThere
<1>7. /\ DOMAIN models = 1..Len(models)
      /\ NormalModel(models[i]) /\ ValidModel(models[i])
  BY <1>1, <1>6, ModelsOfGood
<1> DEFINE fs == models[i].fields
           L == Len(fs)
           longer == Append(fs, f)
<1>8. /\ longer \in Seq(FieldType)
      /\ ValidFields(longer) =>
            AddFieldForward(op, s) = {WithSchema(s, SchemaOf(app, ReplaceFields(models, i, longer)))}
  BY <1>1, <1>k, <1>6, <1>7, AddFieldForwardIs
<1>9. /\ fs \in Seq(FieldType) /\ DOMAIN fs = 1..L /\ L \in Nat
      /\ \A a \in 1..L : /\ {fs[a].name, fs[a].column} \subseteq Identifiers
                         /\ fs[a].goName \in GoIdentifiers
                         /\ ValidField(fs[a])
      /\ \A a, b \in 1..L :
            \/ a = b
            \/ fs[a].name # fs[b].name /\ fs[a].goName # fs[b].goName /\ fs[a].column # fs[b].column
  BY <1>7, FieldsApart
<1>a. \E a \in DOMAIN fs : \A b \in DOMAIN fs : fs[b].primaryKey <=> b = a
  BY <1>7, Zenon DEF ValidModel, ValidFields
<1>10. <<"field", app, op.modelName, f>> \in Made(op) /\ f.kind # "auto" /\ f \in FieldType
  BY <1>k, ColumnOf DEF Made
<1> HIDE DEF f
<1>11. \A a \in 1..L : <<"field", app, op.modelName, fs[a]>> \in Facts(s)
  BY <1>6, <1>9, InFacts DEF Range
<1>m. Facts(s) \subseteq Facts(B) /\ <<"field", app, op.modelName, f>> \in Facts(B)
  BY <1>1, <1>10
<1> HIDE DEF fs, models, app, op
<1>12. /\ {f.name, f.column} \subseteq Identifiers /\ f.goName \in GoIdentifiers /\ ValidField(f)
       /\ \A a \in 1..L : fs[a].name # f.name /\ fs[a].goName # f.goName /\ fs[a].column # f.column
  <2>1. /\ {f.name, f.column} \subseteq Identifiers /\ f.goName \in GoIdentifiers /\ ValidField(f)
        /\ \A h : /\ <<"field", app, op.modelName, h>> \in Facts(B)
                  /\ f.name = h.name \/ f.goName = h.goName \/ f.column = h.column
                  => f = h
    BY <1>1, <1>m, FieldFactsApart
  <2>2. \A a \in 1..L : fs[a] # f
    BY <1>1, <1>10, <1>11
  <2>3. \A a \in 1..L : <<"field", app, op.modelName, fs[a]>> \in Facts(B)
    BY <1>11, <1>m
  <2> QED
    BY <2>1, <2>2, <2>3
<1>13. /\ DOMAIN longer = 1..(L + 1) /\ longer[L + 1] = f /\ \A a \in 1..L : longer[a] = fs[a]
  BY <1>9, <1>10, AppendIs
<1>s. /\ \A b \in 1..(L + 1) : b = L + 1 \/ b \in 1..L
      /\ \A b \in 1..L : b \in 1..(L + 1) /\ b # L + 1
  BY <1>9
<1> HIDE DEF longer, L
<1>14. ValidFields(longer)
  <2>1. \A b \in DOMAIN longer : /\ {longer[b].name, longer[b].column} \subseteq Identifiers
                                 /\ longer[b].goName \in GoIdentifiers
                                 /\ ValidField(longer[b])
    BY <1>9, <1>12, <1>13, <1>s
  <2>2. \A a, b \in 1..(L + 1) :
            \/ a = b
            \/ longer[a].name # longer[b].name /\ longer[a].goName # longer[b].goName /\ longer[a].column # longer[b].column
    BY <1>9, <1>12, <1>13, <1>s
  <2>3. /\ Distinct([k \in DOMAIN longer |-> longer[k].name])
        /\ Distinct([k \in DOMAIN longer |-> longer[k].goName])
        /\ Distinct([k \in DOMAIN longer |-> longer[k].column])
    BY <2>2, <1>13 DEF Distinct
  <2>4. \E a \in DOMAIN longer : \A b \in DOMAIN longer : longer[b].primaryKey <=> b = a
    <3>1. PICK a \in DOMAIN fs : \A b \in DOMAIN fs : fs[b].primaryKey <=> b = a
      BY <1>a, Zenon DEF fs, models, app, op
    <3>2. ~f.primaryKey
      BY <1>10, <1>12 DEF ValidField
    <3>3. a \in DOMAIN longer /\ a # L + 1
      BY <3>1, <1>9, <1>13, <1>s
    <3>4. ASSUME NEW b \in DOMAIN longer PROVE longer[b].primaryKey <=> b = a
      <4>1. CASE b = L + 1
        <5>1. longer[b] = f /\ b # a
          BY <4>1, <3>3, <1>13
        <5> QED
          BY <5>1, <3>2, Zenon
      <4>2. CASE b # L + 1
        <5>1. b \in DOMAIN fs /\ longer[b] = fs[b]
          BY <4>2, <3>4, <1>9, <1>13, <1>s
        <5> QED
          BY <5>1, <3>1, Zenon
      <4> QED
        BY <4>1, <4>2, Zenon
    <3> QED
      BY <3>3, <3>4, Zenon
  <2> QED
    BY <2>1, <2>3, <2>4, Zenon DEF ValidFields
<1>15. AddFieldForward(op, s) = {WithSchema(s, SchemaOf(app, ReplaceFields(models, i, longer)))}
  BY <1>8, <1>14
<1> QED
  BY <1>15 DEF op

LEMMA CreatesApart ==
    ASSUME NEW defs, NEW P, NEW s, Holds(defs, P, s), NEW p \in P, NEW q \in P,
           KnownOperation(At(defs, p)), KnownOperation(At(defs, q)),
           At(defs, p).kind = "CreateModel", At(defs, q).kind = "CreateModel",
           At(defs, p).app = At(defs, q).app, At(defs, p).model.name = At(defs, q).model.name
    PROVE  p = q
<1> DEFINE app == At(defs, p).app
<1>1. PICK m \in NormalizedSingleModel(app, At(defs, p).model) : TRUE
  BY DEF Holds
<1>2. PICK n \in NormalizedSingleModel(app, At(defs, q).model) : TRUE
  BY DEF Holds
<1>3. HeadFact(app, m) \in Made(At(defs, p)) /\ HeadFact(app, n) \in Made(At(defs, q)) /\ m.name = n.name
  BY <1>1, <1>2, MadeByCreate
<1>4. Made(At(defs, p)) \subseteq Facts(s) /\ Made(At(defs, q)) \subseteq Facts(s) /\ GoodState(s)
  BY DEF Holds
<1>5. HeadFact(app, m) = HeadFact(app, n)
  <2> HIDE DEF app
  <2>1. <<"model", app, m.name, <<m.goName, m.dbTable>>>> \in Facts(s) /\ <<"model", app, n.name, <<n.goName, n.dbTable>>>> \in Facts(s)
    BY <1>3, <1>4 DEF HeadFact
  <2>2. m.goName = n.goName /\ m.dbTable = n.dbTable
    BY <2>1, <1>3, <1>4, ModelFactsApart
  <2> QED
    BY <2>2, <1>3 DEF HeadFact
<1> QED
  BY <1>3, <1>5 DEF Holds

\* A model to which nothing has been added is still what CreateModel made.
LEMMA CreateBackwardPossible ==
    ASSUME NEW defs, NEW P, NEW s, Holds(defs, P, s), NEW p \in P,
           \A q \in P : KnownOperation(At(defs, q)), At(defs, p).kind = "CreateModel",
           \A q \in P : ~(/\ At(defs, q).kind = "AddField"
                          /\ At(defs, q).app = At(defs, p).app
                          /\ At(defs, q).modelName = At(defs, p).model.name)
    PROVE  CreateModelBackward(At(defs, p), s) # {}
<1> DEFINE op == At(defs, p)
           app == op.app
           models == ModelsOf(s, app)
<1>1. /\ GoodState(s) /\ Made(op) \subseteq Facts(s) /\ KnownOperation(op) /\ op.kind = "CreateModel"
      /\ Facts(s) = UNION {Made(At(defs, q)) : q \in P}
  BY DEF Holds
<1>2. PICK n \in NormalizedSingleModel(app, op.model) : StartsWith(s, app, n)
  BY DEF Holds
<1>3. NormalModel(n) /\ ValidModel(n) /\ n.name = op.model.name /\ n.fields \in Seq(FieldType)
      /\ Made(op) = ModelFacts(app, n)
  BY <1>1, <1>2, MadeByCreate
<1>4. PICK i \in DOMAIN models : models[i].name = n.name /\ models[i].goName = n.goName /\ models[i].dbTable = n.dbTable
  BY <1>1, <1>2, CreatedThere
<1>5. /\ DOMAIN models = 1..Len(models) /\ models[i] \in ModelType
      /\ NormalModel(models[i]) /\ ValidModel(models[i])
  BY <1>1, <1>4, ModelsOfGood
<1> DEFINE fs == models[i].fields
<1>6. /\ fs \in Seq(FieldType) /\ DOMAIN fs = 1..Len(fs)
      /\ \A a, b \in 1..Len(fs) : a = b \/ fs[a].name # fs[b].name
  BY <1>5, FieldsApart
<1>7. Begins(n.fields, fs)
  BY <1>2, <1>4 DEF StartsWith
<1>8. ASSUME NEW f \in Range(fs) PROVE f \in Range(n.fields)
  <2>1. <<"field", app, n.name, f>> \in Facts(s)
    BY <1>4, <1>8, InFacts
  <2>2. PICK q \in P : <<"field", app, n.name, f>> \in Made(At(defs, q))
    BY <2>1, <1>1
  <2>3. KnownOperation(At(defs, q))
    OBVIOUS
  <2>4. At(defs, q).kind # "AddField"
    <3>1. SUFFICES ASSUME At(defs, q).kind = "AddField" PROVE FALSE
      OBVIOUS
    <3>2. Made(At(defs, q)) = {<<"field", At(defs, q).app, At(defs, q).modelName, WithColumn(At(defs, q).field)>>}
      BY <3>1 DEF Made
    <3>3. app = At(defs, q).app /\ n.name = At(defs, q).modelName
      BY <2>2, <3>2
    <3> QED
      BY <3>1, <3>3, <1>3
  <2>5. At(defs, q).kind = "CreateModel"
    BY <2>3, <2>4 DEF KnownOperation
  <2>6. PICK m \in NormalizedSingleModel(At(defs, q).app, At(defs, q).model) : TRUE
    BY <2>5 DEF Holds
  <2>7. Made(At(defs, q)) = ModelFacts(At(defs, q).app, m) /\ m.name = At(defs, q).model.name
    BY <2>3, <2>5, <2>6, MadeByCreate
  <2>8. app = At(defs, q).app /\ n.name = m.name /\ f \in Range(m.fields)
    BY <2>2, <2>7 DEF ModelFacts
  <2>9. q = p
    BY <2>3, <2>5, <2>7, <2>8, <1>1, <1>3, CreatesApart
  <2>10. NormalizedSingleModel(app, op.model) = {n}
    BY <1>1, <1>2, MadeByCreate
  <2>11. m = n
    BY <2>6, <2>9, <2>10
  <2> QED
    BY <2>8, <2>11
<1> HIDE DEF fs
<1>9. Len(fs) = Len(n.fields)
  <2>1. Len(fs) \in Nat /\ Len(n.fields) \in Nat /\ Len(n.fields) <= Len(fs) /\ DOMAIN n.fields = 1..Len(n.fields)
    BY <1>3, <1>6, <1>7 DEF Begins
  <2>2. SUFFICES ASSUME Len(n.fields) < Len(fs) PROVE FALSE
    BY <2>1
  <2>3. Len(fs) \in 1..Len(fs)
    BY <2>1, <2>2
  <2>4. fs[Len(fs)] \in Range(n.fields)
    BY <2>3, <1>6, <1>8 DEF Range
  <2>5. PICK b \in 1..Len(n.fields) : fs[Len(fs)] = n.fields[b]
    BY <2>1, <2>4 DEF Range
  <2>6. b \in 1..Len(fs) /\ b # Len(fs) /\ fs[b] = n.fields[b]
    BY <2>1, <2>2, <1>7 DEF Begins
  <2> QED
    BY <2>3, <2>5, <2>6, <1>6
<1>10. fs = n.fields
  <2>1. fs = [b \in 1..Len(fs) |-> fs[b]] /\ n.fields = [b \in 1..Len(n.fields) |-> n.fields[b]]
    BY <1>3, <1>6, SeqIs
  <2>2. \A b \in 1..Len(fs) : fs[b] = n.fields[b]
    BY <1>7, <1>9 DEF Begins
  <2> QED
    BY <2>1, <2>2, <1>9
<1>11. models[i] = n
  <2>1. n \in ModelType
    BY <1>3 DEF NormalModel
  <2>2. /\ n = [name |-> n.name, goName |-> n.goName, dbTable |-> n.dbTable, fields |-> n.fields]
        /\ models[i] = [name |-> models[i].name, goName |-> models[i].goName, dbTable |-> models[i].dbTable, fields |-> fs]
    BY <2>1, <1>5, ModelRecord DEF fs
  <2> HIDE DEF models
  <2> QED
    BY <2>2, <1>4, <1>10
<1>12. i \in 1..Len(models) /\ app \in Texts /\ op.model \in ModelType
  BY <1>1, <1>4, <1>5 DEF KnownOperation
<1> DEFINE left == Without(models, i)
<1>13. CreateModelBackward(op, s) = {IF left = <<>> THEN WithoutApp(s, app) ELSE WithSchema(s, SchemaOf(app, left))}
  BY <1>1, <1>2, <1>11, <1>12, CreateBackwardIs
<1> QED
  BY <1>13

LEMMA AddFieldBackwardPossible ==
    ASSUME NEW defs, NEW P, NEW s, Holds(defs, P, s), NEW p \in P,
           KnownOperation(At(defs, p)), At(defs, p).kind = "AddField"
    PROVE  AddFieldBackward(At(defs, p), s) # {}
<1> DEFINE op == At(defs, p)
           models == ModelsOf(s, op.app)
           f == WithColumn(op.field)
<1>1. /\ GoodState(s) /\ Made(op) \subseteq Facts(s)
      /\ op.kind = "AddField" /\ op.field \in FieldType /\ op.field.kind # "auto"
  BY DEF Holds, KnownOperation
<1>2. <<"field", op.app, op.modelName, f>> \in Facts(s)
  BY <1>1 DEF Made
<1>3. PICK i \in DOMAIN models : models[i].name = op.modelName /\ f \in Range(models[i].fields)
  BY <1>2, InFacts
<1>4. DOMAIN models = 1..Len(models) /\ DOMAIN models[i].fields = 1..Len(models[i].fields)
  BY <1>1, <1>3, ModelsOfGood, FieldsApart
<1>5. PICK j \in 1..Len(models[i].fields) : models[i].fields[j] = f
  BY <1>3, <1>4 DEF Range
<1>6. i \in 1..Len(models)
  BY <1>3, <1>4
<1>7. TakesBack(s, op, i, j)
  BY <1>1, <1>3, <1>5, <1>6, AddFieldBackwardIs
<1> QED
  BY <1>7 DEF TakesBack

----------------------------------------------------------------------------
\* One operation, and then all of a migration, forward and backward

Upto(k, i) == {<<k, j>> : j \in 1..i}
Beyond(k, i, n) == {<<k, j>> : j \in (i + 1)..n}

\* The definitions as CloneDefinitions lets them through.
Known(defs) ==
    \A k \in DOMAIN defs :
        /\ defs[k] \in Seq(OperationType)
        /\ \A i \in 1..Len(defs[k]) : KnownOperation(defs[k][i]) /\ defs[k][i].app = AppOf[k]

LEMMA HoldsNothing ==
    ASSUME NEW defs
    PROVE  Holds(defs, {}, EmptyProjectState)
<1>1. DOMAIN EmptyProjectState = {}
  BY DEF EmptyProjectState
<1>2. GoodState(EmptyProjectState) /\ Facts(EmptyProjectState) = {}
  BY <1>1 DEF GoodState, Facts
<1> QED
  BY <1>2 DEF Holds

LEMMA StepForward ==
    ASSUME NEW defs, NEW P, NEW s, Holds(defs, P, s), NEW p,
           \A q \in P \union {p} : KnownOperation(At(defs, q)), NEW t \in StateForward(At(defs, p), s)
    PROVE  Holds(defs, P \union {p}, t)
<1>1. CASE At(defs, p).kind = "CreateModel"
  BY <1>1, CreateForwardHolds DEF StateForward
<1>2. CASE At(defs, p).kind = "AddField"
  BY <1>2, AddFieldForwardHolds DEF StateForward
<1> QED
  BY <1>1, <1>2 DEF KnownOperation

LEMMA StepForwardPossible ==
    ASSUME NEW defs, NEW P, NEW s, Holds(defs, P, s), NEW Q, NEW B, Holds(defs, Q, B),
           P \subseteq Q, NEW p \in Q, p \notin P, \A q \in Q : KnownOperation(At(defs, q)),
           At(defs, p).kind = "AddField" => Supplied(defs, P, At(defs, p))
    PROVE  StateForward(At(defs, p), s) # {}
<1>1. CASE At(defs, p).kind = "CreateModel"
  BY <1>1, CreateForwardPossible DEF StateForward
<1>2. CASE At(defs, p).kind = "AddField"
  BY <1>2, AddFieldForwardPossible DEF StateForward
<1> QED
  BY <1>1, <1>2 DEF KnownOperation

LEMMA StepBackward ==
    ASSUME NEW defs, NEW P, NEW s, Holds(defs, P, s), NEW p \in P,
           \A q \in P : KnownOperation(At(defs, q)), NEW t \in StateBackward(At(defs, p), s)
    PROVE  Holds(defs, P \ {p}, t)
<1>1. CASE At(defs, p).kind = "CreateModel"
  BY <1>1, CreateBackwardHolds DEF StateBackward
<1>2. CASE At(defs, p).kind = "AddField"
  BY <1>2, AddFieldBackwardHolds DEF StateBackward
<1> QED
  BY <1>1, <1>2 DEF KnownOperation

\* No AddField among P is about the model that op creates.
Bare(defs, P, op) ==
    \A q \in P : ~(/\ At(defs, q).kind = "AddField"
                   /\ At(defs, q).app = op.app
                   /\ At(defs, q).modelName = op.model.name)

LEMMA StepBackwardPossible ==
    ASSUME NEW defs, NEW P, NEW s, Holds(defs, P, s), NEW p \in P,
           \A q \in P : KnownOperation(At(defs, q)),
           At(defs, p).kind = "CreateModel" => Bare(defs, P, At(defs, p))
    PROVE  StateBackward(At(defs, p), s) # {}
<1>1. CASE At(defs, p).kind = "CreateModel"
  BY <1>1, CreateBackwardPossible DEF StateBackward, Bare
<1>2. CASE At(defs, p).kind = "AddField"
  BY <1>2, AddFieldBackwardPossible DEF StateBackward
<1> QED
  BY <1>1, <1>2 DEF KnownOperation

AllForward(op, states) == UNION {StateForward(op, s) : s \in states}
AllBackward(op, states) == UNION {StateBackward(op, s) : s \in states}

LEMMA PerformIs ==
    ASSUME NEW defs, Known(defs), NEW k \in DOMAIN defs, NEW i \in 1..Len(defs[k]), NEW states
    PROVE  /\ Perform(AppOf[k], "forward", states, defs[k][i]) = AllForward(defs[k][i], states)
           /\ Perform(AppOf[k], "backward", states, defs[k][i]) = AllBackward(defs[k][i], states)
<1>1. defs[k][i].kind # "nil" /\ defs[k][i].app = AppOf[k]
  BY DEF Known, KnownOperation
<1> QED
  BY <1>1 DEF Perform, AllForward, AllBackward

PerformNext(c, d, states, op) == Perform(c[1], c[2], states, op)

\* Of a migration, i operations have been performed; sure is 1 when none may fail.
PerformedForward(c, d, ops, i, states) ==
    /\ \A t \in states : Holds(d.defs, d.done \union Upto(d.key, i), t)
    /\ states = {} => d.sure = 0
PerformedBackward(c, d, ops, i, states) ==
    /\ \A t \in states : Holds(d.defs, d.done \ Beyond(d.key, Len(ops) - i, Len(ops)), t)
    /\ states = {} => d.sure = 0

Performing == INSTANCE FoldFacts WITH Op <- PerformNext, Inv <- PerformedForward
Unperforming == INSTANCE FoldFacts WITH Op <- PerformNext, Inv <- PerformedBackward

\* A migration forward adds its operations; it cannot fail where they are part of a state that was reached.
LEMMA MigrationForward ==
    ASSUME NEW defs, Known(defs), NEW k \in DOMAIN defs,
           NEW P, \A q \in P : KnownOperation(At(defs, q)), NEW s, Holds(defs, P, s),
           NEW sure \in {0, 1}, NEW Q, NEW B,
           sure = 1 => /\ Holds(defs, Q, B) /\ \A q \in Q : KnownOperation(At(defs, q))
                       /\ P \union Upto(k, Len(defs[k])) \subseteq Q /\ P \intersect Upto(k, Len(defs[k])) = {}
                       /\ \A i \in 1..Len(defs[k]) : defs[k][i].kind = "AddField" =>
                             Supplied(defs, P \union Upto(k, i - 1), defs[k][i])
    PROVE  /\ \A t \in Preflight(s, AppOf[k], defs[k], "forward") : Holds(defs, P \union Upto(k, Len(defs[k])), t)
           /\ Preflight(s, AppOf[k], defs[k], "forward") = {} => sure = 0
<1> DEFINE ops == defs[k]
           n == Len(ops)
           c == <<AppOf[k], "forward">>
           d == [defs |-> defs, done |-> P, key |-> k, sure |-> sure]
           base == {x \in {s} : ValidState(x)}
<1>1. n \in Nat /\ DOMAIN ops = 1..n /\ \A i \in 1..n : KnownOperation(ops[i]) /\ At(defs, <<k, i>>) = ops[i]
  BY DEF Known, At
<1>2. c[1] = AppOf[k] /\ c[2] = "forward" /\ d.defs = defs /\ d.done = P /\ d.key = k /\ d.sure = sure
  OBVIOUS
<1> HIDE DEF c, d
<1>3. Preflight(s, AppOf[k], ops, "forward") = Performing!FoldOf(c, d, base, ops)
  BY <1>2 DEF Preflight, Performing!FoldOf, PerformNext, FoldLeft, MapThenFoldSet, Max,
              Performing!FoldLeft, Performing!MapThenFoldSet, Performing!Max
<1>4. base = {s}
  BY GoodValid DEF Holds
<1>5. PerformedForward(c, d, ops, 0, base)
  <2>1. Upto(k, 0) = {} /\ P \union {} = P
    BY DEF Upto
  <2> QED
    BY <2>1, <1>2, <1>4 DEF PerformedForward
<1>6. ASSUME NEW i \in 1..n, NEW states, PerformedForward(c, d, ops, i - 1, states)
      PROVE  PerformedForward(c, d, ops, i, PerformNext(c, d, states, ops[i]))
  <2> DEFINE op == ops[i]
             R == P \union Upto(k, i - 1)
             next == PerformNext(c, d, states, op)
  <2>1. (\A t \in states : Holds(defs, R, t)) /\ (states = {} => sure = 0)
    BY <1>2, <1>6 DEF PerformedForward
  <2>2. next = UNION {StateForward(op, t) : t \in states}
    <3>1. Perform(AppOf[k], "forward", states, op) = AllForward(op, states)
      BY PerformIs
    <3>2. next = Perform(AppOf[k], "forward", states, op)
      BY <1>2 DEF PerformNext
    <3> HIDE DEF next
    <3> QED
      BY <3>1, <3>2 DEF AllForward
  <2>3. P \union Upto(k, i) = R \union {<<k, i>>} /\ <<k, i>> \notin Upto(k, i - 1)
    <3>1. i \in Nat /\ 1..i = 1..(i - 1) \union {i} /\ i \notin 1..(i - 1)
      BY <1>1
    <3> QED
      BY <3>1 DEF Upto
  <2>4. At(defs, <<k, i>>) = op /\ \A q \in R \union {<<k, i>>} : KnownOperation(At(defs, q))
    <3>1. \A j \in 1..(i - 1) : j \in 1..n
      BY <1>1
    <3> QED
      BY <3>1, <1>1 DEF Upto
  <2> HIDE DEF R, next, op
  <2>5. ASSUME NEW u \in next PROVE Holds(defs, P \union Upto(k, i), u)
    <3>1. PICK t \in states : u \in StateForward(op, t)
      BY <2>2
    <3> QED
      BY <3>1, <2>1, <2>3, <2>4, StepForward
  <2>6. ASSUME next = {} PROVE sure = 0
    <3>1. SUFFICES ASSUME sure = 1 PROVE FALSE
      OBVIOUS
    <3>2. PICK t \in states : TRUE
      BY <3>1, <2>1
    <3>3. Holds(defs, R, t)
      BY <2>1
    <3>4. /\ Holds(defs, Q, B) /\ \A q \in Q : KnownOperation(At(defs, q))
          /\ R \subseteq Q /\ <<k, i>> \in Q /\ <<k, i>> \notin R
      <4>1. <<k, i>> \in Upto(k, n) /\ Upto(k, i - 1) \subseteq Upto(k, n)
        <5>1. \A j \in 1..(i - 1) : j \in 1..n
          BY <1>1
        <5> QED
          BY <5>1 DEF Upto
      <4> QED
        BY <4>1, <3>1, <2>3 DEF R
    <3>5. op.kind = "AddField" => Supplied(defs, R, op)
      BY <3>1 DEF op, R
    <3>6. StateForward(op, t) # {}
      BY <2>4, <3>3, <3>4, <3>5, StepForwardPossible
    <3> QED
      BY <3>6, <2>2, <1>6, <2>6
  <2> QED
    BY <2>5, <2>6, <1>2 DEF PerformedForward, next, op
<1>7. PerformedForward(c, d, ops, n, Performing!FoldOf(c, d, base, ops))
  <2> HIDE DEF n, ops, base
  <2> QED
    BY <1>1, <1>5, <1>6, Performing!FoldKeeps
<1> QED
  BY <1>2, <1>3, <1>7 DEF PerformedForward

\* A migration backward takes its operations away, the last one first.
LEMMA MigrationBackward ==
    ASSUME NEW defs, Known(defs), NEW k \in DOMAIN defs,
           NEW P, \A q \in P : KnownOperation(At(defs, q)), NEW s, Holds(defs, P, s),
           Upto(k, Len(defs[k])) \subseteq P,
           NEW sure \in {0, 1},
           sure = 1 => \A i \in 1..Len(defs[k]) : defs[k][i].kind = "CreateModel" =>
                           Bare(defs, P \ Beyond(k, i, Len(defs[k])), defs[k][i])
    PROVE  /\ \A t \in Preflight(s, AppOf[k], defs[k], "backward") : Holds(defs, P \ Upto(k, Len(defs[k])), t)
           /\ Preflight(s, AppOf[k], defs[k], "backward") = {} => sure = 0
<1> DEFINE ops == defs[k]
           n == Len(ops)
           back == Reverse(ops)
           c == <<AppOf[k], "backward">>
           d == [defs |-> defs, done |-> P, key |-> k, sure |-> sure]
           base == {x \in {s} : ValidState(x)}
<1>1. n \in Nat /\ DOMAIN ops = 1..n /\ \A i \in 1..n : KnownOperation(ops[i]) /\ At(defs, <<k, i>>) = ops[i]
  BY DEF Known, At
<1>b. DOMAIN back = 1..n /\ Len(back) = n /\ \A i \in 1..n : back[i] = ops[n - i + 1]
  <2>1. back = [i \in 1..n |-> ops[(n - i) + 1]]
    BY DEF Reverse
  <2>2. DOMAIN back = 1..n
    BY <2>1
  <2>3. Len(back) = n
    BY <2>2, <1>1
  <2> HIDE DEF back, ops, n
  <2> QED
    BY <2>1, <2>2, <2>3
<1>2. c[1] = AppOf[k] /\ c[2] = "backward" /\ d.defs = defs /\ d.done = P /\ d.key = k /\ d.sure = sure
  OBVIOUS
<1> HIDE DEF c, d
<1>3. Preflight(s, AppOf[k], ops, "backward") = Unperforming!FoldOf(c, d, base, back)
  BY <1>2 DEF Preflight, Unperforming!FoldOf, PerformNext, FoldLeft, MapThenFoldSet, Max,
              Unperforming!FoldLeft, Unperforming!MapThenFoldSet, Unperforming!Max
<1>4. base = {s}
  BY GoodValid DEF Holds
<1> HIDE DEF back
<1>5. PerformedBackward(c, d, back, 0, base)
  <2>1. Beyond(k, n - 0, n) = {} /\ P \ {} = P
    <3>1. (n - 0) + 1 = n + 1 /\ (n + 1)..n = {}
      BY <1>1
    <3> QED
      BY <3>1 DEF Beyond
  <2> QED
    BY <2>1, <1>2, <1>4, <1>b DEF PerformedBackward
<1>6. ASSUME NEW i \in 1..n, NEW states, PerformedBackward(c, d, back, i - 1, states)
      PROVE  PerformedBackward(c, d, back, i, PerformNext(c, d, states, back[i]))
  <2> DEFINE j == n - i + 1
             op == ops[j]
             R == P \ Beyond(k, j, n)
             next == PerformNext(c, d, states, back[i])
  <2>j. j \in 1..n /\ n - (i - 1) = j /\ n - i = j - 1 /\ back[i] = op
    BY <1>1, <1>b
  <2> HIDE DEF j
  <2>1. (\A t \in states : Holds(defs, R, t)) /\ (states = {} => sure = 0)
    BY <1>2, <1>6, <1>b, <2>j DEF PerformedBackward
  <2>2. next = UNION {StateBackward(op, t) : t \in states}
    <3>1. Perform(AppOf[k], "backward", states, op) = AllBackward(op, states)
      BY <2>j, PerformIs
    <3>2. next = Perform(AppOf[k], "backward", states, op)
      BY <1>2, <2>j DEF PerformNext
    <3> HIDE DEF next
    <3> QED
      BY <3>1, <3>2 DEF AllBackward
  <2>3. P \ Beyond(k, n - i, n) = R \ {<<k, j>>} /\ <<k, j>> \in R
    <3>1. (n - i) + 1 = j /\ j..n = {j} \union ((j + 1)..n) /\ j \notin (j + 1)..n
      BY <1>1, <2>j
    <3>2. <<k, j>> \in Upto(k, n)
      BY <2>j DEF Upto
    <3> QED
      BY <3>1, <3>2 DEF Beyond
  <2>4. At(defs, <<k, j>>) = op /\ \A q \in R : KnownOperation(At(defs, q))
    BY <1>1, <2>j
  <2>o. sure = 1 /\ op.kind = "CreateModel" => Bare(defs, R, op)
    BY <2>j
  <2> HIDE DEF R, next, op
  <2>5. ASSUME NEW u \in next PROVE Holds(defs, P \ Beyond(k, n - i, n), u)
    <3>1. PICK t \in states : u \in StateBackward(op, t)
      BY <2>2
    <3> QED
      BY <3>1, <2>1, <2>3, <2>4, StepBackward
  <2>6. ASSUME next = {} PROVE sure = 0
    <3>1. SUFFICES ASSUME sure = 1 PROVE FALSE
      OBVIOUS
    <3>2. PICK t \in states : TRUE
      BY <3>1, <2>1
    <3>3. Holds(defs, R, t)
      BY <2>1
    <3>6. StateBackward(op, t) # {}
      BY <2>3, <2>4, <2>o, <3>1, <3>3, StepBackwardPossible
    <3> QED
      BY <3>6, <2>2, <2>6
  <2> QED
    BY <2>5, <2>6, <1>2, <1>b DEF PerformedBackward, next
<1>7. PerformedBackward(c, d, back, n, Unperforming!FoldOf(c, d, base, back))
  <2> HIDE DEF n, ops, base
  <2> QED
    BY <1>1, <1>b, <1>5, <1>6, Unperforming!FoldKeeps
<1>8. Beyond(k, n - n, n) = Upto(k, n)
  <2>1. (n - n) + 1 = 1
    BY <1>1
  <2> QED
    BY <2>1 DEF Beyond, Upto
<1> QED
  BY <1>2, <1>3, <1>7, <1>8, <1>b DEF PerformedBackward

----------------------------------------------------------------------------
\* Replay

LEMMA PositionsMore ==
    ASSUME NEW defs, NEW K, NEW k
    PROVE  Positions(defs, K \union {k}) = Positions(defs, K) \union Upto(k, Len(defs[k]))
BY DEF Positions, Upto

LEMMA InPositions ==
    ASSUME NEW defs, NEW K
    PROVE  \A k, i : <<k, i>> \in Positions(defs, K) <=> k \in K /\ i \in 1..Len(defs[k])
<1> SUFFICES ASSUME NEW k, NEW i
             PROVE  <<k, i>> \in Positions(defs, K) <=> k \in K /\ i \in 1..Len(defs[k])
  OBVIOUS
<1>1. ASSUME <<k, i>> \in Positions(defs, K) PROVE k \in K /\ i \in 1..Len(defs[k])
  <2>1. PICK h \in K : <<k, i>> \in {<<h, j>> : j \in 1..Len(defs[h])}
    BY <1>1 DEF Positions
  <2> QED
    BY <2>1
<1>2. ASSUME k \in K, i \in 1..Len(defs[k]) PROVE <<k, i>> \in Positions(defs, K)
  BY <1>2 DEF Positions
<1> QED
  BY <1>1, <1>2

LEMMA PositionsKnown ==
    ASSUME NEW defs, Known(defs), NEW K, K \subseteq DOMAIN defs
    PROVE  \A q \in Positions(defs, K) : KnownOperation(At(defs, q))
<1> SUFFICES ASSUME NEW q \in Positions(defs, K) PROVE KnownOperation(At(defs, q))
  OBVIOUS
<1>1. PICK k \in K : q \in {<<k, i>> : i \in 1..Len(defs[k])}
  BY DEF Positions
<1>2. PICK i \in 1..Len(defs[k]) : q = <<k, i>>
  BY <1>1
<1> QED
  BY <1>2 DEF Known, At

ReplayNext(defs, d, states, k) == UNION {Preflight(s, AppOf[k], defs[k], "forward") : s \in states}

\* The first i migrations have been replayed; sure is 1 when none may fail.
Replayed(defs, sure, steps, i, states) ==
    /\ \A t \in states : Holds(defs, Positions(defs, {steps[j] : j \in 1..i}), t)
    /\ states = {} => sure = 0

Replaying == INSTANCE FoldFacts WITH Op <- ReplayNext, Inv <- Replayed

\* What each of the steps needs is in the ones before it.
Ordered(defs, steps) ==
    \A i \in 1..Len(steps) : \A j \in 1..Len(defs[steps[i]]) : defs[steps[i]][j].kind = "AddField" =>
        Supplied(defs, Positions(defs, {steps[a] : a \in 1..(i - 1)}) \union Upto(steps[i], j - 1), defs[steps[i]][j])

\* Migrations that are part of a state that was reached can be replayed in any order they allow.
LEMMA ReplayHolds ==
    ASSUME NEW defs, Known(defs), NEW steps \in Seq(DOMAIN defs), NEW sure \in {0, 1}, NEW B,
           sure = 1 => /\ Holds(defs, Positions(defs, Range(steps)), B)
                       /\ Distinct(steps)
                       /\ Ordered(defs, steps)
    PROVE  /\ \A t \in ReplayState(defs, steps) : Holds(defs, Positions(defs, Range(steps)), t)
           /\ ReplayState(defs, steps) = {} => sure = 0
<1> DEFINE n == Len(steps)
           base == {EmptyProjectState}
           before(i) == {steps[j] : j \in 1..i}
<1>1. n \in Nat /\ DOMAIN steps = 1..n /\ \A i \in 1..n : steps[i] \in DOMAIN defs
  OBVIOUS
<1>2. before(n) = Range(steps)
  BY <1>1 DEF Range
<1>3. ReplayState(defs, steps) = Replaying!FoldOf(defs, sure, base, steps)
  BY DEF ReplayState, Replaying!FoldOf, ReplayNext, FoldLeft, MapThenFoldSet, Max,
         Replaying!FoldLeft, Replaying!MapThenFoldSet, Replaying!Max
<1>5. Replayed(defs, sure, steps, 0, base)
  <2>1. Positions(defs, before(0)) = {}
    <3>1. before(0) = {}
      OBVIOUS
    <3> HIDE DEF before
    <3> QED
      BY <3>1 DEF Positions
  <2>2. Holds(defs, Positions(defs, before(0)), EmptyProjectState)
    BY <2>1, HoldsNothing
  <2> QED
    BY <2>2 DEF Replayed
<1>6. ASSUME NEW i \in 1..n, NEW states, Replayed(defs, sure, steps, i - 1, states)
      PROVE  Replayed(defs, sure, steps, i, ReplayNext(defs, sure, states, steps[i]))
  <2> DEFINE k == steps[i]
             K == before(i - 1)
             P == Positions(defs, K)
             next == ReplayNext(defs, sure, states, k)
  <2>1. (\A t \in states : Holds(defs, P, t)) /\ (states = {} => sure = 0)
    BY <1>6 DEF Replayed
  <2>2. /\ \A j \in 1..(i - 1) : j \in 1..n /\ j # i
        /\ 1..i = 1..(i - 1) \union {i}
    BY <1>1
  <2>3. before(i) = K \union {k} /\ K \subseteq DOMAIN defs /\ k \in DOMAIN defs
    BY <1>1, <2>2
  <2>4. Positions(defs, before(i)) = P \union Upto(k, Len(defs[k]))
    <3> HIDE DEF before, K, k
    <3> QED
      BY <2>3, PositionsMore
  <2>5. \A q \in P : KnownOperation(At(defs, q))
    BY <2>3, PositionsKnown
  <2>6. sure = 1 => /\ Holds(defs, Positions(defs, Range(steps)), B)
                    /\ \A q \in Positions(defs, Range(steps)) : KnownOperation(At(defs, q))
                    /\ P \union Upto(k, Len(defs[k])) \subseteq Positions(defs, Range(steps))
                    /\ P \intersect Upto(k, Len(defs[k])) = {}
                    /\ \A j \in 1..Len(defs[k]) : defs[k][j].kind = "AddField" =>
                          Supplied(defs, P \union Upto(k, j - 1), defs[k][j])
    <3> SUFFICES ASSUME sure = 1
                 PROVE  /\ Holds(defs, Positions(defs, Range(steps)), B)
                        /\ \A q \in Positions(defs, Range(steps)) : KnownOperation(At(defs, q))
                        /\ P \union Upto(k, Len(defs[k])) \subseteq Positions(defs, Range(steps))
                        /\ P \intersect Upto(k, Len(defs[k])) = {}
                        /\ \A j \in 1..Len(defs[k]) : defs[k][j].kind = "AddField" =>
                              Supplied(defs, P \union Upto(k, j - 1), defs[k][j])
      OBVIOUS
    <3>1. before(i) \subseteq Range(steps) /\ Range(steps) \subseteq DOMAIN defs
      BY <1>1, <2>2 DEF Range
    <3>2. k \notin K
      BY <1>1, <2>2 DEF Distinct
    <3>3. \A q \in Positions(defs, Range(steps)) : KnownOperation(At(defs, q))
      BY <3>1, PositionsKnown
    <3>4. Positions(defs, before(i)) \subseteq Positions(defs, Range(steps))
      <4> HIDE DEF before
      <4> QED
        BY <3>1 DEF Positions
    <3>5. P \intersect Upto(k, Len(defs[k])) = {}
      <4> HIDE DEF K, k
      <4>1. \A a \in 1..Len(defs[k]) : <<k, a>> \notin P
        BY <3>2, InPositions
      <4> HIDE DEF P
      <4> QED
        BY <4>1 DEF Upto
    <3>6. \A j \in 1..Len(defs[k]) : defs[k][j].kind = "AddField" =>
              Supplied(defs, P \union Upto(k, j - 1), defs[k][j])
      BY DEF Ordered
    <3> HIDE DEF before, k, K, P
    <3> QED
      BY <2>4, <3>3, <3>4, <3>5, <3>6
  <2> HIDE DEF before, k, K, P
  <2>7. ASSUME NEW t \in states
        PROVE  /\ \A u \in Preflight(t, AppOf[k], defs[k], "forward") : Holds(defs, P \union Upto(k, Len(defs[k])), u)
               /\ Preflight(t, AppOf[k], defs[k], "forward") = {} => sure = 0
    <3>1. Holds(defs, P, t)
      BY <2>1
    <3> QED
      BY <2>3, <2>5, <2>6, <3>1, MigrationForward
  <2>8. \A u \in next : Holds(defs, Positions(defs, before(i)), u)
    BY <2>4, <2>7 DEF ReplayNext
  <2>9. next = {} => sure = 0
    BY <2>1, <2>7 DEF ReplayNext
  <2> QED
    BY <2>8, <2>9 DEF Replayed, before, k, next
<1>7. Replayed(defs, sure, steps, n, Replaying!FoldOf(defs, sure, base, steps))
  <2> HIDE DEF n, base
  <2> QED
    BY <1>1, <1>5, <1>6, Replaying!FoldKeeps
<1> QED
  BY <1>2, <1>3, <1>7 DEF Replayed

----------------------------------------------------------------------------
\* The executor: what its state holds, whatever it applied and unapplied

\* Without the operations of k: what the other migrations make.
LEMMA PositionsLess ==
    ASSUME NEW defs, NEW K, NEW k, NEW L, L = K \ {k},
           NEW t, Holds(defs, Positions(defs, K) \ Upto(k, Len(defs[k])), t)
    PROVE  Holds(defs, Positions(defs, L), t)
<1>1. ASSUME NEW q \in Positions(defs, K) \ Upto(k, Len(defs[k])) PROVE q \in Positions(defs, L)
  <2>1. PICK h \in K : q \in {<<h, i>> : i \in 1..Len(defs[h])}
    BY DEF Positions
  <2>2. h # k
    BY <2>1 DEF Upto
  <2> QED
    BY <2>1, <2>2 DEF Positions
<1>2. ASSUME NEW q \in Positions(defs, L) PROVE q \in Positions(defs, K) \ Upto(k, Len(defs[k]))
  <2>1. PICK h \in L : q \in {<<h, i>> : i \in 1..Len(defs[h])}
    BY DEF Positions
  <2>2. q \notin Upto(k, Len(defs[k]))
    BY <2>1 DEF Upto
  <2> QED
    BY <2>1, <2>2 DEF Positions
<1>3. Positions(defs, K) \ Upto(k, Len(defs[k])) = Positions(defs, L)
  BY <1>1, <1>2
<1> QED
  BY <1>3

\* The migrations of this build that the recorder has.
Recorded == recorder \intersect DOMAIN parents

(***************************************************************************)
(* The inductive invariant of the executor.  Before the reconstructor is   *)
(* ready nothing has been applied.  Then the working state is what the     *)
(* operations of the recorded migrations make, in whatever order they came *)
(* and went, and the record has no hole.                                   *)
(***************************************************************************)
Executed ==
    /\ label \notin {"ready", "answered"} => recorder = {} /\ working = EmptyProjectState
    /\ label = "ready" =>
          /\ DOMAIN definitions = DOMAIN parents
          /\ Known(definitions)
          /\ recorder \subseteq DOMAIN parents \union {UnknownKey}
          /\ Closed(parents, recorder)
          /\ Holds(definitions, Positions(definitions, Recorded), working)

LEMMA InitExecuted == Init => Executed
BY DEF Init, DiagnosisInit, Executed

\* Nothing is applied while the planner is built.
LEMMA ConstructExecuted == Executed /\ Construct => Executed'
<1> SUFFICES ASSUME Executed, Construct
             PROVE  Executed'
  OBVIOUS
<1>1. label \in {"validate", "search"} /\ label' \in {"search", "planner", "refused"}
  BY DEF Construct, NewPlanner, ValidateInput, VisitRoot, ExamineParent, LeaveNode, FinishSearch, Refuse,
         Descend, LookBack, Enter
<1>2. UNCHANGED <<recorder, working>>
  BY DEF Construct, historyVars
<1> QED
  BY <1>1, <1>2 DEF Executed

\* The operations of a migration are those of the input with its key.
LEMMA OperationsTyped ==
    ASSUME migrations \in Inputs, NEW k \in Keys(migrations)
    PROVE  OperationsOf(k) \in Seq(OperationType)
<1>1. PICK i \in DOMAIN migrations : migrations[i].key = k
  BY DEF Keys
<1>2. \E m \in Range(migrations) : m.key = k
  BY <1>1 DEF Range
<1>3. PICK m \in Range(migrations) : OperationsOf(k) = m.operations
  BY <1>2 DEF OperationsOf
<1>4. PICK j \in DOMAIN migrations : m = migrations[j]
  BY DEF Range
<1> QED
  BY <1>3, <1>4, ReconstructorAssumption

LEMMA ReplayableKnown ==
    ASSUME NEW k, NEW op \in OperationType, Replayable(k, op)
    PROVE  KnownOperation(op) /\ op.app = AppOf[k]
BY DEF Replayable, KnownOperation, OperationType

LEMMA CloneDefinitionsExecuted == Diagnosed /\ Executed /\ CloneDefinitions => Executed'
<1> SUFFICES ASSUME Diagnosed, Executed, CloneDefinitions
             PROVE  Executed'
  OBVIOUS
<1>1. /\ label = "planner" /\ recorder = {} /\ working = EmptyProjectState
      /\ UNCHANGED <<parents, recorder, working>>
  BY DEF CloneDefinitions, Executed, historyVars
<1>2. CASE label' = "ready"
  <2>1. /\ \A k \in DOMAIN parents : \A i \in DOMAIN OperationsOf(k) : Replayable(k, OperationsOf(k)[i])
        /\ definitions' = [k \in DOMAIN parents |-> OperationsOf(k)]
    BY <1>2 DEF CloneDefinitions
  <2>2. migrations \in Inputs /\ DOMAIN parents = Keys(migrations)
    BY <1>1 DEF Diagnosed, GraphOf
  <2>3. ASSUME NEW k \in DOMAIN parents
        PROVE  /\ definitions'[k] \in Seq(OperationType)
               /\ \A i \in 1..Len(definitions'[k]) :
                     KnownOperation(definitions'[k][i]) /\ definitions'[k][i].app = AppOf[k]
    <3> DEFINE ops == OperationsOf(k)
    <3>1. ops \in Seq(OperationType) /\ definitions'[k] = ops /\ \A i \in DOMAIN ops : Replayable(k, ops[i])
      BY <2>1, <2>2, OperationsTyped
    <3> HIDE DEF ops
    <3>2. ASSUME NEW i \in 1..Len(ops) PROVE KnownOperation(ops[i]) /\ ops[i].app = AppOf[k]
      BY <3>1, ReplayableKnown
    <3> QED
      BY <3>1, <3>2
  <2>4. Known(definitions') /\ DOMAIN definitions' = DOMAIN parents
    BY <2>1, <2>3 DEF Known
  <2>5. Recorded' = {}
    BY <1>1 DEF Recorded
  <2>6. Positions(definitions', Recorded') = {}
    BY <2>5 DEF Positions
  <2>7. Holds(definitions', Positions(definitions', Recorded'), working')
    BY <1>1, <2>6, HoldsNothing
  <2>8. Closed(parents', recorder')
    BY <1>1 DEF Closed
  <2> QED
    BY <1>1, <1>2, <2>4, <2>7, <2>8 DEF Executed
<1>3. CASE label' # "ready"
  <2>1. label' = "refused"
    BY <1>3 DEF CloneDefinitions
  <2> QED
    BY <1>1, <2>1 DEF Executed
<1> QED
  BY <1>2, <1>3

LEMMA ApplyExecuted == \A k \in DOMAIN parents : Executed /\ Apply(k) => Executed'
<1> SUFFICES ASSUME NEW k \in DOMAIN parents, Executed, Apply(k)
             PROVE  Executed'
  OBVIOUS
<1>1. /\ label = "ready" /\ label' = "ready" /\ UNCHANGED <<parents, definitions>>
      /\ parents[k] \subseteq recorder /\ recorder' = recorder \union {k}
      /\ working' \in Preflight(working, AppOf[k], definitions[k], "forward")
  BY DEF Apply, diagnosisVars
<1>2. /\ DOMAIN definitions = DOMAIN parents /\ Known(definitions)
      /\ recorder \subseteq DOMAIN parents \union {UnknownKey} /\ Closed(parents, recorder)
      /\ Holds(definitions, Positions(definitions, Recorded), working)
  BY <1>1 DEF Executed
<1>3. \A q \in Positions(definitions, Recorded) : KnownOperation(At(definitions, q))
  BY <1>2, PositionsKnown DEF Recorded
<1>4. Holds(definitions, Positions(definitions, Recorded) \union Upto(k, Len(definitions[k])), working')
  <2>1. \A t \in Preflight(working, AppOf[k], definitions[k], "forward") :
            Holds(definitions, Positions(definitions, Recorded) \union Upto(k, Len(definitions[k])), t)
    <3>1. 0 \in {0, 1} /\ 0 # 1 /\ k \in DOMAIN definitions
      BY <1>2
    <3> QED
      BY <1>2, <1>3, <3>1, MigrationForward
  <2> QED
    BY <1>1, <2>1
<1>5. Recorded' = Recorded \union {k}
  BY <1>1 DEF Recorded
<1>6. Holds(definitions', Positions(definitions', Recorded'), working')
  BY <1>1, <1>4, <1>5, PositionsMore
<1>7. Closed(parents', recorder')
  BY <1>1, <1>2 DEF Closed
<1> QED
  BY <1>1, <1>2, <1>6, <1>7 DEF Executed

LEMMA UnapplyExecuted == \A k \in DOMAIN parents : Executed /\ Unapply(k) => Executed'
<1> SUFFICES ASSUME NEW k \in DOMAIN parents, Executed, Unapply(k)
             PROVE  Executed'
  OBVIOUS
<1>1. /\ label = "ready" /\ label' = "ready" /\ UNCHANGED <<parents, definitions>>
      /\ k \in recorder /\ Children(parents, k) \intersect recorder = {} /\ recorder' = recorder \ {k}
      /\ working' \in Preflight(working, AppOf[k], definitions[k], "backward")
  BY DEF Unapply, diagnosisVars
<1>2. /\ DOMAIN definitions = DOMAIN parents /\ Known(definitions)
      /\ recorder \subseteq DOMAIN parents \union {UnknownKey} /\ Closed(parents, recorder)
      /\ Holds(definitions, Positions(definitions, Recorded), working)
  BY <1>1 DEF Executed
<1>3. /\ \A q \in Positions(definitions, Recorded) : KnownOperation(At(definitions, q))
      /\ Upto(k, Len(definitions[k])) \subseteq Positions(definitions, Recorded)
  BY <1>1, <1>2, PositionsKnown DEF Recorded, Positions, Upto
<1>4. \A t \in Preflight(working, AppOf[k], definitions[k], "backward") :
          Holds(definitions, Positions(definitions, Recorded) \ Upto(k, Len(definitions[k])), t)
  <2>1. 0 \in {0, 1} /\ 0 # 1 /\ k \in DOMAIN definitions
    BY <1>2
  <2> QED
    BY <1>2, <1>3, <2>1, MigrationBackward
<1>5. Recorded' = Recorded \ {k}
  BY <1>1 DEF Recorded
<1>6. Holds(definitions', Positions(definitions', Recorded'), working')
  <2>1. Holds(definitions, Positions(definitions, Recorded) \ Upto(k, Len(definitions[k])), working')
    BY <1>1, <1>4
  <2>2. Holds(definitions, Positions(definitions, Recorded'), working')
    BY <1>5, <2>1, PositionsLess
  <2> QED
    BY <1>1, <2>2
<1>7. Closed(parents', recorder')
  BY <1>1, <1>2 DEF Closed, Children
<1> QED
  BY <1>1, <1>2, <1>6, <1>7 DEF Executed

LEMMA UnknownOutside == Diagnosed /\ label = "ready" => UnknownKey \notin DOMAIN parents
BY ReconstructorAssumption DEF Diagnosed, GraphOf

LEMMA RecordUnknownExecuted == Diagnosed /\ Executed /\ RecordUnknown => Executed'
<1> SUFFICES ASSUME Diagnosed, Executed, RecordUnknown
             PROVE  Executed'
  OBVIOUS
<1>1. /\ label = "ready" /\ label' = "ready" /\ UNCHANGED <<parents, definitions, working>>
      /\ recorder' = recorder \union {UnknownKey}
  BY DEF RecordUnknown, diagnosisVars
<1>2. UnknownKey \notin DOMAIN parents
  BY <1>1, UnknownOutside
<1>3. Recorded' = Recorded
  BY <1>1, <1>2 DEF Recorded
<1>4. Closed(parents', recorder')
  BY <1>1, <1>2 DEF Executed, Closed
<1> QED
  BY <1>1, <1>3, <1>4 DEF Executed

LEMMA NextExecuted == Diagnosed /\ Executed /\ [Next]_vars => Executed'
<1> SUFFICES ASSUME Diagnosed, Executed, [Next]_vars
             PROVE  Executed'
  OBVIOUS
<1>1. ASSUME label' = "answered" PROVE Executed'
  BY <1>1 DEF Executed
<1>2. ASSUME NEW r \in Requests, Ask(r) PROVE Executed'
  BY <1>1, <1>2 DEF Ask
<1>3. CASE ReconstructHistory
  BY <1>1, <1>3 DEF ReconstructHistory
<1>4. CASE LoadAppliedState
  BY <1>4 DEF LoadAppliedState, Executed, Recorded, diagnosisVars, historyVars
<1>5. CASE UNCHANGED vars
  BY <1>5 DEF vars, Executed, Recorded, diagnosisVars, historyVars
<1> QED
  BY <1>2, <1>3, <1>4, <1>5, ConstructExecuted, CloneDefinitionsExecuted, ApplyExecuted, UnapplyExecuted,
     RecordUnknownExecuted DEF Next

\* What the executor's state holds, in every reachable state.
THEOREM SpecExecuted == Spec => []Executed
BY InitExecuted, NextExecuted, SpecDiagnosed, PTL DEF Spec

----------------------------------------------------------------------------
\* What the recorder says is enough

\* With declared dependencies, an arrangement of a closed set has what each migration needs before it.
LEMMA DeclaredOrdered ==
    ASSUME IsGraph(parents), DOMAIN definitions = DOMAIN parents, Known(definitions), Declared,
           NEW C \in SUBSET DOMAIN parents, \A n \in C : parents[n] \subseteq C,
           NEW s, Arranged(parents, s, C)
    PROVE  Ordered(definitions, s)
<1> SUFFICES ASSUME NEW i \in 1..Len(s), NEW j \in 1..Len(definitions[s[i]]),
                    definitions[s[i]][j].kind = "AddField"
             PROVE  Supplied(definitions, Positions(definitions, {s[a] : a \in 1..(i - 1)}) \union Upto(s[i], j - 1),
                             definitions[s[i]][j])
  BY DEF Ordered
<1> DEFINE k == s[i]
           S == {s[a] : a \in 1..(i - 1)}
<1>1. /\ Len(s) \in Nat /\ \A a \in 1..Len(s) : s[a] \in C
      /\ \A n \in C : \E a \in 1..Len(s) : s[a] = n
  BY ArrangedRange DEF Arranged
<1>2. \A a, b \in 1..Len(s) : s[a] \in parents[s[b]] => a < b
  BY DEF Arranged
<1>3. k \in C /\ k \in DOMAIN parents /\ DOMAIN definitions[k] = 1..Len(definitions[k])
  BY <1>1 DEF Known
<1>4. PICK p \in Closure(parents, k) : \E h \in DOMAIN definitions[p] :
          /\ definitions[p][h].kind = "CreateModel"
          /\ definitions[p][h].app = definitions[k][j].app
          /\ definitions[p][h].model.name = definitions[k][j].modelName
          /\ p = k => h < j
  BY <1>3 DEF Declared
<1>5. PICK h \in DOMAIN definitions[p] :
          /\ definitions[p][h].kind = "CreateModel"
          /\ definitions[p][h].app = definitions[k][j].app
          /\ definitions[p][h].model.name = definitions[k][j].modelName
          /\ p = k => h < j
  BY <1>4
<1>6. p \in DOMAIN definitions /\ h \in 1..Len(definitions[p])
  <2>1. p \in DOMAIN definitions
    BY <1>3, <1>4, ClosureClosed
  <2> QED
    BY <2>1, <1>5 DEF Known
<1>7. At(definitions, <<p, h>>) = definitions[p][h]
  BY DEF At
<1>8. <<p, h>> \in Positions(definitions, S) \union Upto(k, j - 1)
  <2>1. CASE p = k
    <3>1. h \in 1..(j - 1)
      BY <1>3, <1>5, <1>6, <2>1
    <3> QED
      BY <2>1, <3>1 DEF Upto
  <2>2. CASE p # k
    <3>1. p \in ReachedFrom(parents, k)
      BY <1>4, <2>2 DEF Closure
    <3>2. \A a \in 1..(i - 1) : a \in 1..Len(s)
      BY <1>1
    <3>3. S \in SUBSET DOMAIN parents
      BY <1>1, <3>2
    <3>4. ASSUME NEW b \in 1..Len(s), b <= i, NEW z \in parents[s[b]] PROVE z \in S
      <4>1. z \in C
        BY <1>1
      <4>2. PICK a \in 1..Len(s) : s[a] = z
        BY <1>1, <4>1
      <4>3. a < b
        BY <1>2, <4>2
      <4>4. a \in 1..(i - 1)
        BY <4>3, <3>4
      <4> QED
        BY <4>2, <4>4
    <3>5. parents[k] \subseteq S
      BY <3>4
    <3>6. ASSUME NEW m \in S PROVE parents[m] \subseteq S
      <4>1. PICK b \in 1..(i - 1) : s[b] = m
        OBVIOUS
      <4>2. b \in 1..Len(s) /\ b <= i
        BY <3>2
      <4> QED
        BY <4>1, <4>2, <3>4
    <3> HIDE DEF S, k
    <3>7. ReachedFrom(parents, k) \subseteq S
      BY <1>3, <3>3, <3>5, <3>6, ReachedLeast
    <3> QED
      BY <1>6, <3>1, <3>7, InPositions
  <2> QED
    BY <2>1, <2>2
<1> HIDE DEF S, k
<1>9. Supplied(definitions, Positions(definitions, S) \union Upto(k, j - 1), definitions[k][j])
  BY <1>5, <1>7, <1>8 DEF Supplied
<1> QED
  BY <1>9 DEF S, k

\* Replaying a closed record gives the schema of any state that the same operations made.
ReplaysTo(R, B) ==
    LET steps == OnlyAppliedSteps(TargetProjection(parents, AppLeaves(parents)), R)
    IN  /\ \A t \in ReplayState(definitions, steps) : AsSets(t) = AsSets(B)
        /\ Declared => ReplayState(definitions, steps) # {}

LEMMA RecordReplays ==
    ASSUME IsGraph(parents), Acyclic(parents), DOMAIN definitions = DOMAIN parents, Known(definitions),
           NEW R, Closed(parents, R), NEW C, C = DOMAIN parents \intersect R,
           NEW B, Holds(definitions, Positions(definitions, C), B)
    PROVE  ReplaysTo(R, B)
<1> DEFINE steps == OnlyAppliedSteps(TargetProjection(parents, AppLeaves(parents)), R)
           sure == IF Declared THEN 1 ELSE 0
<1>1. Arranged(parents, steps, C)
  BY LatestArranged, KeepArranged DEF OnlyAppliedSteps
<1> HIDE DEF steps
<1>2. /\ Range(steps) = C /\ DOMAIN steps = 1..Len(steps) /\ Len(steps) \in Nat
      /\ \A i \in 1..Len(steps) : steps[i] \in C
  BY <1>1, ArrangedRange
<1>3. steps \in Seq(DOMAIN definitions)
  <2>1. \A i \in 1..Len(steps) : steps[i] \in DOMAIN definitions
    BY <1>2
  <2>2. steps \in Seq(Nat)
    BY <1>1 DEF Arranged
  <2> QED
    BY <2>1, <2>2
<1>4. Distinct(steps)
  BY <1>1, <1>2 DEF Distinct, Arranged
<1>5. sure = 1 => Ordered(definitions, steps)
  <2> SUFFICES ASSUME Declared PROVE Ordered(definitions, steps)
    OBVIOUS
  <2>1. C \in SUBSET DOMAIN parents
    OBVIOUS
  <2>2. \A n \in C : parents[n] \subseteq C
    BY DEF Closed, IsGraph
  <2> QED
    BY <1>1, <2>1, <2>2, DeclaredOrdered
<1>6. sure \in {0, 1} /\ (Declared => sure # 0)
  OBVIOUS
<1> HIDE DEF sure
<1>7. Holds(definitions, Positions(definitions, Range(steps)), B)
  BY <1>2
<1>8. /\ \A t \in ReplayState(definitions, steps) : Holds(definitions, Positions(definitions, Range(steps)), t)
      /\ ReplayState(definitions, steps) = {} => sure = 0
  BY <1>3, <1>4, <1>5, <1>6, <1>7, ReplayHolds
<1>9. ASSUME NEW t \in ReplayState(definitions, steps) PROVE AsSets(t) = AsSets(B)
  <2>1. Holds(definitions, Positions(definitions, Range(steps)), t)
    BY <1>8
  <2>2. GoodState(t) /\ GoodState(B) /\ Facts(t) = Facts(B)
    BY <2>1, <1>7 DEF Holds
  <2> QED
    BY <2>2, FactsDetermine
<1> QED
  BY <1>6, <1>8, <1>9 DEF ReplaysTo, steps

\* What every ready state gives the two properties.
LEMMA ReadyFacts ==
    ASSUME Diagnosed, Executed, label = "ready"
    PROVE  /\ IsGraph(parents) /\ Acyclic(parents)
           /\ DOMAIN definitions = DOMAIN parents /\ Known(definitions)
           /\ Closed(parents, recorder) /\ Recorded = DOMAIN parents \intersect recorder
           /\ Holds(definitions, Positions(definitions, Recorded), working)
           /\ \A k \in recorder : ValidKey(k)
<1>1. IsGraph(parents) /\ Acyclic(parents) /\ parents = GraphOf(migrations)
  BY GraphKnown
<1>2. recorder \subseteq DOMAIN parents \union {UnknownKey}
  BY DEF Executed
<1>3. \A k \in DOMAIN parents : ValidKey(k)
  <2>1. InputError(migrations) = NoError
    BY DEF Diagnosed
  <2>2. InvalidNodes(migrations) = {}
    BY <2>1 DEF InputError, NodeError, NoError
  <2> QED
    BY <1>1, <2>2 DEF InvalidNodes, GraphOf
<1>4. ValidKey(UnknownKey)
  BY ReconstructorAssumption
<1> QED
  BY <1>1, <1>2, <1>3, <1>4 DEF Executed, Recorded

LEMMA ExecutedIndependent == Diagnosed /\ Executed => HistoryIndependent
<1> DEFINE r == [kind |-> "applied", targets |-> <<>>, applied |-> recorder]
           steps == OnlyAppliedSteps(TargetProjection(parents, AppLeaves(parents)), recorder)
           states == ReplayState(definitions, steps)
<1> SUFFICES ASSUME Diagnosed, Executed, label = "ready"
             PROVE  /\ \A s \in Reconstruct(r).state : AsSets(s) = AsSets(working)
                    /\ Declared => Reconstruct(r).error = "none"
  BY DEF HistoryIndependent
<1>1. ReplaysTo(recorder, working)
  BY ReadyFacts, RecordReplays
<1>2. RequestError(r) = "none"
  BY ReadyFacts DEF RequestError
<1>3. Projection(parents, r) = steps
  BY DEF Projection
<1>4. Reconstruct(r).state = states /\ (states # {} => Reconstruct(r).error = "none")
  <2> HIDE DEF r, steps
  <2> QED
    BY <1>2, <1>3 DEF Reconstruct
<1> HIDE DEF r, steps
<1> QED
  BY <1>1, <1>4 DEF ReplaysTo, steps

(***************************************************************************)
(* What the recorder says is enough: replaying it gives the schema of the  *)
(* executor that wrote it, after any applications and unapplications, and  *)
(* with declared dependencies the replay never fails.  (Reconstruct of an  *)
(* AppliedStateRequest against stateForward and stateBackward.)            *)
(***************************************************************************)
THEOREM SpecHistoryIndependent == Spec => []HistoryIndependent
BY SpecExecuted, SpecDiagnosed, ExecutedIndependent, PTL

----------------------------------------------------------------------------
\* Every migration that nothing applied depends on can be unapplied

\* When k has no applied child, what it created has lost the fields that its own later operations added.
LEMMA TopBare ==
    ASSUME Diagnosed, Executed, label = "ready", Declared,
           NEW k \in Recorded, Children(parents, k) \intersect recorder = {},
           NEW i \in 1..Len(definitions[k]), definitions[k][i].kind = "CreateModel"
    PROVE  Bare(definitions, Positions(definitions, Recorded) \ Beyond(k, i, Len(definitions[k])), definitions[k][i])
<1> DEFINE P == Positions(definitions, Recorded)
           S == Recorded \ {k}
<1>1. /\ IsGraph(parents) /\ DOMAIN definitions = DOMAIN parents /\ Known(definitions)
      /\ Closed(parents, recorder) /\ Holds(definitions, P, working)
  BY ReadyFacts
<1>2. Recorded \subseteq DOMAIN parents /\ \A n \in Recorded : parents[n] \subseteq Recorded
  BY <1>1 DEF Recorded, Closed, IsGraph
<1> SUFFICES ASSUME NEW q \in P \ Beyond(k, i, Len(definitions[k])), At(definitions, q).kind = "AddField",
                    At(definitions, q).app = definitions[k][i].app,
                    At(definitions, q).modelName = definitions[k][i].model.name
             PROVE  FALSE
  BY DEF Bare
<1>3. PICK h \in Recorded : q \in {<<h, a>> : a \in 1..Len(definitions[h])}
  BY DEF Positions
<1>4. PICK a \in 1..Len(definitions[h]) : q = <<h, a>>
  BY <1>3
<1>5. At(definitions, q) = definitions[h][a] /\ a \in DOMAIN definitions[h] /\ h \in DOMAIN definitions
  <2>1. h \in DOMAIN definitions
    BY <1>1, <1>2
  <2> QED
    BY <2>1, <1>1, <1>4 DEF At, Known
<1>6. PICK p \in Closure(parents, h) : \E b \in DOMAIN definitions[p] :
          /\ definitions[p][b].kind = "CreateModel"
          /\ definitions[p][b].app = definitions[h][a].app
          /\ definitions[p][b].model.name = definitions[h][a].modelName
          /\ p = h => b < a
  BY <1>5 DEF Declared
<1>7. PICK b \in DOMAIN definitions[p] :
          /\ definitions[p][b].kind = "CreateModel"
          /\ definitions[p][b].app = definitions[h][a].app
          /\ definitions[p][b].model.name = definitions[h][a].modelName
          /\ p = h => b < a
  BY <1>6
<1>8. p \in Recorded
  <2>1. ReachedFrom(parents, h) \subseteq Recorded
    BY <1>1, <1>2, ReachedLeast
  <2> QED
    BY <2>1, <1>6 DEF Closure
<1>9. b \in 1..Len(definitions[p])
  BY <1>1, <1>2, <1>7, <1>8 DEF Known
<1>10. p = k /\ b = i
  <2>1. <<p, b>> \in P /\ <<k, i>> \in P
    BY <1>8, <1>9, InPositions
  <2>2. At(definitions, <<p, b>>) = definitions[p][b] /\ At(definitions, <<k, i>>) = definitions[k][i]
    BY DEF At
  <2>3. KnownOperation(definitions[p][b]) /\ KnownOperation(definitions[k][i])
    BY <1>1, <1>2, <1>8, <1>9 DEF Known
  <2>4. definitions[p][b].app = definitions[k][i].app /\ definitions[p][b].model.name = definitions[k][i].model.name
    BY <1>5, <1>7
  <2> HIDE DEF P
  <2>5. <<p, b>> = <<k, i>>
    BY <1>1, <1>7, <2>1, <2>2, <2>3, <2>4, CreatesApart
  <2> QED
    BY <2>5
<1>11. CASE h = k
  <2>1. i < a
    BY <1>7, <1>10, <1>11
  <2>2. Len(definitions[k]) \in Nat /\ a \in Nat /\ a <= Len(definitions[k])
    BY <1>1, <1>5, <1>11 DEF Known
  <2>3. a \in (i + 1)..Len(definitions[k])
    BY <2>1, <2>2
  <2> QED
    BY <1>4, <1>11, <2>3 DEF Beyond
<1>12. CASE h # k
  <2>1. k \in ReachedFrom(parents, h)
    BY <1>6, <1>10, <1>12 DEF Closure
  <2>2. \A n \in Recorded : k \notin parents[n]
    BY <1>2 DEF Children, Recorded
  <2>3. S \in SUBSET DOMAIN parents /\ parents[h] \subseteq S /\ \A m \in S : parents[m] \subseteq S
    BY <1>2, <2>2
  <2> HIDE DEF S
  <2>4. ReachedFrom(parents, h) \subseteq S
    BY <1>1, <1>2, <2>3, ReachedLeast
  <2> QED
    BY <2>1, <2>4 DEF S
<1> QED
  BY <1>11, <1>12

LEMMA ExecutedReversible == Diagnosed /\ Executed => Reversible
<1> SUFFICES ASSUME Diagnosed, Executed, label = "ready"
             PROVE  /\ ValidState(working)
                    /\ Declared =>
                          \A k \in Recorded : Children(parents, k) \intersect recorder = {} =>
                              \E s \in Preflight(working, AppOf[k], definitions[k], "backward") :
                                  \E t \in ReplayState(definitions, OnlyAppliedSteps(TargetProjection(parents, AppLeaves(parents)), recorder \ {k})) :
                                      AsSets(s) = AsSets(t)
  BY DEF Reversible, Recorded
<1>1. /\ IsGraph(parents) /\ Acyclic(parents) /\ DOMAIN definitions = DOMAIN parents /\ Known(definitions)
      /\ Closed(parents, recorder) /\ Holds(definitions, Positions(definitions, Recorded), working)
  BY ReadyFacts
<1>2. ValidState(working)
  BY <1>1, GoodValid DEF Holds
<1>3. ASSUME Declared, NEW k \in Recorded, Children(parents, k) \intersect recorder = {}
      PROVE  \E s \in Preflight(working, AppOf[k], definitions[k], "backward") :
                 \E t \in ReplayState(definitions, OnlyAppliedSteps(TargetProjection(parents, AppLeaves(parents)), recorder \ {k})) :
                     AsSets(s) = AsSets(t)
  <2> DEFINE back == Preflight(working, AppOf[k], definitions[k], "backward")
             P == Positions(definitions, Recorded)
             R == recorder \ {k}
             C == DOMAIN parents \intersect R
  <2>1. k \in DOMAIN definitions /\ Recorded \subseteq DOMAIN definitions
    BY <1>1 DEF Recorded
  <2>2. (\A q \in P : KnownOperation(At(definitions, q))) /\ Upto(k, Len(definitions[k])) \subseteq P
    <3>1. \A q \in P : KnownOperation(At(definitions, q))
      BY <1>1, <2>1, PositionsKnown
    <3>2. Upto(k, Len(definitions[k])) \subseteq P
      BY DEF Positions, Upto
    <3> QED
      BY <3>1, <3>2
  <2>3. \A i \in 1..Len(definitions[k]) : definitions[k][i].kind = "CreateModel" =>
            Bare(definitions, P \ Beyond(k, i, Len(definitions[k])), definitions[k][i])
    BY <1>3, TopBare
  <2>4. /\ \A s \in back : Holds(definitions, P \ Upto(k, Len(definitions[k])), s)
        /\ back # {}
    <3>1. 1 \in {0, 1} /\ 1 # 0
      OBVIOUS
    <3> HIDE DEF P
    <3> QED
      BY <1>1, <2>1, <2>2, <2>3, <3>1, MigrationBackward DEF P
  <2>5. PICK s \in back : Holds(definitions, P \ Upto(k, Len(definitions[k])), s)
    BY <2>4
  <2>6. C = Recorded \ {k}
    BY DEF Recorded
  <2>7. Closed(parents, R)
    BY <1>1, <1>3 DEF Closed, Children
  <2> HIDE DEF C, R
  <2>8. Holds(definitions, Positions(definitions, C), s)
    BY <2>5, <2>6, PositionsLess
  <2>9. C = DOMAIN parents \intersect R
    BY DEF C
  <2>10. ReplaysTo(R, s)
    BY <1>1, <2>7, <2>8, <2>9, RecordReplays
  <2>11. PICK t \in ReplayState(definitions, OnlyAppliedSteps(TargetProjection(parents, AppLeaves(parents)), R)) : TRUE
    BY <1>3, <2>10 DEF ReplaysTo
  <2>12. AsSets(s) = AsSets(t)
    BY <2>10, <2>11 DEF ReplaysTo
  <2> HIDE DEF back
  <2> QED
    BY <2>5, <2>11, <2>12 DEF R, back
<1> QED
  BY <1>2, <1>3

(***************************************************************************)
(* The state in memory is valid, and with declared dependencies an applied *)
(* migration without applied children can be unapplied, which leads to the *)
(* schema of the rest of the record.  (stateBackward against               *)
(* stateForward, through the preflight of the executor.)                   *)
(***************************************************************************)
THEOREM SpecReversible == Spec => []Reversible
BY SpecExecuted, SpecDiagnosed, ExecutedReversible, PTL

==============================================================================
