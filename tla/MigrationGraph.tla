-------------------------- MODULE MigrationGraph ---------------------------
(***************************************************************************)
(* Vocabulary of the migration dependency graph (migrations/               *)
(* planner_graph.go).  A graph is a function `parents` from migration keys *)
(* to the set of keys they depend on.  Keys are numbers in the order of    *)
(* migrationKeyLess; appOf gives the app of a key.                         *)
(***************************************************************************)
EXTENDS Integers, Sequences

Children(parents, k) == {n \in DOMAIN parents : k \in parents[n]}

\* validateAppliedHistory: every applied known migration has its parents.
Closed(parents, applied) ==
    \A n \in DOMAIN parents : n \in applied => parents[n] \subseteq applied

\* A graph of known keys without a dependency cycle: every non-empty set of
\* migrations has a member without parents, and one without children, in it.
Acyclic(parents) ==
    \A S \in SUBSET (DOMAIN parents) : S # {} =>
        /\ \E n \in S : parents[n] \cap S = {}
        /\ \E n \in S : Children(parents, n) \cap S = {}

\* appRoots: the app's migrations that depend on none of the same app.
AppRoots(parents, appOf, app) ==
    {n \in DOMAIN parents : appOf[n] = app /\ \A p \in parents[n] : appOf[p] # app}

\* The first key of a set, in the order of migrationKeyLess.
IsFirst(k, S) == k \in S /\ \A n \in S : k <= n

-----------------------------------------------------------------------------
(* Plans: sequences of [key, direction].                                   *)

Forward(k) == [key |-> k, direction |-> "forward"]
Backward(k) == [key |-> k, direction |-> "backward"]

\* The applied set after the first i steps of plan.
Replay(applied, plan, i) ==
    LET lastStep(k) == {j \in 1 .. i : plan[j].key = k
                          /\ \A m \in (j + 1) .. i : plan[m].key # k}
        touched == {plan[j].key : j \in 1 .. i}
    IN  (applied \ touched)
          \cup {k \in touched : \E j \in lastStep(k) : plan[j].direction = "forward"}

\* What a planner promises of a plan from `applied`: every step changes
\* something and the applied set is closed before and after every step.
SoundPlan(parents, applied, plan) ==
    /\ \A i \in 0 .. Len(plan) : Closed(parents, Replay(applied, plan, i))
    /\ \A i \in 1 .. Len(plan) :
          (plan[i].direction = "forward") # (plan[i].key \in Replay(applied, plan, i - 1))
=============================================================================
