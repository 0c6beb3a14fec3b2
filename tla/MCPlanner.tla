----------------------------- MODULE MCPlanner -----------------------------
(* Instances of Planner for TLC: every acyclic graph over N keys of two    *)
(* apps, every applied set (closed or not) and every target.               *)
EXTENDS Planner

CONSTANT N

MCNodes == 1 .. N
MCApps == {"a", "b"}

\* Keys are sorted by app first: the first two belong to "a".
MCAppOf == [k \in 1 .. N |-> IF k <= 2 THEN "a" ELSE "b"]
=============================================================================
