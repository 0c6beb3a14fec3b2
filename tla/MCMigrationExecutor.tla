------------------------ MODULE MCMigrationExecutor ------------------------
(* Instances of MigrationExecutor for TLC.  Migration 1 creates a table    *)
(* and adds a column to it, 2 adds another column, 3 has no operations; 4  *)
(* is of another app and creates the same table; 9 is a key without a      *)
(* definition.                                                             *)
EXTENDS MigrationExecutor, TLC

CONSTANT MaxPlan   \* bound: steps of a plan

MCMigrations == {1, 2, 3, 4}
MCKeys == MCMigrations \cup {9}
MCElements == {"t", "t.a", "t.b"}
MCTableOf == [x \in MCElements |-> "t"]
MCApps == {"a", "b"}
MCAppOf == [m \in MCMigrations |-> IF m = 4 THEN "b" ELSE "a"]
MCOpsOf == (1 :> <<"t", "t.a">>) @@ (2 :> <<"t.b">>) @@ (3 :> <<>>) @@ (4 :> <<"t">>)

PlansOver(keys, directions) ==
    UNION {[1 .. n -> [key : keys, direction : directions]] : n \in 0 .. MaxPlan}

\* Everything a caller can pass, sensible or not.
MCAnyPlans == PlansOver(MCKeys, {"forward", "backward"})

MCDefinedPlans ==
    {p \in PlansOver(MCMigrations, {"forward", "backward"}) : p # <<>> /\ PlanShape(p)}

\* Histories that sound plans lead to.
MCHistories == {{}, {1}, {3}, {4}, {1, 2}, {1, 3}, {1, 2, 3}}

\* Some of them, for two executors.
MCRaceHistories == {{3}, {1, 2}}

CONSTANTS E1, E2
MCOne == {E1}
MCTwo == {E1, E2}
Symmetry == Permutations(Executors)
=============================================================================
