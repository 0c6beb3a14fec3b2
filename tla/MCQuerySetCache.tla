-------------------------- MODULE MCQuerySetCache --------------------------
(* Small instances of QuerySetCache for TLC.                               *)
EXTENDS QuerySetCache, TLC

CONSTANTS c1, c2, c3, s1, s2, f1, f2, f3

\* The table is empty at first, then grows to two rows.
MCRowsOf == [v \in 0 .. MaxVersion |-> IF v = 0 THEN 0 ELSE 2]

\* One row throughout, for the runs that are about calls returning.
MCOneRow == [v \in 0 .. MaxVersion |-> 1]

\* s1 belongs to an unlimited plan, s2 to a plan with LIMIT 0.
MCPlanLimit == [s \in States |-> IF s = s1 THEN 3 ELSE 0]

MCIndexes == {0, 1}
MCSomeIndex == {0}
MCAllOps == {"All", "Count", "Exists", "At", "Iterate"}
MCSymmetry == Permutations(Callers) \cup Permutations(Flights)
=============================================================================
