--------------------------- MODULE GraphDiagnosis ----------------------------
(***************************************************************************)
(* NewPlanner: from migration definitions as a caller passes them to a     *)
(* dependency graph, or to the one diagnosis the code chooses among all    *)
(* that apply (migrations/planner_graph.go, newPlannerGraph).  The search  *)
(* for a cycle is Tarjan's algorithm, one action per visit, per edge and   *)
(* per return.                                                             *)
(*                                                                         *)
(* A key is a number, in the order of migrationKeyLess; 0 stands for a key *)
(* without app or name.                                                    *)
(***************************************************************************)
EXTENDS MigrationGraph, FiniteSets, SequencesExt, FiniteSetsExt

CONSTANT Inputs     \* sequences of [key, dependencies, operations]

ASSUME InputsAssumption ==
    \A ms \in Inputs :
        /\ DOMAIN ms = 1..Len(ms) /\ Len(ms) \in Nat
        /\ \A i \in DOMAIN ms : ms[i].key \in Nat /\ ms[i].dependencies \in Seq(Nat)

VARIABLES
    migrations,     \* the argument of NewPlanner
    label,          \* where the constructor is
    diagnosis,      \* the PlanningError returned, code "none" if there is none
    parents,        \* the graph, once built
    indices, lowLink, stack, frames, components   \* Tarjan's algorithm

tarjanVars == <<indices, lowLink, stack, frames, components>>
diagnosisVars == <<migrations, label, diagnosis, parents, tarjanVars>>

ValidKey(k) == k > 0
NoError == [code |-> "none", node |-> 0, related |-> 0, members |-> {}]
Keys(ms) == {ms[i].key : i \in DOMAIN ms}
Edges(ms) == UNION {{<<ms[i].key, ms[i].dependencies[j]>> : j \in DOMAIN ms[i].dependencies} : i \in DOMAIN ms}

\* sortDependencyEdges: by child, then by parent.
FirstEdge(E) == CHOOSE e \in E : \A f \in E : e[1] < f[1] \/ (e[1] = f[1] /\ e[2] <= f[2])

----------------------------------------------------------------------------
\* The defects newPlannerGraph looks for before it builds the graph

InvalidNodes(ms) == {k \in Keys(ms) : ~ValidKey(k)}
DuplicateNodes(ms) == {k \in Keys(ms) : \E i, j \in DOMAIN ms : i # j /\ ms[i].key = k /\ ms[j].key = k}
InvalidEdges(ms) == {e \in Edges(ms) : ~ValidKey(e[2])}
DuplicateEdges(ms) ==
    {e \in Edges(ms) : \E i \in DOMAIN ms : \E j, k \in DOMAIN ms[i].dependencies :
        j # k /\ ms[i].key = e[1] /\ ms[i].dependencies[j] = e[2] /\ ms[i].dependencies[k] = e[2]}
MissingEdges(ms) == {e \in Edges(ms) : e[2] \notin Keys(ms)}

NodeError(code, nodes) == [NoError EXCEPT !.code = code, !.node = Min(nodes)]
EdgeError(code, E) == [NoError EXCEPT !.code = code, !.node = FirstEdge(E)[1], !.related = FirstEdge(E)[2]]

\* One kind of defect hides all later ones; within a kind the first in sorted order is named.
InputError(ms) ==
    IF InvalidNodes(ms) # {} THEN NodeError("invalid_node", InvalidNodes(ms))
    ELSE IF DuplicateNodes(ms) # {} THEN NodeError("duplicate_node", DuplicateNodes(ms))
    ELSE IF InvalidEdges(ms) # {} THEN EdgeError("invalid_dependency", InvalidEdges(ms))
    ELSE IF DuplicateEdges(ms) # {} THEN EdgeError("duplicate_dependency", DuplicateEdges(ms))
    ELSE IF MissingEdges(ms) # {} THEN EdgeError("dependency_not_found", MissingEdges(ms))
    ELSE NoError

GraphOf(ms) == [k \in Keys(ms) |-> {e[2] : e \in {f \in Edges(ms) : f[1] = k}}]

----------------------------------------------------------------------------
DiagnosisInit ==
    /\ migrations \in Inputs
    /\ label = "validate"
    /\ diagnosis = NoError
    /\ parents = <<>>
    /\ indices = <<>> /\ lowLink = <<>> /\ stack = <<>> /\ frames = <<>> /\ components = {}

Refuse(error) ==
    /\ label' = "refused"
    /\ diagnosis' = error
    /\ UNCHANGED <<migrations, parents, tarjanVars>>

ValidateInput ==
    /\ label = "validate"
    /\ IF InputError(migrations) # NoError
       THEN Refuse(InputError(migrations))
       ELSE /\ label' = "search"
            /\ parents' = GraphOf(migrations)
            /\ indices' = [k \in Keys(migrations) |-> 0]
            /\ lowLink' = [k \in Keys(migrations) |-> 0]
            /\ UNCHANGED <<migrations, diagnosis, stack, frames, components>>

Top == Last(frames)

\* visit(node): number it and push it; its parents are still to be looked at.
Enter(node, callers) ==
    LET index == 1 + Cardinality({k \in DOMAIN indices : indices[k] # 0})
    IN  /\ indices' = [indices EXCEPT ![node] = index]
        /\ lowLink' = [lowLink EXCEPT ![node] = index]
        /\ stack' = Append(stack, node)
        /\ frames' = Append(callers, [node |-> node, rest |-> parents[node]])
        /\ UNCHANGED <<migrations, label, diagnosis, parents, components>>

VisitRoot ==
    /\ label = "search" /\ frames = <<>>
    /\ \E n \in DOMAIN parents : IsFirst(n, {k \in DOMAIN parents : indices[k] = 0}) /\ Enter(n, <<>>)

\* The next parent of the node on top is new, still on the stack, or in a finished component.
Descend(p) ==
    /\ indices[p] = 0
    /\ Enter(p, Append(Front(frames), [Top EXCEPT !.rest = @ \ {p}]))

\* Faulty variant: the test for onStack is forgotten.
LookBackAnywhere(p) ==
    /\ indices[p] # 0
    /\ frames' = Append(Front(frames), [Top EXCEPT !.rest = @ \ {p}])
    /\ lowLink' = [lowLink EXCEPT ![Top.node] = Min({@, indices[p]})]
    /\ UNCHANGED <<migrations, label, diagnosis, parents, indices, stack, components>>

LookBack(p) ==
    /\ indices[p] # 0
    /\ frames' = Append(Front(frames), [Top EXCEPT !.rest = @ \ {p}])
    /\ lowLink' = IF Contains(stack, p) THEN [lowLink EXCEPT ![Top.node] = Min({@, indices[p]})] ELSE lowLink
    /\ UNCHANGED <<migrations, label, diagnosis, parents, indices, stack, components>>

ExamineParent ==
    /\ label = "search" /\ frames # <<>>
    /\ \E p \in Top.rest : IsFirst(p, Top.rest) /\ (Descend(p) \/ LookBack(p))

HasSelfLoop(n) == n \in parents[n]

Place(n) == CHOOSE i \in DOMAIN stack : stack[i] = n

\* The members of the component whose root is n: n and everything above it on the stack.
PopFrom(n) == {stack[i] : i \in Place(n)..Len(stack)}

\* All parents seen: close the component at its root, and hand lowLink to the caller.
LeaveNode ==
    /\ label = "search" /\ frames # <<>> /\ Top.rest = {}
    /\ LET n == Top.node
           isRoot == lowLink[n] = indices[n]
           members == PopFrom(n)
       IN  /\ frames' = Front(frames)
           /\ stack' = IF isRoot THEN SubSeq(stack, 1, Place(n) - 1) ELSE stack
           /\ components' = IF isRoot /\ (Cardinality(members) > 1 \/ HasSelfLoop(Min(members)))
                            THEN components \union {members} ELSE components
           /\ lowLink' = IF Len(frames) = 1 THEN lowLink
                         ELSE [lowLink EXCEPT ![Last(Front(frames)).node] = Min({@, lowLink[n]})]
    /\ UNCHANGED <<migrations, label, diagnosis, parents, indices>>

\* Of several cycles the component with the least first key is reported.
FinishSearch ==
    /\ label = "search" /\ frames = <<>> /\ \A k \in DOMAIN parents : indices[k] # 0
    /\ IF components # {}
       THEN Refuse([NoError EXCEPT !.code = "dependency_cycle",
                        !.members = CHOOSE c \in components : \A d \in components : Min(c) <= Min(d)])
       ELSE /\ label' = "planner"
            /\ UNCHANGED <<migrations, diagnosis, parents, tarjanVars>>

NewPlanner == ValidateInput \/ VisitRoot \/ ExamineParent \/ LeaveNode \/ FinishSearch

----------------------------------------------------------------------------
\* The reference: paths in the graph, without an algorithm

\* Everything reachable from k along dependencies, in one step or more.
ReachedFrom(g, k) ==
    {n \in DOMAIN g : \A S \in SUBSET DOMAIN g :
        (g[k] \subseteq S /\ \A m \in S : g[m] \subseteq S) => n \in S}

OnCycle(g) == {k \in DOMAIN g : k \in ReachedFrom(g, k)}

(***************************************************************************)
(* NewPlanner accepts exactly the well-formed acyclic definitions; for a   *)
(* cyclic graph it names the whole strongly connected component of the     *)
(* least migration that lies on any cycle, also when components share      *)
(* paths or hang below each other, and whatever order the definitions were *)
(* passed in (firstCycleComponent, newPlannerGraph).                       *)
(***************************************************************************)
DiagnosisExact ==
    LET g == GraphOf(migrations)
    IN  /\ label \notin {"validate", "search", "refused"} => InputError(migrations) = NoError /\ Acyclic(g)
        /\ label = "refused" /\ diagnosis.code = "dependency_cycle" =>
              /\ OnCycle(g) # {}
              /\ LET k == Min(OnCycle(g))
                 IN  diagnosis.members = {n \in ReachedFrom(g, k) : k \in ReachedFrom(g, n)}

=============================================================================
