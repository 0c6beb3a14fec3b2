------------------------------ MODULE Planner ------------------------------
(***************************************************************************)
(* Planner.Plan (migrations/planner.go, migrations/planner_graph.go): from *)
(* an applied set and a list of targets to a sequence of migration steps.  *)
(* Each target is planned against the working set that the targets before  *)
(* it left behind: a graph search collects candidates, then candidates are *)
(* emitted one by one, the first ready one in key order.                   *)
(*                                                                         *)
(* The search stack is a set here: the order in which it is emptied has no *)
(* effect on what it collects, and every order is a behaviour.             *)
(***************************************************************************)
EXTENDS MigrationGraph

CONSTANTS
    Nodes,       \* migration keys of the graph, numbered in key order
    Apps,        \* app labels
    AppOf,       \* app of each key
    UnknownKey,  \* a valid key that is not in the graph
    MaxTargets   \* bound: targets in one call

NoKey == -1   \* the zero MigrationKey, which validMigrationKey rejects
NoApp == ""   \* the empty app label

ASSUME PlannerAssumption ==
    /\ Nodes \subseteq Nat
    /\ AppOf \in [Nodes -> Apps]
    /\ UnknownKey \in Nat \ Nodes
    /\ NoApp \notin Apps
    /\ MaxTargets \in Nat

\* A Target as its two constructors or its zero value make it.
NamedTarget(k) == [kind |-> "named", key |-> k, app |-> NoApp]
ZeroTarget(a) == [kind |-> "zero", key |-> NoKey, app |-> a]
UnsetTarget == [kind |-> "unset", key |-> NoKey, app |-> NoApp]

Targets ==
    {NamedTarget(k) : k \in Nodes \cup {UnknownKey, NoKey}}
      \cup {ZeroTarget(a) : a \in Apps \cup {NoApp}}
      \cup {UnsetTarget}

\* validateTarget.
ValidTarget(target) ==
    \/ target.kind = "named" /\ target.key # NoKey /\ target.app = NoApp
    \/ target.kind = "zero" /\ target.key = NoKey /\ target.app # NoApp

VARIABLES
    parents,     \* the immutable graph
    given,       \* the caller's applied set, without unknown keys
    targets,     \* targets still to be planned
    working,     \* the local applied set
    plan,        \* steps so far
    mode,        \* where the call is
    seeds,       \* backward seeds of the current target still to be planned
    stack, visited, candidates,
    base         \* working when the current target was taken (history)

plannerVars ==
    <<parents, given, targets, working, plan, mode, seeds, stack, visited,
      candidates, base>>

Modes == {"validate", "history", "pick", "forwardSearch", "forwardEmit",
          "seeds", "backwardSearch", "backwardEmit", "done",
          "invalid_target", "inconsistent_applied_history",
          "target_not_found"}

Failures == {"invalid_target", "inconsistent_applied_history",
             "target_not_found"}

Graphs == {g \in [Nodes -> SUBSET Nodes] : Acyclic(g)}

TargetLists == UNION {[1 .. n -> Targets] : n \in 0 .. MaxTargets}

Init ==
    /\ parents \in Graphs
    /\ given \in SUBSET Nodes
    /\ targets \in TargetLists
    /\ working = given
    /\ plan = <<>>
    /\ mode = "validate"
    /\ seeds = {} /\ stack = {} /\ visited = {} /\ candidates = {}
    /\ base = given

-----------------------------------------------------------------------------

\* Plan returns nil and an error.
FailWith(code) ==
    /\ mode' = code
    /\ plan' = <<>>
    /\ UNCHANGED <<parents, given, targets, working, seeds, stack, visited,
                   candidates, base>>

\* The representation of every target is checked before anything else.
ValidateTargets ==
    /\ mode = "validate"
    /\ IF \E i \in DOMAIN targets : ~ValidTarget(targets[i])
         THEN FailWith("invalid_target")
         ELSE /\ mode' = "history"
              /\ UNCHANGED <<parents, given, targets, working, plan, seeds,
                             stack, visited, candidates, base>>

\* Faulty variant: the applied history is not checked.
ValidateHistorySkipped ==
    /\ mode = "history"
    /\ mode' = "pick"
    /\ UNCHANGED <<parents, given, targets, working, plan, seeds, stack,
                   visited, candidates, base>>

ValidateAppliedHistory ==
    /\ mode = "history"
    /\ IF Closed(parents, working)
         THEN /\ mode' = "pick"
              /\ UNCHANGED <<parents, given, targets, working, plan, seeds,
                             stack, visited, candidates, base>>
         ELSE FailWith("inconsistent_applied_history")

\* Faulty variant: every child of the target is a seed, of any app.
BackwardSeedsOfAnyApp(target) ==
    IF target.kind = "zero" THEN AppRoots(parents, AppOf, target.app)
    ELSE Children(parents, target.key)

\* Where a backward target starts: the children of a named migration in its
\* own app, or the roots of an app.
BackwardSeeds(target) ==
    IF target.kind = "zero" THEN AppRoots(parents, AppOf, target.app)
    ELSE {c \in Children(parents, target.key) : AppOf[c] = AppOf[target.key]}

\* The next target: forward when it is not applied, backward otherwise.
PickTarget ==
    /\ mode = "pick" /\ targets # <<>>
    /\ LET target == Head(targets) IN
       \/ /\ target.kind = "named" /\ target.key \notin Nodes
          /\ FailWith("target_not_found")
       \/ /\ target.kind = "named" /\ target.key \in Nodes \ working
          /\ mode' = "forwardSearch"
          /\ stack' = {target.key}
          /\ candidates' = {} /\ base' = working
          /\ UNCHANGED <<parents, given, targets, working, plan, seeds, visited>>
       \/ /\ target.kind = "named" => target.key \in Nodes \cap working
          /\ mode' = "seeds"
          /\ seeds' = BackwardSeeds(target)
          /\ base' = working
          /\ UNCHANGED <<parents, given, targets, working, plan, stack, visited,
                         candidates>>

\* All targets are planned: Plan returns.
ReturnPlan ==
    /\ mode = "pick" /\ targets = <<>>
    /\ mode' = "done"
    /\ UNCHANGED <<parents, given, targets, working, plan, seeds, stack,
                   visited, candidates, base>>

NextTarget ==
    /\ mode' = "pick"
    /\ targets' = Tail(targets)
    /\ UNCHANGED <<parents, given, working, plan, seeds, stack, visited,
                   candidates, base>>

-----------------------------------------------------------------------------
(* planForward.                                                            *)

\* Faulty variant: dependencies on other apps are not followed.
ForwardSearchSameApp(k) ==
    /\ mode = "forwardSearch" /\ k \in stack
    /\ candidates' = candidates \cup ({k} \ working)
    /\ stack' = (stack \ {k}) \cup (IF k \in working \cup candidates THEN {}
                                   ELSE {p \in parents[k] : AppOf[p] = AppOf[k]})
    /\ UNCHANGED <<parents, given, targets, working, plan, mode, seeds,
                   visited, base>>

\* Pop a key; an unapplied new one is a candidate and its parents are pushed.
ForwardSearch(k) ==
    /\ mode = "forwardSearch" /\ k \in stack
    /\ IF k \in working \cup candidates
         THEN stack' = stack \ {k} /\ UNCHANGED candidates
         ELSE /\ candidates' = candidates \cup {k}
              /\ stack' = (stack \ {k}) \cup parents[k]
    /\ UNCHANGED <<parents, given, targets, working, plan, mode, seeds,
                   visited, base>>

ForwardSearchEnds ==
    /\ mode = "forwardSearch" /\ stack = {}
    /\ mode' = "forwardEmit"
    /\ UNCHANGED <<parents, given, targets, working, plan, seeds, stack,
                   visited, candidates, base>>

\* Faulty variant: a candidate is ready when one of its parents is applied.
ForwardReadyEarly ==
    {k \in candidates : parents[k] = {} \/ parents[k] \cap working # {}}

\* Candidates of which every parent is applied (firstForwardReady).
ForwardReady == {k \in candidates : parents[k] \subseteq working}

ForwardEmit(k) ==
    /\ mode = "forwardEmit"
    /\ IsFirst(k, ForwardReady)
    /\ plan' = Append(plan, Forward(k))
    /\ working' = working \cup {k}
    /\ candidates' = candidates \ {k}
    /\ UNCHANGED <<parents, given, targets, mode, seeds, stack, visited, base>>

ForwardEnds ==
    /\ mode = "forwardEmit" /\ candidates = {}
    /\ NextTarget

-----------------------------------------------------------------------------
(* planBackward, for one seed after the other.                             *)

TakeSeed(k) ==
    /\ mode = "seeds"
    /\ IsFirst(k, seeds)
    /\ seeds' = seeds \ {k}
    /\ stack' = {k} /\ visited' = {} /\ candidates' = {}
    /\ mode' = "backwardSearch"
    /\ UNCHANGED <<parents, given, targets, working, plan, base>>

SeedsEnd ==
    /\ mode = "seeds" /\ seeds = {}
    /\ NextTarget

\* Faulty variant: the search does not go on below a candidate.
BackwardSearchShallow(k) ==
    /\ mode = "backwardSearch" /\ k \in stack
    /\ visited' = visited \cup {k}
    /\ candidates' = candidates \cup ({k} \cap working)
    /\ stack' = (stack \ {k}) \cup (IF k \in working THEN {} ELSE Children(parents, k))
    /\ UNCHANGED <<parents, given, targets, working, plan, mode, seeds, base>>

\* Pop a key; a new one is visited, is a candidate when it is applied, and
\* its children are pushed.
BackwardSearch(k) ==
    /\ mode = "backwardSearch" /\ k \in stack
    /\ IF k \in visited
         THEN stack' = stack \ {k} /\ UNCHANGED <<visited, candidates>>
         ELSE /\ visited' = visited \cup {k}
              /\ candidates' = candidates \cup ({k} \cap working)
              /\ stack' = (stack \ {k}) \cup Children(parents, k)
    /\ UNCHANGED <<parents, given, targets, working, plan, mode, seeds, base>>

BackwardSearchEnds ==
    /\ mode = "backwardSearch" /\ stack = {}
    /\ mode' = "backwardEmit"
    /\ UNCHANGED <<parents, given, targets, working, plan, seeds, stack,
                   visited, candidates, base>>

\* Faulty variant: removes parents before their children.
BackwardReadyReversed ==
    {k \in candidates : parents[k] \cap candidates = {}}

\* Candidates that no other candidate depends on (firstBackwardReady).
BackwardReady ==
    {k \in candidates : Children(parents, k) \cap candidates = {}}

BackwardEmit(k) ==
    /\ mode = "backwardEmit"
    /\ IsFirst(k, BackwardReady)
    /\ plan' = Append(plan, Backward(k))
    /\ working' = working \ {k}
    /\ candidates' = candidates \ {k}
    /\ UNCHANGED <<parents, given, targets, mode, seeds, stack, visited, base>>

BackwardEnds ==
    /\ mode = "backwardEmit" /\ candidates = {}
    /\ mode' = "seeds"
    /\ UNCHANGED <<parents, given, targets, working, plan, seeds, stack,
                   visited, candidates, base>>

-----------------------------------------------------------------------------
Next ==
    \/ ValidateTargets \/ ValidateAppliedHistory \/ PickTarget \/ ReturnPlan
    \/ ForwardSearchEnds \/ ForwardEnds
    \/ SeedsEnd \/ BackwardSearchEnds \/ BackwardEnds
    \/ \E k \in Nodes :
          \/ ForwardSearch(k) \/ ForwardEmit(k)
          \/ TakeSeed(k) \/ BackwardSearch(k) \/ BackwardEmit(k)

Spec == Init /\ [][Next]_plannerVars

-----------------------------------------------------------------------------
(* Properties.                                                             *)

TypeOK ==
    /\ parents \in Graphs
    /\ given \subseteq Nodes /\ working \subseteq Nodes /\ base \subseteq Nodes
    /\ targets \in Seq(Targets)
    /\ plan \in Seq([key : Nodes, direction : {"forward", "backward"}])
    /\ mode \in Modes
    /\ seeds \subseteq Nodes /\ stack \subseteq Nodes
    /\ visited \subseteq Nodes /\ candidates \subseteq Nodes

Planning == mode \notin {"validate", "history"} \cup Failures

\* The working set is closed under dependencies after every single step that
\* is emitted, forward or backward: no migration is planned before one it
\* depends on, none is removed before one that depends on it.
WorkingClosed == Planning => Closed(parents, working)

\* As long as there are candidates one of them is ready: the "internal cycle"
\* errors of planForward and planBackward cannot happen in a graph that
\* NewPlanner accepted.
EmitNeverStuck ==
    /\ mode = "forwardEmit" /\ candidates # {} => ForwardReady # {}
    /\ mode = "backwardEmit" /\ candidates # {} => BackwardReady # {}

\* Reference: a migration and everything it depends on is the intersection of
\* all closed sets that contain it.
AncestorsOf(k) ==
    {n \in Nodes : \A T \in SUBSET Nodes :
        k \in T /\ Closed(parents, T) => n \in T}

\* Reference: everything that depends on a member of S, and S.
DescendantsOf(S) ==
    {n \in Nodes : \A T \in SUBSET Nodes :
        S \subseteq T /\ (\A k \in T : Children(parents, k) \subseteq T) => n \in T}

\* Reference: what a backward target has to undo first.  All of an app for a
\* zero target, the app's next migrations for a named one.
MustUndo(target) ==
    {n \in Nodes : IF target.kind = "zero" THEN AppOf[n] = target.app
                   ELSE target.key \in parents[n] /\ AppOf[n] = AppOf[target.key]}

\* A target changes exactly what it has to.  Forward applies the target and
\* everything it depends on; backward unapplies what must be undone and
\* everything that depends on it; nothing else changes, however many seeds
\* Plan goes through and whatever earlier seeds have already unapplied.
TargetExact ==
    /\ mode = "forwardEmit" /\ candidates = {} =>
          working = base \cup AncestorsOf(Head(targets).key)
    /\ mode = "seeds" /\ seeds = {} =>
          working = base \ DescendantsOf(MustUndo(Head(targets)))

\* The plan that is returned is sound for the applied set that was given, and
\* replaying it leads to the working set.
PlanSound ==
    mode = "done" =>
        /\ SoundPlan(parents, given, plan)
        /\ Replay(given, plan, Len(plan)) = working
=============================================================================
