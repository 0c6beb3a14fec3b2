--------------------------- MODULE PlannerProofs ---------------------------
(***************************************************************************)
(* For every acyclic graph, history and list of targets: the working set   *)
(* of Planner.Plan stays closed under dependencies after every step, the   *)
(* "internal cycle" errors of planForward and planBackward are             *)
(* unreachable, the whole plan can be replayed from the given history      *)
(* (Replayed), and a single target changes exactly what it asks for        *)
(* (Aims).                                                                 *)
(***************************************************************************)
EXTENDS Planner, TLAPS

\* While planForward searches, the parents of a candidate are applied,
\* candidates themselves, or still on the stack.
ForwardSearched ==
    mode = "forwardSearch" =>
        /\ candidates \cap working = {}
        /\ \A k \in candidates : parents[k] \subseteq working \cup candidates \cup stack

\* While planForward emits, nothing is missing below a candidate.
ForwardComplete ==
    mode = "forwardEmit" =>
        /\ candidates \cap working = {}
        /\ \A k \in candidates : parents[k] \subseteq working \cup candidates

\* While planBackward searches, the children of a visited migration are
\* visited or still on the stack, and the applied ones are candidates.
BackwardSearched ==
    mode = "backwardSearch" =>
        /\ candidates = visited \cap working
        /\ \A k \in visited : Children(parents, k) \subseteq visited \cup stack

\* While planBackward emits, every applied child of a candidate is one.
BackwardComplete ==
    mode = "backwardEmit" =>
        /\ candidates \subseteq working
        /\ \A k \in candidates : Children(parents, k) \cap working \subseteq candidates

\* A target is being planned.
TargetInHand ==
    mode \in {"forwardSearch", "forwardEmit", "seeds", "backwardSearch",
             "backwardEmit"} => targets # <<>>

\* The inductive invariant.
IInv ==
    /\ TypeOK
    /\ WorkingClosed
    /\ TargetInHand
    /\ ForwardSearched /\ ForwardComplete
    /\ BackwardSearched /\ BackwardComplete

-----------------------------------------------------------------------------
\* The children of a migration are migrations of the graph.
LEMMA ChildrenInGraph ==
    ASSUME NEW g \in Graphs, NEW k
    PROVE  Children(g, k) \subseteq Nodes
BY DEF Children, Graphs

\* Adding a migration whose parents are applied keeps the set closed.
LEMMA ClosedAdd ==
    ASSUME NEW g \in Graphs, NEW S, NEW k, Closed(g, S), g[k] \subseteq S
    PROVE  Closed(g, S \cup {k})
BY DEF Closed, Graphs

\* Removing a migration that nothing applied depends on keeps it closed.
LEMMA ClosedRemove ==
    ASSUME NEW g \in Graphs, NEW S, NEW k, Closed(g, S),
           Children(g, k) \cap S = {}
    PROVE  Closed(g, S \ {k})
BY DEF Closed, Children, Graphs

\* Where backward planning starts is in the graph.
LEMMA SeedsInGraph ==
    ASSUME NEW t, parents \in Graphs
    PROVE  BackwardSeeds(t) \subseteq Nodes
BY DEF BackwardSeeds, AppRoots, Children, Graphs

\* At least one candidate is ready as long as there are candidates.
LEMMA IInvImplies == IInv => WorkingClosed /\ EmitNeverStuck
<1> SUFFICES ASSUME IInv PROVE WorkingClosed /\ EmitNeverStuck
    OBVIOUS
<1> USE DEF IInv
<1>1. Acyclic(parents) /\ DOMAIN parents = Nodes /\ candidates \subseteq Nodes
    BY DEF TypeOK, Graphs
<1>2. ASSUME mode = "forwardEmit", candidates # {}
      PROVE  ForwardReady # {}
    <2>1. PICK n \in candidates : parents[n] \cap candidates = {}
        BY <1>1, <1>2 DEF Acyclic
    <2>2. parents[n] \subseteq working
        BY <1>2, <2>1 DEF ForwardComplete
    <2>. QED BY <2>1, <2>2 DEF ForwardReady
<1>3. ASSUME mode = "backwardEmit", candidates # {}
      PROVE  BackwardReady # {}
    <2>1. PICK n \in candidates : Children(parents, n) \cap candidates = {}
        BY <1>1, <1>3 DEF Acyclic
    <2>. QED BY <2>1 DEF BackwardReady
<1>. QED BY <1>2, <1>3 DEF EmitNeverStuck

\* Plan starts with nothing searched and nothing emitted.
LEMMA InitIInv == Init => IInv
<1> SUFFICES ASSUME Init PROVE IInv
    OBVIOUS
<1>1. targets \in Seq(Targets)
    BY DEF Init, TargetLists
<1>2. TypeOK
    BY <1>1 DEF Init, TypeOK, Modes
<1>. QED
    BY <1>2 DEF Init, IInv, WorkingClosed, Planning, ForwardSearched,
        ForwardComplete, BackwardSearched, BackwardComplete, TargetInHand

-----------------------------------------------------------------------------
\* Every step of Plan preserves the invariant.
LEMMA NextIInv == IInv /\ [Next]_plannerVars => IInv'
<1> SUFFICES ASSUME IInv, [Next]_plannerVars PROVE IInv'
    OBVIOUS
<1> USE DEF IInv
<1>. DEFINE Others == /\ TargetInHand
                     /\ ForwardSearched /\ ForwardComplete
                     /\ BackwardSearched /\ BackwardComplete
<1>0. parents \in Graphs /\ parents \in [Nodes -> SUBSET Nodes]
    BY DEF TypeOK, Graphs
<1>f. ASSUME NEW code \in Failures, FailWith(code) PROVE IInv'
    <2>1. TypeOK'
        BY <1>f DEF FailWith, TypeOK, Failures, Modes
    <2>2. (WorkingClosed /\ Others)'
        BY <1>f DEF FailWith, Failures, WorkingClosed, Planning, ForwardSearched,
            ForwardComplete, BackwardSearched, BackwardComplete, TargetInHand
    <2>. QED BY <2>1, <2>2
<1>n. ASSUME NextTarget, Planning, targets # <<>> PROVE IInv'
    <2>1. TypeOK'
        BY <1>n DEF NextTarget, TypeOK, Modes
    <2>2. (WorkingClosed /\ Others)'
        BY <1>n DEF NextTarget, WorkingClosed, Planning, ForwardSearched,
            ForwardComplete, BackwardSearched, BackwardComplete, TargetInHand, Closed
    <2>. QED BY <2>1, <2>2
<1>1. CASE ValidateTargets
    <2>1. CASE \E i \in DOMAIN targets : ~ValidTarget(targets[i])
        <3>1. FailWith("invalid_target")
            BY <1>1, <2>1 DEF ValidateTargets
        <3>. QED BY <3>1, <1>f DEF Failures
    <2>2. CASE ~\E i \in DOMAIN targets : ~ValidTarget(targets[i])
        <3>1. TypeOK'
            BY <1>1, <2>2 DEF ValidateTargets, TypeOK, Modes
        <3>2. (WorkingClosed /\ Others)'
            BY <1>1, <2>2 DEF ValidateTargets, WorkingClosed, Planning,
                ForwardSearched, ForwardComplete, BackwardSearched,
                BackwardComplete, TargetInHand
        <3>. QED BY <3>1, <3>2
    <2>. QED BY <2>1, <2>2
<1>2. CASE ValidateAppliedHistory
    <2>1. CASE Closed(parents, working)
        <3>1. TypeOK'
            BY <1>2, <2>1 DEF ValidateAppliedHistory, TypeOK, Modes
        <3>2. (WorkingClosed /\ Others)'
            BY <1>2, <2>1 DEF ValidateAppliedHistory, WorkingClosed, Planning, Closed,
                ForwardSearched, ForwardComplete, BackwardSearched,
                BackwardComplete, TargetInHand
        <3>. QED BY <3>1, <3>2
    <2>2. CASE ~Closed(parents, working)
        <3>1. FailWith("inconsistent_applied_history")
            BY <1>2, <2>2 DEF ValidateAppliedHistory
        <3>. QED BY <3>1, <1>f DEF Failures
    <2>. QED BY <2>1, <2>2
<1>3. CASE PickTarget
    <2>. DEFINE target == Head(targets)
    <2>1. CASE FailWith("target_not_found")
        BY <2>1, <1>f DEF Failures
    <2>0. targets # <<>>
        BY <1>3 DEF PickTarget
    <2>2. CASE /\ target.key \in Nodes \ working
               /\ mode' = "forwardSearch" /\ stack' = {target.key}
               /\ candidates' = {} /\ base' = working
               /\ UNCHANGED <<parents, given, targets, working, plan, seeds, visited>>
        <3>1. TypeOK'
            BY <2>2 DEF TypeOK, Modes
        <3>2. Closed(parents, working)
            BY <1>3 DEF PickTarget, WorkingClosed, Planning, Failures
        <3>3. (WorkingClosed /\ Others)'
            BY <2>0, <2>2, <3>2 DEF WorkingClosed, Planning, Closed,
                ForwardSearched, ForwardComplete, BackwardSearched,
                BackwardComplete, TargetInHand
        <3>. QED BY <3>1, <3>3
    <2>3. CASE /\ mode' = "seeds" /\ seeds' = BackwardSeeds(target)
               /\ base' = working
               /\ UNCHANGED <<parents, given, targets, working, plan, stack, visited,
                              candidates>>
        <3>1. TypeOK'
            BY <2>3, <1>0, SeedsInGraph DEF TypeOK, Modes
        <3>2. Closed(parents, working)
            BY <1>3 DEF PickTarget, WorkingClosed, Planning, Failures
        <3>3. (WorkingClosed /\ Others)'
            BY <2>0, <2>3, <3>2 DEF WorkingClosed, Planning, Closed,
                ForwardSearched, ForwardComplete, BackwardSearched,
                BackwardComplete, TargetInHand
        <3>. QED BY <3>1, <3>3
    <2>. QED BY <1>3, <2>1, <2>2, <2>3 DEF PickTarget
<1>4. CASE ReturnPlan
    <2>1. TypeOK'
        BY <1>4 DEF ReturnPlan, TypeOK, Modes
    <2>2. (WorkingClosed /\ Others)'
        BY <1>4 DEF ReturnPlan, WorkingClosed, Planning, Failures, Closed,
            ForwardSearched, ForwardComplete, BackwardSearched,
            BackwardComplete, TargetInHand
    <2>. QED BY <2>1, <2>2
<1>5. CASE ForwardSearchEnds
    <2>1. TypeOK'
        BY <1>5 DEF ForwardSearchEnds, TypeOK, Modes
    <2>2. WorkingClosed' /\ TargetInHand' /\ ForwardSearched'
            /\ BackwardSearched' /\ BackwardComplete'
        BY <1>5 DEF ForwardSearchEnds, WorkingClosed, Planning, Failures, Closed,
            ForwardSearched, BackwardSearched, BackwardComplete, TargetInHand
    <2>3. ForwardComplete'
        BY <1>5 DEF ForwardSearchEnds, ForwardSearched, ForwardComplete
    <2>. QED BY <2>1, <2>2, <2>3
<1>6. CASE ForwardEnds
    <2>1. NextTarget /\ Planning /\ targets # <<>>
        BY <1>6 DEF ForwardEnds, Planning, Failures, TargetInHand
    <2>. QED BY <2>1, <1>n
<1>7. CASE SeedsEnd
    <2>1. NextTarget /\ Planning /\ targets # <<>>
        BY <1>7 DEF SeedsEnd, Planning, Failures, TargetInHand
    <2>. QED BY <2>1, <1>n
<1>8. CASE BackwardSearchEnds
    <2>1. TypeOK'
        BY <1>8 DEF BackwardSearchEnds, TypeOK, Modes
    <2>2. /\ WorkingClosed' /\ TargetInHand' /\ BackwardSearched'
          /\ ForwardSearched' /\ ForwardComplete'
        BY <1>8 DEF BackwardSearchEnds, WorkingClosed, Planning, Failures, Closed,
            TargetInHand, ForwardSearched, ForwardComplete, BackwardSearched
    <2>3. BackwardComplete'
        BY <1>8 DEF BackwardSearchEnds, BackwardSearched, BackwardComplete
    <2>. QED BY <2>1, <2>2, <2>3
<1>9. CASE BackwardEnds
    <2>1. TypeOK'
        BY <1>9 DEF BackwardEnds, TypeOK, Modes
    <2>2. (WorkingClosed /\ Others)'
        BY <1>9 DEF BackwardEnds, WorkingClosed, Planning, Failures, Closed,
            ForwardSearched, ForwardComplete, BackwardSearched, BackwardComplete,
            TargetInHand
    <2>. QED BY <2>1, <2>2
<1>10. ASSUME NEW k \in Nodes, ForwardSearch(k) PROVE IInv'
    <2>1. parents[k] \subseteq Nodes
        BY <1>0
    <2>2. TypeOK'
        BY <1>10, <2>1 DEF ForwardSearch, TypeOK, Modes
    <2>3. /\ WorkingClosed' /\ TargetInHand' /\ ForwardComplete'
          /\ BackwardSearched' /\ BackwardComplete'
        BY <1>10 DEF ForwardSearch, WorkingClosed, Planning, Failures, Closed,
            TargetInHand, ForwardComplete, BackwardSearched, BackwardComplete
    <2>4. CASE k \in working \cup candidates
        BY <1>10, <2>2, <2>3, <2>4 DEF ForwardSearch, ForwardSearched
    <2>5. CASE k \notin working \cup candidates
        BY <1>10, <2>2, <2>3, <2>5 DEF ForwardSearch, ForwardSearched
    <2>. QED BY <2>4, <2>5
<1>11. ASSUME NEW k \in Nodes, ForwardEmit(k) PROVE IInv'
    <2>1. k \in candidates /\ parents[k] \subseteq working
        BY <1>11 DEF ForwardEmit, IsFirst, ForwardReady
    <2>2. TypeOK'
        BY <1>11 DEF ForwardEmit, TypeOK, Modes, Forward
    <2>3. Closed(parents, working)
        BY <1>11 DEF ForwardEmit, WorkingClosed, Planning, Failures
    <2>4. Closed(parents, working \cup {k})
        BY <1>0, <2>1, <2>3, ClosedAdd
    <2>5. WorkingClosed'
        BY <1>11, <2>4 DEF ForwardEmit, WorkingClosed
    <2>6. ForwardComplete'
        BY <1>11, <2>1 DEF ForwardEmit, ForwardComplete
    <2>7. TargetInHand' /\ ForwardSearched' /\ BackwardSearched' /\ BackwardComplete'
        BY <1>11 DEF ForwardEmit, TargetInHand, ForwardSearched, BackwardSearched,
            BackwardComplete
    <2>. QED BY <2>2, <2>5, <2>6, <2>7
<1>12. ASSUME NEW k \in Nodes, TakeSeed(k) PROVE IInv'
    <2>1. TypeOK'
        BY <1>12 DEF TakeSeed, TypeOK, Modes
    <2>2. (WorkingClosed /\ Others)'
        BY <1>12 DEF TakeSeed, WorkingClosed, Planning, Failures, Closed,
            ForwardSearched, ForwardComplete, BackwardSearched, BackwardComplete,
            TargetInHand
    <2>. QED BY <2>1, <2>2
<1>13. ASSUME NEW k \in Nodes, BackwardSearch(k) PROVE IInv'
    <2>1. Children(parents, k) \subseteq Nodes
        BY <1>0, ChildrenInGraph
    <2>2. TypeOK'
        BY <1>13, <2>1 DEF BackwardSearch, TypeOK, Modes
    <2>3. /\ WorkingClosed' /\ TargetInHand' /\ ForwardSearched'
          /\ ForwardComplete' /\ BackwardComplete'
        BY <1>13 DEF BackwardSearch, WorkingClosed, Planning, Failures, Closed,
            TargetInHand, ForwardSearched, ForwardComplete, BackwardComplete
    <2>4. CASE k \in visited
        BY <1>13, <2>2, <2>3, <2>4 DEF BackwardSearch, BackwardSearched
    <2>5. CASE k \notin visited
        <3>1. candidates' = visited' \cap working'
            BY <1>13, <2>5 DEF BackwardSearch, BackwardSearched
        <3>2. \A n \in visited' : Children(parents, n)' \subseteq visited' \cup stack'
            BY <1>13, <2>5 DEF BackwardSearch, BackwardSearched
        <3>. QED BY <2>2, <2>3, <3>1, <3>2 DEF BackwardSearched
    <2>. QED BY <2>4, <2>5
<1>14. ASSUME NEW k \in Nodes, BackwardEmit(k) PROVE IInv'
    <2>1. k \in candidates /\ Children(parents, k) \cap candidates = {}
        BY <1>14 DEF BackwardEmit, IsFirst, BackwardReady
    <2>2. Children(parents, k) \cap working = {}
        BY <1>14, <2>1 DEF BackwardEmit, BackwardComplete
    <2>3. TypeOK'
        BY <1>14 DEF BackwardEmit, TypeOK, Modes, Backward
    <2>4. Closed(parents, working)
        BY <1>14 DEF BackwardEmit, WorkingClosed, Planning, Failures
    <2>5. Closed(parents, working \ {k})
        BY <1>0, <2>2, <2>4, ClosedRemove
    <2>6. WorkingClosed'
        BY <1>14, <2>5 DEF BackwardEmit, WorkingClosed
    <2>7. BackwardComplete'
        BY <1>14, <2>1 DEF BackwardEmit, BackwardComplete
    <2>8. TargetInHand' /\ ForwardSearched' /\ ForwardComplete' /\ BackwardSearched'
        BY <1>14 DEF BackwardEmit, TargetInHand, ForwardSearched, ForwardComplete,
            BackwardSearched
    <2>. QED BY <2>3, <2>6, <2>7, <2>8
<1>15. CASE UNCHANGED plannerVars
    <2>1. TypeOK'
        BY <1>15 DEF plannerVars, TypeOK
    <2>2. (WorkingClosed /\ Others)'
        BY <1>15 DEF plannerVars, WorkingClosed, Planning, Closed, TargetInHand,
            ForwardSearched, ForwardComplete, BackwardSearched, BackwardComplete
    <2>. QED BY <2>1, <2>2
<1>. QED
    BY <1>1, <1>2, <1>3, <1>4, <1>5, <1>6, <1>7, <1>8, <1>9, <1>10, <1>11,
        <1>12, <1>13, <1>14, <1>15 DEF Next

-----------------------------------------------------------------------------
\* The invariant holds throughout a call of Plan.
THEOREM SpecIInv == Spec => []IInv
BY InitIInv, NextIInv, PTL DEF Spec

\* Every variable of the planner keeps its type.
THEOREM SpecTypeOK == Spec => []TypeOK
<1>1. IInv => TypeOK
    BY DEF IInv
<1>. QED BY <1>1, SpecIInv, PTL

\* For every acyclic graph, history and target list, the set of applied
\* migrations is closed under dependencies after every step Plan emits.
THEOREM SpecWorkingClosed == Spec => []WorkingClosed
BY IInvImplies, SpecIInv, PTL

\* internalCyclePlanningError is unreachable: planForward and planBackward
\* always find a ready candidate in a graph that NewPlanner accepted.
THEOREM SpecEmitNeverStuck == Spec => []EmitNeverStuck
BY IInvImplies, SpecIInv, PTL

-----------------------------------------------------------------------------
(* Replaying a plan.                                                       *)

Steps == [key : Nodes, direction : {"forward", "backward"}]

\* A key is applied after i steps when its last step went forward, or when
\* it was applied before and has no step.
LEMMA ReplayMember ==
    ASSUME NEW applied, NEW p, NEW i \in Nat, NEW x
    PROVE  x \in Replay(applied, p, i) <=>
              \/ x \in applied /\ \A j \in 1 .. i : p[j].key # x
              \/ \E j \in 1 .. i : /\ p[j].key = x /\ p[j].direction = "forward"
                                   /\ \A m \in (j + 1) .. i : p[m].key # x
BY DEF Replay

\* A plan replays as before when a step is appended, and then makes that step.
LEMMA ReplayAppend ==
    ASSUME NEW applied, NEW p \in Seq(Steps), NEW s \in Steps
    PROVE  /\ \A i \in 0 .. Len(p) : Replay(applied, Append(p, s), i) = Replay(applied, p, i)
           /\ s.direction = "forward" =>
                 Replay(applied, Append(p, s), Len(p) + 1) = Replay(applied, p, Len(p)) \cup {s.key}
           /\ s.direction # "forward" =>
                 Replay(applied, Append(p, s), Len(p) + 1) = Replay(applied, p, Len(p)) \ {s.key}
<1>1. PICK n \in Nat : n = Len(p)
    OBVIOUS
<1>2. PICK q : q = Append(p, s)
    OBVIOUS
<1>3. q[n + 1] = s /\ \A j \in 1 .. n : q[j] = p[j]
    BY <1>1, <1>2
<1>4. ASSUME NEW i \in 0 .. n PROVE Replay(applied, q, i) = Replay(applied, p, i)
    <2>1. i \in Nat /\ \A j \in 1 .. i : q[j] = p[j] /\ \A m \in (j + 1) .. i : q[m] = p[m]
        BY <1>1, <1>3
    <2>2. ASSUME NEW x PROVE x \in Replay(applied, q, i) <=> x \in Replay(applied, p, i)
        <3>1. (\A j \in 1 .. i : q[j].key # x) <=> (\A j \in 1 .. i : p[j].key # x)
            BY <2>1
        <3>2. ASSUME NEW j \in 1 .. i
              PROVE  (\A m \in (j + 1) .. i : q[m].key # x) <=> (\A m \in (j + 1) .. i : p[m].key # x)
            BY <2>1
        <3>3. (\E j \in 1 .. i : /\ q[j].key = x /\ q[j].direction = "forward"
                                  /\ \A m \in (j + 1) .. i : q[m].key # x)
                <=> (\E j \in 1 .. i : /\ p[j].key = x /\ p[j].direction = "forward"
                                       /\ \A m \in (j + 1) .. i : p[m].key # x)
            BY <2>1, <3>2
        <3>. QED BY <2>1, <3>1, <3>3, ReplayMember
    <2>. QED BY <2>2
<1>5. ASSUME NEW x, x # s.key
      PROVE  x \in Replay(applied, q, n + 1) <=> x \in Replay(applied, p, n)
    <2>1. \A j \in 1 .. (n + 1) : j = n + 1 \/ j \in 1 .. n
        BY <1>1
    <2>2. \A j \in 1 .. n : j \in 1 .. (n + 1)
        BY <1>1
    <2>3. \A j \in 1 .. n : \A m \in (j + 1) .. (n + 1) : m = n + 1 \/ m \in (j + 1) .. n
        BY <1>1
    <2>4. \A j \in 1 .. n : \A m \in (j + 1) .. n : m \in (j + 1) .. (n + 1) /\ m \in 1 .. n
        BY <1>1
    <2>5. (\A j \in 1 .. (n + 1) : q[j].key # x) <=> (\A j \in 1 .. n : p[j].key # x)
        BY <1>3, <1>5, <2>1, <2>2
    <2>6. \A j \in 1 .. n : (\A m \in (j + 1) .. (n + 1) : q[m].key # x) <=> (\A m \in (j + 1) .. n : p[m].key # x)
        BY <1>3, <1>5, <2>3, <2>4
    <2>7. (\E j \in 1 .. (n + 1) : /\ q[j].key = x /\ q[j].direction = "forward"
                                  /\ \A m \in (j + 1) .. (n + 1) : q[m].key # x)
            <=> (\E j \in 1 .. n : /\ p[j].key = x /\ p[j].direction = "forward"
                                   /\ \A m \in (j + 1) .. n : p[m].key # x)
        BY <1>3, <1>5, <2>1, <2>2, <2>6
    <2>8. n + 1 \in Nat
        BY <1>1
    <2>. QED BY <2>5, <2>7, <2>8, ReplayMember
<1>6. s.key \in Replay(applied, q, n + 1) <=> s.direction = "forward"
    <2>1. n + 1 \in Nat /\ n + 1 \in 1 .. (n + 1) /\ (n + 2) .. (n + 1) = {} /\ (n + 1) + 1 = n + 2
        BY <1>1
    <2>2. \A j \in 1 .. (n + 1) : j = n + 1 \/ n + 1 \in (j + 1) .. (n + 1)
        BY <1>1
    <2>. QED BY <1>3, <2>1, <2>2, ReplayMember
<1>. QED BY <1>1, <1>2, <1>4, <1>5, <1>6

\* The plan so far is sound, and leads to the working set.
Replayed ==
    /\ mode \in {"validate", "history"} => plan = <<>> /\ working = given
    /\ Planning => /\ SoundPlan(parents, given, plan)
                   /\ Replay(given, plan, Len(plan)) = working

\* A step appended to a sound plan.
LEMMA SoundAppend ==
    ASSUME NEW g, NEW applied, NEW p \in Seq(Steps), NEW s \in Steps, NEW after,
           SoundPlan(g, applied, p), Closed(g, after),
           s.direction = "forward" =>
              s.key \notin Replay(applied, p, Len(p)) /\ after = Replay(applied, p, Len(p)) \cup {s.key},
           s.direction # "forward" =>
              s.key \in Replay(applied, p, Len(p)) /\ after = Replay(applied, p, Len(p)) \ {s.key}
    PROVE  /\ SoundPlan(g, applied, Append(p, s))
           /\ Replay(applied, Append(p, s), Len(Append(p, s))) = after
<1>1. PICK n \in Nat : n = Len(p)
    OBVIOUS
<1>2. PICK q : q = Append(p, s)
    OBVIOUS
<1>3. Len(q) = n + 1 /\ q[n + 1] = s /\ \A j \in 1 .. n : q[j] = p[j]
    BY <1>1, <1>2
<1>4. Replay(applied, q, n + 1) = after
    <2>1. CASE s.direction = "forward"
        BY <1>1, <1>2, <2>1, ReplayAppend
    <2>2. CASE s.direction # "forward"
        BY <1>1, <1>2, <2>2, ReplayAppend
    <2>. QED BY <2>1, <2>2
<1>5. \A i \in 0 .. n : Replay(applied, q, i) = Replay(applied, p, i)
    BY <1>1, <1>2, ReplayAppend
<1>6. ASSUME NEW i \in 0 .. (n + 1) PROVE Closed(g, Replay(applied, q, i))
    <2>1. i \in 0 .. n \/ i = n + 1
        BY <1>1
    <2>. QED BY <1>1, <1>4, <1>5, <2>1 DEF SoundPlan
<1>7. ASSUME NEW i \in 1 .. (n + 1)
      PROVE  (q[i].direction = "forward") # (q[i].key \in Replay(applied, q, i - 1))
    <2>1. CASE i \in 1 .. n
        <3>1. i - 1 \in 0 .. n
            BY <1>1, <2>1
        <3>. QED BY <1>1, <1>3, <1>5, <2>1, <3>1 DEF SoundPlan
    <2>2. CASE i = n + 1
        <3>1. i - 1 = n /\ n \in 0 .. n
            BY <1>1, <2>2
        <3>. QED BY <1>1, <1>3, <1>5, <2>2, <3>1
    <2>. QED BY <1>1, <2>1, <2>2
<1>. QED BY <1>2, <1>3, <1>4, <1>6, <1>7 DEF SoundPlan

LEMMA NextReplayed == IInv /\ Replayed /\ [Next]_plannerVars => Replayed'
<1> SUFFICES ASSUME IInv, Replayed, [Next]_plannerVars PROVE Replayed'
    OBVIOUS
<1>1. parents \in Graphs /\ plan \in Seq(Steps) /\ WorkingClosed
    BY DEF IInv, TypeOK, Steps
<1>2. ASSUME UNCHANGED <<parents, given, plan, working>>, Planning, Planning' PROVE Replayed'
    BY <1>2 DEF Replayed, Planning
<1>3. ASSUME NEW code \in Failures, FailWith(code) PROVE Replayed'
    BY <1>3 DEF FailWith, Failures, Replayed, Planning
<1>4. CASE ValidateTargets
    BY <1>3, <1>4 DEF ValidateTargets, Replayed, Planning, Failures
<1>5. CASE ValidateAppliedHistory
    <2>1. CASE Closed(parents, working)
        <3>1. mode' = "pick" /\ UNCHANGED <<parents, given, plan, working>> /\ plan = <<>> /\ working = given
            BY <1>5, <2>1 DEF ValidateAppliedHistory, Replayed
        <3>2. Replay(given, <<>>, 0) = given
            <4>1. \A x : x \in Replay(given, <<>>, 0) <=> x \in given
                BY ReplayMember
            <4>. QED BY <4>1
        <3>3. SoundPlan(parents, given, <<>>)
            BY <2>1, <3>1, <3>2 DEF SoundPlan
        <3>. QED BY <3>1, <3>2, <3>3 DEF Replayed
    <2>2. CASE ~Closed(parents, working)
        BY <1>3, <1>5, <2>2 DEF ValidateAppliedHistory, Failures
    <2>. QED BY <2>1, <2>2
<1>6. CASE PickTarget
    BY <1>2, <1>3, <1>6 DEF PickTarget, Planning, Failures
<1>7. CASE ReturnPlan \/ ForwardSearchEnds \/ ForwardEnds \/ SeedsEnd \/ BackwardSearchEnds \/ BackwardEnds
    BY <1>2, <1>7 DEF ReturnPlan, ForwardSearchEnds, ForwardEnds, SeedsEnd, BackwardSearchEnds,
        BackwardEnds, NextTarget, Planning, Failures
<1>8. ASSUME NEW k \in Nodes, ForwardSearch(k) \/ TakeSeed(k) \/ BackwardSearch(k) PROVE Replayed'
    BY <1>2, <1>8 DEF ForwardSearch, TakeSeed, BackwardSearch, Planning, Failures
<1>9. ASSUME NEW k \in Nodes, ForwardEmit(k) PROVE Replayed'
    <2>1. /\ mode = "forwardEmit" /\ mode' = mode /\ plan' = Append(plan, Forward(k))
          /\ working' = working \cup {k} /\ UNCHANGED <<parents, given>>
          /\ k \in candidates /\ parents[k] \subseteq working
        BY <1>9 DEF ForwardEmit, IsFirst, ForwardReady
    <2>2. k \notin working
        BY <2>1 DEF IInv, ForwardComplete
    <2>3. Closed(parents, working \cup {k})
        BY <1>1, <2>1, ClosedAdd DEF WorkingClosed, Planning, Failures
    <2>4. SoundPlan(parents, given, plan) /\ Replay(given, plan, Len(plan)) = working
        BY <2>1 DEF Replayed, Planning, Failures
    <2>5. Forward(k) \in Steps /\ Forward(k).key = k /\ Forward(k).direction = "forward"
        BY DEF Forward, Steps
    <2>6. /\ SoundPlan(parents, given, Append(plan, Forward(k)))
          /\ Replay(given, Append(plan, Forward(k)), Len(Append(plan, Forward(k)))) = working \cup {k}
        BY <1>1, <2>2, <2>3, <2>4, <2>5, SoundAppend
    <2>. QED BY <2>1, <2>6 DEF Replayed
<1>10. ASSUME NEW k \in Nodes, BackwardEmit(k) PROVE Replayed'
    <2>1. /\ mode = "backwardEmit" /\ mode' = mode /\ plan' = Append(plan, Backward(k))
          /\ working' = working \ {k} /\ UNCHANGED <<parents, given>>
          /\ k \in candidates /\ Children(parents, k) \cap candidates = {}
        BY <1>10 DEF BackwardEmit, IsFirst, BackwardReady
    <2>2. k \in working /\ Children(parents, k) \cap working = {}
        BY <2>1 DEF IInv, BackwardComplete
    <2>3. Closed(parents, working \ {k})
        BY <1>1, <2>1, <2>2, ClosedRemove DEF WorkingClosed, Planning, Failures
    <2>4. SoundPlan(parents, given, plan) /\ Replay(given, plan, Len(plan)) = working
        BY <2>1 DEF Replayed, Planning, Failures
    <2>5. Backward(k) \in Steps /\ Backward(k).key = k /\ Backward(k).direction = "backward"
        BY DEF Backward, Steps
    <2>6. /\ SoundPlan(parents, given, Append(plan, Backward(k)))
          /\ Replay(given, Append(plan, Backward(k)), Len(Append(plan, Backward(k)))) = working \ {k}
        BY <1>1, <2>2, <2>3, <2>4, <2>5, SoundAppend
    <2>. QED BY <2>1, <2>6 DEF Replayed
<1>11. CASE UNCHANGED plannerVars
    BY <1>11 DEF plannerVars, Replayed, Planning
<1>. QED BY <1>4, <1>5, <1>6, <1>7, <1>8, <1>9, <1>10, <1>11 DEF Next

\* Every plan that Plan returns can be replayed on the caller's history: each
\* step changes the applied set, which is closed before and after it, and the
\* result is what Plan's own working set says.
THEOREM SpecPlanSound == Spec => []PlanSound
<1>1. Init => Replayed
    BY DEF Init, Replayed, Planning
<1>2. Replayed => PlanSound
    BY DEF Replayed, PlanSound, Planning, Failures
<1>. QED BY <1>1, <1>2, NextReplayed, InitIInv, NextIInv, PTL DEF Spec

-----------------------------------------------------------------------------
(* What a target changes.                                                  *)

\* A migration is its own ancestor, ancestors are closed under dependencies,
\* and a closed set with the migration has them all.
LEMMA AncestorsLeast ==
    ASSUME parents \in Graphs, NEW k \in Nodes
    PROVE  /\ k \in AncestorsOf(k) /\ AncestorsOf(k) \subseteq Nodes
           /\ \A n \in AncestorsOf(k) : parents[n] \subseteq AncestorsOf(k)
           /\ \A T \in SUBSET Nodes : k \in T /\ Closed(parents, T) => AncestorsOf(k) \subseteq T
<1>1. DOMAIN parents = Nodes /\ \A n \in Nodes : parents[n] \subseteq Nodes
    BY DEF Graphs
<1>2. ASSUME NEW n \in AncestorsOf(k), NEW a \in parents[n] PROVE a \in AncestorsOf(k)
    <2>1. n \in Nodes /\ a \in Nodes
        BY <1>1, <1>2 DEF AncestorsOf
    <2>2. ASSUME NEW T \in SUBSET Nodes, k \in T, Closed(parents, T) PROVE a \in T
        BY <1>1, <1>2, <2>1, <2>2 DEF AncestorsOf, Closed
    <2>. QED BY <2>1, <2>2 DEF AncestorsOf
<1>. QED BY <1>2 DEF AncestorsOf

\* The same of descendants, downwards.
LEMMA DescendantsLeast ==
    ASSUME parents \in Graphs, NEW S \in SUBSET Nodes
    PROVE  /\ S \subseteq DescendantsOf(S)
           /\ \A n \in DescendantsOf(S) : Children(parents, n) \subseteq DescendantsOf(S)
           /\ \A T \in SUBSET Nodes :
                 S \subseteq T /\ (\A n \in T : Children(parents, n) \subseteq T) => DescendantsOf(S) \subseteq T
<1>1. ASSUME NEW n \in DescendantsOf(S), NEW c \in Children(parents, n) PROVE c \in DescendantsOf(S)
    <2>1. n \in Nodes /\ c \in Nodes
        BY <1>1, ChildrenInGraph DEF DescendantsOf
    <2>2. ASSUME NEW T \in SUBSET Nodes, S \subseteq T, \A a \in T : Children(parents, a) \subseteq T
          PROVE  c \in T
        BY <1>1, <2>1, <2>2 DEF DescendantsOf
    <2>. QED BY <2>1, <2>2 DEF DescendantsOf
<1>. QED BY <1>1 DEF DescendantsOf

\* What a backward target must undo lies below the seeds Plan starts from:
\* going up inside an app ends at a root of the app, without cycles.
LEMMA SeedsCover ==
    ASSUME parents \in Graphs, NEW t
    PROVE  /\ BackwardSeeds(t) \subseteq MustUndo(t) /\ MustUndo(t) \subseteq Nodes
           /\ MustUndo(t) \subseteq DescendantsOf(BackwardSeeds(t))
<1>1. DOMAIN parents = Nodes /\ \A n \in Nodes : parents[n] \subseteq Nodes
    BY DEF Graphs
<1>2. BackwardSeeds(t) \subseteq MustUndo(t) /\ MustUndo(t) \subseteq Nodes
    BY <1>1 DEF BackwardSeeds, MustUndo, AppRoots, Children
<1>3. CASE t.kind # "zero"
    <2>1. BackwardSeeds(t) = MustUndo(t)
        BY <1>1, <1>3 DEF BackwardSeeds, MustUndo, Children
    <2>. QED BY <1>2, <2>1, DescendantsLeast
<1>4. CASE t.kind = "zero"
    <2>. DEFINE below == DescendantsOf(BackwardSeeds(t))
    <2>1. PICK rest : rest = {n \in Nodes : AppOf[n] = t.app /\ n \notin below}
        OBVIOUS
    <2>2. CASE rest = {}
        <3>1. MustUndo(t) \subseteq below
            BY <1>4, <2>1, <2>2 DEF MustUndo
        <3>. QED BY <1>2, <3>1
    <2>3. CASE rest # {}
        <3>1. PICK n \in rest : parents[n] \cap rest = {}
            BY <1>1, <2>1, <2>3 DEF Graphs, Acyclic
        <3>2. n \in Nodes /\ AppOf[n] = t.app /\ n \notin below
            BY <2>1
        <3>3. n \notin BackwardSeeds(t)
            BY <1>2, <3>2, DescendantsLeast
        <3>4. PICK a \in parents[n] : AppOf[a] = t.app
            BY <1>1, <1>4, <3>2, <3>3 DEF BackwardSeeds, AppRoots
        <3>5. a \in below /\ n \in Children(parents, a)
            BY <1>1, <2>1, <3>1, <3>2, <3>4 DEF Children
        <3>6. Children(parents, a) \subseteq below
            BY <1>2, <3>5, DescendantsLeast
        <3>. QED BY <3>2, <3>5, <3>6
    <2>. QED BY <2>2, <2>3
<1>. QED BY <1>2, <1>3, <1>4

\* Once the seeds are unapplied in a closed set, so is all that must go.
LEMMA NothingAppliedBelow ==
    ASSUME parents \in Graphs, NEW t, NEW applied \in SUBSET Nodes, Closed(parents, applied),
           BackwardSeeds(t) \cap applied = {}
    PROVE  DescendantsOf(MustUndo(t)) \cap applied = {}
<1>1. PICK T \in SUBSET Nodes : T = Nodes \ applied
    OBVIOUS
<1>2. \A n \in T : Children(parents, n) \subseteq T
    BY <1>1 DEF Children, Closed, Graphs
<1>3. BackwardSeeds(t) \in SUBSET Nodes /\ BackwardSeeds(t) \subseteq T
    BY <1>1, SeedsInGraph
<1>4. MustUndo(t) \subseteq T /\ MustUndo(t) \in SUBSET Nodes
    BY <1>2, <1>3, SeedsCover, DescendantsLeast
<1>5. DescendantsOf(MustUndo(t)) \subseteq T
    BY <1>2, <1>4, DescendantsLeast
<1>. QED BY <1>1, <1>5

Goal == Head(targets)
Doomed == DescendantsOf(MustUndo(Goal))

\* Planning forward, only ancestors of the target are looked at, and the
\* target itself is not forgotten.
ForwardAims ==
    /\ mode \in {"forwardSearch", "forwardEmit"} =>
          /\ Goal.key \in Nodes /\ Goal.key \in working \cup candidates \cup stack
          /\ base \subseteq working /\ working \subseteq base \cup AncestorsOf(Goal.key)
          /\ candidates \cup stack \subseteq AncestorsOf(Goal.key)
    /\ mode = "forwardEmit" => stack = {}

\* Planning backward, only what must go is looked at, and no seed that is
\* still applied is forgotten.
BackwardAims ==
    /\ mode \in {"seeds", "backwardSearch", "backwardEmit"} =>
          /\ working \subseteq base /\ base \subseteq working \cup Doomed
          /\ seeds \subseteq Doomed
    /\ mode = "seeds" => BackwardSeeds(Goal) \cap working \subseteq seeds
    /\ mode = "backwardSearch" =>
          /\ stack \cup visited \subseteq Doomed
          /\ BackwardSeeds(Goal) \cap working \subseteq seeds \cup stack \cup visited
    /\ mode = "backwardEmit" =>
          /\ candidates \subseteq Doomed
          /\ BackwardSeeds(Goal) \cap working \subseteq seeds \cup candidates

Aims == ForwardAims /\ BackwardAims

LEMMA NextAims == IInv /\ Aims /\ [Next]_plannerVars => Aims'
<1> SUFFICES ASSUME IInv, Aims, [Next]_plannerVars PROVE Aims'
    OBVIOUS
<1>1. /\ parents \in Graphs /\ working \subseteq Nodes
      /\ ForwardSearched /\ BackwardSearched /\ BackwardComplete
    BY DEF IInv, TypeOK
<1>2. ASSUME UNCHANGED <<parents, targets>>
      PROVE  /\ Goal' = Goal /\ Doomed' = Doomed /\ BackwardSeeds(Goal)' = BackwardSeeds(Goal)
             /\ AncestorsOf(Goal.key)' = AncestorsOf(Goal.key)
    BY <1>2 DEF Goal, Doomed, BackwardSeeds, AncestorsOf, DescendantsOf, MustUndo
<1>3. ASSUME mode' \notin {"forwardSearch", "forwardEmit", "seeds", "backwardSearch", "backwardEmit"}
      PROVE  Aims'
    BY <1>3 DEF Aims, ForwardAims, BackwardAims
<1>4. CASE ValidateTargets \/ ValidateAppliedHistory \/ ReturnPlan \/ ForwardEnds \/ SeedsEnd
    BY <1>3, <1>4 DEF ValidateTargets, ValidateAppliedHistory, ReturnPlan, ForwardEnds, SeedsEnd,
        NextTarget, FailWith
<1>5. CASE PickTarget
    <2>1. CASE FailWith("target_not_found")
        BY <1>3, <2>1 DEF FailWith
    <2>2. CASE /\ Goal.key \in Nodes \ working
               /\ mode' = "forwardSearch" /\ stack' = {Goal.key}
               /\ candidates' = {} /\ base' = working
               /\ UNCHANGED <<parents, given, targets, working, plan, seeds, visited>>
        <3>1. Goal.key \in AncestorsOf(Goal.key)
            BY <1>1, <2>2, AncestorsLeast
        <3>. QED BY <1>2, <2>2, <3>1 DEF Aims, ForwardAims, BackwardAims
    <2>3. CASE /\ mode' = "seeds" /\ seeds' = BackwardSeeds(Goal) /\ base' = working
               /\ UNCHANGED <<parents, given, targets, working, plan, stack, visited, candidates>>
        <3>1. BackwardSeeds(Goal) \subseteq Doomed
            BY <1>1, SeedsCover, DescendantsLeast DEF Doomed
        <3>. QED BY <1>2, <2>3, <3>1 DEF Aims, ForwardAims, BackwardAims
    <2>. QED BY <1>5, <2>1, <2>2, <2>3 DEF PickTarget, Goal
<1>6. CASE ForwardSearchEnds
    BY <1>2, <1>6 DEF ForwardSearchEnds, Aims, ForwardAims, BackwardAims
<1>7. CASE BackwardSearchEnds
    BY <1>1, <1>2, <1>7 DEF BackwardSearchEnds, BackwardSearched, Aims, ForwardAims, BackwardAims
<1>8. CASE BackwardEnds
    BY <1>2, <1>8 DEF BackwardEnds, Aims, ForwardAims, BackwardAims
<1>9. ASSUME NEW k \in Nodes, ForwardSearch(k) PROVE Aims'
    <2>1. Goal.key \in Nodes /\ k \in AncestorsOf(Goal.key)
        BY <1>9 DEF ForwardSearch, Aims, ForwardAims
    <2>2. parents[k] \subseteq AncestorsOf(Goal.key)
        BY <1>1, <2>1, AncestorsLeast
    <2>. QED BY <1>2, <1>9, <2>1, <2>2 DEF ForwardSearch, Aims, ForwardAims, BackwardAims
<1>10. ASSUME NEW k \in Nodes, ForwardEmit(k) PROVE Aims'
    BY <1>2, <1>10 DEF ForwardEmit, IsFirst, ForwardReady, Aims, ForwardAims, BackwardAims
<1>11. ASSUME NEW k \in Nodes, TakeSeed(k) PROVE Aims'
    BY <1>2, <1>11 DEF TakeSeed, IsFirst, Aims, ForwardAims, BackwardAims
<1>12. ASSUME NEW k \in Nodes, BackwardSearch(k) PROVE Aims'
    <2>1. k \in Doomed
        BY <1>12 DEF BackwardSearch, Aims, BackwardAims
    <2>2. MustUndo(Goal) \in SUBSET Nodes
        BY <1>1, SeedsCover
    <2>3. Children(parents, k) \subseteq Doomed
        BY <1>1, <2>1, <2>2, DescendantsLeast DEF Doomed
    <2>. QED BY <1>2, <1>12, <2>1, <2>3 DEF BackwardSearch, Aims, ForwardAims, BackwardAims
<1>13. ASSUME NEW k \in Nodes, BackwardEmit(k) PROVE Aims'
    BY <1>2, <1>13 DEF BackwardEmit, IsFirst, BackwardReady, Aims, ForwardAims, BackwardAims
<1>14. CASE UNCHANGED plannerVars
    BY <1>2, <1>14 DEF plannerVars, Aims, ForwardAims, BackwardAims
<1>. QED BY <1>4, <1>5, <1>6, <1>7, <1>8, <1>9, <1>10, <1>11, <1>12, <1>13, <1>14 DEF Next

LEMMA AimsReached == IInv /\ Aims => TargetExact
<1> SUFFICES ASSUME IInv, Aims PROVE TargetExact
    OBVIOUS
<1>1. parents \in Graphs /\ working \in SUBSET Nodes /\ WorkingClosed
    BY DEF IInv, TypeOK
<1>2. ASSUME mode = "forwardEmit", candidates = {}
      PROVE  working = base \cup AncestorsOf(Goal.key)
    <2>1. Closed(parents, working)
        BY <1>1, <1>2 DEF WorkingClosed, Planning, Failures
    <2>2. Goal.key \in Nodes /\ Goal.key \in working
        BY <1>2 DEF Aims, ForwardAims
    <2>3. AncestorsOf(Goal.key) \subseteq working
        BY <1>1, <2>1, <2>2, AncestorsLeast
    <2>. QED BY <1>2, <2>3 DEF Aims, ForwardAims
<1>3. ASSUME mode = "seeds", seeds = {} PROVE working = base \ Doomed
    <2>1. Closed(parents, working)
        BY <1>1, <1>3 DEF WorkingClosed, Planning, Failures
    <2>2. BackwardSeeds(Goal) \cap working = {}
        BY <1>3 DEF Aims, BackwardAims
    <2>3. Doomed \cap working = {}
        BY <1>1, <2>1, <2>2, NothingAppliedBelow DEF Doomed
    <2>. QED BY <1>3, <2>3 DEF Aims, BackwardAims
<1>. QED BY <1>2, <1>3 DEF TargetExact, Goal, Doomed

\* A forward target applies itself and everything it depends on, a backward
\* target unapplies what it must undo and everything that depends on it, and
\* neither changes anything else.
THEOREM SpecTargetExact == Spec => []TargetExact
<1>1. Init => Aims
    BY DEF Init, Aims, ForwardAims, BackwardAims
<1>. QED BY <1>1, NextAims, AimsReached, InitIInv, NextIInv, PTL DEF Spec
=============================================================================
