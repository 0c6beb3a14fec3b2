------------------------- MODULE StateReconstructor --------------------------
(***************************************************************************)
(* StateReconstructor (migrations/reconstructor.go): the project state of  *)
(* a point in the migration history, replayed in memory from the           *)
(* definitions.  It is built by NewStateReconstructor on top of NewPlanner *)
(* and asked with a StateRequest.                                          *)
(*                                                                         *)
(* Next to it an executor applies and unapplies the same migrations, one   *)
(* at a time and in any order the dependencies allow, and keeps the state  *)
(* it reaches in memory.  A process that starts later knows only the rows  *)
(* of the recorder (LoadAppliedState, migrations/history.go, and           *)
(* ReadAppliedMigrations, db/sqlite/migration_history.go) and must arrive  *)
(* at the same state by replaying in canonical order.                      *)
(***************************************************************************)
EXTENDS GraphDiagnosis, SchemaState

CONSTANTS
    Texts,        \* every string
    AppOf,        \* the app of a key
    UnknownKey,   \* a valid key that no definition has
    Requests      \* the requests that are made

\* What Go's types say of an operation; UnknownKey is a key of no input, but a valid one.
FieldType ==
    [name : Texts, goName : Texts, column : Texts, kind : Texts, primaryKey : BOOLEAN, nullable : BOOLEAN,
     maxLength : Int,
     default : SUBSET [kind : Texts, length : Nat, validUTF8 : BOOLEAN, otherPayload : BOOLEAN]]
ModelType == [name : Texts, goName : Texts, dbTable : Seq(Texts), fields : Seq(FieldType)]
OperationType ==
    [kind : Texts \ {"CreateModel", "AddField"}, app : Texts]
    \union [kind : {"CreateModel"}, app : Texts, model : ModelType]
    \union [kind : {"AddField"}, app : Texts, modelName : Texts, field : FieldType]

ASSUME ReconstructorAssumption ==
    /\ {"id", "ID", "auto"} \subseteq Texts
    /\ \A ms \in Inputs : \A i \in DOMAIN ms : ms[i].operations \in Seq(OperationType)
    /\ \A ms \in Inputs : UnknownKey \notin Keys(ms)
    /\ UnknownKey \in Nat /\ ValidKey(UnknownKey)
    /\ \A r \in Requests : r \in [kind : STRING, targets : Seq(Nat), applied : SUBSET Nat]

VARIABLES
    definitions,  \* the operations of every migration, cloned
    recorder,     \* rows of godj_migrations; hasTable says whether the table exists
    hasTable,
    working,      \* the project state of the executor that applied them
    history,      \* a LoadAppliedState: "none", "failed" or "loaded", and the keys
    answer        \* what Reconstruct returned for which request

historyVars == <<recorder, hasTable, working>>
vars == <<diagnosisVars, definitions, historyVars, history, answer>>

NoAnswer == [request |-> [kind |-> "none", targets |-> <<>>, applied |-> {}],
             error |-> "none", steps |-> <<>>, state |-> {}]
NoHistory == [status |-> "none", keys |-> {}]

Init ==
    /\ DiagnosisInit
    /\ definitions = <<>>
    /\ recorder = {} /\ hasTable = FALSE
    /\ working = EmptyProjectState
    /\ history = NoHistory
    /\ answer = NoAnswer

Construct == NewPlanner /\ UNCHANGED <<definitions, historyVars, history, answer>>

\* cloneReconstructorDefinitions: no nil operation, no operation type of the caller's own, no foreign app.
Replayable(k, op) == op.kind \in {"CreateModel", "AddField"} /\ op.app = AppOf[k]

OperationsOf(k) == (CHOOSE m \in Range(migrations) : m.key = k).operations

CloneDefinitions ==
    /\ label = "planner"
    /\ IF \A k \in DOMAIN parents : \A i \in DOMAIN OperationsOf(k) : Replayable(k, OperationsOf(k)[i])
       THEN /\ label' = "ready"
            /\ definitions' = [k \in DOMAIN parents |-> OperationsOf(k)]
            /\ UNCHANGED diagnosis
       ELSE /\ label' = "refused"
            /\ diagnosis' = [NoError EXCEPT !.code = "invalid_state",
                  !.node = Min({k \in DOMAIN parents :
                               \E i \in DOMAIN OperationsOf(k) : ~Replayable(k, OperationsOf(k)[i])})]
            /\ UNCHANGED definitions
    /\ UNCHANGED <<migrations, parents, tarjanVars, historyVars, history, answer>>

----------------------------------------------------------------------------
\* Projections: which migrations a request replays, and in which order

Closure(g, k) == {k} \union ReachedFrom(g, k)

\* The members of C, always the least of those whose dependencies are all there.
Emitted(g, C) ==
    FoldLeft(LAMBDA plan, i : Append(plan, Min({n \in C \ Range(plan) : g[n] \subseteq Range(plan)})),
             <<>>, [i \in 1..Cardinality(C) |-> i])

\* planForward from nothing applied.
ForwardPlan(g, k) == Emitted(g, Closure(g, k))

\* appLeaves: migrations without a child in their own app, in key order.
AppLeaves(g) ==
    LET leaves == {n \in DOMAIN g : \A c \in Children(g, n) : AppOf[c] # AppOf[n]}
    IN  Emitted([n \in leaves |-> {}], leaves)

\* Faulty variant: the closure of a later target goes before what is there already.
TargetProjectionReversed(g, targets) ==
    FoldLeft(LAMBDA steps, t : Keep(ForwardPlan(g, t), Closure(g, t) \ Range(steps)) \o steps, <<>>, targets)

\* targetProjection: the closures one after the other, every migration once.
TargetProjection(g, targets) ==
    FoldLeft(LAMBDA steps, t : steps \o Keep(ForwardPlan(g, t), Closure(g, t) \ Range(steps)), <<>>, targets)

\* Faulty variant: the applied migrations as the recorder's rows come, sorted by key.
OnlyAppliedSortedByKey(steps, applied) ==
    LET rows == applied \intersect Range(steps) IN Emitted([n \in rows |-> {}], rows)

OnlyAppliedSteps(steps, applied) == Keep(steps, applied)

WithoutExplicitTargets(steps, targets) == Keep(steps, Range(steps) \ Range(targets))

Projection(g, r) ==
    CASE r.kind = "empty" -> <<>>
      [] r.kind = "latest" -> TargetProjection(g, AppLeaves(g))
      [] r.kind = "after" -> TargetProjection(g, r.targets)
      [] r.kind = "before" -> WithoutExplicitTargets(TargetProjection(g, r.targets), r.targets)
      [] r.kind = "applied" -> OnlyAppliedSteps(TargetProjection(g, AppLeaves(g)), r.applied)

\* validateStateRequest, then the errors of the planner: CheckHistory and an unknown target.
RequestError(r) ==
    IF r.kind \notin {"empty", "latest", "before", "after", "applied"} THEN "invalid_target"
    ELSE IF r.kind \in {"before", "after"} /\ (\E i \in DOMAIN r.targets : ~ValidKey(r.targets[i]))
         THEN "invalid_target"
    ELSE IF r.kind = "applied" /\ (\E k \in r.applied : ~ValidKey(k)) THEN "invalid_applied_state"
    ELSE IF r.kind \in {"before", "after"} /\ (\E i \in DOMAIN r.targets : r.targets[i] \notin DOMAIN parents)
         THEN "target_not_found"
    ELSE IF r.kind = "applied" /\ ~Closed(parents, r.applied) THEN "inconsistent_applied_history"
    ELSE "none"

\* replay: every migration in turn through the executor's preflight.
ReplayState(defs, steps) ==
    FoldLeft(LAMBDA states, k : UNION {Preflight(s, AppOf[k], defs[k], "forward") : s \in states},
             {EmptyProjectState}, steps)

Reconstruct(r) ==
    LET error == RequestError(r)
        steps == IF error = "none" THEN Projection(parents, r) ELSE <<>>
        states == IF error = "none" THEN ReplayState(definitions, steps) ELSE {}
    IN  [request |-> r, steps |-> steps, state |-> states,
         error |-> IF error = "none" /\ states = {} THEN "invalid_state" ELSE error]

Ask(r) ==
    /\ label = "ready" /\ recorder = {} /\ history = NoHistory
    /\ answer' = Reconstruct(r)
    /\ label' = "answered"
    /\ UNCHANGED <<migrations, diagnosis, parents, tarjanVars, definitions, historyVars, history>>

----------------------------------------------------------------------------
\* The executor, and the process that starts after it

Apply(k) ==
    /\ label = "ready" /\ k \notin recorder /\ parents[k] \subseteq recorder
    /\ \E s \in Preflight(working, AppOf[k], definitions[k], "forward") : working' = s
    /\ recorder' = recorder \union {k}
    /\ hasTable' = TRUE
    /\ UNCHANGED <<diagnosisVars, definitions, history, answer>>

Unapply(k) ==
    /\ label = "ready" /\ k \in recorder /\ Children(parents, k) \intersect recorder = {}
    /\ \E s \in Preflight(working, AppOf[k], definitions[k], "backward") : working' = s
    /\ recorder' = recorder \ {k}
    /\ UNCHANGED <<diagnosisVars, definitions, hasTable, history, answer>>

\* An application whose code is not part of this build has a migration in the same recorder.
RecordUnknown ==
    /\ label = "ready" /\ UnknownKey \notin recorder
    /\ recorder' = recorder \union {UnknownKey}
    /\ hasTable' = TRUE
    /\ UNCHANGED <<diagnosisVars, definitions, working, history, answer>>

\* ReadAppliedMigrations: a missing table is an empty history.
RecordsRead == IF hasTable THEN recorder ELSE {}

\* LoadAppliedState: no context, a canceled one, no reader, or a failure while reading ends without a history.
LoadAppliedState ==
    /\ label = "ready" /\ history.status = "none"
    /\ \/ history' = [status |-> "failed", keys |-> {}]
       \/ history' = [status |-> "loaded", keys |-> RecordsRead]
    /\ UNCHANGED <<diagnosisVars, definitions, historyVars, answer>>

\* Reconstruct(AppliedStateRequest(history)), perhaps after the executor has moved on.
ReconstructHistory ==
    /\ label = "ready" /\ history.status = "loaded"
    /\ answer' = Reconstruct([kind |-> "applied", targets |-> <<>>, applied |-> history.keys])
    /\ label' = "answered"
    /\ UNCHANGED <<migrations, diagnosis, parents, tarjanVars, definitions, historyVars, history>>

Next ==
    \/ Construct \/ CloneDefinitions
    \/ \E r \in Requests : Ask(r)
    \/ \E k \in DOMAIN parents : Apply(k) \/ Unapply(k)
    \/ RecordUnknown \/ LoadAppliedState \/ ReconstructHistory

Spec == Init /\ [][Next]_vars

----------------------------------------------------------------------------
\* Properties

\* Two states are the same schema when only the order of models and of fields differs.
AsSets(state) ==
    [app \in DOMAIN state |->
        {[m EXCEPT !.fields = Range(m.fields)] : m \in Range(state[app].models)}]

\* Where an operation needs something another migration creates, the dependency is declared.
Declared ==
    \A k \in DOMAIN definitions : \A i \in DOMAIN definitions[k] :
        definitions[k][i].kind = "AddField" =>
            \E p \in Closure(parents, k) : \E j \in DOMAIN definitions[p] :
                /\ definitions[p][j].kind = "CreateModel"
                /\ definitions[p][j].app = definitions[k][i].app
                /\ definitions[p][j].model.name = definitions[k][i].modelName
                /\ p = k => j < i

(***************************************************************************)
(* What the recorder says is enough: in whatever order, and over whatever  *)
(* detours of applying and unapplying, the executor got to a set of        *)
(* applied migrations, replaying that set in canonical order gives the     *)
(* schema the executor holds, or an error; never another schema.  With     *)
(* declared dependencies there is no error.  (Reconstruct of an            *)
(* AppliedStateRequest against stateForward and stateBackward.)            *)
(***************************************************************************)
HistoryIndependent ==
    label = "ready" =>
        LET result == Reconstruct([kind |-> "applied", targets |-> <<>>, applied |-> recorder])
        IN  /\ \A s \in result.state : AsSets(s) = AsSets(working)
            /\ Declared => result.error = "none"

(***************************************************************************)
(* Every applied migration that nothing applied depends on can be          *)
(* unapplied, and that leads to the schema of the remaining migrations: no *)
(* operation of a later migration keeps stateBackward from recognising     *)
(* what stateForward of this one made.  Every state on the way is its own  *)
(* normal form, with one primary key per model and no name, column or      *)
(* table twice.  (modelEqual, fieldEqual and validate.)                    *)
(***************************************************************************)
Reversible ==
    label = "ready" =>
        /\ ValidState(working)
        /\ Declared =>
              \A k \in recorder \intersect DOMAIN parents :
                  Children(parents, k) \intersect recorder = {} =>
                      \E s \in Preflight(working, AppOf[k], definitions[k], "backward") :
                          \E t \in ReplayState(definitions, OnlyAppliedSteps(TargetProjection(parents, AppLeaves(parents)), recorder \ {k})) :
                              AsSets(s) = AsSets(t)

\* The migrations a request is about, by the meaning of its kind.
Meant(r) ==
    LET named == {r.targets[i] : i \in DOMAIN r.targets}
    IN  CASE r.kind = "empty" -> {}
          [] r.kind = "latest" -> DOMAIN parents
          [] r.kind = "after" -> UNION {Closure(parents, t) : t \in named}
          [] r.kind = "before" -> (UNION {Closure(parents, t) : t \in named}) \ named
          [] r.kind = "applied" -> r.applied \intersect DOMAIN parents

(***************************************************************************)
(* A request that is answered replays exactly the migrations it is about,  *)
(* each once and none before a migration it depends on that is replayed    *)
(* too; an applied history with a hole and an unknown target are refused,  *)
(* unknown rows are ignored.  (targetProjection as a union of closures,    *)
(* withoutExplicitTargets, onlyAppliedSteps, CheckHistory.)                *)
(***************************************************************************)
ProjectionExact ==
    (label = "answered" /\ answer.error \in {"none", "invalid_state"}) =>
        /\ {answer.steps[i] : i \in DOMAIN answer.steps} = Meant(answer.request)
        /\ Len(answer.steps) = Cardinality(Meant(answer.request))
        /\ \A i, j \in DOMAIN answer.steps : answer.steps[i] \in parents[answer.steps[j]] => i < j
        /\ answer.request.kind = "applied" => Closed(parents, answer.request.applied)

=============================================================================
