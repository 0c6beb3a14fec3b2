------------------------- MODULE MigrationExecutor -------------------------
(***************************************************************************)
(* Executor.ExecutePlan, Apply and Unapply (migrations/execution.go,       *)
(* migrations/executor.go) on the SQLite migration transaction             *)
(* (db/sqlite/migration_backend.go).                                       *)
(*                                                                         *)
(* Executors read the recorder, derive the project state from it, and run  *)
(* a plan one migration transaction at a time.  Contexts are canceled,     *)
(* statements, records, commits and rollbacks fail, executors die in any   *)
(* step and start again, and other executors work on the same database.    *)
(*                                                                         *)
(* A schema is the set of its elements: tables, and columns that were      *)
(* added to a table.  A CreateModel operation is the table it creates, an  *)
(* AddField operation the column it adds.  ProjectState has such a set for *)
(* every app; nothing keeps two apps from claiming one table, or two       *)
(* migrations from introducing one element.                                *)
(***************************************************************************)
EXTENDS Integers, Sequences, FiniteSets

CONSTANTS
    Executors,
    Keys,          \* what a step of a plan may name, defined or not
    Migrations,    \* keys of the definitions passed to ExecutePlan
    Apps,
    AppOf,         \* the app of a migration, and of all its operations
    Elements,      \* tables and columns
    TableOf,       \* the table of a column; a table is its own
    OpsOf,         \* operations of each migration
    Plans,         \* plans that callers pass
    InitApplied,   \* histories the database may start with
    MaxConns,      \* connections of the pool (1 for OpenMemory)
    MaxCalls       \* bound: ExecutePlan calls of one executor

Directions == {"forward", "backward"}
Nobody == "nobody"

Operations(m) == {OpsOf[m][i] : i \in DOMAIN OpsOf[m]}

\* The project state of a set of applied migrations: a schema for every app.
StateOf(applied) ==
    [a \in Apps |-> UNION {Operations(m) : m \in {n \in applied : AppOf[n] = a}}]

\* The elements of all apps.
Tables(state) == UNION {state[a] : a \in Apps}

\* Reference: a history that a database can have.  Every element was
\* introduced once, and a column by an app that has its table.
SoundHistory(applied) ==
    /\ \A m, n \in applied : \A i \in DOMAIN OpsOf[m], j \in DOMAIN OpsOf[n] :
          OpsOf[m][i] = OpsOf[n][j] => m = n /\ i = j
    /\ \A a \in Apps : \A x \in StateOf(applied)[a] : TableOf[x] \in StateOf(applied)[a]

\* The definitions may contradict each other, as NewPlanner looks at keys and
\* dependencies and Normalize at one app.  A database starts with a history
\* it can have.
ASSUME ExecutorAssumption ==
    /\ Migrations \subseteq Keys
    /\ AppOf \in [Migrations -> Apps]
    /\ Plans \subseteq Seq([key : Keys, direction : STRING])
    /\ TableOf \in [Elements -> Elements]
    /\ \A x \in Elements : TableOf[TableOf[x]] = TableOf[x]
    /\ OpsOf \in [Migrations -> Seq(Elements)]
    /\ InitApplied \subseteq SUBSET Migrations
    /\ \A applied \in InitApplied : SoundHistory(applied)
    /\ Nobody \notin Executors
    /\ MaxConns \in Nat \ {0} /\ MaxCalls \in Nat

VARIABLES
    schema, recorder,   \* durable: schema elements, rows of godj_migrations
    lock,               \* executor whose transaction has begun to write
    conns,              \* executors that hold a connection
    pc, plan, before,   \* a call of ExecutePlan and its arguments
    prepared,           \* states after the steps preflighted so far
    working, step, opn, \* locals of ExecutePlan and execute
    copy,               \* what the open transaction has written
    txdone,             \* migrationTransaction.done
    err, cancelled,
    committed,          \* steps made durable by this call (history)
    faulted,            \* the environment made a step fail (history)
    calls

dbVars == <<schema, recorder>>
callVars == <<plan, before, calls>>
vars == <<dbVars, lock, conns, pc, callVars, prepared, working, step, opn,
          copy, txdone, err, cancelled, committed, faulted>>

-----------------------------------------------------------------------------
(* Project states (migrations/operation.go).                               *)

IsModel(x) == TableOf[x] = x

\* What stateForward and stateBackward of the two operations ask of the
\* state of their app.
\* A model can only be deleted as it was created, without added fields.
CreateModelForward(x, state) == x \notin state
CreateModelBackward(x, state) ==
    x \in state /\ \A y \in state : TableOf[y] = x => y = x
AddFieldForward(x, state) == TableOf[x] \in state /\ x \notin state
AddFieldBackward(x, state) == TableOf[x] \in state /\ x \in state

StatePossible(x, direction, state) ==
    IF direction = "forward"
    THEN IF IsModel(x) THEN CreateModelForward(x, state) ELSE AddFieldForward(x, state)
    ELSE IF IsModel(x) THEN CreateModelBackward(x, state) ELSE AddFieldBackward(x, state)

\* Faulty variant: operations are undone in the order they were done.
OperationAtUnreversed(m, direction, i) == OpsOf[m][i]

\* operationIndices: the i-th operation to run, last one first backward.
OperationAt(m, direction, i) ==
    OpsOf[m][IF direction = "forward" THEN i ELSE Len(OpsOf[m]) - i + 1]

\* The elements there before the i-th operation of migration m.
StateAt(state, m, direction, i) ==
    LET earlier == {OperationAt(m, direction, j) : j \in 1 .. (i - 1)}
    IN  IF direction = "forward" THEN state \cup earlier ELSE state \ earlier

\* preflight of one migration: every operation in turn must be possible in
\* the app of the migration, no other app is looked at.
PreflightOK(state, m, direction) ==
    \A i \in 1 .. Len(OpsOf[m]) :
        StatePossible(OperationAt(m, direction, i), direction,
                      StateAt(state[AppOf[m]], m, direction, i))

PreflightState(state, m, direction) ==
    [state EXCEPT ![AppOf[m]] = StateAt(@, m, direction, Len(OpsOf[m]) + 1)]

(* The same operations on the database: what the DDL statement needs, and  *)
(* what it leaves.  DROP TABLE takes every column of the table with it.    *)

DatabasePossible(x, direction, tables) ==
    IF direction = "forward"
    THEN x \notin tables /\ (~IsModel(x) => TableOf[x] \in tables)
    ELSE x \in tables

DatabaseResult(x, direction, tables) ==
    IF direction = "forward" THEN tables \cup {x}
    ELSE {y \in tables : y # x /\ TableOf[y] # x}

-----------------------------------------------------------------------------
NoCopy == [schema |-> {}, recorder |-> {}]
NoState == [a \in Apps |-> {}]

Init ==
    /\ recorder \in InitApplied
    /\ schema = Tables(StateOf(recorder))
    /\ lock = Nobody
    /\ conns = {}
    /\ pc = [e \in Executors |-> "idle"]
    /\ plan = [e \in Executors |-> <<>>]
    /\ before = [e \in Executors |-> NoState]
    /\ prepared = [e \in Executors |-> <<>>]
    /\ working = [e \in Executors |-> NoState]
    /\ step = [e \in Executors |-> 1]
    /\ opn = [e \in Executors |-> 1]
    /\ copy = [e \in Executors |-> NoCopy]
    /\ txdone = [e \in Executors |-> TRUE]
    /\ err = [e \in Executors |-> "none"]
    /\ cancelled = [e \in Executors |-> FALSE]
    /\ committed = [e \in Executors |-> <<>>]
    /\ faulted = [e \in Executors |-> FALSE]
    /\ calls = [e \in Executors |-> 0]

Goto(e, label) == pc' = [pc EXCEPT ![e] = label]

Key(e) == plan[e][step[e]].key
Direction(e) == plan[e][step[e]].direction

\* Leave with an error: return it, or roll the transaction back first.
FailTo(e, code, label) ==
    /\ err' = [err EXCEPT ![e] = code]
    /\ Goto(e, label)

-----------------------------------------------------------------------------
(* The caller.                                                             *)

\* LoadAppliedState and Reconstruct, then the call of ExecutePlan.  Between
\* the read and the first transaction the database may move on.
Call(e, p) ==
    /\ pc[e] = "idle" /\ calls[e] < MaxCalls
    /\ calls' = [calls EXCEPT ![e] = @ + 1]
    /\ plan' = [plan EXCEPT ![e] = p]
    /\ before' = [before EXCEPT ![e] = StateOf(recorder)]
    /\ working' = [working EXCEPT ![e] = StateOf(recorder)]
    /\ Goto(e, "start")
    /\ UNCHANGED <<dbVars, lock, conns, prepared, step, opn, copy, txdone, err,
                   cancelled, committed, faulted>>

Cancel(e) ==
    /\ pc[e] \notin {"idle", "returned"}
    /\ ~cancelled[e]
    /\ cancelled' = [cancelled EXCEPT ![e] = TRUE]
    /\ UNCHANGED <<dbVars, lock, conns, pc, callVars, prepared, working, step,
                   opn, copy, txdone, err, committed, faulted>>

\* Nothing is left of the call.
Forget(e) ==
    /\ Goto(e, "idle")
    /\ plan' = [plan EXCEPT ![e] = <<>>]
    /\ before' = [before EXCEPT ![e] = NoState]
    /\ working' = [working EXCEPT ![e] = NoState]
    /\ prepared' = [prepared EXCEPT ![e] = <<>>]
    /\ step' = [step EXCEPT ![e] = 1]
    /\ opn' = [opn EXCEPT ![e] = 1]
    /\ err' = [err EXCEPT ![e] = "none"]
    /\ cancelled' = [cancelled EXCEPT ![e] = FALSE]
    /\ faulted' = [faulted EXCEPT ![e] = FALSE]
    /\ committed' = [committed EXCEPT ![e] = <<>>]

\* The caller takes the returned state and error.
Return(e) ==
    /\ pc[e] = "returned"
    /\ Forget(e)
    /\ UNCHANGED <<dbVars, lock, conns, copy, txdone, calls>>

-----------------------------------------------------------------------------
(* ExecutePlan.                                                            *)

\* The context is checked; an empty plan is done.
Start(e) ==
    /\ pc[e] = "start"
    /\ \/ cancelled[e] /\ FailTo(e, "ctx", "returned")
       \/ ~cancelled[e] /\ plan[e] = <<>> /\ Goto(e, "returned") /\ UNCHANGED err
       \/ ~cancelled[e] /\ plan[e] # <<>> /\ Goto(e, "shape") /\ UNCHANGED err
    /\ UNCHANGED <<dbVars, lock, conns, callVars, prepared, working, step, opn,
                   copy, txdone, cancelled, committed, faulted>>

\* Faulty variant: steps of both directions are accepted.
PlanShapeMixed(p) ==
    /\ \A i \in DOMAIN p : p[i].key \in Migrations /\ p[i].direction \in Directions
    /\ \A i, j \in DOMAIN p : i # j => p[i].key # p[j].key

\* preflightPlan, first part: every step has a definition and a direction,
\* no migration occurs twice, all steps go the same way.
PlanShape(p) ==
    /\ \A i \in DOMAIN p : p[i].key \in Migrations /\ p[i].direction \in Directions
    /\ \A i, j \in DOMAIN p : i # j => p[i].key # p[j].key
    /\ \A i \in DOMAIN p : p[i].direction = p[1].direction

PreflightShape(e) ==
    /\ pc[e] = "shape"
    /\ IF PlanShape(plan[e])
         THEN Goto(e, "prepare") /\ UNCHANGED err
         ELSE FailTo(e, "plan", "returned")
    /\ UNCHANGED <<dbVars, lock, conns, callVars, prepared, working, step, opn,
                   copy, txdone, cancelled, committed, faulted>>

\* Faulty variant: only the first step is tried before I/O begins.
PreflightStepFirstOnly(e) ==
    LET k == Len(prepared[e]) + 1
        from == IF k = 1 THEN before[e] ELSE prepared[e][k - 1]
    IN
    /\ pc[e] = "prepare" /\ k <= Len(plan[e])
    /\ \/ cancelled[e] /\ FailTo(e, "ctx", "returned") /\ UNCHANGED prepared
       \/ /\ ~cancelled[e]
          /\ k = 1 /\ ~PreflightOK(from, plan[e][k].key, plan[e][k].direction)
          /\ FailTo(e, "state", "returned") /\ UNCHANGED prepared
       \/ /\ ~cancelled[e]
          /\ k > 1 \/ PreflightOK(from, plan[e][k].key, plan[e][k].direction)
          /\ prepared' = [prepared EXCEPT ![e] =
                Append(@, PreflightState(from, plan[e][k].key, plan[e][k].direction))]
          /\ UNCHANGED <<pc, err>>
    /\ UNCHANGED <<dbVars, lock, conns, callVars, working, step, opn,
                   copy, txdone, cancelled, committed, faulted>>

\* preflightPlan, second part: one step after the other, from the state the
\* step before it leaves, with a look at the context before each.
PreflightStep(e) ==
    LET k == Len(prepared[e]) + 1
        from == IF k = 1 THEN before[e] ELSE prepared[e][k - 1]
    IN
    /\ pc[e] = "prepare" /\ k <= Len(plan[e])
    /\ \/ cancelled[e] /\ FailTo(e, "ctx", "returned") /\ UNCHANGED prepared
       \/ /\ ~cancelled[e]
          /\ ~PreflightOK(from, plan[e][k].key, plan[e][k].direction)
          /\ FailTo(e, "state", "returned") /\ UNCHANGED prepared
       \/ /\ ~cancelled[e]
          /\ PreflightOK(from, plan[e][k].key, plan[e][k].direction)
          /\ prepared' = [prepared EXCEPT ![e] =
                Append(@, PreflightState(from, plan[e][k].key, plan[e][k].direction))]
          /\ UNCHANGED <<pc, err>>
    /\ UNCHANGED <<dbVars, lock, conns, callVars, working, step, opn,
                   copy, txdone, cancelled, committed, faulted>>

PreflightEnds(e) ==
    /\ pc[e] = "prepare" /\ Len(prepared[e]) = Len(plan[e])
    /\ Goto(e, "gate")
    /\ UNCHANGED <<dbVars, lock, conns, callVars, prepared, working, step, opn,
                   copy, txdone, err, cancelled, committed, faulted>>

\* Faulty variant: a canceled context fails a plan that is already durable.
PlanEndsChecksContext(e) ==
    /\ pc[e] = "gate" /\ step[e] > Len(plan[e])
    /\ Goto(e, "returned")
    /\ err' = [err EXCEPT ![e] = IF cancelled[e] THEN "ctx" ELSE "none"]
    /\ UNCHANGED <<dbVars, lock, conns, callVars, prepared, working, step, opn,
                   copy, txdone, cancelled, committed, faulted>>

\* All steps are durable; the context is not looked at again.
PlanEnds(e) ==
    /\ pc[e] = "gate" /\ step[e] > Len(plan[e])
    /\ Goto(e, "returned")
    /\ UNCHANGED <<dbVars, lock, conns, callVars, prepared, working, step, opn,
                   copy, txdone, err, cancelled, committed, faulted>>

\* Before every step, in ExecutePlan and again in execute: the context, and
\* the migration's preflight from the working state.
Gate(e) ==
    /\ pc[e] = "gate" /\ step[e] <= Len(plan[e])
    /\ IF cancelled[e] THEN FailTo(e, "ctx", "returned")
       ELSE IF ~PreflightOK(working[e], Key(e), Direction(e))
       THEN FailTo(e, "state", "returned")
       ELSE Goto(e, "begin") /\ UNCHANGED err
    /\ UNCHANGED <<dbVars, lock, conns, callVars, prepared, working, step, opn,
                   copy, txdone, cancelled, committed, faulted>>

-----------------------------------------------------------------------------
(* execute, and the SQLite migration transaction.                          *)

\* Faulty variant: the operation counter of the last migration is kept.
BeginMigrationKeepsCounter(e) ==
    /\ pc[e] = "begin"
    /\ ~cancelled[e] /\ Cardinality(conns) < MaxConns
    /\ conns' = conns \cup {e}
    /\ txdone' = [txdone EXCEPT ![e] = FALSE]
    /\ copy' = [copy EXCEPT ![e] = NoCopy]
    /\ Goto(e, "op")
    /\ UNCHANGED <<dbVars, lock, callVars, prepared, working, step, opn, err,
                   cancelled, committed, faulted>>

\* BeginMigration with a connection.
BeginMigration(e) ==
    /\ pc[e] = "begin"
    /\ ~cancelled[e] /\ Cardinality(conns) < MaxConns
    /\ conns' = conns \cup {e}
    /\ txdone' = [txdone EXCEPT ![e] = FALSE]
    /\ copy' = [copy EXCEPT ![e] = NoCopy]
    /\ opn' = [opn EXCEPT ![e] = 1]
    /\ Goto(e, "op")
    /\ UNCHANGED <<dbVars, lock, callVars, prepared, working, step, err,
                   cancelled, committed, faulted>>

\* BeginMigration fails: the context ended, also while waiting for a
\* connection, or Conn or BeginTx failed and the connection is closed again.
BeginFails(e) ==
    /\ pc[e] = "begin"
    /\ \/ cancelled[e] /\ UNCHANGED faulted
       \/ Cardinality(conns) < MaxConns /\ faulted' = [faulted EXCEPT ![e] = TRUE]
    /\ FailTo(e, "begin", "returned")
    /\ UNCHANGED <<dbVars, lock, conns, callVars, prepared, working, step, opn,
                   copy, txdone, cancelled, committed>>

\* What a statement of the transaction sees: the first write takes the
\* database's write lock and with it the committed state.
Visible(e) ==
    IF lock = e THEN copy[e] ELSE [schema |-> schema, recorder |-> recorder]

\* A statement of the transaction runs: it has, or gets, the write lock.
Statement(e) ==
    /\ ~cancelled[e] /\ ~txdone[e]
    /\ lock \in {Nobody, e}
    /\ lock' = e

\* A statement fails and the transaction is to be rolled back: canceled
\* before or during the statement, the lock is with someone else, a driver
\* error, or the database refuses it (`possible` is false).
StatementFails(e, code, possible) ==
    /\ \/ cancelled[e] /\ UNCHANGED faulted
       \/ ~possible /\ lock \in {Nobody, e} /\ UNCHANGED faulted
       \/ faulted' = [faulted EXCEPT ![e] = TRUE]
    /\ FailTo(e, code, "rollback")
    /\ UNCHANGED <<dbVars, lock, conns, callVars, prepared, working, step, opn,
                   copy, txdone, cancelled, committed>>

CurrentOp(e) == OperationAt(Key(e), Direction(e), opn[e])

\* databaseForward or databaseBackward of the next prepared operation.
ExecuteOperation(e) ==
    /\ pc[e] = "op" /\ opn[e] <= Len(OpsOf[Key(e)])
    /\ Statement(e)
    /\ DatabasePossible(CurrentOp(e), Direction(e), Visible(e).schema)
    /\ copy' = [copy EXCEPT ![e] =
          [schema |-> DatabaseResult(CurrentOp(e), Direction(e), Visible(e).schema),
           recorder |-> Visible(e).recorder]]
    /\ opn' = [opn EXCEPT ![e] = @ + 1]
    /\ UNCHANGED <<dbVars, conns, pc, callVars, prepared, working, step, txdone,
                   err, cancelled, committed, faulted>>

OperationFails(e) ==
    /\ pc[e] = "op" /\ opn[e] <= Len(OpsOf[Key(e)])
    /\ StatementFails(e, "operation",
          DatabasePossible(CurrentOp(e), Direction(e), Visible(e).schema))

\* Faulty variant: a record that is already there, or gone, is no error.
RecordPossibleAlways(e) == TRUE

\* RecordApplied inserts under a primary key, RecordUnapplied wants to have
\* removed exactly one row.
RecordPossible(e) ==
    (Direction(e) = "forward") = (Key(e) \notin Visible(e).recorder)

Recorded(e, rows) ==
    IF Direction(e) = "forward" THEN rows \cup {Key(e)} ELSE rows \ {Key(e)}

\* Faulty variant: the recorder row is written on a connection of its own.
RecordSeparately(e) ==
    /\ pc[e] = "op" /\ opn[e] > Len(OpsOf[Key(e)])
    /\ Statement(e)
    /\ RecordPossible(e)
    /\ recorder' = Recorded(e, recorder)
    /\ copy' = [copy EXCEPT ![e] = [Visible(e) EXCEPT !.recorder = recorder']]
    /\ Goto(e, "commit")
    /\ UNCHANGED <<schema, conns, callVars, prepared, working, step, opn, txdone,
                   err, cancelled, committed, faulted>>

\* The recorder row changes in the transaction of the schema change.
Record(e) ==
    /\ pc[e] = "op" /\ opn[e] > Len(OpsOf[Key(e)])
    /\ Statement(e)
    /\ RecordPossible(e)
    /\ copy' = [copy EXCEPT ![e] =
          [schema |-> Visible(e).schema, recorder |-> Recorded(e, Visible(e).recorder)]]
    /\ Goto(e, "commit")
    /\ UNCHANGED <<dbVars, conns, callVars, prepared, working, step, opn, txdone,
                   err, cancelled, committed, faulted>>

RecordFails(e) ==
    /\ pc[e] = "op" /\ opn[e] > Len(OpsOf[Key(e)])
    /\ StatementFails(e, "record", RecordPossible(e))

\* Faulty variant: the transaction counts as complete before the context is
\* checked, so that the rollback after it does nothing.
CommitMarksFirst(e) ==
    /\ pc[e] = "commit"
    /\ txdone' = [txdone EXCEPT ![e] = TRUE]
    /\ IF cancelled[e] THEN FailTo(e, "commit", "rollback")
       ELSE Goto(e, "committing") /\ UNCHANGED err
    /\ UNCHANGED <<dbVars, lock, conns, callVars, prepared, working, step, opn,
                   copy, cancelled, committed, faulted>>

\* Commit, up to the COMMIT statement: a canceled context leaves the
\* transaction open for the rollback.
Commit(e) ==
    /\ pc[e] = "commit"
    /\ IF cancelled[e] THEN FailTo(e, "commit", "rollback") /\ UNCHANGED txdone
       ELSE /\ txdone' = [txdone EXCEPT ![e] = TRUE]
            /\ Goto(e, "committing") /\ UNCHANGED err
    /\ UNCHANGED <<dbVars, lock, conns, callVars, prepared, working, step, opn,
                   copy, cancelled, committed, faulted>>

\* The transaction is over and its connection goes back to the pool.
Release(e) ==
    /\ lock' = IF lock = e THEN Nobody ELSE lock
    /\ conns' = conns \ {e}
    /\ copy' = [copy EXCEPT ![e] = NoCopy]

\* COMMIT succeeds: schema and recorder become durable together, and
\* ExecutePlan goes on with the state the preflight computed.
CommitSucceeds(e) ==
    /\ pc[e] = "committing"
    /\ schema' = copy[e].schema /\ recorder' = copy[e].recorder
    /\ Release(e)
    /\ committed' = [committed EXCEPT ![e] = Append(@, plan[e][step[e]])]
    /\ working' = [working EXCEPT ![e] = prepared[e][step[e]]]
    /\ step' = [step EXCEPT ![e] = @ + 1]
    /\ Goto(e, "gate")
    /\ UNCHANGED <<callVars, prepared, opn, txdone, err, cancelled, faulted>>

\* COMMIT fails, also because the context ended after it was checked; the
\* driver has given the transaction up and the connection is closed.
CommitFails(e) ==
    /\ pc[e] = "committing"
    /\ Release(e)
    /\ faulted' = [faulted EXCEPT ![e] = TRUE]
    /\ FailTo(e, "commit", "rollback")
    /\ UNCHANGED <<dbVars, callVars, prepared, working, step, opn, txdone,
                   cancelled, committed>>

\* Faulty variant: the plan goes on with its next step after a failure.
RollbackGoesOn(e) ==
    /\ pc[e] = "rollback"
    /\ IF txdone[e] THEN UNCHANGED <<lock, conns, copy, txdone>>
       ELSE txdone' = [txdone EXCEPT ![e] = TRUE] /\ Release(e)
    /\ step' = [step EXCEPT ![e] = @ + 1]
    /\ Goto(e, "gate")
    /\ UNCHANGED <<dbVars, callVars, prepared, working, opn, err,
                   cancelled, committed, faulted>>

\* rollback, without the cancellation of the call: it does nothing after
\* Commit has taken over.  Its own error is only added to the first one.
Rollback(e) ==
    /\ pc[e] = "rollback"
    /\ IF txdone[e] THEN UNCHANGED <<lock, conns, copy, txdone>>
       ELSE txdone' = [txdone EXCEPT ![e] = TRUE] /\ Release(e)
    /\ Goto(e, "returned")
    /\ UNCHANGED <<dbVars, callVars, prepared, working, step, opn, err,
                   cancelled, committed, faulted>>

\* database/sql rolls the transaction of a canceled context back on its own,
\* before the executor notices; the connection stays with the executor.
DriverRollsBack(e) ==
    /\ cancelled[e] /\ pc[e] \in {"op", "commit"} /\ lock = e
    /\ lock' = Nobody
    /\ copy' = [copy EXCEPT ![e] = NoCopy]
    /\ UNCHANGED <<dbVars, conns, pc, callVars, prepared, working, step, opn,
                   txdone, err, cancelled, committed, faulted>>

\* The executor's process dies; SQLite drops what was not committed.
Crash(e) ==
    /\ pc[e] # "idle"
    /\ Release(e)
    /\ txdone' = [txdone EXCEPT ![e] = TRUE]
    /\ Forget(e)
    /\ UNCHANGED <<dbVars, calls>>

-----------------------------------------------------------------------------
\* What an executor does inside a call.
Step(e) ==
    \/ Start(e) \/ PreflightShape(e) \/ PreflightStep(e) \/ PreflightEnds(e)
    \/ Gate(e) \/ PlanEnds(e) \/ BeginMigration(e) \/ BeginFails(e)
    \/ ExecuteOperation(e) \/ OperationFails(e) \/ Record(e) \/ RecordFails(e)
    \/ Commit(e) \/ CommitSucceeds(e) \/ CommitFails(e) \/ Rollback(e)
    \/ Return(e)

Next ==
    \E e \in Executors :
        \/ \E p \in Plans : Call(e, p)
        \/ Cancel(e) \/ DriverRollsBack(e) \/ Crash(e)
        \/ Step(e)

Spec == Init /\ [][Next]_vars

\* An executor inside a call keeps running, and gets a connection if
\* connections keep coming back.
LiveSpec ==
    Spec /\ \A e \in Executors : WF_vars(Step(e)) /\ SF_vars(BeginMigration(e))

\* Calls that overlap in time go the same way.  Executors with opposite
\* plans are not serialized by anything (docs/adr/0015, 0017).
SameWay ==
    \A e, f \in Executors : plan[e] # <<>> /\ plan[f] # <<>> =>
        plan[e][1].direction = plan[f][1].direction

SameWaySpec == Init /\ [][Next /\ SameWay']_vars

-----------------------------------------------------------------------------
(* Properties.                                                             *)

Labels == {"idle", "start", "shape", "prepare", "gate", "begin", "op",
           "commit", "committing", "rollback", "returned"}

\* Inside a step of the plan.
InStep == {"begin", "op", "commit", "committing", "rollback"}

ProjectStates == [Apps -> SUBSET Elements]

\* Every variable has its type, and the indexes into plan, prepared steps and
\* operations are in range wherever they are used.
TypeOK ==
    /\ schema \subseteq Elements /\ recorder \subseteq Migrations
    /\ lock \in Executors \cup {Nobody}
    /\ conns \subseteq Executors
    /\ pc \in [Executors -> Labels]
    /\ plan \in [Executors -> Plans \cup {<<>>}]
    /\ before \in [Executors -> ProjectStates]
    /\ prepared \in [Executors -> Seq(ProjectStates)]
    /\ working \in [Executors -> ProjectStates]
    /\ step \in [Executors -> Nat] /\ opn \in [Executors -> Nat]
    /\ copy \in [Executors -> [schema : SUBSET Elements, recorder : SUBSET Migrations]]
    /\ txdone \in [Executors -> BOOLEAN]
    /\ err \in [Executors -> {"none", "ctx", "plan", "state", "begin",
                              "operation", "record", "commit"}]
    /\ cancelled \in [Executors -> BOOLEAN] /\ faulted \in [Executors -> BOOLEAN]
    /\ calls \in [Executors -> Nat]
    /\ \A e \in Executors : pc[e] \in InStep =>
          /\ step[e] \in DOMAIN plan[e] /\ step[e] \in DOMAIN prepared[e]
          /\ Key(e) \in Migrations /\ Direction(e) \in Directions
          /\ pc[e] = "op" => opn[e] \in 1 .. (Len(OpsOf[Key(e)]) + 1)

\* The durable schema is always the one the recorder tells of, whatever fails
\* or dies in whatever step: DDL and record are never durable without the
\* other (migrationTransaction: one pinned connection and one transaction).
SchemaMatchesRecorder == schema = Tables(StateOf(recorder))

\* Of several executors that run the same step, one at most makes it durable
\* and says so: the recorder's primary key, and the count of removed rows,
\* stop the others even when a migration has no schema operation.
EachStepOnce ==
    \A e, f \in Executors : e # f =>
        \A i \in DOMAIN committed[e], j \in DOMAIN committed[f] :
            committed[e][i] # committed[f][j]

\* What a call has made durable is a prefix of its plan, in plan order: no
\* step is skipped, repeated or run after one that failed.  The working state
\* is the state after exactly that prefix, and what an executor that works
\* alone returns is, app by app, the state of the recorder, and all apps
\* together are the durable schema, after success, failure and cancellation.
DurablePrefix ==
    \A e \in Executors :
        /\ Len(committed[e]) <= Len(plan[e])
        /\ \A i \in 1 .. Len(committed[e]) : committed[e][i] = plan[e][i]
        /\ pc[e] # "idle" =>
              working[e] = IF committed[e] = <<>> THEN before[e]
                           ELSE prepared[e][Len(committed[e])]
        /\ pc[e] = "returned" => working[e] = StateOf(recorder) /\ Tables(working[e]) = schema

\* Success is reported for a plan of which every step is durable, and only
\* for such a plan; a cancellation after the last commit changes nothing.
ResultHonest ==
    \A e \in Executors : pc[e] = "returned" =>
        /\ err[e] = "none" => committed[e] = plan[e]
        /\ plan[e] # <<>> /\ committed[e] = plan[e] => err[e] = "none"

\* The steps a call has not made durable: none is recorded as done already.
RestIsNew(e) ==
    \A i \in (Len(committed[e]) + 1) .. Len(plan[e]) :
        (plan[e][i].direction = "forward") = (plan[e][i].key \notin recorder)

\* A migration adds no column before it creates the table.
TablesFirst(m) ==
    \A i, j \in DOMAIN OpsOf[m] : TableOf[OpsOf[m][i]] = OpsOf[m][j] => j <= i

\* Reference: the rest of the plan makes sense as a change of the set of
\* applied migrations, which is a sound history before and after every step.
RestIsSensible(e) ==
    /\ PlanShape(plan[e]) /\ RestIsNew(e)
    /\ \A i \in DOMAIN plan[e] : TablesFirst(plan[e][i].key)
    /\ \A i \in Len(committed[e]) .. Len(plan[e]) :
          LET keys == {plan[e][j].key : j \in (Len(committed[e]) + 1) .. i}
          IN  SoundHistory(IF plan[e][1].direction = "forward"
                           THEN recorder \cup keys ELSE recorder \ keys)

\* The next step creates a table that another app has.
TableTaken(e) ==
    LET next == plan[e][Len(committed[e]) + 1]
    IN  /\ next.direction = "forward"
        /\ \E x \in Operations(next.key), m \in recorder :
              IsModel(x) /\ x \in Operations(m) /\ AppOf[m] # AppOf[next.key]

\* An executor that works alone, is not canceled and meets no fault carries a
\* sensible plan out, forward and backward, and refuses any other plan before
\* its first transaction, unless the plan repeats what is recorded or creates
\* a table that another app has: that is all that project states, database
\* and recorder can disagree on, and then the database decides.  What SQLite
\* cannot do at all (a capability error) counts as a fault.
CleanRunSucceeds ==
    \A e \in Executors :
        pc[e] = "returned" /\ ~cancelled[e] /\ ~faulted[e] /\ plan[e] # <<>> =>
            /\ RestIsSensible(e) => err[e] = "none"
            /\ RestIsNew(e) =>
                  \/ err[e] = "none"
                  \/ err[e] \in {"plan", "state"} /\ committed[e] = <<>>
                  \/ err[e] = "operation" /\ TableTaken(e)

\* Every call of ExecutePlan comes to an end: a failed or canceled Commit gives
\* its connection back as well, so that the next step can have it.
EveryRunReturns == \A e \in Executors : pc[e] # "idle" ~> pc[e] = "idle"
=============================================================================
