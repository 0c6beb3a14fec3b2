------------------------ MODULE MigrationExecutorProofs ------------------------
(***************************************************************************)
(* Proofs about MigrationExecutor for any number of executors, plans and   *)
(* migrations, whatever directions the plans of overlapping calls have.    *)
(*                                                                         *)
(* The invariant of an executor ties its place in the plan to what the     *)
(* preflight prepared and to what it made durable (Control), and to the    *)
(* write lock and the recorder rows of its transaction (Transaction).      *)
(* What executors do to the schema together comes after that.              *)
(***************************************************************************)
EXTENDS MigrationExecutor, TLAPS

\* The state the k-th step of e's plan starts from.
From(e, k) == IF k = 1 THEN before[e] ELSE prepared[e][k - 1]

\* Labels of a step before it failed, and those behind the whole preflight.
Running == {"begin", "op", "commit", "committing"}
Preflighted == {"gate", "rollback"} \cup Running

\* Where a call is, what it has prepared, and what it has made durable.
Progress(e) ==
    /\ step[e] = Len(committed[e]) + 1 /\ Len(committed[e]) <= Len(plan[e])
    /\ \A i \in 1 .. Len(committed[e]) : committed[e][i] = plan[e][i]
    /\ pc[e] \in {"rollback"} \cup Running => step[e] <= Len(plan[e])
    /\ pc[e] \in {"idle", "start", "shape", "prepare"} => step[e] = 1
    /\ pc[e] = "idle" => plan[e] = <<>>

Prepared(e) ==
    /\ pc[e] \in {"idle", "start", "shape"} => prepared[e] = <<>>
    /\ pc[e] = "prepare" \/ pc[e] \in Preflighted \/ step[e] > 1 => PlanShape(plan[e])
    /\ Len(prepared[e]) <= Len(plan[e])
    /\ pc[e] \in Preflighted \/ step[e] > 1 => Len(prepared[e]) = Len(plan[e])
    /\ \A k \in 1 .. Len(prepared[e]) :
          prepared[e][k] = PreflightState(From(e, k), plan[e][k].key, plan[e][k].direction)
    /\ working[e] = From(e, step[e])
    /\ pc[e] \in Running => PreflightOK(working[e], Key(e), Direction(e))
    /\ pc[e] = "op" => opn[e] \in 1 .. (Len(OpsOf[Key(e)]) + 1)

\* An error is the end of the call, and the only end before the last step.
Errors(e) ==
    /\ pc[e] \notin {"rollback", "returned"} => err[e] = "none"
    /\ pc[e] = "rollback" => err[e] # "none"
    /\ pc[e] = "returned" =>
          /\ err[e] = "none" => step[e] = Len(plan[e]) + 1
          /\ err[e] # "none" /\ plan[e] # <<>> => step[e] <= Len(plan[e])

Control(e) == Progress(e) /\ Prepared(e) /\ Errors(e)

\* Who has written has the write lock until its transaction is over, and has
\* seen the recorder that is still the durable one.
Transaction(e) ==
    /\ lock = e => pc[e] \in {"op", "commit", "committing"} \/ (pc[e] = "rollback" /\ ~txdone[e])
    /\ pc[e] \in {"op", "commit"} => ~txdone[e]
    /\ (pc[e] = "op" /\ opn[e] > 1) \/ pc[e] = "commit" => lock = e \/ cancelled[e]
    /\ pc[e] = "committing" => lock = e
    /\ lock = e /\ pc[e] = "op" => copy[e].recorder = recorder
    /\ lock = e /\ pc[e] \in {"commit", "committing"} =>
          /\ copy[e].recorder = Recorded(e, recorder)
          /\ (Direction(e) = "forward") = (Key(e) \notin recorder)

PlanSteps == [key : Keys, direction : STRING]

\* What TypeOK says of the variables one by one, and the history variable.
Types ==
    /\ schema \subseteq Elements /\ recorder \subseteq Migrations
    /\ lock \in Executors \cup {Nobody}
    /\ conns \subseteq Executors
    /\ pc \in [Executors -> Labels]
    /\ plan \in [Executors -> Plans \cup {<<>>}]
    /\ before \in [Executors -> ProjectStates]
    /\ prepared \in [Executors -> Seq(ProjectStates)]
    /\ working \in [Executors -> ProjectStates]
    /\ step \in [Executors -> Nat] /\ opn \in [Executors -> Nat]
    /\ copy \in [Executors -> [schema : SUBSET Elements, recorder : SUBSET Migrations]]
    /\ txdone \in [Executors -> BOOLEAN]
    /\ err \in [Executors -> {"none", "ctx", "plan", "state", "begin",
                              "operation", "record", "commit"}]
    /\ cancelled \in [Executors -> BOOLEAN] /\ faulted \in [Executors -> BOOLEAN]
    /\ calls \in [Executors -> Nat]
    /\ committed \in [Executors -> Seq(PlanSteps)]

Controlled == Types /\ \A e \in Executors : Control(e) /\ Transaction(e)

-----------------------------------------------------------------------------
(* The operations of a migration.                                          *)

LEMMA OperationInMigration ==
    ASSUME NEW m \in Migrations, NEW direction
    PROVE  /\ Len(OpsOf[m]) \in Nat /\ Operations(m) \subseteq Elements
           /\ \A i \in 1 .. Len(OpsOf[m]) : OperationAt(m, direction, i) \in Operations(m)
  <1>1. OpsOf[m] \in Seq(Elements)
    BY ExecutorAssumption
  <1>2. ASSUME NEW i \in 1 .. Len(OpsOf[m])
        PROVE  (IF direction = "forward" THEN i ELSE Len(OpsOf[m]) - i + 1) \in DOMAIN OpsOf[m]
    BY <1>1
  <1> QED BY <1>1, <1>2 DEF Operations, OperationAt

\* Both directions go through every operation.
LEMMA OperationsCovered ==
    ASSUME NEW m \in Migrations, NEW direction
    PROVE  {OperationAt(m, direction, j) : j \in 1 .. Len(OpsOf[m])} = Operations(m)
  <1>1. OpsOf[m] \in Seq(Elements) /\ DOMAIN OpsOf[m] = 1 .. Len(OpsOf[m]) /\ Len(OpsOf[m]) \in Nat
    BY ExecutorAssumption
  <1>2. ASSUME NEW x \in Operations(m)
        PROVE  \E j \in 1 .. Len(OpsOf[m]) : x = OperationAt(m, direction, j)
    <2>1. PICK i \in 1 .. Len(OpsOf[m]) : x = OpsOf[m][i]
      BY <1>1 DEF Operations
    <2>2. CASE direction = "forward"
      BY <2>1, <2>2 DEF OperationAt
    <2>3. CASE direction # "forward"
      <3>1. Len(OpsOf[m]) - i + 1 \in 1 .. Len(OpsOf[m])
            /\ Len(OpsOf[m]) - (Len(OpsOf[m]) - i + 1) + 1 = i
        BY <1>1
      <3> QED BY <2>1, <2>3, <3>1 DEF OperationAt
    <2> QED BY <2>2, <2>3
  <1> QED BY <1>2, OperationInMigration

LEMMA StateOfElements ==
    ASSUME NEW applied \in SUBSET Migrations
    PROVE  /\ StateOf(applied) \in ProjectStates /\ DOMAIN StateOf(applied) = Apps
           /\ \A a \in Apps : StateOf(applied)[a] = UNION {Operations(m) : m \in {n \in applied : AppOf[n] = a}}
           /\ Tables(StateOf(applied)) = UNION {Operations(m) : m \in applied}
  <1>1. \A a \in Apps : UNION {Operations(m) : m \in {n \in applied : AppOf[n] = a}} \in SUBSET Elements
    BY OperationInMigration
  <1>2. \A m \in applied : AppOf[m] \in Apps
    BY ExecutorAssumption
  <1> QED BY <1>1, <1>2 DEF StateOf, ProjectStates, Tables

LEMMA StateAtElements ==
    ASSUME NEW m \in Migrations, NEW direction, NEW state \in SUBSET Elements,
           NEW i \in 1 .. (Len(OpsOf[m]) + 1)
    PROVE  StateAt(state, m, direction, i) \subseteq Elements
  <1>1. \A j \in 1 .. (i - 1) : OperationAt(m, direction, j) \in Elements
    BY OperationInMigration
  <1> QED BY <1>1 DEF StateAt

\* What a whole migration makes of a set of elements.
After(elements, m, direction) ==
    IF direction = "forward" THEN elements \cup Operations(m) ELSE elements \ Operations(m)

LEMMA WholeMigration ==
    ASSUME NEW m \in Migrations, NEW direction, NEW elements
    PROVE  StateAt(elements, m, direction, Len(OpsOf[m]) + 1) = After(elements, m, direction)
  <1>1. (Len(OpsOf[m]) + 1) - 1 = Len(OpsOf[m])
    BY OperationInMigration
  <1> QED BY <1>1, OperationsCovered DEF StateAt, After

\* The state after a whole migration: its own app has changed.
LEMMA PreflightResult ==
    ASSUME NEW m \in Migrations, NEW direction, NEW state \in ProjectStates
    PROVE  /\ AppOf[m] \in Apps
           /\ PreflightState(state, m, direction) \in ProjectStates
           /\ PreflightState(state, m, direction)[AppOf[m]] = After(state[AppOf[m]], m, direction)
           /\ \A a \in Apps : a # AppOf[m] => PreflightState(state, m, direction)[a] = state[a]
  <1>1. AppOf[m] \in Apps /\ Operations(m) \subseteq Elements
    BY OperationInMigration, ExecutorAssumption
  <1>2. PICK own : own = After(state[AppOf[m]], m, direction)
    OBVIOUS
  <1>3. own \in SUBSET Elements
    BY <1>1, <1>2 DEF After, ProjectStates
  <1>4. PreflightState(state, m, direction) = [state EXCEPT ![AppOf[m]] = own]
    BY <1>2, WholeMigration DEF PreflightState
  <1> QED BY <1>1, <1>2, <1>3, <1>4 DEF ProjectStates

-----------------------------------------------------------------------------
Moves(e) ==
    \/ \E p \in Plans : Call(e, p)
    \/ Cancel(e) \/ DriverRollsBack(e) \/ Crash(e) \/ Step(e)

\* The plan of a call is a sequence of steps.
LEMMA PlanType ==
    ASSUME Types, NEW e \in Executors
    PROVE  /\ plan[e] \in Seq(PlanSteps) /\ Len(plan[e]) \in Nat
           /\ committed[e] \in Seq(PlanSteps) /\ Len(committed[e]) \in Nat
           /\ prepared[e] \in Seq(ProjectStates) /\ Len(prepared[e]) \in Nat
           /\ step[e] \in Nat /\ opn[e] \in Nat /\ working[e] \in ProjectStates /\ before[e] \in ProjectStates
  <1>1. plan[e] \in Seq(PlanSteps) /\ committed[e] \in Seq(PlanSteps)
        /\ prepared[e] \in Seq(ProjectStates)
    <2>1. Plans \subseteq Seq(PlanSteps)
      BY ExecutorAssumption DEF PlanSteps
    <2>2. <<>> \in Seq(PlanSteps)
      OBVIOUS
    <2>3. plan[e] \in Plans \cup {<<>>}
      BY DEF Types
    <2> QED BY <2>1, <2>2, <2>3, Zenon DEF Types
  <1>2. step[e] \in Nat /\ opn[e] \in Nat /\ working[e] \in ProjectStates /\ before[e] \in ProjectStates
    BY DEF Types
  <1> QED BY <1>1, <1>2

\* Inside a step the plan has been found well-formed.
LEMMA StepDefined ==
    ASSUME Types, NEW e \in Executors, Control(e), pc[e] \in Preflighted,
           step[e] <= Len(plan[e])
    PROVE  /\ step[e] \in 1 .. Len(plan[e]) /\ Key(e) \in Migrations /\ Direction(e) \in Directions
           /\ \A i \in 1 .. Len(plan[e]) : plan[e][i].key \in Migrations /\ plan[e][i].direction = Direction(e)
           /\ step[e] \in 1 .. Len(prepared[e]) /\ Len(prepared[e]) = Len(plan[e])
           /\ prepared[e][step[e]] = PreflightState(working[e], Key(e), Direction(e))
  <1>1. step[e] \in 1 .. Len(plan[e]) /\ DOMAIN plan[e] = 1 .. Len(plan[e])
    BY PlanType DEF Control, Progress
  <1>2. PlanShape(plan[e]) /\ Len(prepared[e]) = Len(plan[e])
    BY DEF Control, Prepared
  <1>3. Key(e) \in Migrations /\ Direction(e) \in Directions
        /\ \A i \in 1 .. Len(plan[e]) : plan[e][i].key \in Migrations /\ plan[e][i].direction = Direction(e)
    BY <1>1, <1>2 DEF PlanShape, Key, Direction
  <1>4. prepared[e][step[e]] = PreflightState(working[e], Key(e), Direction(e))
    BY <1>1, <1>2 DEF Control, Prepared, Key, Direction
  <1> QED BY <1>1, <1>2, <1>3, <1>4

\* A step of an executor leaves the locals of every other one alone.
LEMMA OtherExecutors ==
    ASSUME Types, NEW e \in Executors, Moves(e), NEW d \in Executors, d # e
    PROVE  /\ pc'[d] = pc[d] /\ plan'[d] = plan[d] /\ before'[d] = before[d] /\ working'[d] = working[d]
           /\ prepared'[d] = prepared[d] /\ step'[d] = step[d] /\ opn'[d] = opn[d] /\ err'[d] = err[d]
           /\ cancelled'[d] = cancelled[d] /\ committed'[d] = committed[d]
           /\ copy'[d] = copy[d] /\ txdone'[d] = txdone[d]
           /\ lock' = d <=> lock = d
  <1>1. Nobody # d
    BY ExecutorAssumption
  <1> USE <1>1 DEF Types, dbVars, callVars, Goto, FailTo, Forget, Release
  <1>2. ASSUME NEW p \in Plans, Call(e, p)
        PROVE  /\ pc'[d] = pc[d] /\ plan'[d] = plan[d] /\ before'[d] = before[d] /\ working'[d] = working[d]
               /\ UNCHANGED <<lock, prepared, step, opn, copy, txdone, err, cancelled, committed>>
    BY <1>2 DEF Call
  <1>3. CASE Cancel(e) \/ DriverRollsBack(e)
    BY <1>3 DEF Cancel, DriverRollsBack
  <1>4. CASE Crash(e) \/ Return(e)
    BY <1>4 DEF Crash, Return
  <1>5. CASE Start(e) \/ PreflightShape(e) \/ PreflightEnds(e) \/ Gate(e) \/ PlanEnds(e)
    BY <1>5 DEF Start, PreflightShape, PreflightEnds, Gate, PlanEnds
  <1>6. CASE PreflightStep(e)
    BY <1>6 DEF PreflightStep
  <1>7. CASE BeginMigration(e) \/ BeginFails(e)
    BY <1>7 DEF BeginMigration, BeginFails
  <1>8. CASE ExecuteOperation(e) \/ Record(e)
    BY <1>8 DEF ExecuteOperation, Record, Statement
  <1>9. CASE OperationFails(e) \/ RecordFails(e)
    BY <1>9 DEF OperationFails, RecordFails, StatementFails
  <1>10. CASE Commit(e) \/ CommitFails(e) \/ Rollback(e)
    BY <1>10 DEF Commit, CommitFails, Rollback
  <1>11. CASE CommitSucceeds(e)
    BY <1>11 DEF CommitSucceeds
  <1> QED BY <1>2, <1>3, <1>4, <1>5, <1>6, <1>7, <1>8, <1>9, <1>10, <1>11 DEF Moves, Step

\* Only a COMMIT changes what is durable.
LEMMA DurableStep ==
    ASSUME NEW e \in Executors, Moves(e)
    PROVE  UNCHANGED dbVars \/ CommitSucceeds(e)
  BY DEF Moves, Step, Call, Cancel, DriverRollsBack, Crash, Return, Start, PreflightShape, PreflightStep,
     PreflightEnds, Gate, PlanEnds, BeginMigration, BeginFails, ExecuteOperation, Record, OperationFails,
     RecordFails, StatementFails, Commit, CommitFails, Rollback

\* Every step keeps the types.
LEMMA TypesKeep ==
    ASSUME Controlled, NEW e \in Executors, Moves(e)
    PROVE  Types'
  <1>1. Types /\ Control(e)
    BY DEF Controlled
  <1> USE DEF Labels, dbVars, callVars, Goto
  <1>0. NoState \in ProjectStates
    BY DEF NoState, ProjectStates
  <1>2. ASSUME NEW p \in Plans, Call(e, p) PROVE Types'
    <2>1. StateOf(recorder) \in ProjectStates
      BY <1>1, StateOfElements DEF Types
    <2> QED BY <1>1, <1>2, <2>1 DEF Types, Call
  <1>3. CASE Cancel(e)
    BY <1>1, <1>3 DEF Types, Cancel
  <1>4. NoCopy \in [schema : SUBSET Elements, recorder : SUBSET Migrations]
    BY DEF NoCopy
  <1>5. CASE DriverRollsBack(e)
    BY <1>1, <1>4, <1>5 DEF Types, DriverRollsBack
  <1>6. Forget(e) /\ Release(e) => /\ pc' \in [Executors -> Labels] /\ plan' \in [Executors -> Plans \cup {<<>>}]
          /\ before' \in [Executors -> ProjectStates] /\ working' \in [Executors -> ProjectStates]
          /\ prepared' \in [Executors -> Seq(ProjectStates)] /\ committed' \in [Executors -> Seq(PlanSteps)]
    BY <1>0, <1>1 DEF Types, Forget
  <1>7. CASE Crash(e)
    BY <1>1, <1>4, <1>6, <1>7 DEF Types, Crash, Forget, Release
  <1>8. CASE Return(e)
    BY <1>0, <1>1, <1>8 DEF Types, Return, Forget
  <1>9. CASE Start(e) \/ PreflightShape(e) \/ PreflightEnds(e) \/ Gate(e) \/ PlanEnds(e)
    BY <1>1, <1>9 DEF Types, Start, PreflightShape, PreflightEnds, Gate, PlanEnds, FailTo
  <1>10. CASE PreflightStep(e)
    <2> DEFINE k == Len(prepared[e]) + 1
               from == IF k = 1 THEN before[e] ELSE prepared[e][k - 1]
               after == PreflightState(from, plan[e][k].key, plan[e][k].direction)
    <2>1. CASE UNCHANGED prepared
      BY <1>1, <1>10, <2>1 DEF Types, PreflightStep, FailTo
    <2>2. CASE prepared' = [prepared EXCEPT ![e] = Append(@, after)] /\ UNCHANGED <<pc, err>>
      <3>1. pc[e] = "prepare" /\ k <= Len(plan[e]) /\ PlanShape(plan[e])
        BY <1>1, <1>10 DEF PreflightStep, Control, Prepared
      <3>2. k \in 1 .. Len(plan[e])
        BY <1>1, <3>1, PlanType
      <3>3. plan[e][k].key \in Migrations
        BY <1>1, <3>1, <3>2, PlanType DEF PlanShape
      <3>4. from \in ProjectStates
        BY <1>1, <3>2, PlanType
      <3>5. PICK s \in ProjectStates : s = after
        BY <3>3, <3>4, PreflightResult
      <3>6. prepared' = [prepared EXCEPT ![e] = Append(prepared[e], s)]
        BY <2>2, <3>5
      <3>7. Append(prepared[e], s) \in Seq(ProjectStates)
        BY <1>1, PlanType
      <3>8. prepared' \in [Executors -> Seq(ProjectStates)]
        BY <1>1, <3>6, <3>7 DEF Types
      <3> QED BY <1>1, <1>10, <2>2, <3>8 DEF Types, PreflightStep
    <2> QED BY <1>10, <2>1, <2>2 DEF PreflightStep
  <1>11. CASE BeginMigration(e)
    <2>1. copy' \in [Executors -> [schema : SUBSET Elements, recorder : SUBSET Migrations]]
      BY <1>1, <1>4, <1>11 DEF Types, BeginMigration
    <2> QED BY <1>1, <1>11, <2>1 DEF Types, BeginMigration
  <1>12. CASE BeginFails(e)
    BY <1>1, <1>12 DEF Types, BeginFails, FailTo
  <1>13. pc[e] = "op" => Visible(e) \in [schema : SUBSET Elements, recorder : SUBSET Migrations]
    BY <1>1 DEF Types, Visible
  <1>14. pc[e] \in Running => Key(e) \in Migrations /\ step[e] \in 1 .. Len(plan[e])
    BY <1>1, StepDefined DEF Preflighted, Control, Progress
  <1>15. CASE ExecuteOperation(e)
    <2>1. pc[e] = "op" /\ opn[e] \in 1 .. Len(OpsOf[Key(e)])
      BY <1>1, <1>14, <1>15, OperationInMigration DEF ExecuteOperation, Running, Control, Prepared
    <2>2. CurrentOp(e) \in Elements
      BY <1>14, <2>1, OperationInMigration DEF CurrentOp, Running
    <2>3. DatabaseResult(CurrentOp(e), Direction(e), Visible(e).schema) \subseteq Elements
      BY <1>13, <2>1, <2>2 DEF DatabaseResult
    <2>4. copy' \in [Executors -> [schema : SUBSET Elements, recorder : SUBSET Migrations]]
      BY <1>1, <1>13, <1>15, <2>1, <2>3 DEF Types, ExecuteOperation
    <2> QED BY <1>1, <1>15, <2>1, <2>4 DEF Types, ExecuteOperation, Statement
  <1>16. CASE Record(e)
    <2>1. Recorded(e, Visible(e).recorder) \subseteq Migrations
      BY <1>13, <1>14, <1>16 DEF Record, Recorded, Running
    <2>2. copy' \in [Executors -> [schema : SUBSET Elements, recorder : SUBSET Migrations]]
      BY <1>1, <1>13, <1>16, <2>1 DEF Types, Record
    <2> QED BY <1>1, <1>16, <2>2 DEF Types, Record, Statement
  <1>17. CASE OperationFails(e) \/ RecordFails(e)
    BY <1>1, <1>17 DEF Types, OperationFails, RecordFails, StatementFails, FailTo
  <1>18. CASE Commit(e)
    BY <1>1, <1>18 DEF Types, Commit, FailTo
  <1>19. Release(e) => /\ lock' \in Executors \cup {Nobody} /\ conns' \subseteq Executors
            /\ copy' \in [Executors -> [schema : SUBSET Elements, recorder : SUBSET Migrations]]
    BY <1>1, <1>4 DEF Types, Release
  <1>20. CASE CommitSucceeds(e)
    <2>1. pc[e] = "committing" /\ step[e] \in 1 .. Len(plan[e]) /\ step[e] \in 1 .. Len(prepared[e])
      BY <1>1, <1>20, StepDefined DEF CommitSucceeds, Control, Progress, Preflighted, Running
    <2>2. plan[e][step[e]] \in PlanSteps /\ prepared[e][step[e]] \in ProjectStates
      BY <1>1, <2>1, PlanType
    <2>3. copy[e].schema \subseteq Elements /\ copy[e].recorder \subseteq Migrations
      BY <1>1 DEF Types
    <2>4. /\ Append(committed[e], plan[e][step[e]]) \in Seq(PlanSteps)
          /\ committed' = [committed EXCEPT ![e] = Append(@, plan[e][step[e]])]
          /\ working' = [working EXCEPT ![e] = prepared[e][step[e]]]
      BY <1>1, <1>20, <2>2, PlanType DEF CommitSucceeds
    <2>5. committed' \in [Executors -> Seq(PlanSteps)]
      BY <1>1, <2>4 DEF Types
    <2>6. working' \in [Executors -> ProjectStates]
      BY <1>1, <2>2, <2>4 DEF Types
    <2> QED BY <1>1, <1>20, <1>19, <2>3, <2>5, <2>6 DEF Types, CommitSucceeds
  <1>21. CASE CommitFails(e) \/ Rollback(e)
    BY <1>1, <1>21, <1>19 DEF Types, CommitFails, Rollback, FailTo
  <1> QED BY <1>2, <1>3, <1>5, <1>7, <1>8, <1>9, <1>10, <1>11, <1>15, <1>16, <1>17, <1>18, <1>20,
             <1>21, <1>12 DEF Moves, Step

-----------------------------------------------------------------------------
(* What one executor's step does to the conditions of another, and to its  *)
(* own.                                                                    *)

LEMMA OthersKeep ==
    ASSUME Controlled, NEW e \in Executors, Moves(e), NEW d \in Executors, d # e
    PROVE  Control(d)' /\ Transaction(d)'
  <1>1. Types /\ Control(d) /\ Transaction(d) /\ Transaction(e)
    BY DEF Controlled
  <1>2. /\ pc'[d] = pc[d] /\ plan'[d] = plan[d] /\ before'[d] = before[d] /\ working'[d] = working[d]
        /\ prepared'[d] = prepared[d] /\ step'[d] = step[d] /\ opn'[d] = opn[d] /\ err'[d] = err[d]
        /\ cancelled'[d] = cancelled[d] /\ committed'[d] = committed[d]
        /\ copy'[d] = copy[d] /\ txdone'[d] = txdone[d]
        /\ lock' = d <=> lock = d
    BY <1>1, OtherExecutors
  <1>3. Key(d)' = Key(d) /\ Direction(d)' = Direction(d) /\ \A k : From(d, k)' = From(d, k)
    BY <1>2 DEF Key, Direction, From
  <1>4. Control(d)'
    BY <1>1, <1>2, <1>3, Zenon DEF Control, Progress, Prepared, Errors
  <1>5. recorder' = recorder \/ lock # d
    BY <1>1, DurableStep DEF dbVars, CommitSucceeds, Transaction
  <1>6. Transaction(d)'
    BY <1>1, <1>2, <1>3, <1>5 DEF Transaction, Recorded
  <1> QED BY <1>4, <1>6

\* A step that only changes the label.
SamePlace == UNCHANGED <<plan, before, prepared, working, step, committed>>

LEMMA SamePlaceKept ==
    ASSUME SamePlace, NEW e \in Executors
    PROVE  /\ plan'[e] = plan[e] /\ step'[e] = step[e] /\ prepared'[e] = prepared[e]
           /\ committed'[e] = committed[e] /\ working'[e] = working[e]
           /\ Key(e)' = Key(e) /\ Direction(e)' = Direction(e)
           /\ \A k : From(e, k)' = From(e, k)
  BY DEF SamePlace, Key, Direction, From

\* An error: the call is over, or its transaction is to be rolled back.
LEMMA FailureKeeps ==
    ASSUME Types, NEW e \in Executors, Control(e), SamePlace,
           NEW code \in {"ctx", "plan", "state", "begin", "operation", "record", "commit"},
           NEW label \in {"returned", "rollback"}, FailTo(e, code, label),
           plan[e] # <<>> => step[e] <= Len(plan[e]),
           label = "rollback" => pc[e] \in Running
    PROVE  Control(e)' /\ pc'[e] = label
  <1>1. pc'[e] = label /\ err'[e] = code
    BY DEF FailTo, Goto, Types
  <1>2. Progress(e)'
    BY <1>1, SamePlaceKept DEF Control, Progress, Running
  <1>3. Prepared(e)'
    BY <1>1, SamePlaceKept DEF Control, Prepared, Preflighted, Running
  <1>4. Errors(e)'
    BY <1>1, SamePlaceKept DEF Errors
  <1> QED BY <1>1, <1>2, <1>3, <1>4 DEF Control

\* The next label, its conditions met.
LEMMA GoesOnKeeps ==
    ASSUME Types, NEW e \in Executors, Control(e), SamePlace, UNCHANGED err,
           NEW label \in Labels \ {"idle", "start", "rollback", "returned"}, Goto(e, label),
           pc[e] \notin {"idle", "rollback", "returned"},
           label = "shape" => pc[e] = "start",
           label = "prepare" => PlanShape(plan[e]) /\ step[e] = 1,
           label = "gate" => PlanShape(plan[e]) /\ Len(prepared[e]) = Len(plan[e]),
           label \in Running => /\ pc[e] \in {"gate"} \cup Running /\ step[e] <= Len(plan[e])
                                /\ PreflightOK(working[e], Key(e), Direction(e)),
           label = "op" => opn'[e] \in 1 .. (Len(OpsOf[Key(e)]) + 1)
    PROVE  Control(e)' /\ pc'[e] = label
  <1>1. pc'[e] = label /\ err'[e] = err[e]
    BY DEF Goto, Types
  <1>2. Progress(e)'
    BY <1>1, SamePlaceKept DEF Control, Progress, Running, Labels
  <1>3. Prepared(e)'
    <2>1. prepared'[e] = <<>> \/ label # "shape"
      BY SamePlaceKept DEF Control, Prepared
    <2> QED BY <1>1, <2>1, SamePlaceKept DEF Control, Prepared, Preflighted, Running, Labels
  <1>4. Errors(e)'
    BY <1>1 DEF Control, Errors
  <1> QED BY <1>1, <1>2, <1>3, <1>4 DEF Control

LEMMA OwnControl ==
    ASSUME Controlled, NEW e \in Executors, Moves(e)
    PROVE  Control(e)'
  <1>1. Types /\ Control(e)
    BY DEF Controlled
  <1>2. /\ Len(plan[e]) \in Nat /\ Len(prepared[e]) \in Nat /\ Len(committed[e]) \in Nat /\ step[e] \in Nat
        /\ plan[e] \in Seq(PlanSteps) /\ committed[e] \in Seq(PlanSteps)
        /\ prepared[e] \in Seq(ProjectStates)
    BY <1>1, PlanType
  <1> USE DEF dbVars, callVars
  <1>3. ASSUME NEW p \in Plans, Call(e, p) PROVE Control(e)'
    <2>1. /\ pc[e] = "idle" /\ pc'[e] = "start" /\ plan'[e] = p
          /\ before'[e] = StateOf(recorder) /\ working'[e] = StateOf(recorder)
          /\ prepared'[e] = <<>> /\ step'[e] = 1 /\ committed'[e] = <<>> /\ err'[e] = "none"
      BY <1>1, <1>2, <1>3 DEF Types, Call, Goto, Control, Progress, Prepared, Errors
    <2>2. Len(p) \in Nat
      BY ExecutorAssumption
    <2>3. Progress(e)' /\ Errors(e)'
      BY <2>1, <2>2 DEF Progress, Errors, Running
    <2>4. Prepared(e)'
      BY <2>1, <2>2 DEF Prepared, From, Preflighted, Running
    <2> QED BY <2>3, <2>4 DEF Control
  <1>4. CASE Cancel(e) \/ DriverRollsBack(e)
    <2>1. SamePlace /\ UNCHANGED <<pc, opn, err>>
      BY <1>4 DEF Cancel, DriverRollsBack, SamePlace
    <2>2. pc'[e] = pc[e] /\ opn'[e] = opn[e] /\ err'[e] = err[e]
      BY <2>1
    <2>3. Progress(e)' /\ Errors(e)'
      BY <1>1, <2>2, <2>1, SamePlaceKept DEF Control, Progress, Errors
    <2>4. Prepared(e)'
      BY <1>1, <2>2, <2>1, SamePlaceKept DEF Control, Prepared
    <2> QED BY <2>3, <2>4 DEF Control
  <1>5. CASE Crash(e) \/ Return(e)
    <2>1. /\ pc'[e] = "idle" /\ plan'[e] = <<>> /\ before'[e] = NoState /\ working'[e] = NoState
          /\ prepared'[e] = <<>> /\ step'[e] = 1 /\ committed'[e] = <<>> /\ err'[e] = "none"
      BY <1>1, <1>5 DEF Crash, Return, Forget, Goto, Types
    <2>2. Progress(e)' /\ Errors(e)'
      BY <2>1 DEF Progress, Errors, Running
    <2>3. Prepared(e)'
      BY <2>1 DEF Prepared, From, Preflighted, Running
    <2> QED BY <2>2, <2>3 DEF Control
  <1>6. CASE Start(e)
    <2>1. SamePlace /\ pc[e] = "start" /\ step[e] = 1
      BY <1>1, <1>6 DEF Start, SamePlace, Control, Progress
    <2>2. CASE FailTo(e, "ctx", "returned")
      <3>1. plan[e] # <<>> => step[e] <= Len(plan[e])
        BY <1>2, <2>1
      <3> QED BY <1>1, <2>1, <2>2, <3>1, FailureKeeps
    <2>3. CASE plan[e] = <<>> /\ Goto(e, "returned") /\ UNCHANGED err
      <3>1. pc'[e] = "returned" /\ err'[e] = "none" /\ Len(plan[e]) = 0
        BY <1>1, <2>1, <2>3 DEF Goto, Types, Control, Errors
      <3>2. Progress(e)' /\ Errors(e)'
        BY <1>1, <2>1, <3>1, SamePlaceKept DEF Control, Progress, Errors, Running
      <3>3. Prepared(e)'
        BY <1>1, <2>1, <3>1, SamePlaceKept DEF Control, Prepared, Preflighted, Running
      <3> QED BY <3>2, <3>3 DEF Control
    <2>4. CASE Goto(e, "shape") /\ UNCHANGED err
      BY <1>1, <2>1, <2>4, GoesOnKeeps DEF Running, Labels
    <2> QED BY <1>6, <2>2, <2>3, <2>4 DEF Start
  <1>7. CASE PreflightShape(e)
    <2>1. SamePlace /\ pc[e] = "shape" /\ step[e] = 1
      BY <1>1, <1>7 DEF PreflightShape, SamePlace, Control, Progress
    <2>2. CASE FailTo(e, "plan", "returned")
      <3>1. plan[e] # <<>> => step[e] <= Len(plan[e])
        BY <1>2, <2>1
      <3> QED BY <1>1, <2>1, <2>2, <3>1, FailureKeeps
    <2>3. CASE PlanShape(plan[e]) /\ Goto(e, "prepare") /\ UNCHANGED err
      BY <1>1, <2>1, <2>3, GoesOnKeeps DEF Running, Labels
    <2> QED BY <1>7, <2>2, <2>3 DEF PreflightShape
  <1>8. CASE PreflightStep(e)
    <2>0. PICK k \in Nat : k = Len(prepared[e]) + 1
      BY <1>2
    <2>1. /\ pc[e] = "prepare" /\ step[e] = 1 /\ k <= Len(plan[e])
          /\ UNCHANGED <<plan, before, working, step, committed>>
      BY <1>1, <1>8, <2>0 DEF PreflightStep, Control, Progress
    <2>2. CASE UNCHANGED prepared /\ \E code \in {"ctx", "state"} : FailTo(e, code, "returned")
      <3>1. SamePlace
        BY <2>1, <2>2 DEF SamePlace
      <3>2. plan[e] # <<>> => step[e] <= Len(plan[e])
        BY <1>2, <2>0, <2>1
      <3> QED BY <1>1, <2>1, <2>2, <3>1, <3>2, FailureKeeps
    <2>3. CASE /\ prepared' = [prepared EXCEPT ![e] =
                     Append(@, PreflightState(From(e, k), plan[e][k].key, plan[e][k].direction))]
               /\ UNCHANGED <<pc, err>>
      <3>1. PICK s : s = PreflightState(From(e, k), plan[e][k].key, plan[e][k].direction)
        OBVIOUS
      <3>2. prepared'[e] = Append(prepared[e], s)
        BY <1>1, <2>3, <3>1 DEF Types
      <3>3. /\ Len(prepared'[e]) = k /\ prepared'[e][k] = s
            /\ \A j \in 1 .. Len(prepared[e]) : prepared'[e][j] = prepared[e][j]
        BY <1>1, <1>2, <2>0, <2>3, <3>1, <3>2, PlanType
      <3>4. \A j \in 1 .. k : From(e, j)' = From(e, j)
        BY <1>2, <2>0, <2>1, <3>3 DEF From
      <3>5. ASSUME NEW j \in 1 .. k
            PROVE  prepared'[e][j] = PreflightState(From(e, j)', plan[e][j].key, plan[e][j].direction)
        <4>1. CASE j \in 1 .. Len(prepared[e])
          BY <1>1, <3>3, <3>4, <4>1 DEF Control, Prepared
        <4>2. CASE j = k
          BY <2>0, <3>1, <3>3, <3>4, <4>2
        <4> QED BY <1>2, <2>0, <4>1, <4>2
      <3>6. working'[e] = From(e, step[e])'
        BY <1>1, <2>1 DEF Control, Prepared, From
      <3>7. Prepared(e)'
        BY <1>1, <2>1, <2>3, <3>3, <3>5, <3>6 DEF Control, Prepared, Preflighted, Running
      <3>8. Progress(e)' /\ Errors(e)'
        BY <1>1, <2>1, <2>3 DEF Control, Progress, Errors
      <3> QED BY <3>7, <3>8 DEF Control
    <2>4. From(e, k) = IF k = 1 THEN before[e] ELSE prepared[e][k - 1]
      BY DEF From
    <2> QED BY <1>8, <2>0, <2>2, <2>3, <2>4 DEF PreflightStep
  <1>9. CASE PreflightEnds(e)
    <2>1. SamePlace /\ UNCHANGED err /\ pc[e] = "prepare" /\ Goto(e, "gate") /\ PlanShape(plan[e])
          /\ Len(prepared[e]) = Len(plan[e])
      BY <1>1, <1>9 DEF PreflightEnds, SamePlace, Control, Prepared
    <2> QED BY <1>1, <2>1, GoesOnKeeps DEF Running, Labels
  <1>10. CASE Gate(e)
    <2>1. SamePlace /\ pc[e] = "gate" /\ step[e] <= Len(plan[e])
      BY <1>10 DEF Gate, SamePlace
    <2>2. CASE \E code \in {"ctx", "state"} : FailTo(e, code, "returned")
      BY <1>1, <2>1, <2>2, FailureKeeps
    <2>3. CASE PreflightOK(working[e], Key(e), Direction(e)) /\ Goto(e, "begin") /\ UNCHANGED err
      BY <1>1, <2>1, <2>3, GoesOnKeeps DEF Running, Labels
    <2> QED BY <1>10, <2>2, <2>3 DEF Gate
  <1>11. CASE PlanEnds(e)
    <2>1. SamePlace /\ UNCHANGED err /\ pc[e] = "gate" /\ step[e] > Len(plan[e]) /\ pc'[e] = "returned"
          /\ err[e] = "none"
      BY <1>1, <1>11 DEF PlanEnds, SamePlace, Goto, Types, Control, Errors
    <2>2. Progress(e)'
      BY <1>1, <2>1, SamePlaceKept DEF Control, Progress, Running
    <2>3. Errors(e)'
      BY <1>1, <1>2, <2>1, SamePlaceKept DEF Control, Progress, Errors
    <2>4. Prepared(e)'
      BY <1>1, <2>1, SamePlaceKept DEF Control, Prepared, Preflighted, Running
    <2> QED BY <2>2, <2>3, <2>4 DEF Control
  \* Within a step the plan's shape, the preflight and the place stay what they are.
  <1>12. ASSUME pc[e] \in {"rollback"} \cup Running
         PROVE  /\ step[e] \in 1 .. Len(plan[e]) /\ Key(e) \in Migrations
                /\ PlanShape(plan[e]) /\ Len(prepared[e]) = Len(plan[e])
                /\ Len(OpsOf[Key(e)]) \in Nat
                /\ pc[e] \in Running => PreflightOK(working[e], Key(e), Direction(e)) /\ err[e] = "none"
    <2>1. step[e] <= Len(plan[e]) /\ pc[e] \in Preflighted
      BY <1>1, <1>12 DEF Control, Progress, Preflighted
    <2>2. step[e] \in 1 .. Len(plan[e]) /\ Key(e) \in Migrations
      BY <1>1, <2>1, StepDefined
    <2> QED BY <1>1, <1>12, <2>1, <2>2, OperationInMigration DEF Control, Prepared, Errors, Running
  <1>13. CASE BeginMigration(e)
    <2>1. SamePlace /\ UNCHANGED err /\ pc[e] = "begin" /\ Goto(e, "op") /\ opn'[e] = 1
      BY <1>1, <1>13 DEF BeginMigration, SamePlace, Types
    <2>2. 1 \in 1 .. (Len(OpsOf[Key(e)]) + 1)
      BY <1>12, <2>1 DEF Running
    <2> QED BY <1>1, <1>12, <2>1, <2>2, GoesOnKeeps DEF Running, Labels
  <1>14. CASE BeginFails(e)
    <2>1. SamePlace /\ pc[e] = "begin" /\ FailTo(e, "begin", "returned")
      BY <1>14 DEF BeginFails, SamePlace
    <2> QED BY <1>1, <1>12, <2>1, FailureKeeps DEF Running
  <1>15. CASE ExecuteOperation(e)
    <2>1. SamePlace /\ UNCHANGED <<err, pc>> /\ pc[e] = "op" /\ opn[e] <= Len(OpsOf[Key(e)])
          /\ opn'[e] = opn[e] + 1
      BY <1>1, <1>15 DEF ExecuteOperation, SamePlace, Types
    <2>2. opn'[e] \in 1 .. (Len(OpsOf[Key(e)]) + 1)
      BY <1>1, <1>12, <2>1 DEF Control, Prepared, Running
    <2>3. Goto(e, "op")
      BY <1>1, <2>1 DEF Goto, Types
    <2> QED BY <1>1, <1>12, <2>1, <2>2, <2>3, GoesOnKeeps DEF Running, Labels
  <1>16. CASE OperationFails(e) \/ RecordFails(e)
    <2>1. SamePlace /\ pc[e] = "op" /\ \E code \in {"operation", "record"} : FailTo(e, code, "rollback")
      BY <1>16 DEF OperationFails, RecordFails, StatementFails, SamePlace
    <2> QED BY <1>1, <1>12, <2>1, FailureKeeps DEF Running
  <1>17. CASE Record(e)
    <2>1. SamePlace /\ UNCHANGED err /\ pc[e] = "op" /\ Goto(e, "commit")
      BY <1>17 DEF Record, SamePlace
    <2> QED BY <1>1, <1>12, <2>1, GoesOnKeeps DEF Running, Labels
  <1>18. CASE Commit(e)
    <2>1. SamePlace /\ pc[e] = "commit"
          /\ (FailTo(e, "commit", "rollback") \/ (Goto(e, "committing") /\ UNCHANGED err))
      BY <1>18 DEF Commit, SamePlace
    <2>2. CASE FailTo(e, "commit", "rollback")
      BY <1>1, <1>12, <2>1, <2>2, FailureKeeps DEF Running
    <2>3. CASE Goto(e, "committing") /\ UNCHANGED err
      BY <1>1, <1>12, <2>1, <2>3, GoesOnKeeps DEF Running, Labels
    <2> QED BY <2>1, <2>2, <2>3
  <1>19. CASE CommitSucceeds(e)
    <2>1. /\ pc[e] = "committing" /\ pc'[e] = "gate" /\ UNCHANGED <<plan, before, prepared, err>>
          /\ committed'[e] = Append(committed[e], plan[e][step[e]])
          /\ working'[e] = prepared[e][step[e]] /\ step'[e] = step[e] + 1
      BY <1>1, <1>19 DEF CommitSucceeds, Goto, Types
    <2>2. step[e] = Len(committed[e]) + 1 /\ step[e] <= Len(plan[e])
      BY <1>1, <1>12, <2>1 DEF Control, Progress, Running
    <2>3. /\ Len(committed'[e]) = step[e] /\ committed'[e][step[e]] = plan[e][step[e]]
          /\ \A i \in 1 .. Len(committed[e]) : committed'[e][i] = committed[e][i]
      <3>1. plan[e][step[e]] \in PlanSteps
        BY <1>2, <1>12, <2>1 DEF Running
      <3> QED BY <1>2, <2>1, <2>2, <3>1
    <2>4. Progress(e)'
      BY <1>1, <1>2, <2>1, <2>2, <2>3 DEF Control, Progress, Running
    <2>5. Errors(e)'
      BY <1>1, <2>1 DEF Control, Errors
    <2>6. working'[e] = From(e, step[e])' /\ \A k : From(e, k)' = From(e, k)
      BY <1>2, <1>12, <2>1 DEF From, Running
    <2>7. Prepared(e)'
      BY <1>1, <1>12, <2>1, <2>6 DEF Control, Prepared, Running
    <2> QED BY <2>4, <2>5, <2>7 DEF Control
  <1>20. CASE CommitFails(e)
    <2>1. SamePlace /\ pc[e] = "committing" /\ FailTo(e, "commit", "rollback")
      BY <1>20 DEF CommitFails, SamePlace
    <2> QED BY <1>1, <1>12, <2>1, FailureKeeps DEF Running
  <1>21. CASE Rollback(e)
    <2>1. SamePlace /\ UNCHANGED err /\ pc[e] = "rollback" /\ pc'[e] = "returned"
      BY <1>1, <1>21 DEF Rollback, SamePlace, Goto, Types
    <2>2. Progress(e)' /\ Errors(e)'
      BY <1>1, <2>1, SamePlaceKept DEF Control, Progress, Errors, Running
    <2>3. Prepared(e)'
      BY <1>1, <2>1, SamePlaceKept DEF Control, Prepared, Preflighted, Running
    <2> QED BY <2>2, <2>3 DEF Control
  <1> QED BY <1>3, <1>4, <1>5, <1>6, <1>7, <1>8, <1>9, <1>10, <1>11, <1>13, <1>14, <1>15, <1>16,
             <1>17, <1>18, <1>19, <1>20, <1>21 DEF Moves, Step

LEMMA OwnTransaction ==
    ASSUME Controlled, NEW e \in Executors, Moves(e)
    PROVE  Transaction(e)'
  <1>1. Types /\ Control(e) /\ Transaction(e) /\ e # Nobody
    BY ExecutorAssumption DEF Controlled
  <1> USE DEF dbVars, callVars
  <1>2. ASSUME NEW p \in Plans, Call(e, p) PROVE Transaction(e)'
    <2>1. pc[e] = "idle" /\ pc'[e] = "start" /\ UNCHANGED lock
      BY <1>1, <1>2 DEF Call, Goto, Types
    <2> QED BY <1>1, <2>1 DEF Transaction
  <1>3. CASE Cancel(e)
    <2>1. UNCHANGED <<lock, pc, txdone, opn, copy, recorder, plan, step>> /\ (cancelled[e] => cancelled'[e])
      BY <1>1, <1>3 DEF Cancel, Types
    <2> QED BY <1>1, <2>1 DEF Transaction, Recorded, Key, Direction
  <1>4. CASE DriverRollsBack(e)
    <2>1. UNCHANGED <<pc, txdone, opn, cancelled>> /\ lock' # e /\ cancelled[e] /\ pc[e] \in {"op", "commit"}
      BY <1>1, <1>4 DEF DriverRollsBack
    <2> QED BY <1>1, <2>1 DEF Transaction
  <1>5. CASE Crash(e)
    <2>1. lock' # e /\ pc'[e] = "idle"
      BY <1>1, <1>5 DEF Crash, Release, Forget, Goto, Types
    <2> QED BY <2>1 DEF Transaction
  <1>6. ASSUME pc[e] \in {"start", "shape", "prepare", "gate", "begin", "returned"}, UNCHANGED lock,
               pc'[e] \in {"idle", "start", "shape", "prepare", "gate", "begin", "returned"}
        PROVE  Transaction(e)'
    BY <1>1, <1>6 DEF Transaction
  <1>7. CASE Start(e) \/ PreflightShape(e) \/ PreflightStep(e) \/ PreflightEnds(e)
    <2>1. pc[e] \in {"start", "shape", "prepare"} /\ UNCHANGED lock
          /\ pc'[e] \in {"shape", "prepare", "gate", "returned"}
      BY <1>1, <1>7 DEF Start, PreflightShape, PreflightStep, PreflightEnds, FailTo, Goto, Types
    <2> QED BY <1>6, <2>1
  <1>8. CASE Gate(e) \/ PlanEnds(e) \/ BeginFails(e) \/ Return(e)
    <2>1. pc[e] \in {"gate", "begin", "returned"} /\ UNCHANGED lock
          /\ pc'[e] \in {"begin", "returned", "idle"}
      BY <1>1, <1>8 DEF Gate, PlanEnds, BeginFails, Return, Forget, FailTo, Goto, Types
    <2> QED BY <1>6, <2>1
  <1>9. CASE BeginMigration(e)
    <2>1. lock' # e /\ pc'[e] = "op" /\ ~txdone'[e] /\ opn'[e] = 1
      BY <1>1, <1>9 DEF BeginMigration, Goto, Types, Transaction
    <2> QED BY <2>1 DEF Transaction
  <1>10. CASE ExecuteOperation(e)
    <2>1. /\ pc[e] = "op" /\ pc'[e] = "op" /\ lock' = e /\ ~txdone'[e] /\ recorder' = recorder
          /\ copy'[e].recorder = Visible(e).recorder
      BY <1>1, <1>10 DEF ExecuteOperation, Statement, Types
    <2>2. Visible(e).recorder = recorder
      BY <1>1, <2>1 DEF Visible, Transaction
    <2> QED BY <2>1, <2>2 DEF Transaction
  <1>11. CASE Record(e)
    <2>1. /\ pc[e] = "op" /\ pc'[e] = "commit" /\ lock' = e /\ ~txdone'[e] /\ recorder' = recorder
          /\ copy'[e].recorder = Recorded(e, Visible(e).recorder) /\ RecordPossible(e)
          /\ UNCHANGED <<plan, step>>
      BY <1>1, <1>11 DEF Record, Statement, Goto, Types
    <2>2. Visible(e).recorder = recorder
      BY <1>1, <2>1 DEF Visible, Transaction
    <2>3. Key(e)' = Key(e) /\ Direction(e)' = Direction(e) /\ Recorded(e, recorder)' = Recorded(e, recorder)
      BY <2>1 DEF Key, Direction, Recorded
    <2> QED BY <2>1, <2>2, <2>3 DEF Transaction, RecordPossible
  <1>12. CASE OperationFails(e) \/ RecordFails(e)
    <2>1. pc[e] = "op" /\ pc'[e] = "rollback" /\ UNCHANGED <<lock, txdone>>
      BY <1>1, <1>12 DEF OperationFails, RecordFails, StatementFails, FailTo, Goto, Types
    <2> QED BY <1>1, <2>1 DEF Transaction
  <1>13. CASE Commit(e)
    <2>1. /\ pc[e] = "commit" /\ UNCHANGED <<lock, plan, step, recorder, copy>>
          /\ \/ cancelled[e] /\ pc'[e] = "rollback" /\ UNCHANGED txdone
             \/ ~cancelled[e] /\ pc'[e] = "committing"
      BY <1>1, <1>13 DEF Commit, FailTo, Goto, Types
    <2>2. Key(e)' = Key(e) /\ Direction(e)' = Direction(e) /\ Recorded(e, recorder)' = Recorded(e, recorder)
      BY <2>1 DEF Key, Direction, Recorded
    <2> QED BY <1>1, <2>1, <2>2 DEF Transaction
  <1>14. CASE CommitSucceeds(e) \/ CommitFails(e)
    <2>1. lock' # e /\ pc'[e] \in {"gate", "rollback"}
      BY <1>1, <1>14 DEF CommitSucceeds, CommitFails, Release, FailTo, Goto, Types
    <2> QED BY <2>1 DEF Transaction
  <1>15. CASE Rollback(e)
    <2>1. lock' # e /\ pc'[e] = "returned"
      BY <1>1, <1>15 DEF Rollback, Release, Goto, Types, Transaction
    <2> QED BY <2>1 DEF Transaction
  <1> QED BY <1>2, <1>3, <1>4, <1>5, <1>7, <1>8, <1>9, <1>10, <1>11, <1>12, <1>13, <1>14, <1>15
          DEF Moves, Step

LEMMA InitControlled == Init => Controlled
  <1> SUFFICES ASSUME Init PROVE Controlled
    OBVIOUS
  <1>1. /\ NoState \in ProjectStates /\ recorder \subseteq Migrations
        /\ Tables(StateOf(recorder)) \subseteq Elements
    BY StateOfElements, OperationInMigration, ExecutorAssumption DEF Init, NoState, ProjectStates
  <1>2. Types
    BY <1>1 DEF Init, Types, Labels, NoCopy, PlanSteps
  <1>3. ASSUME NEW e \in Executors PROVE Control(e) /\ Transaction(e)
    <2>1. lock # e
      BY ExecutorAssumption DEF Init
    <2> QED BY <2>1 DEF Init, Control, Progress, Prepared, Errors, Transaction, From, Running, Preflighted
  <1> QED BY <1>2, <1>3 DEF Controlled

LEMMA StepControlled ==
    ASSUME Controlled, NEW e \in Executors, Moves(e)
    PROVE  Controlled'
  BY TypesKeep, OwnControl, OwnTransaction, OthersKeep DEF Controlled

LEMMA StutterControlled ==
    ASSUME Controlled, UNCHANGED vars
    PROVE  Controlled'
  <1> USE DEF vars, dbVars, callVars
  <1>1. Types'
    BY DEF Controlled, Types
  <1>2. ASSUME NEW e \in Executors PROVE Control(e)' /\ Transaction(e)'
    <2>1. Control(e) /\ Transaction(e)
      BY DEF Controlled
    <2>2. Key(e)' = Key(e) /\ Direction(e)' = Direction(e) /\ \A k : From(e, k)' = From(e, k)
      BY DEF Key, Direction, From
    <2>3. Progress(e)' /\ Errors(e)'
      BY <2>1 DEF Control, Progress, Errors
    <2>4. Prepared(e)'
      BY <2>1, <2>2 DEF Control, Prepared
    <2>5. Transaction(e)'
      BY <2>1, <2>2 DEF Transaction, Recorded
    <2> QED BY <2>3, <2>4, <2>5 DEF Control
  <1> QED BY <1>1, <1>2 DEF Controlled

LEMMA NextMoves == Next => \E e \in Executors : Moves(e)
  BY DEF Next, Moves

-----------------------------------------------------------------------------
(***************************************************************************)
(* The control invariant, for any number of executors on one database and  *)
(* any plans, crossing ones too.                                           *)
(***************************************************************************)
THEOREM SpecControlled == Spec => []Controlled
  <1>1. Controlled /\ [Next]_vars => Controlled'
    BY NextMoves, StepControlled, StutterControlled
  <1> QED BY <1>1, InitControlled, PTL DEF Spec

(***************************************************************************)
(* Every variable keeps its type, and the indexes of ExecutePlan into the  *)
(* plan, the prepared steps and the operations are in range where they are *)
(* used.                                                                   *)
(***************************************************************************)
THEOREM SpecTypeOK == Spec => []TypeOK
  <1>1. ASSUME Controlled, NEW e \in Executors, pc[e] \in InStep
        PROVE  /\ step[e] \in DOMAIN plan[e] /\ step[e] \in DOMAIN prepared[e]
               /\ Key(e) \in Migrations /\ Direction(e) \in Directions
               /\ pc[e] = "op" => opn[e] \in 1 .. (Len(OpsOf[Key(e)]) + 1)
    <2>1. Types /\ Control(e) /\ pc[e] \in Preflighted /\ step[e] <= Len(plan[e])
      BY <1>1 DEF Controlled, Control, Progress, InStep, Preflighted, Running
    <2> QED BY <2>1, PlanType, StepDefined DEF Control, Prepared
  <1>2. Controlled => TypeOK
    BY <1>1 DEF Controlled, Types, TypeOK
  <1> QED BY <1>2, SpecControlled, PTL

(***************************************************************************)
(* ExecutePlan returns no error exactly for a plan of which every step was *)
(* committed (the early returns before each step; a cancellation after the *)
(* last commit changes nothing).                                           *)
(***************************************************************************)
THEOREM SpecResultHonest == Spec => []ResultHonest
  <1>1. ASSUME Controlled, NEW e \in Executors, pc[e] = "returned"
        PROVE  /\ err[e] = "none" => committed[e] = plan[e]
               /\ plan[e] # <<>> /\ committed[e] = plan[e] => err[e] = "none"
    <2>1. Types /\ Control(e)
      BY <1>1 DEF Controlled
    <2>2. /\ plan[e] \in Seq(PlanSteps) /\ Len(plan[e]) \in Nat
          /\ committed[e] \in Seq(PlanSteps) /\ Len(committed[e]) \in Nat
          /\ step[e] = Len(committed[e]) + 1
          /\ \A i \in 1 .. Len(committed[e]) : committed[e][i] = plan[e][i]
      BY <2>1, PlanType DEF Control, Progress
    <2>3. ASSUME err[e] = "none" PROVE committed[e] = plan[e]
      <3>1. Len(committed[e]) = Len(plan[e])
        BY <1>1, <2>1, <2>2, <2>3 DEF Control, Errors
      <3> QED BY <2>2, <3>1
    <2>4. ASSUME plan[e] # <<>>, committed[e] = plan[e] PROVE err[e] = "none"
      BY <1>1, <2>1, <2>2, <2>4 DEF Control, Errors
    <2> QED BY <2>3, <2>4
  <1>2. Controlled => ResultHonest
    BY <1>1 DEF ResultHonest
  <1> QED BY <1>2, SpecControlled, PTL

--------------------------------------------------------------------------------
(***************************************************************************)
(* The schema: what executors do to it together, for any number of them.   *)
(*                                                                         *)
(* As long as calls that overlap go the same way, the schema is that of    *)
(* the recorder, and the recorder is a sound history.  Going forward, an   *)
(* executor knows of nothing that is not there: what its preflight found   *)
(* for its app is there, and the database refuses what is there already,   *)
(* of whatever app.  Going backward, it still knows of all that is there:  *)
(* the column that a DROP TABLE would take along is of the same app, so it *)
(* was in the state its preflight looked at, which refused it.             *)
(* Overlapping calls in opposite directions break this, which is why the   *)
(* theorems are about SameWaySpec.                                         *)
(***************************************************************************)

\* The direction of a call; its plan is not empty.
Way(e) == plan[e][1].direction

\* The recorder takes the step: it is not recorded, or gone, already.
CanRecord(e) == (Direction(e) = "forward") = (Key(e) \notin recorder)

\* What the operations before the i-th one have created was not there.
New(tables, m, direction, i) ==
    direction = "forward" => \A j \in 1 .. (i - 1) : OperationAt(m, direction, j) \notin tables

\* The open transaction of such a step has done the operations before the
\* next one, no more and no less, to the schema that is still the durable one.
SchemaCopied(e) ==
    /\ lock = e /\ pc[e] = "op" /\ CanRecord(e) =>
          /\ copy[e].schema = StateAt(schema, Key(e), Direction(e), opn[e])
          /\ New(schema, Key(e), Direction(e), opn[e])
    /\ lock = e /\ pc[e] \in {"commit", "committing"} =>
          /\ copy[e].schema = After(schema, Key(e), Direction(e))
          /\ New(schema, Key(e), Direction(e), Len(OpsOf[Key(e)]) + 1)

\* Going backward, an executor knows of everything that is there; going
\* forward, of nothing else.
Knows(known, direction) ==
    \A a \in Apps : IF direction = "backward" THEN StateOf(recorder)[a] \subseteq known[a]
                                            ELSE known[a] \subseteq StateOf(recorder)[a]
UpToDate(e) == plan[e] # <<>> => Knows(working[e], Way(e))

\* What a call has made durable stays so while it runs.
StillDurable(e) ==
    \A i \in 1 .. Len(committed[e]) :
        (committed[e][i].direction = "forward") = (committed[e][i].key \in recorder)

Agreeing ==
    /\ Controlled /\ SameWay /\ SchemaMatchesRecorder /\ SoundHistory(recorder)
    /\ \A e \in Executors : SchemaCopied(e) /\ UpToDate(e) /\ StillDurable(e)

-----------------------------------------------------------------------------
(* Operations and project states.                                          *)

\* The parts of a sound history.
Disjoint(applied) == \A m, n \in applied : m # n => Operations(m) \cap Operations(n) = {}
Distinct(m) == \A i, j \in 1 .. Len(OpsOf[m]) : OpsOf[m][i] = OpsOf[m][j] => i = j
TablesOwned(applied) ==
    \A n \in applied : \A y \in Operations(n) :
        \E k \in applied : AppOf[k] = AppOf[n] /\ TableOf[y] \in Operations(k)

LEMMA OperationIndex ==
    ASSUME NEW m \in Migrations
    PROVE  /\ Len(OpsOf[m]) \in Nat /\ DOMAIN OpsOf[m] = 1 .. Len(OpsOf[m])
           /\ \A i \in 1 .. Len(OpsOf[m]) : OpsOf[m][i] \in Operations(m) /\ OpsOf[m][i] \in Elements
           /\ \A x \in Operations(m) : \E i \in 1 .. Len(OpsOf[m]) : x = OpsOf[m][i]
  <1>1. OpsOf[m] \in Seq(Elements)
    BY ExecutorAssumption
  <1> QED BY <1>1 DEF Operations

LEMMA SoundParts ==
    ASSUME NEW applied \in SUBSET Migrations
    PROVE  SoundHistory(applied)
              <=> Disjoint(applied) /\ (\A m \in applied : Distinct(m)) /\ TablesOwned(applied)
  <1>1. \A m \in applied : /\ DOMAIN OpsOf[m] = 1 .. Len(OpsOf[m]) /\ AppOf[m] \in Apps
                           /\ \A i \in 1 .. Len(OpsOf[m]) : OpsOf[m][i] \in Operations(m)
                           /\ \A x \in Operations(m) : \E i \in 1 .. Len(OpsOf[m]) : x = OpsOf[m][i]
    BY OperationIndex, ExecutorAssumption
  <1>2. (\A m, n \in applied : \A i \in DOMAIN OpsOf[m], j \in DOMAIN OpsOf[n] :
            OpsOf[m][i] = OpsOf[n][j] => m = n /\ i = j)
           <=> Disjoint(applied) /\ (\A m \in applied : Distinct(m))
    <2>1. ASSUME NEW m \in applied, NEW n \in applied,
                 Disjoint(applied), \A k \in applied : Distinct(k),
                 NEW i \in DOMAIN OpsOf[m], NEW j \in DOMAIN OpsOf[n], OpsOf[m][i] = OpsOf[n][j]
          PROVE  m = n /\ i = j
      <3>1. i \in 1 .. Len(OpsOf[m]) /\ j \in 1 .. Len(OpsOf[n])
        BY <1>1
      <3>2. OpsOf[m][i] \in Operations(m) /\ OpsOf[m][i] \in Operations(n)
        BY <1>1, <2>1, <3>1
      <3>3. m = n
        BY <2>1, <3>2 DEF Disjoint
      <3> QED BY <2>1, <3>1, <3>3 DEF Distinct
    <2>2. ASSUME \A m, n \in applied : \A i \in DOMAIN OpsOf[m], j \in DOMAIN OpsOf[n] :
                    OpsOf[m][i] = OpsOf[n][j] => m = n /\ i = j
          PROVE  Disjoint(applied) /\ \A m \in applied : Distinct(m)
      <3>1. ASSUME NEW m \in applied PROVE Distinct(m)
        BY <1>1, <2>2 DEF Distinct
      <3>2. ASSUME NEW m \in applied, NEW n \in applied, NEW x, x \in Operations(m), x \in Operations(n)
            PROVE  m = n
        BY <1>1, <2>2, <3>2
      <3> QED BY <3>1, <3>2 DEF Disjoint
    <2> QED BY <2>1, <2>2
  <1>3. (\A a \in Apps : \A x \in StateOf(applied)[a] : TableOf[x] \in StateOf(applied)[a])
           <=> TablesOwned(applied)
    <2>1. \A a \in Apps : \A x : x \in StateOf(applied)[a] <=> \E n \in applied : AppOf[n] = a /\ x \in Operations(n)
      BY StateOfElements
    <2> QED BY <1>1, <2>1 DEF TablesOwned
  <1> QED BY <1>2, <1>3 DEF SoundHistory

\* Applying, or undoing, one migration of a history.
Moved(applied, m, direction) == IF direction = "forward" THEN applied \cup {m} ELSE applied \ {m}

\* The state of its app changes by its operations.
LEMMA StateOfMoved ==
    ASSUME NEW applied \in SUBSET Migrations, NEW m \in Migrations, NEW direction \in Directions,
           direction = "backward" => Disjoint(applied), (direction = "forward") = (m \notin applied)
    PROVE  /\ Moved(applied, m, direction) \in SUBSET Migrations
           /\ StateOf(Moved(applied, m, direction)) = PreflightState(StateOf(applied), m, direction)
           /\ Tables(StateOf(Moved(applied, m, direction)))
                 = After(Tables(StateOf(applied)), m, direction)
  <1>1. PICK moved : moved = Moved(applied, m, direction)
    OBVIOUS
  <1>2. moved \in SUBSET Migrations /\ AppOf[m] \in Apps
    BY <1>1, ExecutorAssumption DEF Moved
  <1>3. ASSUME NEW x, NEW n \in moved, x \in Operations(n) PROVE direction # "forward" => x \notin Operations(m)
    BY <1>1, <1>3 DEF Moved, Disjoint, Directions
  <1>4. ASSUME NEW a \in Apps, NEW x
        PROVE  x \in StateOf(moved)[a] <=>
                  x \in (IF a = AppOf[m] THEN After(StateOf(applied)[a], m, direction) ELSE StateOf(applied)[a])
    <2>1. /\ x \in StateOf(moved)[a] <=> \E n \in moved : AppOf[n] = a /\ x \in Operations(n)
          /\ x \in StateOf(applied)[a] <=> \E n \in applied : AppOf[n] = a /\ x \in Operations(n)
      BY <1>2, StateOfElements
    <2> QED BY <1>1, <1>3, <2>1 DEF Moved, After
  <1>5. ASSUME NEW x PROVE x \in Tables(StateOf(moved)) <=> x \in After(Tables(StateOf(applied)), m, direction)
    <2>1. /\ x \in Tables(StateOf(moved)) <=> \E n \in moved : x \in Operations(n)
          /\ x \in Tables(StateOf(applied)) <=> \E n \in applied : x \in Operations(n)
      BY <1>2, StateOfElements
    <2> QED BY <1>1, <1>3, <2>1 DEF Moved, After
  <1>6. StateOf(moved) = PreflightState(StateOf(applied), m, direction)
    <2>1. PICK then \in ProjectStates, now \in ProjectStates, pre \in ProjectStates :
             then = StateOf(applied) /\ now = StateOf(moved) /\ pre = PreflightState(StateOf(applied), m, direction)
      BY <1>2, StateOfElements, PreflightResult
    <2>2. /\ pre[AppOf[m]] = After(then[AppOf[m]], m, direction)
          /\ \A a \in Apps : a # AppOf[m] => pre[a] = then[a]
      BY <2>1, PreflightResult
    <2>3. \A a \in Apps : now[a] = pre[a]
      BY <1>4, <2>1, <2>2
    <2> QED BY <2>1, <2>3 DEF ProjectStates
  <1> QED BY <1>1, <1>2, <1>5, <1>6

LEMMA StateAtNext ==
    ASSUME NEW m \in Migrations, NEW direction, NEW state, NEW i \in 1 .. Len(OpsOf[m])
    PROVE  /\ StateAt(state, m, direction, 1) = state
           /\ direction = "forward" =>
                 StateAt(state, m, direction, i + 1)
                    = StateAt(state, m, direction, i) \cup {OperationAt(m, direction, i)}
           /\ direction # "forward" =>
                 StateAt(state, m, direction, i + 1)
                    = StateAt(state, m, direction, i) \ {OperationAt(m, direction, i)}
  <1>1. 1 .. (1 - 1) = {} /\ (i + 1) - 1 = i /\ 1 .. i = (1 .. (i - 1)) \cup {i}
    OBVIOUS
  <1>2. {OperationAt(m, direction, j) : j \in 1 .. i} =
           {OperationAt(m, direction, j) : j \in 1 .. (i - 1)} \cup {OperationAt(m, direction, i)}
    BY <1>1
  <1> QED BY <1>1, <1>2 DEF StateAt

\* DROP TABLE takes no column along that is not the migration's own to drop,
\* when a state that knows of everything has passed the preflight.
LEMMA DropsItsOwn ==
    ASSUME NEW m \in Migrations, NEW direction \in Directions,
           NEW applied \in SUBSET Migrations, SoundHistory(applied), (direction = "forward") = (m \notin applied),
           NEW known \in ProjectStates, PreflightOK(known, m, direction),
           direction = "backward" => StateOf(applied)[AppOf[m]] \subseteq known[AppOf[m]],
           NEW i \in 1 .. Len(OpsOf[m])
    PROVE  DatabaseResult(OperationAt(m, direction, i), direction,
                          StateAt(Tables(StateOf(applied)), m, direction, i))
              = StateAt(Tables(StateOf(applied)), m, direction, i + 1)
  <1>0. PICK tables : tables = Tables(StateOf(applied))
    OBVIOUS
  <1>1. PICK x : x = OperationAt(m, direction, i)
    OBVIOUS
  <1>2. /\ x \in Elements /\ x \in Operations(m)
        /\ StatePossible(x, direction, StateAt(known[AppOf[m]], m, direction, i))
    BY <1>1, OperationInMigration DEF PreflightOK
  <1>3. CASE direction = "forward"
    <2>1. StateAt(tables, m, direction, i + 1) = StateAt(tables, m, direction, i) \cup {OperationAt(m, direction, i)}
      BY ONLY StateAtNext, <1>3, m \in Migrations, i \in 1 .. Len(OpsOf[m])
    <2> QED BY <1>0, <1>1, <1>3, <2>1 DEF DatabaseResult
  <1>4. CASE direction = "backward"
    <2>1. m \in applied /\ Disjoint(applied) /\ TablesOwned(applied)
      BY <1>4, SoundParts
    <2>2. ASSUME NEW y \in StateAt(tables, m, direction, i), TableOf[y] = x PROVE y = x
      <3>1. y \in tables /\ \A j \in 1 .. (i - 1) : y # OperationAt(m, direction, j)
        BY <1>4, <2>2 DEF StateAt
      <3>2. PICK n \in applied : y \in Operations(n)
        BY <1>0, <3>1, StateOfElements
      <3>3. PICK k \in applied : AppOf[k] = AppOf[n] /\ TableOf[y] \in Operations(k)
        BY <2>1, <3>2 DEF TablesOwned
      <3>4. k = m
        BY <1>2, <2>1, <2>2, <3>3 DEF Disjoint
      <3>5. AppOf[m] \in Apps /\ y \in Elements
        BY <3>2, OperationInMigration, ExecutorAssumption
      <3>6. y \in StateOf(applied)[AppOf[m]]
        BY <3>2, <3>3, <3>4, <3>5, StateOfElements
      <3>7. y \in StateAt(known[AppOf[m]], m, direction, i)
        BY <1>4, <3>1, <3>6 DEF StateAt
      <3>8. TableOf[x] = x
        BY <2>2, <3>5, ExecutorAssumption
      <3>9. CreateModelBackward(x, StateAt(known[AppOf[m]], m, direction, i))
        BY <1>2, <1>4, <3>8 DEF StatePossible, IsModel
      <3> QED BY <2>2, <3>7, <3>9 DEF CreateModelBackward
    <2>4. DatabaseResult(x, direction, StateAt(tables, m, direction, i)) = StateAt(tables, m, direction, i) \ {x}
      BY <1>4, <2>2 DEF DatabaseResult
    <2>5. StateAt(tables, m, direction, i + 1) = StateAt(tables, m, direction, i) \ {OperationAt(m, direction, i)}
      BY ONLY StateAtNext, <1>4, m \in Migrations, i \in 1 .. Len(OpsOf[m])
    <2> QED BY <1>0, <1>1, <2>4, <2>5
  <1> QED BY <1>3, <1>4 DEF Directions

\* A migration that has passed the preflight on what is there, and then the
\* database, leaves a sound history.
LEMMA SoundMoved ==
    ASSUME NEW m \in Migrations, NEW direction \in Directions,
           NEW applied \in SUBSET Migrations, SoundHistory(applied), (direction = "forward") = (m \notin applied),
           NEW known \in ProjectStates, PreflightOK(known, m, direction),
           direction = "forward" => known[AppOf[m]] \subseteq StateOf(applied)[AppOf[m]],
           direction = "backward" => StateOf(applied)[AppOf[m]] \subseteq known[AppOf[m]],
           New(Tables(StateOf(applied)), m, direction, Len(OpsOf[m]) + 1)
    PROVE  SoundHistory(Moved(applied, m, direction))
  <1>1. Disjoint(applied) /\ (\A n \in applied : Distinct(n)) /\ TablesOwned(applied)
    BY SoundParts
  <1>2. /\ Len(OpsOf[m]) \in Nat /\ DOMAIN OpsOf[m] = 1 .. Len(OpsOf[m])
        /\ \A i \in 1 .. Len(OpsOf[m]) : OpsOf[m][i] \in Operations(m) /\ OpsOf[m][i] \in Elements
        /\ \A x \in Operations(m) : \E i \in 1 .. Len(OpsOf[m]) : x = OpsOf[m][i]
        /\ AppOf[m] \in Apps
    BY OperationIndex, ExecutorAssumption
  <1>3. PICK own : own = known[AppOf[m]]
    OBVIOUS
  <1>4. \A i \in 1 .. Len(OpsOf[m]) : StatePossible(OperationAt(m, direction, i), direction, StateAt(own, m, direction, i))
    BY <1>3 DEF PreflightOK
  <1>5. \A x : x \in StateOf(applied)[AppOf[m]] <=> \E n \in applied : AppOf[n] = AppOf[m] /\ x \in Operations(n)
    BY <1>2, StateOfElements
  <1>6. CASE direction = "forward"
    <2>1. /\ \A i \in 1 .. Len(OpsOf[m]) : OperationAt(m, direction, i) = OpsOf[m][i]
          /\ \A i \in 1 .. Len(OpsOf[m]) : StateAt(own, m, direction, i) = own \cup {OpsOf[m][j] : j \in 1 .. (i - 1)}
      BY <1>6 DEF OperationAt, StateAt
    <2>2. ASSUME NEW i \in 1 .. Len(OpsOf[m])
          PROVE  /\ OpsOf[m][i] \notin StateAt(own, m, direction, i)
                 /\ TableOf[OpsOf[m][i]] \in own \cup Operations(m)
      <3>1. OpsOf[m][i] \notin StateAt(own, m, direction, i)
        BY <1>4, <1>6, <2>1 DEF StatePossible, CreateModelForward, AddFieldForward
      <3>2. CASE IsModel(OpsOf[m][i])
        BY <1>2, <3>1, <3>2 DEF IsModel
      <3>3. CASE ~IsModel(OpsOf[m][i])
        <4>1. TableOf[OpsOf[m][i]] \in StateAt(own, m, direction, i)
          BY <1>4, <1>6, <2>1, <3>3 DEF StatePossible, AddFieldForward
        <4>2. \A j \in 1 .. (i - 1) : OpsOf[m][j] \in Operations(m)
          BY <1>2
        <4> QED BY <2>1, <3>1, <4>1, <4>2
      <3> QED BY <3>1, <3>2, <3>3
    <2>3. Distinct(m)
      <3>1. ASSUME NEW i \in 1 .. Len(OpsOf[m]), NEW j \in 1 .. Len(OpsOf[m]), i < j
            PROVE  OpsOf[m][i] # OpsOf[m][j]
        <4>1. i \in 1 .. (j - 1)
          BY <1>2, <3>1
        <4> QED BY <2>1, <2>2, <4>1
      <3>2. \A i, j \in 1 .. Len(OpsOf[m]) : i = j \/ i < j \/ j < i
        BY <1>2
      <3> QED BY <3>1, <3>2 DEF Distinct
    <2>4. ASSUME NEW n \in applied PROVE Operations(n) \cap Operations(m) = {}
      <3>1. ASSUME NEW x \in Operations(m), x \in Operations(n) PROVE FALSE
        <4>1. PICK i \in 1 .. Len(OpsOf[m]) : x = OpsOf[m][i]
          BY <1>2
        <4>2. i \in 1 .. ((Len(OpsOf[m]) + 1) - 1)
          BY <1>2
        <4>3. x \notin Tables(StateOf(applied))
          BY <1>6, <2>1, <4>1, <4>2 DEF New
        <4> QED BY <3>1, <4>3, StateOfElements
      <3> QED BY <3>1
    <2>5. Disjoint(applied \cup {m})
      BY <1>1, <2>4 DEF Disjoint
    <2>6. ASSUME NEW y \in Operations(m)
          PROVE  \E k \in applied \cup {m} : AppOf[k] = AppOf[m] /\ TableOf[y] \in Operations(k)
      <3>1. TableOf[y] \in own \cup Operations(m)
        BY <1>2, <2>2
      <3>2. TableOf[y] \in own => TableOf[y] \in StateOf(applied)[AppOf[m]]
        BY <1>3, <1>6
      <3> QED BY <1>5, <3>1, <3>2
    <2>7. TablesOwned(applied \cup {m})
      BY <1>1, <2>6 DEF TablesOwned
    <2>8. applied \cup {m} \in SUBSET Migrations /\ \A n \in applied \cup {m} : Distinct(n)
      BY <1>1, <2>3
    <2> QED BY <1>6, <2>5, <2>7, <2>8, SoundParts DEF Moved
  <1>7. CASE direction = "backward"
    <2>1. m \in applied
      BY <1>7
    <2>2. ASSUME NEW n \in applied \ {m}, NEW y \in Operations(n)
          PROVE  \E k \in applied \ {m} : AppOf[k] = AppOf[n] /\ TableOf[y] \in Operations(k)
      <3>1. PICK k \in applied : AppOf[k] = AppOf[n] /\ TableOf[y] \in Operations(k)
        BY <1>1, <2>2 DEF TablesOwned
      <3>2. ASSUME k = m PROVE FALSE
        <4>1. y \in Elements /\ y \notin Operations(m)
          BY <1>1, <2>1, <2>2, OperationInMigration DEF Disjoint
        <4>2. PICK x : x = TableOf[y]
          OBVIOUS
        <4>3. x \in Operations(m) /\ x \in Elements /\ TableOf[x] = x
          BY <3>1, <3>2, <4>1, <4>2, ExecutorAssumption
        <4>4. PICK i \in 1 .. Len(OpsOf[m]) : x = OperationAt(m, direction, i)
          BY <4>3, OperationsCovered
        <4>5. y \in own
          BY <1>3, <1>5, <1>7, <2>2, <3>1, <3>2
        <4>6. \A j \in 1 .. (i - 1) : OperationAt(m, direction, j) # y
          BY <4>1, OperationInMigration
        <4>7. y \in StateAt(own, m, direction, i)
          BY <1>7, <4>5, <4>6 DEF StateAt
        <4>8. CreateModelBackward(x, StateAt(own, m, direction, i))
          BY <1>4, <1>7, <4>3, <4>4 DEF StatePossible, IsModel
        <4> QED BY <4>1, <4>2, <4>3, <4>7, <4>8 DEF CreateModelBackward
      <3> QED BY <3>1, <3>2
    <2>3. TablesOwned(applied \ {m}) /\ Disjoint(applied \ {m}) /\ \A n \in applied \ {m} : Distinct(n)
      BY <1>1, <2>2 DEF TablesOwned, Disjoint
    <2>4. applied \ {m} \in SUBSET Migrations
      OBVIOUS
    <2> QED BY <1>7, <2>3, <2>4, SoundParts DEF Moved
  <1> QED BY <1>6, <1>7 DEF Directions

-----------------------------------------------------------------------------
(* The steps.                                                              *)

\* A plan that got past its shape goes one way.
LEMMA WayOfStep ==
    ASSUME Agreeing, NEW e \in Executors, pc[e] \in Running
    PROVE  /\ plan[e] # <<>> /\ Way(e) = Direction(e) /\ Direction(e) \in Directions
           /\ Key(e) \in Migrations /\ Len(OpsOf[Key(e)]) \in Nat
           /\ PreflightOK(working[e], Key(e), Direction(e))
           /\ prepared[e][step[e]] = PreflightState(working[e], Key(e), Direction(e))
  <1>1. Types /\ Control(e) /\ pc[e] \in Preflighted /\ step[e] <= Len(plan[e])
    BY DEF Agreeing, Controlled, Control, Progress, Preflighted
  <1>2. plan[e] \in Seq(PlanSteps) /\ step[e] \in 1 .. Len(plan[e]) /\ Key(e) \in Migrations
        /\ Direction(e) \in Directions /\ \A i \in 1 .. Len(plan[e]) : plan[e][i].direction = Direction(e)
        /\ prepared[e][step[e]] = PreflightState(working[e], Key(e), Direction(e))
    BY <1>1, PlanType, StepDefined
  <1>3. plan[e] # <<>> /\ 1 \in 1 .. Len(plan[e])
    BY <1>2
  <1> QED BY <1>1, <1>2, <1>3, OperationInMigration DEF Way, Control, Prepared

\* The locals of the plan, unless the call begins, ends or commits.
LEMMA PlanLocals ==
    ASSUME Agreeing, NEW e \in Executors, Moves(e)
    PROVE  \/ UNCHANGED <<plan, before, working, committed, step>>
           \/ \E p \in Plans : Call(e, p)
           \/ Crash(e) \/ Return(e) \/ CommitSucceeds(e)
  BY DEF Moves, Step, Cancel, DriverRollsBack, Start, PreflightShape, PreflightStep,
     PreflightEnds, Gate, PlanEnds, BeginMigration, BeginFails, ExecuteOperation, Record, OperationFails,
     RecordFails, StatementFails, Commit, CommitFails, Rollback, dbVars, callVars

\* COMMIT makes the operations of one migration and its record durable.
LEMMA CommitEffect ==
    ASSUME Agreeing, NEW e \in Executors, CommitSucceeds(e)
    PROVE  /\ pc[e] = "committing" /\ lock = e /\ plan[e] # <<>>
           /\ Way(e) = Direction(e) /\ Way(e) \in Directions /\ Key(e) \in Migrations
           /\ PreflightOK(working[e], Key(e), Way(e))
           /\ schema' = After(schema, Key(e), Way(e)) /\ New(schema, Key(e), Way(e), Len(OpsOf[Key(e)]) + 1)
           /\ working'[e] = PreflightState(working[e], Key(e), Way(e))
           /\ recorder' = Moved(recorder, Key(e), Way(e))
           /\ (Way(e) = "forward") = (Key(e) \notin recorder)
           /\ committed'[e] = Append(committed[e], plan[e][step[e]])
           /\ UNCHANGED plan
  <1>1. pc[e] = "committing" /\ lock = e
    BY DEF CommitSucceeds, Agreeing, Controlled, Transaction
  <1>2. /\ plan[e] # <<>> /\ Way(e) = Direction(e) /\ Direction(e) \in Directions /\ Key(e) \in Migrations
        /\ PreflightOK(working[e], Key(e), Direction(e))
        /\ prepared[e][step[e]] = PreflightState(working[e], Key(e), Direction(e))
    BY <1>1, WayOfStep DEF Running
  <1>3. /\ copy[e].schema = After(schema, Key(e), Direction(e))
        /\ New(schema, Key(e), Direction(e), Len(OpsOf[Key(e)]) + 1)
        /\ copy[e].recorder = Recorded(e, recorder)
        /\ (Direction(e) = "forward") = (Key(e) \notin recorder)
    BY <1>1 DEF Agreeing, SchemaCopied, Controlled, Transaction
  <1>4. /\ schema' = copy[e].schema /\ recorder' = copy[e].recorder
        /\ working'[e] = prepared[e][step[e]]
        /\ committed'[e] = Append(committed[e], plan[e][step[e]]) /\ UNCHANGED plan
    BY DEF CommitSucceeds, Agreeing, Controlled, Types, callVars
  <1>5. Recorded(e, recorder) = Moved(recorder, Key(e), Direction(e))
    BY DEF Recorded, Moved
  <1> QED BY <1>1, <1>2, <1>3, <1>4, <1>5

\* What the preflight of a step was told of its app, going its way.
LEMMA KnownBefore ==
    ASSUME Agreeing, NEW e \in Executors, pc[e] \in Running
    PROVE  /\ working[e] \in ProjectStates /\ AppOf[Key(e)] \in Apps
           /\ recorder \in SUBSET Migrations /\ SoundHistory(recorder) /\ Disjoint(recorder)
           /\ schema = Tables(StateOf(recorder))
           /\ Way(e) = "forward" =>
                 working[e][AppOf[Key(e)]] \subseteq StateOf(recorder)[AppOf[Key(e)]]
           /\ Way(e) = "backward" =>
                 StateOf(recorder)[AppOf[Key(e)]] \subseteq working[e][AppOf[Key(e)]]
  <1>1. /\ plan[e] # <<>> /\ Key(e) \in Migrations /\ AppOf[Key(e)] \in Apps
        /\ UpToDate(e) /\ SoundHistory(recorder) /\ SchemaMatchesRecorder
        /\ working[e] \in ProjectStates /\ recorder \in SUBSET Migrations
    BY WayOfStep, ExecutorAssumption DEF Agreeing, Controlled, Types
  <1>2. Disjoint(recorder)
    BY <1>1, SoundParts
  <1>3. Knows(working[e], Way(e))
    BY <1>1 DEF UpToDate
  <1> QED BY <1>1, <1>2, <1>3 DEF Knows, SchemaMatchesRecorder

LEMMA SchemaKeeps ==
    ASSUME Agreeing, NEW e \in Executors, Moves(e)
    PROVE  SchemaMatchesRecorder' /\ SoundHistory(recorder)'
  <1>1. CASE UNCHANGED dbVars
    BY <1>1 DEF Agreeing, SchemaMatchesRecorder, SoundHistory, Tables, StateOf, dbVars
  <1>2. CASE CommitSucceeds(e)
    <2>1. PICK m \in Migrations, way \in Directions, known \in ProjectStates, rows \in SUBSET Migrations :
             m = Key(e) /\ way = Way(e) /\ known = working[e] /\ rows = recorder
      BY <1>2, CommitEffect, KnownBefore DEF Running
    <2>2. /\ (way = "forward") = (m \notin rows) /\ PreflightOK(known, m, way)
          /\ schema' = After(schema, m, way) /\ recorder' = Moved(rows, m, way)
          /\ New(schema, m, way, Len(OpsOf[m]) + 1)
      BY <1>2, <2>1, CommitEffect
    <2>3. /\ SoundHistory(rows) /\ Disjoint(rows) /\ schema = Tables(StateOf(rows))
          /\ way = "forward" => known[AppOf[m]] \subseteq StateOf(rows)[AppOf[m]]
          /\ way = "backward" => StateOf(rows)[AppOf[m]] \subseteq known[AppOf[m]]
      BY <1>2, <2>1, CommitEffect, KnownBefore DEF Running
    <2>4. New(Tables(StateOf(rows)), m, way, Len(OpsOf[m]) + 1)
      BY <2>2, <2>3
    <2>5. SoundHistory(Moved(rows, m, way))
      BY <2>2, <2>3, <2>4, SoundMoved
    <2>6. schema' = Tables(StateOf(Moved(rows, m, way)))
      BY <2>2, <2>3, StateOfMoved
    <2>7. PICK now : now = recorder'
      OBVIOUS
    <2>8. SoundHistory(now) /\ schema' = Tables(StateOf(now))
      BY <2>2, <2>5, <2>6, <2>7
    <2>9. SchemaMatchesRecorder'
      BY <2>7, <2>8 DEF SchemaMatchesRecorder, Tables, StateOf
    <2>10. SoundHistory(recorder)'
      BY <2>7, <2>8 DEF SoundHistory, StateOf
    <2> QED BY <2>9, <2>10
  <1> QED BY <1>1, <1>2, DurableStep

LEMMA OthersCopyKeeps ==
    ASSUME Agreeing, NEW e \in Executors, Moves(e), NEW d \in Executors, d # e
    PROVE  SchemaCopied(d)'
  <1>1. Types /\ Transaction(e) /\ SchemaCopied(d)
    BY DEF Agreeing, Controlled
  <1>2. UNCHANGED <<schema, recorder>> \/ lock # d
    BY <1>1, DurableStep DEF CommitSucceeds, Transaction, dbVars
  <1>3. /\ pc'[d] = pc[d] /\ plan'[d] = plan[d] /\ step'[d] = step[d] /\ opn'[d] = opn[d]
        /\ copy'[d] = copy[d] /\ (lock' = d <=> lock = d)
    BY <1>1, OtherExecutors
  <1>4. Key(d)' = Key(d) /\ Direction(d)' = Direction(d)
    BY <1>3 DEF Key, Direction
  <1> QED BY <1>1, <1>2, <1>3, <1>4 DEF SchemaCopied, CanRecord

\* What a statement of a step that can be recorded sees.
LEMMA VisibleSchema ==
    ASSUME Agreeing, NEW e \in Executors, pc[e] = "op", CanRecord(e), ~cancelled[e], lock \in {Nobody, e},
           opn[e] \in 1 .. (Len(OpsOf[Key(e)]) + 1)
    PROVE  /\ Visible(e).schema = StateAt(schema, Key(e), Direction(e), opn[e])
           /\ New(schema, Key(e), Direction(e), opn[e])
  <1>1. Transaction(e) /\ SchemaCopied(e) /\ Len(OpsOf[Key(e)]) \in Nat
    BY WayOfStep DEF Agreeing, Controlled, Running
  <1>2. CASE lock = e
    BY <1>1, <1>2 DEF Visible, SchemaCopied
  <1>3. CASE lock # e
    <2>1. opn[e] = 1
      BY <1>1, <1>3 DEF Transaction
    <2>2. 1 .. (1 - 1) = {}
      OBVIOUS
    <2>3. StateAt(schema, Key(e), Direction(e), 1) = schema /\ New(schema, Key(e), Direction(e), 1)
      BY <2>2 DEF StateAt, New
    <2> QED BY <1>3, <2>1, <2>3 DEF Visible
  <1> QED BY <1>2, <1>3

LEMMA OwnCopyKeeps ==
    ASSUME Agreeing, NEW e \in Executors, Moves(e)
    PROVE  SchemaCopied(e)'
  <1>1. Types /\ Transaction(e) /\ Control(e) /\ SchemaCopied(e) /\ e # Nobody
    BY ExecutorAssumption DEF Agreeing, Controlled
  <1> USE DEF dbVars, callVars
  <1>4. ASSUME lock' # e \/ pc'[e] \notin {"op", "commit", "committing"} PROVE SchemaCopied(e)'
    BY <1>4 DEF SchemaCopied
  <1>5. ASSUME UNCHANGED <<lock, pc, opn, copy, schema, recorder, plan, step>> PROVE SchemaCopied(e)'
    BY <1>1, <1>5 DEF SchemaCopied, CanRecord, Key, Direction
  <1>6. ASSUME pc[e] = "op", Statement(e), opn[e] \in 1 .. (Len(OpsOf[Key(e)]) + 1), CanRecord(e)
        PROVE  /\ Visible(e).schema = StateAt(schema, Key(e), Direction(e), opn[e])
               /\ New(schema, Key(e), Direction(e), opn[e])
    BY <1>6, VisibleSchema DEF Statement
  <1>7. CASE ExecuteOperation(e)
    <2>1. /\ pc[e] = "op" /\ pc'[e] = "op" /\ opn[e] <= Len(OpsOf[Key(e)]) /\ opn'[e] = opn[e] + 1
          /\ copy'[e].schema = DatabaseResult(CurrentOp(e), Direction(e), Visible(e).schema)
          /\ DatabasePossible(CurrentOp(e), Direction(e), Visible(e).schema)
          /\ Statement(e) /\ UNCHANGED <<schema, recorder, plan, step>>
      BY <1>1, <1>7 DEF ExecuteOperation, Types
    <2>2. PICK m \in Migrations, way \in Directions, known \in ProjectStates, rows \in SUBSET Migrations :
             m = Key(e) /\ way = Direction(e) /\ known = working[e] /\ rows = recorder
      BY <2>1, WayOfStep, KnownBefore DEF Running
    <2>3. /\ PreflightOK(known, m, way) /\ Len(OpsOf[m]) \in Nat /\ SoundHistory(rows)
          /\ way = "backward" => StateOf(rows)[AppOf[m]] \subseteq known[AppOf[m]]
          /\ schema = Tables(StateOf(rows))
      BY <2>1, <2>2, WayOfStep, KnownBefore DEF Running
    <2>4. opn[e] \in 1 .. Len(OpsOf[m])
      BY <1>1, <2>1, <2>2, <2>3 DEF Control, Prepared
    <2>5. PICK i \in 1 .. Len(OpsOf[m]) : i = opn[e]
      BY <2>4
    <2>t. PICK tables : tables = schema
      OBVIOUS
    <2>6. CASE CanRecord(e)
      <3>1. (way = "forward") = (m \notin rows)
        BY <2>2, <2>6 DEF CanRecord
      <3>2. DatabaseResult(OperationAt(m, way, i), way, StateAt(Tables(StateOf(rows)), m, way, i))
               = StateAt(Tables(StateOf(rows)), m, way, i + 1)
        BY <2>3, <3>1, DropsItsOwn
      <3>3. Visible(e).schema = StateAt(tables, m, way, i) /\ New(tables, m, way, i)
        BY <1>6, <2>1, <2>2, <2>3, <2>4, <2>5, <2>t, <2>6
      <3>4. copy'[e].schema = StateAt(tables, m, way, i + 1)
        BY <2>1, <2>2, <2>3, <2>5, <2>t, <3>2, <3>3 DEF CurrentOp
      <3>5. DatabasePossible(OperationAt(m, way, i), way, StateAt(tables, m, way, i))
        BY <2>1, <2>2, <2>5, <2>t, <3>3 DEF CurrentOp
      <3>6. New(tables, m, way, i + 1)
        <4>1. SUFFICES ASSUME way = "forward", NEW j \in 1 .. ((i + 1) - 1)
                       PROVE  OperationAt(m, way, j) \notin tables
          BY DEF New
        <4>2. CASE j = i
          BY <3>5, <4>1, <4>2 DEF DatabasePossible, StateAt
        <4>3. CASE j # i
          <5>1. j \in 1 .. (i - 1)
            BY <4>1, <4>3
          <5> QED BY <3>3, <4>1, <5>1 DEF New
        <4> QED BY <4>2, <4>3
      <3>7. Key(e)' = m /\ Direction(e)' = way /\ opn'[e] = i + 1 /\ schema' = tables
        BY <2>1, <2>2, <2>5, <2>t DEF Key, Direction
      <3> QED BY <2>1, <3>4, <3>6, <3>7 DEF SchemaCopied
    <2>7. CASE ~CanRecord(e)
      <3>1. ~CanRecord(e)'
        BY <2>1, <2>7 DEF CanRecord, Key, Direction
      <3> QED BY <2>1, <3>1 DEF SchemaCopied
    <2> QED BY <2>6, <2>7
  <1>8. CASE Record(e)
    <2>1. /\ pc[e] = "op" /\ pc'[e] = "commit" /\ opn[e] > Len(OpsOf[Key(e)]) /\ RecordPossible(e)
          /\ copy'[e].schema = Visible(e).schema /\ Statement(e) /\ UNCHANGED <<schema, plan, step>>
      BY <1>1, <1>8 DEF Record, Types, Goto
    <2>2. Len(OpsOf[Key(e)]) \in Nat /\ Key(e) \in Migrations
      BY <2>1, WayOfStep DEF Running
    <2>3. opn[e] = Len(OpsOf[Key(e)]) + 1 /\ opn[e] \in 1 .. (Len(OpsOf[Key(e)]) + 1)
      BY <1>1, <2>1, <2>2 DEF Control, Prepared
    <2>4. Visible(e).recorder = recorder
      BY <1>1, <2>1 DEF Visible, Transaction
    <2>5. CanRecord(e)
      BY <2>1, <2>4 DEF RecordPossible, CanRecord
    <2>6. /\ Visible(e).schema = StateAt(schema, Key(e), Direction(e), Len(OpsOf[Key(e)]) + 1)
          /\ New(schema, Key(e), Direction(e), Len(OpsOf[Key(e)]) + 1)
      BY <1>6, <2>1, <2>3, <2>5
    <2>7. copy'[e].schema = After(schema, Key(e), Direction(e))
      BY <2>1, <2>2, <2>6, WholeMigration
    <2>8. Key(e)' = Key(e) /\ Direction(e)' = Direction(e)
      BY <2>1 DEF Key, Direction
    <2> QED BY <2>1, <2>6, <2>7, <2>8 DEF SchemaCopied
  <1>9. CASE Commit(e)
    <2>1. /\ pc[e] = "commit" /\ pc'[e] \in {"rollback", "committing"}
          /\ UNCHANGED <<lock, copy, schema, plan, step>>
      BY <1>1, <1>9 DEF Commit, FailTo, Goto, Types
    <2> QED BY <1>1, <2>1 DEF SchemaCopied, Key, Direction
  <1>10. ASSUME NEW p \in Plans, Call(e, p) PROVE SchemaCopied(e)'
    BY <1>1, <1>4, <1>10 DEF Call, Goto, Types
  <1>11. CASE Cancel(e)
    BY <1>5, <1>11 DEF Cancel
  <1>12. CASE DriverRollsBack(e) \/ Crash(e) \/ CommitSucceeds(e) \/ CommitFails(e)
    BY <1>1, <1>4, <1>12 DEF DriverRollsBack, Crash, CommitSucceeds, CommitFails, Release
  <1>13. CASE Start(e) \/ PreflightShape(e) \/ PreflightEnds(e) \/ Gate(e) \/ PlanEnds(e) \/ BeginFails(e)
    BY <1>1, <1>4, <1>13 DEF Start, PreflightShape, PreflightEnds, Gate, PlanEnds, BeginFails, FailTo, Goto, Types
  <1>14. CASE OperationFails(e) \/ RecordFails(e) \/ Return(e) \/ Rollback(e)
    BY <1>1, <1>4, <1>14 DEF OperationFails, RecordFails, StatementFails, Return, Forget, Rollback, FailTo, Goto, Types
  <1>15. CASE PreflightStep(e)
    BY <1>1, <1>4, <1>15 DEF PreflightStep, FailTo, Goto, Types
  <1>16. CASE BeginMigration(e)
    BY <1>1, <1>4, <1>16 DEF BeginMigration, Transaction
  <1> QED BY <1>7, <1>8, <1>9, <1>10, <1>11, <1>12, <1>13, <1>14, <1>15, <1>16 DEF Moves, Step

\* A commit that goes the same way as everyone leaves everyone up to date.
LEMMA KnowsMoved ==
    ASSUME NEW rows \in SUBSET Migrations, NEW m \in Migrations, NEW way \in Directions,
           Disjoint(rows), (way = "forward") = (m \notin rows), recorder = rows, recorder' = Moved(rows, m, way),
           NEW known \in ProjectStates, Knows(known, way)
    PROVE  Knows(known, way)' /\ Knows(PreflightState(known, m, way), way)'
  <1>1. PICK then \in ProjectStates, now \in ProjectStates, mine \in ProjectStates :
           then = StateOf(rows) /\ now = StateOf(Moved(rows, m, way)) /\ mine = PreflightState(known, m, way)
    BY StateOfElements, StateOfMoved, PreflightResult
  <1>2. now = PreflightState(then, m, way)
    BY <1>1, StateOfMoved
  <1>3. /\ now[AppOf[m]] = After(then[AppOf[m]], m, way)
        /\ \A a \in Apps : a # AppOf[m] => now[a] = then[a]
        /\ mine[AppOf[m]] = After(known[AppOf[m]], m, way)
        /\ \A a \in Apps : a # AppOf[m] => mine[a] = known[a]
    BY <1>1, <1>2, PreflightResult
  <1>4. \A a \in Apps : IF way = "backward" THEN then[a] \subseteq known[a] ELSE known[a] \subseteq then[a]
    BY <1>1 DEF Knows
  <1>5. \A a \in Apps : IF way = "backward" THEN now[a] \subseteq known[a] /\ now[a] \subseteq mine[a]
                                          ELSE known[a] \subseteq now[a] /\ mine[a] \subseteq now[a]
    <2>1. SUFFICES ASSUME NEW a \in Apps
                   PROVE  IF way = "backward" THEN now[a] \subseteq known[a] /\ now[a] \subseteq mine[a]
                                              ELSE known[a] \subseteq now[a] /\ mine[a] \subseteq now[a]
      OBVIOUS
    <2>2. CASE a # AppOf[m]
      BY <1>3, <1>4, <2>2
    <2>3. CASE a = AppOf[m]
      BY <1>3, <1>4, <2>3 DEF After, Directions
    <2> QED BY <2>2, <2>3
  <1>6. PICK new : new = recorder'
    OBVIOUS
  <1>7. now = StateOf(new)
    BY <1>1, <1>6
  <1>8. \A a \in Apps : IF way = "backward" THEN StateOf(new)[a] \subseteq known[a] /\ StateOf(new)[a] \subseteq mine[a]
                                          ELSE known[a] \subseteq StateOf(new)[a] /\ mine[a] \subseteq StateOf(new)[a]
    BY <1>5, <1>7
  <1>9. StateOf(recorder)' = StateOf(new)
    BY <1>6 DEF StateOf
  <1> QED BY <1>1, <1>8, <1>9 DEF Knows

LEMMA UpToDateKeeps ==
    ASSUME Agreeing, SameWay', NEW e \in Executors, Moves(e), NEW d \in Executors
    PROVE  UpToDate(d)'
  <1>1. Types /\ UpToDate(d)
    BY DEF Agreeing, Controlled
  <1>2. CASE UNCHANGED recorder /\ plan'[d] = plan[d] /\ working'[d] = working[d]
    BY <1>1, <1>2 DEF UpToDate, Knows, StateOf, Way
  <1>3. CASE CommitSucceeds(e)
    <2>1. plan' = plan /\ plan[e] # <<>>
      BY <1>3, CommitEffect
    <2>2. Way(d)' = Way(d) /\ plan'[d] = plan[d]
      BY <2>1 DEF Way
    <2>3. SUFFICES ASSUME plan[d] # <<>> PROVE Knows(working[d], Way(d))'
      BY <2>2 DEF UpToDate
    <2>4. Way(d) = Way(e)
      BY <2>1, <2>3 DEF Agreeing, SameWay, Way
    <2>5. PICK m \in Migrations, way \in Directions, rows \in SUBSET Migrations, known \in ProjectStates :
             m = Key(e) /\ way = Way(e) /\ rows = recorder /\ known = working[d]
      BY <1>1, <1>3, CommitEffect DEF Types
    <2>6. /\ Disjoint(rows) /\ (way = "forward") = (m \notin rows) /\ recorder' = Moved(rows, m, way)
          /\ recorder = rows /\ Knows(known, way)
      BY <1>1, <1>3, <2>3, <2>4, <2>5, CommitEffect, KnownBefore DEF UpToDate, Running
    <2>7. Knows(known, way)' /\ Knows(PreflightState(known, m, way), way)'
      BY <2>6, KnowsMoved
    <2>8. working'[d] = known \/ working'[d] = PreflightState(known, m, way)
      BY <1>1, <1>3, <2>5, CommitEffect, OtherExecutors
    <2>9. Way(d)' = way
      BY <2>2, <2>4, <2>5
    <2> QED BY <2>7, <2>8, <2>9 DEF Knows
  <1>4. CASE ~CommitSucceeds(e)
    <2>1. UNCHANGED recorder
      BY <1>4, DurableStep DEF dbVars
    <2>2. CASE d # e
      BY <1>1, <1>2, <2>1, <2>2, OtherExecutors
    <2>3. ASSUME NEW p \in Plans, Call(e, p) PROVE UpToDate(e)'
      <3>1. working'[e] = StateOf(recorder)
        BY <1>1, <2>3 DEF Call, Types
      <3>2. working'[e] = StateOf(recorder)'
        BY <2>1, <3>1 DEF StateOf
      <3> QED BY <3>2 DEF UpToDate, Knows
    <2>4. CASE Crash(e) \/ Return(e)
      <3>1. plan'[e] = <<>>
        BY <1>1, <2>4 DEF Crash, Return, Forget, Types
      <3> QED BY <1>2, <2>1, <2>2, <3>1 DEF UpToDate
    <2>5. CASE UNCHANGED <<plan, before, working, committed, step>>
      BY <1>2, <2>1, <2>5
    <2> QED BY <1>4, <2>2, <2>3, <2>4, <2>5, PlanLocals
  <1> QED BY <1>3, <1>4

\* Nobody undoes what another running call has made durable.
LEMMA DurableKeeps ==
    ASSUME Agreeing, NEW e \in Executors, Moves(e), NEW d \in Executors
    PROVE  StillDurable(d)'
  <1>1. Types /\ StillDurable(d) /\ Control(d) /\ Control(e)
    BY DEF Agreeing, Controlled
  <1>2. CASE UNCHANGED recorder /\ committed'[d] = committed[d]
    BY <1>1, <1>2 DEF StillDurable
  <1>3. CASE CommitSucceeds(e)
    <2>1. /\ pc[e] = "committing" /\ plan[e] # <<>> /\ Way(e) = Direction(e)
          /\ recorder' = IF Way(e) = "forward" THEN recorder \cup {Key(e)} ELSE recorder \ {Key(e)}
          /\ (Way(e) = "forward") = (Key(e) \notin recorder)
          /\ committed'[e] = Append(committed[e], plan[e][step[e]])
      BY <1>3, CommitEffect DEF Moved
    <2>2. ASSUME NEW i \in 1 .. Len(committed[d])
          PROVE  /\ committed[d][i].direction = Way(e)
                 /\ (committed[d][i].direction = "forward") = (committed[d][i].key \in recorder')
      <3>1. Len(committed[d]) \in Nat /\ Len(plan[d]) \in Nat /\ plan[d] \in Seq(PlanSteps)
        BY <1>1, PlanType
      <3>2. /\ committed[d][i] = plan[d][i] /\ i \in 1 .. Len(plan[d]) /\ 1 \in 1 .. Len(plan[d])
            /\ PlanShape(plan[d])
        BY <1>1, <3>1 DEF Control, Progress, Prepared
      <3>3. committed[d][i].direction = Way(d) /\ plan[d] # <<>>
        BY <3>1, <3>2 DEF PlanShape, Way
      <3>4. Way(d) = Way(e)
        BY <2>1, <3>3 DEF Agreeing, SameWay, Way
      <3>5. (committed[d][i].direction = "forward") = (committed[d][i].key \in recorder)
        BY <1>1 DEF StillDurable
      <3> QED BY <2>1, <3>3, <3>4, <3>5
    <2>3. CASE d # e
      <3>1. committed'[d] = committed[d]
        BY <1>1, <2>3, OtherExecutors
      <3> QED BY <2>2, <3>1 DEF StillDurable
    <2>4. CASE d = e
      <3>1. committed[e] \in Seq(PlanSteps) /\ Len(committed[e]) \in Nat
        BY <1>1, PlanType
      <3>2. /\ Len(committed'[e]) = Len(committed[e]) + 1
            /\ committed'[e][Len(committed[e]) + 1].direction = Direction(e)
            /\ committed'[e][Len(committed[e]) + 1].key = Key(e)
            /\ \A i \in 1 .. Len(committed[e]) : committed'[e][i] = committed[e][i]
        BY <2>1, <3>1 DEF Direction, Key
      <3>3. ASSUME NEW i \in 1 .. Len(committed'[e])
            PROVE  (committed'[e][i].direction = "forward") = (committed'[e][i].key \in recorder')
        <4>1. CASE i \in 1 .. Len(committed[e])
          BY <2>2, <2>4, <3>2, <4>1
        <4>2. CASE i = Len(committed[e]) + 1
          BY <2>1, <3>2, <4>2
        <4> QED BY <3>1, <3>2, <4>1, <4>2
      <3> QED BY <2>4, <3>3 DEF StillDurable
    <2> QED BY <2>3, <2>4
  <1>4. CASE ~CommitSucceeds(e)
    <2>1. UNCHANGED recorder
      BY <1>4, DurableStep DEF dbVars
    <2>2. CASE d # e
      BY <1>1, <1>2, <2>1, <2>2, OtherExecutors
    <2>3. ASSUME NEW p \in Plans, Call(e, p) PROVE committed'[e] = committed[e]
      BY <2>3 DEF Call
    <2>4. CASE Crash(e) \/ Return(e)
      <3>1. committed'[e] = <<>>
        BY <1>1, <2>4 DEF Crash, Return, Forget, Types
      <3> QED BY <1>2, <2>1, <2>2, <3>1 DEF StillDurable
    <2>5. CASE UNCHANGED <<plan, before, working, committed, step>>
      BY <1>2, <2>1, <2>5
    <2> QED BY <1>2, <1>4, <2>1, <2>2, <2>3, <2>4, <2>5, PlanLocals
  <1> QED BY <1>3, <1>4

LEMMA InitAgreeing == Init => Agreeing
  <1> SUFFICES ASSUME Init PROVE Agreeing
    OBVIOUS
  <1>1. \A e \in Executors : lock # e /\ plan[e] = <<>> /\ committed[e] = <<>>
    BY ExecutorAssumption DEF Init
  <1>2. \A e \in Executors : SchemaCopied(e) /\ UpToDate(e) /\ StillDurable(e)
    BY <1>1 DEF SchemaCopied, UpToDate, StillDurable
  <1>3. SameWay /\ SchemaMatchesRecorder /\ SoundHistory(recorder)
    BY <1>1, ExecutorAssumption DEF Init, SameWay, SchemaMatchesRecorder
  <1> QED BY <1>2, <1>3, InitControlled DEF Agreeing

LEMMA NextAgreeing == Agreeing /\ [Next /\ SameWay']_vars => Agreeing'
  <1> SUFFICES ASSUME Agreeing, [Next /\ SameWay']_vars PROVE Agreeing'
    OBVIOUS
  <1>1. CASE UNCHANGED vars
    <2> USE <1>1 DEF vars, dbVars, callVars
    <2>1. Controlled'
      BY StutterControlled DEF Agreeing
    <2>2. SameWay' /\ SchemaMatchesRecorder' /\ SoundHistory(recorder)'
      BY DEF Agreeing, SameWay, SchemaMatchesRecorder, SoundHistory, Tables, StateOf
    <2>3. ASSUME NEW e \in Executors PROVE SchemaCopied(e)' /\ UpToDate(e)' /\ StillDurable(e)'
      <3>1. SchemaCopied(e)' /\ StillDurable(e)'
        BY DEF Agreeing, SchemaCopied, StillDurable, CanRecord, Key, Direction
      <3>2. UpToDate(e)'
        BY DEF Agreeing, UpToDate, Knows, StateOf, Way
      <3> QED BY <3>1, <3>2
    <2> QED BY <2>1, <2>2, <2>3 DEF Agreeing
  <1>2. ASSUME NEW e \in Executors, Moves(e), SameWay' PROVE Agreeing'
    <2>1. Controlled'
      BY <1>2, StepControlled DEF Agreeing
    <2>2. \A d \in Executors : SchemaCopied(d)' /\ UpToDate(d)' /\ StillDurable(d)'
      BY <1>2, OthersCopyKeeps, OwnCopyKeeps, UpToDateKeeps, DurableKeeps
    <2> QED BY <1>2, <2>1, <2>2, SchemaKeeps DEF Agreeing
  <1> QED BY <1>1, <1>2, NextMoves

-----------------------------------------------------------------------------
(***************************************************************************)
(* The invariant, for calls that go the same way where they overlap.       *)
(***************************************************************************)
THEOREM SpecAgreeing == SameWaySpec => []Agreeing
  BY InitAgreeing, NextAgreeing, PTL DEF SameWaySpec

(***************************************************************************)
(* Whatever fails, dies or is canceled in whatever step of any number of   *)
(* executors, the durable schema is the one the recorder tells of.         *)
(***************************************************************************)
THEOREM SpecSchemaMatchesRecorder == SameWaySpec => []SchemaMatchesRecorder
  <1>1. Agreeing => SchemaMatchesRecorder
    BY DEF Agreeing
  <1> QED BY <1>1, SpecAgreeing, PTL

\* A commit is refused what another running call has already made durable.
LEMMA NextEachStepOnce ==
    Agreeing /\ EachStepOnce /\ [Next /\ SameWay']_vars => EachStepOnce'
  <1> SUFFICES ASSUME Agreeing, EachStepOnce, [Next /\ SameWay']_vars,
                      NEW e \in Executors, NEW f \in Executors, e # f
               PROVE  \A i \in DOMAIN committed'[e], j \in DOMAIN committed'[f] :
                         committed'[e][i] # committed'[f][j]
    BY DEF EachStepOnce
  <1>1. Types /\ Controlled
    BY DEF Agreeing, Controlled
  \* What the step of d adds is nothing that c has committed.
  <1>2. ASSUME NEW d \in Executors, Moves(d), NEW c \in Executors, c # d
        PROVE  \A i \in DOMAIN committed'[d], j \in DOMAIN committed'[c] :
                  committed'[d][i] # committed'[c][j]
    <2>1. committed'[c] = committed[c]
      BY <1>1, <1>2, OtherExecutors
    <2>2. CASE committed'[d] = committed[d] \/ committed'[d] = <<>>
      BY <1>2, <2>1, <2>2 DEF EachStepOnce
    <2>3. CASE CommitSucceeds(d)
      <3>1. /\ (Way(d) = "forward") = (Key(d) \notin recorder)
            /\ committed'[d] = Append(committed[d], plan[d][step[d]])
            /\ Way(d) = Direction(d)
        BY <2>3, CommitEffect
      <3>2. committed[d] \in Seq(PlanSteps) /\ committed[c] \in Seq(PlanSteps)
        BY <1>1, <1>2, PlanType
      <3>3. ASSUME NEW j \in DOMAIN committed[c] PROVE committed[c][j] # plan[d][step[d]]
        <4>1. (committed[c][j].direction = "forward") = (committed[c][j].key \in recorder)
          BY <1>2, <3>2 DEF Agreeing, StillDurable
        <4> QED BY <3>1, <4>1 DEF Direction, Key
      <3>4. ASSUME NEW i \in DOMAIN committed'[d]
            PROVE  (i \in DOMAIN committed[d] /\ committed'[d][i] = committed[d][i])
                   \/ committed'[d][i] = plan[d][step[d]]
        BY <3>1, <3>2
      <3> QED BY <1>2, <2>1, <3>3, <3>4 DEF EachStepOnce
    <2>4. CASE UNCHANGED committed
      BY <2>2, <2>4
    <2>5. CASE Crash(d) \/ Return(d)
      BY <1>1, <2>2, <2>5 DEF Crash, Return, Forget, Types
    <2>6. (\E p \in Plans : Call(d, p)) => UNCHANGED committed
      BY DEF Call
    <2> QED BY <1>2, <2>3, <2>4, <2>5, <2>6, PlanLocals
  <1>3. CASE UNCHANGED vars
    BY <1>3 DEF EachStepOnce, vars
  <1>4. ASSUME NEW d \in Executors, Moves(d)
        PROVE  \A i \in DOMAIN committed'[e], j \in DOMAIN committed'[f] :
                  committed'[e][i] # committed'[f][j]
    <2>1. CASE d = e \/ d = f
      BY <1>2, <1>4, <2>1
    <2>2. CASE d # e /\ d # f
      BY <1>1, <1>4, <2>2, OtherExecutors DEF EachStepOnce
    <2> QED BY <2>1, <2>2
  <1> QED BY <1>3, <1>4, NextMoves

(***************************************************************************)
(* Of any number of executors that run the same step, one at most makes it *)
(* durable (the recorder's primary key, and the count of removed rows).    *)
(***************************************************************************)
THEOREM SpecEachStepOnce == SameWaySpec => []EachStepOnce
  <1>1. Init => EachStepOnce
    BY DEF Init, EachStepOnce
  <1> QED BY <1>1, NextEachStepOnce, SpecAgreeing, PTL DEF SameWaySpec

-----------------------------------------------------------------------------
(* An executor on its own database.                                        *)

\* Its working state is the one the recorder tells of.
WorkingIsDurable == \A e \in Executors : pc[e] # "idle" => working[e] = StateOf(recorder)

LEMMA NextWorking ==
    ASSUME \A e, f \in Executors : e = f, Agreeing, WorkingIsDurable, [Next]_vars
    PROVE  WorkingIsDurable'
  <1>1. CASE UNCHANGED vars
    BY <1>1 DEF WorkingIsDurable, vars, dbVars, StateOf
  <1>2. ASSUME NEW e \in Executors, Moves(e), pc'[e] # "idle" PROVE working'[e] = StateOf(recorder)'
    <2>1. Types /\ Control(e)
      BY DEF Agreeing, Controlled
    <2>2. CASE CommitSucceeds(e)
      <3>1. PICK m \in Migrations, way \in Directions, rows \in SUBSET Migrations :
               m = Key(e) /\ way = Way(e) /\ rows = recorder
        BY <2>1, <2>2, CommitEffect DEF Types
      <3>2. /\ Disjoint(rows) /\ (way = "forward") = (m \notin rows) /\ recorder' = Moved(rows, m, way)
            /\ working[e] = StateOf(rows) /\ working'[e] = PreflightState(working[e], m, way)
        BY <2>2, <3>1, CommitEffect, KnownBefore DEF Running, WorkingIsDurable
      <3>3. StateOf(Moved(rows, m, way)) = PreflightState(StateOf(rows), m, way)
        BY <3>2, StateOfMoved
      <3>4. PICK now : now = recorder'
        OBVIOUS
      <3>5. working'[e] = StateOf(now)
        BY <3>2, <3>3, <3>4
      <3> QED BY <3>4, <3>5 DEF StateOf
    <2>3. ASSUME NEW p \in Plans, Call(e, p) PROVE working'[e] = StateOf(recorder)'
      BY <2>1, <2>3 DEF Call, Types, StateOf, dbVars
    <2>4. CASE Crash(e) \/ Return(e)
      BY <1>2, <2>1, <2>4 DEF Crash, Return, Forget, Goto, Types
    <2>5. CASE UNCHANGED <<plan, before, working, committed, step>> /\ ~CommitSucceeds(e)
                  /\ ~(\E p \in Plans : Call(e, p))
      <3>1. pc[e] # "idle"
        BY <1>2, <2>1, <2>5 DEF Moves, Step, Cancel, DriverRollsBack, Crash, Start, PreflightShape, PreflightStep,
           PreflightEnds, Gate, PlanEnds, BeginMigration, BeginFails, ExecuteOperation, Record, OperationFails,
           RecordFails, Commit, CommitFails, Rollback, Return
      <3> QED BY <1>2, <2>5, <3>1, DurableStep DEF WorkingIsDurable, StateOf, dbVars
    <2> QED BY <1>2, <2>2, <2>3, <2>4, <2>5, PlanLocals
  <1> QED BY <1>1, <1>2, NextMoves DEF WorkingIsDurable

(***************************************************************************)
(* What a call has made durable is a prefix of its plan, its working state *)
(* the state after that prefix, and a lone executor returns the state of   *)
(* the recorder and with it the durable schema, after success, failure and *)
(* cancellation.                                                           *)
(***************************************************************************)
THEOREM SpecDurablePrefix ==
    ASSUME \A e, f \in Executors : e = f
    PROVE  Spec => []DurablePrefix
  <1>1. Init => WorkingIsDurable
    BY DEF Init, WorkingIsDurable
  <1>2. SameWay'
    BY DEF SameWay
  <1>3. Agreeing /\ WorkingIsDurable /\ [Next]_vars => Agreeing' /\ WorkingIsDurable'
    BY <1>2, NextAgreeing, NextWorking
  <1>4. Agreeing /\ WorkingIsDurable => DurablePrefix
    <2> SUFFICES ASSUME Agreeing, WorkingIsDurable, NEW e \in Executors
                 PROVE  /\ Len(committed[e]) <= Len(plan[e])
                        /\ \A i \in 1 .. Len(committed[e]) : committed[e][i] = plan[e][i]
                        /\ pc[e] # "idle" =>
                              working[e] = IF committed[e] = <<>> THEN before[e]
                                           ELSE prepared[e][Len(committed[e])]
                        /\ pc[e] = "returned" =>
                              working[e] = StateOf(recorder) /\ Tables(working[e]) = schema
      BY DEF DurablePrefix
    <2>1. Types /\ Control(e)
      BY DEF Agreeing, Controlled
    <2>2. /\ step[e] = Len(committed[e]) + 1 /\ working[e] = From(e, step[e])
          /\ Len(committed[e]) <= Len(plan[e])
          /\ \A i \in 1 .. Len(committed[e]) : committed[e][i] = plan[e][i]
      BY <2>1 DEF Control, Progress, Prepared
    <2>3. Len(committed[e]) \in Nat /\ committed[e] \in Seq(PlanSteps)
      BY <2>1, PlanType
    <2>4. working[e] = IF committed[e] = <<>> THEN before[e] ELSE prepared[e][Len(committed[e])]
      BY <2>2, <2>3 DEF From
    <2>5. schema = Tables(StateOf(recorder))
      BY DEF Agreeing, SchemaMatchesRecorder
    <2>6. pc[e] = "returned" => working[e] = StateOf(recorder) /\ Tables(working[e]) = schema
      BY <2>5 DEF WorkingIsDurable
    <2> QED BY <2>2, <2>4, <2>6
  <1> QED BY <1>1, <1>3, <1>4, InitAgreeing, PTL DEF Spec

-----------------------------------------------------------------------------
(* A lone executor without cancellation and faults.                        *)

\* What the recorder tells after the first steps of a plan it is to follow.
Applied(e, i) ==
    LET keys == {plan[e][j].key : j \in 1 .. i}
    IN  IF Way(e) = "forward" THEN recorder \cup keys ELSE recorder \ keys

\* The preflight of a plan that does not repeat what is recorded computes the
\* state of that, as long as nothing is committed; it has found every step
\* possible that it has prepared.
PreflightExact(e) ==
    /\ plan[e] # <<>> /\ PlanShape(plan[e]) /\ step[e] = 1 /\ RestIsNew(e) =>
          \A k \in 1 .. (Len(prepared[e]) + 1) : k <= Len(plan[e]) => From(e, k) = StateOf(Applied(e, k - 1))
    /\ \A k \in 1 .. Len(prepared[e]) :
          PreflightOK(From(e, k), plan[e][k].key, plan[e][k].direction)

\* Without a cancellation and without a fault, an error is the plan's, or that
\* of two apps with one table.
Reason(e) ==
    pc[e] \in {"rollback", "returned"} /\ err[e] # "none" /\ ~cancelled[e] /\ ~faulted[e] =>
        \/ err[e] = "plan" /\ committed[e] = <<>> /\ ~PlanShape(plan[e])
        \/ /\ err[e] = "state" /\ committed[e] = <<>> /\ PlanShape(plan[e])
           /\ \E k \in 1 .. Len(plan[e]) :
                 /\ k = Len(prepared[e]) + 1
                 /\ ~PreflightOK(From(e, k), plan[e][k].key, plan[e][k].direction)
        \/ ~RestIsNew(e)
        \/ err[e] = "operation" /\ TableTaken(e)

Lone == WorkingIsDurable /\ \A e \in Executors : PreflightExact(e) /\ Reason(e)

\* An app without columns that lost their table, before and after a migration,
\* lets every operation of the migration pass.
LEMMA OwnPasses ==
    ASSUME NEW m \in Migrations, NEW direction \in Directions, NEW own,
           TablesFirst(m), Distinct(m),
           direction = "forward" => \A x \in Operations(m) : x \notin own,
           direction = "backward" => \A x \in Operations(m) : x \in own,
           \A x \in own : TableOf[x] \in own,
           \A x \in After(own, m, direction) : TableOf[x] \in After(own, m, direction),
           NEW i \in 1 .. Len(OpsOf[m])
    PROVE  StatePossible(OperationAt(m, direction, i), direction, StateAt(own, m, direction, i))
  <1>0. /\ direction = "forward" =>
              \A x : x \in own \/ x \in Operations(m) => TableOf[x] \in own \cup Operations(m)
        /\ direction = "backward" =>
              \A x : x \in own /\ x \notin Operations(m) => TableOf[x] \notin Operations(m)
        /\ direction = "forward" => \A x \in Operations(m) : x \notin own
        /\ direction = "backward" => \A x \in Operations(m) : x \in own
        /\ \A x \in own : TableOf[x] \in own
    BY DEF After, Directions
  <1>1. /\ Len(OpsOf[m]) \in Nat /\ DOMAIN OpsOf[m] = 1 .. Len(OpsOf[m])
        /\ \A a, b \in 1 .. Len(OpsOf[m]) : OpsOf[m][a] = OpsOf[m][b] => a = b
        /\ \A a \in 1 .. Len(OpsOf[m]) : OpsOf[m][a] \in Operations(m) /\ OpsOf[m][a] \in Elements
        /\ \A x \in Operations(m) : \E a \in 1 .. Len(OpsOf[m]) : x = OpsOf[m][a]
    BY OperationIndex DEF Distinct
  <1>2. \A a, b \in 1 .. Len(OpsOf[m]) : TableOf[OpsOf[m][a]] = OpsOf[m][b] => b <= a
    BY <1>1 DEF TablesFirst
  <1>4. PICK n \in 1 .. Len(OpsOf[m]) : n = IF direction = "forward" THEN i ELSE Len(OpsOf[m]) - i + 1
    <2>1. i \in 1 .. Len(OpsOf[m]) /\ Len(OpsOf[m]) - i + 1 \in 1 .. Len(OpsOf[m])
      BY <1>1
    <2> QED BY <2>1
  <1>5. PICK x : x = OpsOf[m][n]
    OBVIOUS
  <1>6. OperationAt(m, direction, i) = x /\ x \in Operations(m) /\ x \in Elements
    BY <1>1, <1>4, <1>5 DEF OperationAt
  <1>7. PICK state : state = StateAt(own, m, direction, i)
    OBVIOUS
  <1>8. CASE direction = "forward"
    <2>1. state = own \cup {OpsOf[m][j] : j \in 1 .. (n - 1)}
      BY <1>4, <1>7, <1>8 DEF StateAt, OperationAt
    <2>2. x \notin state
      <3>1. x \notin own
        BY <1>0, <1>6, <1>8
      <3>2. \A j \in 1 .. (n - 1) : OpsOf[m][j] # x
        BY <1>1, <1>5
      <3> QED BY <2>1, <3>1, <3>2
    <2>3. ASSUME ~IsModel(x) PROVE TableOf[x] \in state
      <3>1. TableOf[x] \in own \cup Operations(m)
        BY <1>0, <1>6, <1>8
      <3>2. ASSUME TableOf[x] \in Operations(m) PROVE \E j \in 1 .. (n - 1) : TableOf[x] = OpsOf[m][j]
        <4>1. PICK j \in 1 .. Len(OpsOf[m]) : TableOf[x] = OpsOf[m][j]
          BY <1>1, <3>2
        <4>2. j <= n /\ j # n
          BY <1>2, <1>5, <2>3, <4>1 DEF IsModel
        <4> QED BY <4>1, <4>2
      <3> QED BY <2>1, <3>1, <3>2
    <2> QED BY <1>6, <1>7, <1>8, <2>2, <2>3 DEF StatePossible, CreateModelForward, AddFieldForward
  <1>9. CASE direction = "backward"
    <2>1. \A y : y \in state <=> y \in own /\ \A j \in (n + 1) .. Len(OpsOf[m]) : y # OpsOf[m][j]
      <3>1. \A j \in 1 .. (i - 1) : /\ Len(OpsOf[m]) - j + 1 \in (n + 1) .. Len(OpsOf[m])
                                    /\ OperationAt(m, direction, j) = OpsOf[m][Len(OpsOf[m]) - j + 1]
        BY <1>1, <1>4, <1>9 DEF OperationAt
      <3>2. \A j \in (n + 1) .. Len(OpsOf[m]) :
               /\ Len(OpsOf[m]) - j + 1 \in 1 .. (i - 1)
               /\ Len(OpsOf[m]) - (Len(OpsOf[m]) - j + 1) + 1 = j
        BY <1>1, <1>4, <1>9
      <3>3. \A j \in (n + 1) .. Len(OpsOf[m]) :
               OperationAt(m, direction, Len(OpsOf[m]) - j + 1) = OpsOf[m][j]
        BY <1>1, <1>9, <3>2 DEF OperationAt
      <3>4. state = own \ {OperationAt(m, direction, j) : j \in 1 .. (i - 1)}
        BY <1>7, <1>9 DEF StateAt
      <3>5. ASSUME NEW y, NEW j \in (n + 1) .. Len(OpsOf[m]), y = OpsOf[m][j] PROVE y \notin state
        BY <3>2, <3>3, <3>4, <3>5
      <3>6. ASSUME NEW y, NEW j \in 1 .. (i - 1), y = OperationAt(m, direction, j)
            PROVE  \E a \in (n + 1) .. Len(OpsOf[m]) : y = OpsOf[m][a]
        BY <3>1, <3>6
      <3> QED BY <3>4, <3>5, <3>6
    <2>2. x \in state
      <3>1. x \in own
        BY <1>0, <1>6, <1>9
      <3>2. \A j \in (n + 1) .. Len(OpsOf[m]) : x # OpsOf[m][j]
        BY <1>1, <1>5
      <3> QED BY <2>1, <3>1, <3>2
    <2>3. ASSUME NEW y \in state, TableOf[y] = x PROVE y = x
      <3>1. y \in own
        BY <2>1
      <3>2. CASE y \in Operations(m)
        <4>1. PICK j \in 1 .. Len(OpsOf[m]) : y = OpsOf[m][j]
          BY <1>1, <3>2
        <4>2. j <= n
          BY <1>1, <2>1, <4>1
        <4>3. n <= j
          BY <1>2, <1>5, <2>3, <4>1
        <4> QED BY <1>5, <4>1, <4>2, <4>3
      <3>3. CASE y \notin Operations(m)
        BY <1>0, <1>6, <1>9, <2>3, <3>1, <3>3
      <3> QED BY <3>2, <3>3
    <2>4. TableOf[x] \in state
      <3>1. TableOf[x] \in own
        BY <1>0, <2>1, <2>2
      <3>2. \A j \in (n + 1) .. Len(OpsOf[m]) : TableOf[x] # OpsOf[m][j]
        BY <1>1, <1>2, <1>5
      <3> QED BY <2>1, <3>1, <3>2
    <2> QED BY <1>6, <1>7, <1>9, <2>2, <2>3, <2>4 DEF StatePossible, CreateModelBackward, AddFieldBackward
  <1> QED BY <1>8, <1>9 DEF Directions

\* A migration whose application, or whose undoing, leaves a sound history
\* passes the preflight.
LEMMA SensiblePasses ==
    ASSUME NEW m \in Migrations, NEW direction \in Directions, NEW applied \in SUBSET Migrations,
           TablesFirst(m), (direction = "forward") = (m \notin applied),
           SoundHistory(applied), SoundHistory(Moved(applied, m, direction))
    PROVE  PreflightOK(StateOf(applied), m, direction)
  <1>1. PICK moved \in SUBSET Migrations : moved = Moved(applied, m, direction)
    BY DEF Moved
  <1>2. /\ Disjoint(applied) /\ Disjoint(moved) /\ SoundHistory(moved)
        /\ \A n \in applied : Distinct(n)
        /\ \A n \in moved : Distinct(n)
        /\ AppOf[m] \in Apps
    BY <1>1, SoundParts, ExecutorAssumption
  <1>3. PICK own, after : own = StateOf(applied)[AppOf[m]] /\ after = StateOf(moved)[AppOf[m]]
    OBVIOUS
  <1>4. \A x : x \in own <=> \E n \in applied : AppOf[n] = AppOf[m] /\ x \in Operations(n)
    BY <1>2, <1>3, StateOfElements
  <1>5. after = After(own, m, direction)
    <2>1. StateOf(moved) = PreflightState(StateOf(applied), m, direction)
      BY <1>1, <1>2, StateOfMoved
    <2>2. StateOf(applied) \in ProjectStates
      BY StateOfElements
    <2> QED BY <1>3, <2>1, <2>2, PreflightResult
  <1>6. (\A x \in own : TableOf[x] \in own) /\ (\A x \in after : TableOf[x] \in after)
    BY <1>2, <1>3 DEF SoundHistory
  <1>7. (m \in applied \/ m \in moved) /\ Distinct(m)
    BY <1>1, <1>2 DEF Moved
  <1>8. direction = "forward" => \A x \in Operations(m) : x \notin own
    <2>1. direction = "forward" => m \in moved /\ \A n \in applied : n \in moved /\ n # m
      BY <1>1 DEF Moved
    <2> QED BY <1>2, <1>4, <2>1 DEF Disjoint
  <1>9. direction = "backward" => \A x \in Operations(m) : x \in own
    BY <1>4
  <1>10. \A x \in After(own, m, direction) : TableOf[x] \in After(own, m, direction)
    BY <1>5, <1>6
  <1>11. \A i \in 1 .. Len(OpsOf[m]) :
            StatePossible(OperationAt(m, direction, i), direction, StateAt(own, m, direction, i))
    BY <1>6, <1>7, <1>8, <1>9, <1>10, OwnPasses
  <1> QED BY <1>3, <1>11 DEF PreflightOK

\* What is applied after a step of a well-formed plan.
LEMMA AppliedNext ==
    ASSUME Types, NEW e \in Executors, PlanShape(plan[e]), NEW k \in 1 .. Len(plan[e])
    PROVE  /\ plan[e][k].key \in Migrations /\ plan[e][k].direction = Way(e) /\ Way(e) \in Directions
           /\ Applied(e, 0) = recorder
           /\ Applied(e, k - 1) \in SUBSET Migrations
           /\ Way(e) = "forward" => Applied(e, k) = Applied(e, k - 1) \cup {plan[e][k].key}
           /\ Way(e) # "forward" => Applied(e, k) = Applied(e, k - 1) \ {plan[e][k].key}
           /\ (plan[e][k].key \in Applied(e, k - 1)) = (plan[e][k].key \in recorder)
  <1>1. DOMAIN plan[e] = 1 .. Len(plan[e]) /\ Len(plan[e]) \in Nat
    BY PlanType
  <1>2. 1 \in 1 .. Len(plan[e]) /\ 1 .. 0 = {} /\ 1 .. k = (1 .. (k - 1)) \cup {k}
    BY <1>1
  <1>3. /\ \A i \in 1 .. Len(plan[e]) : plan[e][i].key \in Migrations /\ plan[e][i].direction = Way(e)
        /\ Way(e) \in Directions
    BY <1>1, <1>2 DEF PlanShape, Way
  <1>4. \A i \in 1 .. (k - 1) : i \in 1 .. Len(plan[e]) /\ i # k
    BY <1>1
  <1>5. PICK keys : keys = {plan[e][j].key : j \in 1 .. (k - 1)}
    OBVIOUS
  <1>6. keys \subseteq Migrations /\ plan[e][k].key \notin keys
    BY <1>1, <1>3, <1>4, <1>5 DEF PlanShape
  <1>7. {plan[e][j].key : j \in 1 .. k} = keys \cup {plan[e][k].key}
    BY <1>2, <1>5
  <1>8. /\ Way(e) = "forward" => Applied(e, k - 1) = recorder \cup keys
        /\ Way(e) # "forward" => Applied(e, k - 1) = recorder \ keys
    BY <1>5 DEF Applied
  <1>9. /\ Way(e) = "forward" => Applied(e, k) = recorder \cup (keys \cup {plan[e][k].key})
        /\ Way(e) # "forward" => Applied(e, k) = recorder \ (keys \cup {plan[e][k].key})
    BY <1>7 DEF Applied
  <1>10. Applied(e, 0) = recorder
    BY <1>2 DEF Applied
  <1> QED BY <1>3, <1>6, <1>8, <1>9, <1>10 DEF Types

LEMMA PreflightExactKeeps ==
    ASSUME Agreeing, NEW e \in Executors, Moves(e), PreflightExact(e)
    PROVE  PreflightExact(e)'
  <1>1. Types /\ Control(e)
    BY DEF Agreeing, Controlled
  <1>2. ASSUME UNCHANGED <<plan, before, prepared, step, recorder, committed>> PROVE PreflightExact(e)'
    <2>1. \A k : From(e, k)' = From(e, k) /\ Applied(e, k)' = Applied(e, k)
      BY <1>2 DEF From, Applied, Way
    <2>2. RestIsNew(e)' = RestIsNew(e)
      BY <1>2 DEF RestIsNew
    <2> QED BY <1>2, <2>1, <2>2 DEF PreflightExact, StateOf
  <1>3. ASSUME NEW p \in Plans, Call(e, p) PROVE PreflightExact(e)'
    <2>1. prepared'[e] = <<>> /\ step'[e] = 1 /\ before'[e] = StateOf(recorder) /\ recorder' = recorder
      BY <1>1, <1>3 DEF Call, Types, Control, Progress, Prepared, dbVars
    <2>2. Applied(e, 1 - 1)' = recorder
      <3>1. 1 .. (1 - 1) = {}
        OBVIOUS
      <3> QED BY <2>1, <3>1 DEF Applied
    <2>3. From(e, 1)' = StateOf(recorder)
      BY <2>1 DEF From
    <2>4. Len(prepared'[e]) = 0 /\ \A k \in 1 .. (Len(prepared'[e]) + 1) : k = 1
      BY <2>1
    <2> QED BY <2>1, <2>2, <2>3, <2>4 DEF PreflightExact, StateOf
  <1>4. CASE Crash(e) \/ Return(e)
    <2>1. plan'[e] = <<>> /\ prepared'[e] = <<>>
      BY <1>1, <1>4 DEF Crash, Return, Forget, Types
    <2>2. Len(prepared'[e]) = 0
      BY <2>1
    <2> QED BY <2>1, <2>2 DEF PreflightExact
  <1>5. CASE CommitSucceeds(e)
    <2>1. step'[e] = step[e] + 1 /\ step[e] # 0 /\ UNCHANGED <<plan, before, prepared>>
      BY <1>1, <1>5, PlanType DEF CommitSucceeds, Types, callVars, Control, Progress
    <2>2. step'[e] # 1
      BY <1>1, <2>1, PlanType
    <2> QED BY <2>1, <2>2 DEF PreflightExact, From
  <1>6. CASE PreflightStep(e) /\ ~UNCHANGED prepared
    <2>1. PICK k \in 1 .. Len(plan[e]) : k = Len(prepared[e]) + 1
      BY <1>1, <1>6, PlanType DEF PreflightStep
    <2>2. /\ pc[e] = "prepare" /\ UNCHANGED <<plan, before, step, recorder, committed>>
          /\ PreflightOK(From(e, k), plan[e][k].key, plan[e][k].direction)
          /\ prepared'[e] = Append(prepared[e], PreflightState(From(e, k), plan[e][k].key, plan[e][k].direction))
      BY <1>1, <1>6, <2>1 DEF PreflightStep, From, Types, dbVars, callVars
    <2>3. step[e] = 1 /\ PlanShape(plan[e]) /\ plan[e] # <<>>
      BY <1>1, <2>1, <2>2, PlanType DEF Control, Progress, Prepared
    <2>4. /\ Len(prepared'[e]) = k
          /\ prepared'[e][k] = PreflightState(From(e, k), plan[e][k].key, plan[e][k].direction)
          /\ \A j \in 1 .. (k - 1) : prepared'[e][j] = prepared[e][j]
      BY <1>1, <2>1, <2>2, PlanType
    <2>5. \A j \in 1 .. k : From(e, j)' = From(e, j)
      BY <2>2, <2>4 DEF From
    <2>6. PICK m \in Migrations, way \in Directions, applied \in SUBSET Migrations :
             m = plan[e][k].key /\ way = plan[e][k].direction /\ applied = Applied(e, k - 1) /\ way = Way(e)
      BY <1>1, <2>3, AppliedNext
    <2>7. Applied(e, k) = Moved(applied, m, way)
      BY <1>1, <2>3, <2>6, AppliedNext DEF Moved
    <2>8. ASSUME RestIsNew(e) PROVE \A j \in 1 .. (k + 1) : From(e, j)' = StateOf(Applied(e, j - 1)')
      <3>1. From(e, k) = StateOf(applied)
        BY <2>1, <2>3, <2>6, <2>8 DEF PreflightExact
      <3>2. (way = "forward") = (m \notin recorder) /\ Len(committed[e]) = 0
        <4>1. Len(committed[e]) = 0
          BY <1>1, <2>3, PlanType DEF Control, Progress
        <4>2. k \in (Len(committed[e]) + 1) .. Len(plan[e])
          BY <4>1
        <4> QED BY <2>6, <2>8, <4>1, <4>2 DEF RestIsNew
      <3>3. (way = "forward") = (m \notin applied)
        BY <1>1, <2>3, <2>6, <3>2, AppliedNext
      <3>4. way = "backward" => Disjoint(applied)
        <4>1. recorder \in SUBSET Migrations /\ SoundHistory(recorder)
          BY <1>1 DEF Types, Agreeing
        <4>2. Disjoint(recorder)
          BY <4>1, SoundParts
        <4>3. way = "backward" => applied \subseteq recorder
          BY <2>6 DEF Applied
        <4> QED BY <4>2, <4>3 DEF Disjoint
      <3>5. StateOf(Moved(applied, m, way)) = PreflightState(StateOf(applied), m, way)
        BY <3>3, <3>4, StateOfMoved
      <3>6. prepared'[e][k] = PreflightState(StateOf(applied), m, way)
        BY <2>4, <2>6, <3>1
      <3>7. prepared'[e][k] = StateOf(Applied(e, k))
        BY <2>7, <3>5, <3>6
      <3>8. \A j : Applied(e, j)' = Applied(e, j)
        BY <2>2 DEF Applied, Way
      <3>9. From(e, k + 1)' = StateOf(Applied(e, (k + 1) - 1))
        BY <2>1, <3>7 DEF From
      <3>10. \A j \in 1 .. k : From(e, j) = StateOf(Applied(e, j - 1))
        BY <2>1, <2>3, <2>8 DEF PreflightExact
      <3>11. \A j \in 1 .. (k + 1) : j \in 1 .. k \/ j = k + 1
        BY <2>1
      <3> QED BY <2>5, <3>8, <3>9, <3>10, <3>11
    <2>9. RestIsNew(e)' = RestIsNew(e)
      BY <2>2 DEF RestIsNew
    <2>15. \A j \in 1 .. k : PreflightOK(From(e, j), plan[e][j].key, plan[e][j].direction)
      <3>1. \A j \in 1 .. k : j \in 1 .. Len(prepared[e]) \/ j = k
        BY <2>1, <1>1, PlanType
      <3> QED BY <2>2, <3>1 DEF PreflightExact
    <2> QED BY <2>2, <2>4, <2>5, <2>8, <2>9, <2>15 DEF PreflightExact, StateOf
  <1>7. CASE UNCHANGED <<plan, before, working, committed, step>> /\ ~CommitSucceeds(e)
                /\ ~(PreflightStep(e) /\ ~UNCHANGED prepared) /\ ~Crash(e) /\ ~Return(e)
                /\ ~(\E p \in Plans : Call(e, p))
    <2>1. UNCHANGED recorder
      BY <1>7, DurableStep DEF dbVars
    <2>2. UNCHANGED prepared
      BY <1>7 DEF Moves, Step, Cancel, DriverRollsBack, Start, PreflightShape,
         PreflightEnds, Gate, PlanEnds, BeginMigration, BeginFails, ExecuteOperation, Record, OperationFails,
         RecordFails, StatementFails, Commit, CommitFails, Rollback
    <2> QED BY <1>2, <1>7, <2>1, <2>2
  <1> QED BY <1>3, <1>4, <1>5, <1>6, <1>7, PlanLocals

\* What the database refuses a lone executor, of a step that it could record,
\* is a table that another app has: its own app's schema is the one that its
\* preflight looked at.
LEMMA OperationRefused ==
    ASSUME Agreeing, WorkingIsDurable, NEW e \in Executors, pc[e] = "op", ~cancelled[e],
           lock \in {Nobody, e}, opn[e] <= Len(OpsOf[Key(e)]), CanRecord(e),
           ~DatabasePossible(CurrentOp(e), Direction(e), Visible(e).schema)
    PROVE  TableTaken(e)
  <1>1. Types /\ Control(e) /\ plan[e] # <<>>
    BY WayOfStep DEF Agreeing, Controlled, Running
  <1>2. PICK m \in Migrations, way \in Directions, rows \in SUBSET Migrations :
           m = Key(e) /\ way = Direction(e) /\ rows = recorder
    BY WayOfStep, KnownBefore DEF Running
  <1>t. PICK tables, own : tables = schema /\ own = working[e][AppOf[Key(e)]]
    OBVIOUS
  <1>3. /\ Len(OpsOf[m]) \in Nat /\ AppOf[m] \in Apps
        /\ \A j \in 1 .. Len(OpsOf[m]) : StatePossible(OperationAt(m, way, j), way, StateAt(own, m, way, j))
    BY <1>2, <1>t, WayOfStep, ExecutorAssumption DEF Running, PreflightOK
  <1>4. SoundHistory(rows) /\ tables = Tables(StateOf(rows)) /\ own = StateOf(rows)[AppOf[m]]
    BY <1>2, <1>t, KnownBefore DEF Running, WorkingIsDurable
  <1>5. Disjoint(rows) /\ TablesOwned(rows)
    BY <1>4, SoundParts
  <1>6. PICK i \in 1 .. Len(OpsOf[m]) : i = opn[e]
    BY <1>1, <1>2, <1>t, <1>3 DEF Control, Prepared
  <1>7. Visible(e).schema = StateAt(tables, m, way, i) /\ New(tables, m, way, i)
    <2>1. opn[e] \in 1 .. (Len(OpsOf[Key(e)]) + 1)
      BY <1>2, <1>t, <1>3, <1>6
    <2> QED BY <1>2, <1>t, <1>6, <2>1, VisibleSchema
  <1>8. PICK x : x = OperationAt(m, way, i)
    OBVIOUS
  <1>9. /\ x \in Operations(m) /\ StatePossible(x, way, StateAt(own, m, way, i))
        /\ ~DatabasePossible(x, way, StateAt(tables, m, way, i))
    BY <1>2, <1>t, <1>3, <1>6, <1>7, <1>8, OperationInMigration DEF CurrentOp
  <1>10. PICK done : done = {OperationAt(m, way, j) : j \in 1 .. (i - 1)}
    OBVIOUS
  <1>11. /\ \A y : y \in tables <=> \E n \in rows : y \in Operations(n)
         /\ \A y : y \in own <=> \E n \in rows : AppOf[n] = AppOf[m] /\ y \in Operations(n)
    BY <1>3, <1>4, StateOfElements
  <1>12. way = "forward"
    <2>1. SUFFICES ASSUME way = "backward" PROVE FALSE
      BY DEF Directions
    <2>2. StateAt(tables, m, way, i) = tables \ done /\ StateAt(own, m, way, i) = own \ done
      BY <1>10, <2>1 DEF StateAt
    <2>3. x \in own \ done
      BY <1>9, <2>1, <2>2 DEF StatePossible, CreateModelBackward, AddFieldBackward
    <2>4. x \notin tables \ done
      BY <1>9, <2>1, <2>2 DEF DatabasePossible
    <2> QED BY <1>11, <2>3, <2>4
  <1>13. StateAt(tables, m, way, i) = tables \cup done /\ StateAt(own, m, way, i) = own \cup done
    BY <1>10, <1>12 DEF StateAt
  <1>14. x \notin own \cup done /\ (~IsModel(x) => TableOf[x] \in own \cup done)
    BY <1>9, <1>12, <1>13 DEF StatePossible, CreateModelForward, AddFieldForward
  <1>15. x \in tables
    BY <1>9, <1>11, <1>12, <1>13, <1>14 DEF DatabasePossible
  <1>16. PICK n \in rows : x \in Operations(n) /\ AppOf[n] # AppOf[m]
    BY <1>11, <1>14, <1>15
  <1>17. IsModel(x)
    <2>1. SUFFICES ASSUME TableOf[x] \in own \cup done PROVE FALSE
      BY <1>14
    <2>2. PICK k \in rows : AppOf[k] = AppOf[n] /\ TableOf[x] \in Operations(k)
      BY <1>5, <1>16 DEF TablesOwned
    <2>3. TableOf[x] \notin own
      BY <1>5, <1>11, <1>16, <2>2 DEF Disjoint
    <2>4. TableOf[x] \notin done
      BY <1>7, <1>10, <1>11, <1>12, <2>2 DEF New
    <2> QED BY <2>1, <2>3, <2>4
  <1>18. /\ step[e] = Len(committed[e]) + 1
         /\ plan[e][step[e]].key = m /\ plan[e][step[e]].direction = way
    BY <1>1, <1>2, <1>t DEF Control, Progress, Key, Direction
  <1> QED BY <1>2, <1>t, <1>9, <1>12, <1>16, <1>17, <1>18 DEF TableTaken

LEMMA ReasonKeeps ==
    ASSUME Agreeing, Lone, NEW e \in Executors, Moves(e)
    PROVE  Reason(e)'
  <1>1. Types /\ Control(e) /\ Transaction(e) /\ Reason(e) /\ PreflightExact(e) /\ WorkingIsDurable
    BY DEF Agreeing, Controlled, Lone
  <1> USE DEF dbVars, callVars
  <1>2. ASSUME pc'[e] \notin {"rollback", "returned"} \/ err'[e] = "none" \/ cancelled'[e] \/ faulted'[e]
        PROVE  Reason(e)'
    BY <1>2 DEF Reason
  <1>3. ASSUME NEW p \in Plans, Call(e, p) PROVE Reason(e)'
    BY <1>1, <1>2, <1>3 DEF Call, Goto, Types
  <1>4. CASE Cancel(e) \/ DriverRollsBack(e)
    BY <1>1, <1>2, <1>4 DEF Cancel, DriverRollsBack, Types
  <1>5. CASE Crash(e) \/ Return(e) \/ CommitSucceeds(e)
    BY <1>1, <1>2, <1>5 DEF Crash, Return, Forget, CommitSucceeds, Goto, Types
  <1>6. CASE Start(e)
    BY <1>1, <1>2, <1>6 DEF Start, FailTo, Goto, Types, Control, Errors
  <1>7. CASE PreflightEnds(e) \/ PlanEnds(e)
    BY <1>1, <1>2, <1>7 DEF PreflightEnds, PlanEnds, Goto, Types, Control, Errors
  <1>8. CASE BeginMigration(e) \/ ExecuteOperation(e) \/ Record(e)
    BY <1>1, <1>2, <1>8 DEF BeginMigration, ExecuteOperation, Record, Goto, Types
  <1>9. CASE BeginFails(e) \/ Commit(e) \/ CommitFails(e)
    BY <1>1, <1>2, <1>9 DEF BeginFails, Commit, CommitFails, FailTo, Goto, Types
  <1>10. CASE PreflightShape(e)
    <2>1. step[e] = 1 /\ committed[e] = <<>> /\ UNCHANGED <<committed, plan>>
      BY <1>1, <1>10, PlanType DEF PreflightShape, Control, Progress
    <2>2. CASE PlanShape(plan[e])
      BY <1>1, <1>2, <1>10, <2>2 DEF PreflightShape, Goto, Types
    <2>3. CASE ~PlanShape(plan[e])
      BY <1>1, <1>10, <2>1, <2>3 DEF PreflightShape, FailTo, Goto, Types, Reason, PlanShape
    <2> QED BY <2>2, <2>3
  <1>11. CASE PreflightStep(e)
    <2>1. PICK k \in 1 .. Len(plan[e]) : k = Len(prepared[e]) + 1
      BY <1>1, <1>11, PlanType DEF PreflightStep
    <2>2. step[e] = 1 /\ committed[e] = <<>> /\ PlanShape(plan[e]) /\ UNCHANGED <<committed, plan, before>>
      BY <1>1, <1>11, PlanType DEF PreflightStep, Control, Progress, Prepared
    <2>3. CASE cancelled[e] \/ PreflightOK(From(e, k), plan[e][k].key, plan[e][k].direction)
      BY <1>1, <1>2, <1>11, <2>1, <2>3 DEF PreflightStep, From, FailTo, Goto, Types
    <2>4. CASE ~cancelled[e] /\ ~PreflightOK(From(e, k), plan[e][k].key, plan[e][k].direction)
      <3>1. /\ err'[e] = "state" /\ UNCHANGED prepared
        BY <1>1, <1>11, <2>1, <2>4 DEF PreflightStep, From, FailTo, Types
      <3>2. From(e, k)' = From(e, k)
        BY <2>2, <3>1 DEF From
      <3>3. ~PreflightOK(From(e, k), plan[e][k].key, plan[e][k].direction)'
        BY <2>2, <2>4, <3>2
      <3>4. PlanShape(plan[e])' /\ committed'[e] = <<>>
        BY <2>2 DEF PlanShape
      <3>5. k = Len(prepared'[e]) + 1 /\ k \in 1 .. Len(plan'[e])
        BY <2>1, <2>2, <3>1
      <3> QED BY <3>1, <3>3, <3>4, <3>5 DEF Reason
    <2> QED BY <2>3, <2>4
  <1>12. CASE Gate(e)
    <2>1. step[e] \in 1 .. Len(prepared[e]) /\ working[e] = From(e, step[e])
      BY <1>1, <1>12, StepDefined DEF Gate, Preflighted, Control, Prepared
    <2>2. PreflightOK(working[e], Key(e), Direction(e))
      BY <1>1, <2>1 DEF PreflightExact, Key, Direction
    <2> QED BY <1>1, <1>2, <1>12, <2>2 DEF Gate, FailTo, Goto, Types
  <1>13. CASE OperationFails(e)
    <2>1. /\ pc[e] = "op" /\ opn[e] <= Len(OpsOf[Key(e)]) /\ err'[e] = "operation"
          /\ UNCHANGED <<committed, plan, recorder, cancelled>>
      BY <1>1, <1>13 DEF OperationFails, StatementFails, FailTo, Types
    <2>2. CASE cancelled'[e] \/ faulted'[e]
      BY <1>2, <2>2
    <2>3. CASE ~cancelled'[e] /\ ~faulted'[e]
      <3>1. /\ ~cancelled[e] /\ lock \in {Nobody, e}
            /\ ~DatabasePossible(CurrentOp(e), Direction(e), Visible(e).schema)
        BY <1>1, <1>13, <2>1, <2>3 DEF OperationFails, StatementFails, Types
      <3>2. CASE CanRecord(e)
        <4>1. TableTaken(e)
          BY <1>1, <2>1, <3>1, <3>2, OperationRefused
        <4>2. TableTaken(e)'
          BY <2>1, <4>1 DEF TableTaken
        <4> QED BY <2>1, <4>2 DEF Reason
      <3>3. CASE ~CanRecord(e)
        <4>1. step[e] \in (Len(committed[e]) + 1) .. Len(plan[e])
          BY <1>1, <2>1, PlanType DEF Control, Progress, Running
        <4>2. ~RestIsNew(e)
          BY <3>3, <4>1 DEF RestIsNew, CanRecord, Key, Direction
        <4>3. ~RestIsNew(e)'
          BY <2>1, <4>2 DEF RestIsNew
        <4> QED BY <4>3 DEF Reason
      <3> QED BY <3>2, <3>3
    <2> QED BY <2>2, <2>3
  <1>14. CASE RecordFails(e)
    <2>1. /\ pc[e] = "op" /\ err'[e] = "record" /\ UNCHANGED <<committed, plan, recorder, cancelled>>
      BY <1>1, <1>14 DEF RecordFails, StatementFails, FailTo, Types
    <2>2. CASE cancelled'[e] \/ faulted'[e]
      BY <1>2, <2>2
    <2>3. CASE ~cancelled'[e] /\ ~faulted'[e]
      <3>1. ~RecordPossible(e) /\ lock \in {Nobody, e}
        BY <1>1, <1>14, <2>1, <2>3 DEF RecordFails, StatementFails, Types
      <3>2. Visible(e).recorder = recorder
        BY <1>1, <2>1 DEF Visible, Transaction
      <3>3. (Direction(e) = "forward") # (Key(e) \notin recorder)
        BY <3>1, <3>2 DEF RecordPossible
      <3>4. step[e] \in (Len(committed[e]) + 1) .. Len(plan[e])
        BY <1>1, <2>1, PlanType DEF Control, Progress, Running
      <3>5. ~RestIsNew(e)
        BY <3>3, <3>4 DEF RestIsNew, Key, Direction
      <3>6. ~RestIsNew(e)'
        BY <2>1, <3>5 DEF RestIsNew
      <3> QED BY <2>1, <3>6 DEF Reason
    <2> QED BY <2>2, <2>3
  <1>15. CASE Rollback(e)
    <2>1. /\ pc[e] = "rollback"
          /\ UNCHANGED <<err, cancelled, faulted, committed, plan, before, prepared, recorder>>
      BY <1>15 DEF Rollback
    <2>2. \A k : From(e, k)' = From(e, k)
      BY <2>1 DEF From
    <2>3. /\ RestIsNew(e)' = RestIsNew(e) /\ PlanShape(plan[e])' = PlanShape(plan[e])
          /\ TableTaken(e)' = TableTaken(e)
      BY <2>1 DEF RestIsNew, PlanShape, TableTaken
    <2>4. \A k : PreflightOK(From(e, k), plan[e][k].key, plan[e][k].direction)'
                    = PreflightOK(From(e, k), plan[e][k].key, plan[e][k].direction)
      BY <2>1, <2>2
    <2> QED BY <1>1, <2>1, <2>3, <2>4 DEF Reason
  <1> QED BY <1>3, <1>4, <1>5, <1>6, <1>7, <1>8, <1>9, <1>10, <1>11, <1>12, <1>13, <1>14, <1>15 DEF Moves, Step

LEMMA NextLone ==
    ASSUME \A e, f \in Executors : e = f, Agreeing, Lone, [Next]_vars
    PROVE  Lone'
  <1>1. WorkingIsDurable'
    BY NextWorking DEF Lone
  <1>2. CASE UNCHANGED vars
    <2>1. \A e \in Executors : (PreflightExact(e) <=> PreflightExact(e)') /\ (Reason(e) <=> Reason(e)')
      BY <1>2 DEF vars, dbVars, callVars, PreflightExact, Reason, From, Applied, Way, RestIsNew,
         TableTaken, StateOf
    <2> QED BY <1>1, <2>1 DEF Lone
  <1>3. ASSUME NEW e \in Executors, Moves(e), NEW d \in Executors
        PROVE  PreflightExact(d)' /\ Reason(d)'
    <2>1. d = e
      OBVIOUS
    <2>2. PreflightExact(e)' /\ Reason(e)'
      BY <1>3, PreflightExactKeeps, ReasonKeeps DEF Lone
    <2> QED BY <2>1, <2>2
  <1> QED BY <1>1, <1>2, <1>3, NextMoves DEF Lone

LEMMA InitLone == Init => Lone
  <1> SUFFICES ASSUME Init PROVE Lone
    OBVIOUS
  <1>1. ASSUME NEW e \in Executors
        PROVE  pc[e] = "idle" /\ plan[e] = <<>> /\ prepared[e] = <<>> /\ Len(prepared[e]) = 0
    BY DEF Init
  <1> QED BY <1>1 DEF Lone, WorkingIsDurable, PreflightExact, Reason

LEMMA LoneSucceeds ==
    ASSUME Agreeing, Lone
    PROVE  CleanRunSucceeds
  <1> SUFFICES ASSUME NEW e \in Executors,
                      pc[e] = "returned", ~cancelled[e], ~faulted[e], plan[e] # <<>>, err[e] # "none"
               PROVE  /\ ~RestIsSensible(e)
                      /\ RestIsNew(e) =>
                            \/ err[e] \in {"plan", "state"} /\ committed[e] = <<>>
                            \/ err[e] = "operation" /\ TableTaken(e)
    BY DEF CleanRunSucceeds
  <1>1. Types /\ Control(e) /\ Reason(e) /\ PreflightExact(e)
    BY DEF Agreeing, Controlled, Lone
  <1>2. \/ err[e] = "plan" /\ committed[e] = <<>> /\ ~PlanShape(plan[e])
        \/ /\ err[e] = "state" /\ committed[e] = <<>> /\ PlanShape(plan[e])
           /\ \E k \in 1 .. Len(plan[e]) :
                 /\ k = Len(prepared[e]) + 1
                 /\ ~PreflightOK(From(e, k), plan[e][k].key, plan[e][k].direction)
        \/ ~RestIsNew(e)
        \/ err[e] = "operation" /\ TableTaken(e)
    BY <1>1 DEF Reason
  <1>3. ASSUME RestIsSensible(e), committed[e] = <<>>, NEW k \in 1 .. Len(plan[e]), k = Len(prepared[e]) + 1
        PROVE  PreflightOK(From(e, k), plan[e][k].key, plan[e][k].direction)
    <2>1. /\ PlanShape(plan[e]) /\ RestIsNew(e) /\ Len(committed[e]) = 0
          /\ \A i \in DOMAIN plan[e] : TablesFirst(plan[e][i].key)
      BY <1>3 DEF RestIsSensible
    <2>2. \A i \in 0 .. Len(plan[e]) : SoundHistory(Applied(e, i))
      <3>1. ASSUME NEW i \in 0 .. Len(plan[e])
            PROVE  LET keys == {plan[e][j].key : j \in (0 + 1) .. i}
                   IN  SoundHistory(IF plan[e][1].direction = "forward"
                                    THEN recorder \cup keys ELSE recorder \ keys)
        BY <1>3, <2>1 DEF RestIsSensible
      <3>2. 0 + 1 = 1
        OBVIOUS
      <3> QED BY <3>1, <3>2 DEF Applied, Way
    <2>3. k - 1 \in 0 .. Len(plan[e]) /\ k \in 0 .. Len(plan[e]) /\ k \in DOMAIN plan[e]
          /\ k \in (Len(committed[e]) + 1) .. Len(plan[e])
      BY <1>1, <2>1, PlanType
    <2>4. PICK m \in Migrations, way \in Directions, applied \in SUBSET Migrations :
             m = plan[e][k].key /\ way = plan[e][k].direction /\ applied = Applied(e, k - 1) /\ way = Way(e)
      BY <1>1, <2>1, AppliedNext
    <2>6. Moved(applied, m, way) = Applied(e, k)
      BY <1>1, <2>1, <2>4, AppliedNext DEF Moved
    <2>7. (way = "forward") = (m \notin recorder)
      BY <2>1, <2>3, <2>4 DEF RestIsNew
    <2>8. (way = "forward") = (m \notin applied)
      BY <1>1, <2>1, <2>4, <2>7, AppliedNext
    <2>9. SoundHistory(applied) /\ SoundHistory(Moved(applied, m, way)) /\ TablesFirst(m)
      BY <2>1, <2>2, <2>3, <2>4, <2>6
    <2>10. PreflightOK(StateOf(applied), m, way)
      BY <2>8, <2>9, SensiblePasses
    <2>11. From(e, k) = StateOf(applied)
      <3>1. step[e] = 1
        BY <1>1, <2>1 DEF Control, Progress
      <3>2. k \in 1 .. (Len(prepared[e]) + 1) /\ k <= Len(plan[e])
        BY <1>3
      <3> QED BY <1>1, <2>1, <2>4, <3>1, <3>2 DEF PreflightExact
    <2> QED BY <2>4, <2>10, <2>11
  <1>4. ASSUME RestIsSensible(e), TableTaken(e) PROVE FALSE
    <2>1. PICK n : n = Len(committed[e]) + 1
      OBVIOUS
    <2>2. n \in 1 .. Len(plan[e]) /\ n \in Len(committed[e]) .. Len(plan[e]) /\ n .. n = {n}
      BY <1>1, <2>1, PlanType DEF Control, Progress, Errors
    <2>3. PICK m : m = plan[e][n].key
      OBVIOUS
    <2>4. PICK x \in Operations(m), k \in recorder : x \in Operations(k) /\ AppOf[k] # AppOf[m]
      BY <1>4, <2>1, <2>3 DEF TableTaken
    <2>5. /\ plan[e][n].direction = "forward" /\ m \in Migrations /\ plan[e][1].direction = "forward"
      <3>1. PlanShape(plan[e]) /\ n \in DOMAIN plan[e]
        BY <1>1, <1>4, <2>2, PlanType DEF RestIsSensible
      <3> QED BY <1>4, <2>1, <2>3, <3>1 DEF TableTaken, PlanShape
    <2>6. SoundHistory(recorder \cup {m})
      <3>1. {plan[e][j].key : j \in n .. n} = {m}
        BY <2>2, <2>3
      <3>2. LET keys == {plan[e][j].key : j \in n .. n}
            IN  SoundHistory(IF plan[e][1].direction = "forward"
                             THEN recorder \cup keys ELSE recorder \ keys)
        BY <1>4, <2>1, <2>2 DEF RestIsSensible
      <3> QED BY <2>5, <3>1, <3>2
    <2>7. recorder \cup {m} \in SUBSET Migrations
      BY <1>1, <2>5 DEF Types
    <2>8. Disjoint(recorder \cup {m})
      BY <2>6, <2>7, SoundParts
    <2> QED BY <2>4, <2>8 DEF Disjoint
  <1>5. ~RestIsSensible(e)
    BY <1>2, <1>3, <1>4 DEF RestIsSensible
  <1> QED BY <1>2, <1>5

(***************************************************************************)
(* A lone executor that is not canceled and meets no fault carries out     *)
(* every plan that makes sense, forward and backward, and refuses any      *)
(* other before its first transaction, unless it repeats what is recorded  *)
(* or creates a table that another app has, whatever the definitions are:  *)
(* preflight, database and recorder disagree on nothing else.              *)
(***************************************************************************)
THEOREM SpecCleanRunSucceeds ==
    ASSUME \A e, f \in Executors : e = f
    PROVE  Spec => []CleanRunSucceeds
  <1>1. SameWay'
    BY DEF SameWay
  <1>2. Agreeing /\ Lone /\ [Next]_vars => Agreeing' /\ Lone'
    BY <1>1, NextAgreeing, NextLone
  <1> QED BY <1>2, InitAgreeing, InitLone, LoneSucceeds, PTL DEF Spec
=============================================================================
