# Verification of godj

godj is an ORM and migration framework for Go in the manner of Django. This
directory holds TLA+ models of its concurrent and failure-prone parts and of the
algorithms they rest on, TLC configurations for small instances, and TLAPS
proofs. Every definition that models code is tied to source lines by the `map` of
`PROJECT.json`.

## 1. Inventory

| Component | State | Operations | What is hard |
|---|---|---|---|
| QuerySet evaluation cache (`orm/manager.go`) | per evaluation state: `ready`, `values`, `flight` under one mutex; per flight: `done`, `err` | derive a QuerySet, `All`, `Count`, `Exists`, `At`/`First`, `Iterate` | single flight between goroutines, each with its own context; owner failure, cancellation and panic; warm and cold answers |
| SQLite backend (`db/sqlite/backend.go`) | connection pool, closed flag | `Query`, `Close` | pool of one connection for in-memory databases, rows that stay open |
| Writes (`orm/write.go`, `orm/save.go`, `db/sqlite/write.go`) | rows of a table; the key and its presence flag on the model | `Create`, `Update`, `Delete`, `Save` | `Save` is update-then-insert in two statements; concurrent writers |
| Atomic session (`db/sqlite/transaction.go`) | `active`, `finished`, the `sql.Tx` | `Atomic`, session `Query/Insert/Update/Delete` | panic, cancellation at commit, sessions that escape the callback |
| Migration planner (`migrations/planner.go`, `planner_graph.go`) | immutable graph; per call: working set and plan | `NewPlanner`, `Plan` | several targets in one call, diamonds across apps, inconsistent histories |
| State reconstructor (`migrations/reconstructor.go`) | immutable definitions | `Reconstruct` with five kinds of request | replay in canonical order of what was applied in another one |
| Applied history reader (`migrations/history.go`, `db/sqlite/migration_history.go`) | none; rows of the recorder | `LoadAppliedState` | the snapshot is stale as soon as it is read |
| Migration executor (`migrations/execution.go`, `executor.go`, `operation.go`) | locals of a call; the database is the durable state | `ExecutePlan`, `Apply`, `Unapply` | failure, cancellation or crash in any step; several executors |
| SQLite migration transaction and recorder (`db/sqlite/migration_backend.go`) | a pinned connection, `done` flag | `BeginMigration`, schema operations, record, unrecord, `Commit`, `Rollback` | the connection must come back on every path |
| Schema IR (`schema/`, `schema/ir/`) and project states (`migrations/state.go`) | none (values) | `Build`, `Normalize`, `CreateModel`, `AddField` forward and backward | what is stored is normalized, what is declared is not |
| Query plans and compiler (`query/`, `orm/field.go`, `orm/dynamic.go`, `db/sqlite/compiler.go`) | slices of conditions and orderings, shared between plans | `Filter`, `OrderBy`, `Limit`, `Fresh`, `Compile` | append into shared arrays, LIKE escaping, positional arguments |
| Generated file writer (`codegen/write.go`, `internal/cmd/m1generate`, `writeAtomic` of godjcheck) | files of one directory | write, check | failure, kill or power loss between create, write, sync, verify and rename; concurrent generators |
| Conformance protocol and programs (`conformance/internal/protocol`, `conformance/cmd`, `runners/godj/runner.go`) | files; locals of one run | validate, compare, apply deviations, run scenarios | a gate that is too lenient is noticed by nobody |
| Conformance scenarios, lifecycle fence, code generator, example models | none | | fixed test programs and text generation; see section 7 |

Interactions. A QuerySet calls the backend's `Query` and reads rows on a pooled
connection. `Save` and the other writers call a `Mutator`, which is either the
backend (each statement commits by itself) or a session inside `Atomic`. The planner's output is the executor's
input; both rest on the applied history that the recorder keeps in the same
database and the same transaction as the schema change. The components share
no memory apart from the evaluation state behind its mutex and the atomic flags;
everything else meets in the database.

The properties that make each part correct are listed with the runs (section 4);
the places where the code could go wrong are the `hazards` of `PROJECT.json`.

## 2. Modules

| Module | Models | Notes |
|---|---|---|
| `QuerySetCache` | the five terminals of a QuerySet on shared evaluation states | one label per atomic region of the code |
| `EvaluationCell` | what `All` promises: a write-once cell per evaluation state | abstract specification, refined by `QuerySetCache` |
| `QuerySetCacheProofs` | proofs about `QuerySetCache`, and its refinement of `EvaluationCell` | section 6 has all proofs |
| `MigrationGraph` | graph operators shared by the planner and its reference definitions | no state |
| `Planner` | `Planner.Plan` | one action per loop iteration |
| `PlannerProofs` | proofs about `Planner` | |
| `MigrationExecutor` | `ExecutePlan`, `Apply`/`Unapply`, the migration transaction, crashes and restarts | |
| `MigrationExecutorProofs` | what each executor does, for any plans; what executors do to the schema together, and one on its own | |
| `GraphDiagnosis` | `NewPlanner`: validation of the definitions and the search for a cycle | one action per visit, edge and return of Tarjan's algorithm |
| `SchemaState` | declarations, `Normalize`, project states, both operations, `preflight` | pure functions |
| `StateReconstructor` | `NewStateReconstructor`, `Reconstruct`, `LoadAppliedState` | composes `GraphDiagnosis` and `SchemaState` with an executor that applies and unapplies |
| `StateReconstructorProofs` | proofs of the cycle search of `NewPlanner`, the projections, and the states that migrations lead to | |
| `FoldFacts` | what loops over sequences keep | induction for the folds of the other modules, taken by INSTANCE |
| `QueryPlan` | derivation of plans over Go slices, predicates, `Compile`, and the statement on a table | |
| `QueryPlanProofs` | proofs about the slices of `QueryPlan`, then about its statements and their answers | |
| `GeneratedFile` | `WriteFile`, `verifyTargetPackage`, `writeAtomic` on a file system that can fail | |
| `GeneratedFileProofs` | proofs about `GeneratedFile` | |
| `ProtocolValue` | typed values of observations, their comparison and their change at a path | pure functions |
| `Conformance` | validation, `Compare`, `PrepareDeviationExpectation`, and contractcheck, observationcmp and godjcheck | extends `ProtocolValue` |
| `AtomicWrites` | `Create`, `Update`, `Delete`, `Save` on the backend or on the session of `Atomic` | |
| `AtomicWritesProofs` | calls, sessions, connections and commits of `AtomicWrites`, then its keys and rows | |
| `MC*` | instances for TLC | |

### QuerySetCache

A caller is a goroutine with its own context. `pc` is where it stands:

* `validate`, `check` — argument checks and the context check at the head of the
  loop of `All`;
* `lock` — the critical section of the mutex, one atomic step with three
  outcomes: `LockReady` (take the cache), `LockJoin` (wait for the flight),
  `LockClaim` (become its owner);
* `wait` — the `select`: `WaitCanceled` and `WaitDone`. If both channels are
  ready either may be taken, as in Go;
* `open`, `rows`, `close`, `postio` — backend I/O, one step per row, each of which
  may fail, find the context ended, or panic (`dead`);
* `publish` — the owner's second critical section, with the closing of `done`;
* `clone`, `cached`, `return` — copying the answer out of the cache, and the end.

The database is a sequence of versions: `Write` moves to the next one, and a
statement reads the version that is current when its rows are opened. An answer
is the pair of a version and a number of rows: a list is the first *n* rows of
its version, so that two equal pairs are equal lists. Errors are sets of causes
(`ctx`, `fault`, `usage`), which is all `errors.Is` is asked for. `born` and
`since` are history variables: the version at which an evaluation state was
derived, and at which a call began. Building predicates and orderings is
abstracted; of a plan only its LIMIT is left, because `At` and `Exists` change it.

A panic leaves the flight in place and the rows open, as the code does: there is
no `defer` on that path.

### Planner

`parents` is an arbitrary acyclic graph, which is what `NewPlanner` accepts (`DiagnosisExact`).
Keys are integers in the order `compareMigrationKeys` sorts them; an applied
history may be inconsistent, and targets may be invalid, so both validation
steps can fail. The depth-first searches keep a set where the code
keeps a stack: their result is the set of candidates, and the emission that
follows takes the least ready key, so the order of the visit cannot show.
`ForwardEmit` and `BackwardEmit` are one iteration of the emission loops; their
failure is the internal cycle error.

### MigrationExecutor

A schema is a set of elements, tables and added columns. A project state has such a set for
every app, and `StateOf(recorder)` is what the reconstructor returns for the
recorded history. Preflight looks only at the app of the migration; the database has one namespace
for all of them, `Tables(state)`. Definitions may contradict each other: two apps may claim one table, and two
migrations may introduce the same element, since `NewPlanner` looks at keys and dependencies and `Normalize` at
one schema. Where that matters the preflight passes and the database refuses the `CREATE TABLE` (`TableTaken`).
Only the history that a database starts with is one it can have (`SoundHistory`). `CreateModelForward` and its siblings are the conditions under
which an operation applies to a project state; `DatabasePossible` is the
database's own opinion of the DDL. `copy` holds what an open transaction has
written; it becomes durable in `CommitSucceeds` and in no other action. `lock` is
SQLite's write lock, taken by the first write of a transaction. `faulted` and
`committed` are history variables. A plan may name keys that are no migrations
(`Keys`); the preflight refuses them. `SameWaySpec` is `Spec` without overlapping calls of opposite
directions (see section 4).

`Crash` loses the locals of an executor and its open transaction and keeps the
durable state; the next `Call` reads the recorder again. `DriverRollsBack` is
`database/sql` reacting to a context that ended while a transaction was open.

### AtomicWrites

A writer is a goroutine with one model instance, of which the key and the hidden
presence flag are kept. A row maps fields to the writer that wrote them last, and
remembers the instance whose insert made it (`by`). `Configure` is everything a
write does before its first statement: `writeConfiguration`, validation, and
`buildSaveExecutionPlan`, with every combination of mask and force flags. The
UPDATE and the INSERT of `Save` are two steps between which other writers act. On
the backend a statement commits by itself; in a session it changes `copy`, which
`Commit` makes durable. A statement can fail without effect (`StatementFails`), and it can fail after
its effect: `RowsAffected` or `LastInsertId` returns an error, or the driver reports a context that ended. The
parameter `read` of the four statements says whether the result could be read; if not, the row stays
changed, the write returns an error and the instance is left as it was. `lost` (history) collects the generated keys that an instance was
not given in this way. `res` is `fault` for an error of a statement and `ctx` for a context that had ended before the first one. `seq` is SQLite's AUTOINCREMENT mark, which a rollback
takes back with the rest.

`Atomic` is `Begin`, `CallbackEnds` (nil, error or panic), `CheckContext`, `Commit` or
`CommitFails`, `Rollback`, with `DriverRollsBack` as above. `active` is cleared in the
step in which the callback ends, since nothing lies between the two in the code. A helper goroutine
that the callback started validates the session in one step and runs its
statement in a later one, at which time Atomic may be anywhere. A statement that
was validated before the callback ended may therefore still run until COMMIT, and is then committed
with the rest; one that begins after the callback ended is refused (`LateCallRefused`).

A transaction that is rolled back leaves on the instance the key state its writes
had set, as the comment on `Save` says. An instance in that state (`stale`) may
meet a key that was given out again, or insert a second row; `OwnRowOnly` and
`SaveTwiceOneRow` are about all other instances.

### GraphDiagnosis, SchemaState, StateReconstructor

A key is a number in the order of `migrationKeyLess`, 0 an invalid one. `InputError` is the
first of the five kinds of defect that `newPlannerGraph` looks for, and within
its kind the least one. The recursion of `firstCycleComponent` is a stack of
`frames`, each with the parents that are still to be looked at.

A project state is a function from apps to schemas, with models and fields in
sequence and all that `Normalize` fills in: default tables, default columns and
the implicit `id`. An operation that fails returns the empty set, any other the set
of its result. Which of several defects of a schema an error names is left out.
Loops of the code that walk a sequence are folds: `Keep` (a new slice of what is kept), `Perform` in `Preflight`,
`Emitted`, `TargetProjection`, `ReplayState`. `FieldType`, `ModelType` and `OperationType` are Go's types; in them, only the
kind of an operation and its app may be anything.

`StateReconstructor` has two lives. A caller may `Ask` with any request; or an executor
applies and unapplies migrations in any order the dependencies allow and keeps
its state in memory (`working`), while a process that only has the recorder's rows
loads them and reconstructs. Whether the executor moves on between the two is
up to the interleaving. What the properties do not claim, because the code does not:

* if a migration uses a model without declaring the dependency (`Declared` is
  false), the canonical replay may end in an error, but never in another schema;
* `Before(t1, t2)` where something between the two targets depends on one of them
  replays a set that is not closed, by the definition of that request;
* two apps may claim one database table; `Normalize` looks at one schema at a time.

### QueryPlan

A slice is an address and a length; an array has cells that were never written,
as many as the runtime chose (`spare`). `append` writes in place when there is room, so
that aliasing shows if a derivation forgets to copy. Every QuerySet carries what the calls
that made it mean (`meant`), which no action reads. `Compile` yields tests, sort keys and
positional arguments; `Execute` is SQLite's side of the contract (three-valued
tests, `LIKE ... ESCAPE`, NULL first, binary collation, equal keys in any order), modelled
as external. Text is a sequence of characters because the escaping is the
point; keys of dynamic lookups come already split at the first `__`. `LIKE` reads its pattern from left to
right and keeps the lengths of the text that the pattern so far can match.

### GeneratedFile

A file is an inode and a name a directory entry. `CreateTemp` gives a fresh name,
`Rename` moves the target to the candidate's inode in one step, and
a reader that has opened an inode keeps it. Every operation may fail; a kill
leaves names behind; a power loss tears what was not synced and may undo the newest renames,
since nobody syncs the directory. A nil answer may thus be undone by a power loss,
which `AnswersTrue` excludes and `TargetWhole` does not need. Deferred `Remove` calls are taken to
succeed: the code ignores their errors.

### ProtocolValue and Conformance

A value has the storage of the Go struct, so that a value of one type with the payload of another
exists and must be refused. A file is any member of a set of files in which some
are wrong in one or two places; `wellFormed` stands for patterns of single
fields and for strict decoding. The programs read, validate, prepare and compare
in the order of the code, and each error return is an exit code. GoDj is known
by the observations its scenarios may return. The policy of
`deviation_policy.go` is a constant; its instance has the same shape (a replaced
phase, a replaced value inside a list, an insertion before an item).

## 3. Bounds

| Bound | Where | Why it is enough |
|---|---|---|
| 3 callers, 1 state, 3 flights (`queryset_flight`) | `Callers`, `Flights` | an owner that fails, a waiter that takes over, and a third that joins either; a flight is used again once nobody refers to it |
| 2 states, 2 versions, 2 callers (`queryset_terminals`) | `States`, `MaxVersion` | a cache older than the database, a second QuerySet derived after the write; LIMIT 0 and LIMIT above the row count |
| `MaxCalls` | both | a call per goroutine is enough to meet every other one at every label; the alone run of the executor has two calls, so that one follows a crash or a failure of the other |
| 4 migrations in 2 apps, 2 targets (`planner`) | `N`, `MaxTargets` | smallest size with a diamond and with dependencies that cross apps in both directions; all acyclic graphs and all histories are tried; a second target is planned on what the first one left, and further targets repeat that |
| plans of 3 steps, migrations of one app with 2, 1 and 0 operations, one of another app (`executor_alone`) | `MaxPlan` | failure in the first, a middle and the last step; between two operations of a step; a migration without DDL; a `CREATE TABLE` of a table the other app has, as the first step or after durable ones |
| 2 executors, plans of 2 steps, two starting histories (`executor_race`) | `MaxPlan`, `InitApplied` | each step of a stale plan meets each step of the other one; from {3}, plans of both apps race for one table; from {1, 2}, two executors record a migration without DDL, or drop columns and tables |
| 2 writers, 2 fields, 3 calls each (`writes_direct`) | `Fields`, `MaxCalls` | masks that overlap and masks that do not; create, deletion by the other one, save again; 5 keys, above which nothing new is inserted |
| 1 writer in `Atomic` and 1 on the backend, 2 calls each, 1 write per callback and one of the helper (`writes_session`) | `MaxOps`, `Sharers` | a rollback followed by a save of the same instance, with a foreign insert between them; an insert whose key was lost, and a save after it; the helper's UPDATE against every step of Atomic; 2 keys, above which nothing new is inserted, are enough for two rows of one instance, or for its own row next to a foreign or a lost one; the theorems (section 6) are for any number of keys |
| 4 migrations with up to 2 dependencies each, or 3 with any of eight other sets of operations (`reconstructor`) | `MCInputs`, `MaxDependencies` | two cycles that touch, a cycle below another one, a closed component met again; additions to one model from different branches; operations that clash or are impossible |
| 2 calls, 4 sources (`generated_file`) | `Calls`, `Sources` | a check, or a second write, around a replacement; a source that does not parse and one that does not compile |
| 3 contracts, 2 of them deviating (`conformance`) | `MaxContracts` | an order to get wrong, a passing contract among deviations, several changes to one observation; the 8 to 12 entries of the code are `MinContracts` and `MaxContracts` |
| 3 QuerySets with any pair of predicates, 4 with few; 3 rows; 1 spare cell (`query_plan`) | `Vocabularies`, `MaxSpare` | two children of one parent and a grandchild, with room for exactly the one element that could be overwritten; rows that hold `%`, `_` and the escape character |
| 1 or 2 connections | `MaxConns` | the in-memory pool, and one where two transactions can be open |

## 4. Runs

| Run | Shows |
|---|---|
| `queryset_flight` | `SingleOwner`: at most one `All` per state does I/O. `AllReturnsCache`: what a successful `All` returns is what is cached. `CacheComplete`: a cached list is the whole answer of its version, never a prefix cut by a late error. `CacheStable`: a published cache never changes. `NoForeignCancellation`: a call does not report another call's cancellation. `CanceledWaiterNeverOwns`.  `ImplementsCell`: refinement of `EvaluationCell`. |
| `queryset_terminals` | `AnswersAgree`: every terminal answers as the full list of the version it read would, warm or cold. `NotOlderThanState`: no answer is older than its QuerySet. `Iterate` reads a version of its own call. |
| `queryset_live` | `EveryCallReturns`, unless some call panicked; `CanceledCallReturns`, even then. One connection for all. |
| `planner` | `WorkingClosed`: after every planned step the applied set contains the dependencies of its members. `EmitNeverStuck`: the internal cycle errors are unreachable. `TargetExact`: a single target changes exactly what it asks for, against a definition by transitive closure. `PlanSound`: replaying the concatenated plan from the given history never applies a migration twice, nor without its dependencies, nor removes one that others need. |
| `executor_alone` | `DurablePrefix`: a call makes a prefix of its plan durable, and the state it returns is the durable one. `ResultHonest`: success means all steps, failure means at least one is missing. `CleanRunSucceeds`: without a fault, a plan that makes sense is carried out, and any other is refused before its first transaction, except one that repeats what is recorded or creates a table that another app has, which only the database can refuse. `EveryRunReturns`: also when commits fail or are canceled and there is one connection. |
| `executor_race` | `EachStepOnce`: two executors with the same stale history never both perform a step. `SchemaMatchesRecorder`: at every moment, crashes included, the schema is what the recorded migrations say, also when executors of two apps claim one table. |
| `writes_direct` | `OneRowOrNone`: whatever happened between the statements of `Save`, a write that reports success changed exactly one row, one that ends with a database error at most one, any other none. `MaskedSavesMerge`: a committed field changes only to the value of a writer that was asked to write it. |
| `writes_session` | `AllOrNothing`: every row change made on the session, by a write that succeeded or one that failed after its effect, is durable if `Atomic` returns nil and none is otherwise. `LateCallRefused`. `OwnRowOnly`: a generated key never leads to another instance's row, and no key in use is generated. `SaveTwiceOneRow`: saving an instance again makes no second row of it, apart from rows whose generated keys it was not given. `ConnectionReleased`. |
| `generated_file` | `TargetWhole`: the path names the old file or one complete source, and for m1generate one that compiled with its package, also after a power loss. `AnswersTrue`: a write returns nil exactly if its own rename happened; a check returns nil only if the path held the wanted source at some moment of the call. `NothingLeftBehind`: a call that returned removed its candidate, overlay and output directory. |
| `reconstructor` | `DiagnosisExact`: `NewPlanner` accepts the well-formed acyclic inputs and no others, and names the strongly connected component of the least migration on a cycle. `HistoryIndependent`: the canonical replay of the recorder's rows gives the executor's schema, whatever way led there. `Reversible`: every applied migration that none depends on can be unapplied, which leads to the schema of the rest. `ProjectionExact`: a request replays exactly the migrations it is about, once each, dependencies first. |
| `conformance` | `GateExact`: exit code 0 exactly when every contract was observed as expected, and otherwise the report names the contracts that disagree. `DeviationScoped`: the product expectation differs from Django's observation only where the policy in the code points, and taking the changes back gives Django's observation again. |
| `query_plan` | `PlansIndependent`: a QuerySet is what the calls that made it say, whatever is derived from its relatives. `RowsMeant`: the compiled statement returns the rows that satisfy the lookups, in order, up to the limit; a wrong predicate gives an error and no rows. |

`TypeOK` of `MigrationExecutor`, `AtomicWrites` and `GeneratedFile` holds on the same instances; it is
kept for the proofs and is not among the properties of a run.

`CHECK_DEADLOCK FALSE` everywhere: callers make a bounded number of calls and
then stop, and nothing obliges them to make any.

The race run covers calls that overlap and go in the same direction. Executors with opposite
plans are not serialized by anything: one may apply `AddField` while the other,
from an older history, drops the table, and the recorder then names a migration
whose column is gone. `docs/adr/0015-recorder-backed-applied-state.md` states
this limit and ADR 0017 and 0018 propose a revision fence; the code makes no
contrary promise, so this is a hazard of `PROJECT.json` and not a finding.

## 5. Fairness

* `QuerySetCache`: weak fairness of every step of a running call (a goroutine
  that can run is scheduled), strong fairness of opening rows: `database/sql`
  hands a returned connection to the waiting requests, so a request cannot be
  passed over for ever. Nothing obliges a context to end, the table to change or
  a caller to call.
* `MigrationExecutor`: weak fairness of every step of a call, strong fairness of
  `BeginMigration`, for the same reason. Crashes, cancellations and faults are
  never obliged to happen.

With an unbounded number of callers a waiter of a flight could lose the race for
the mutex for ever; with a bounded number of calls it cannot, which is what
`EveryCallReturns` shows. The other modules state no fairness and claim no liveness: their loops
are bounded by what they run over.

## 6. Proofs

`tlapm` checks the eight proof modules to the last leaf. The constants are arbitrary:
any sets of goroutines, writers, executors, calls, keys, migrations and versions, and any bounds,
subject to the assumptions named in the modules that declare them
(`CacheAssumption`, `PlannerAssumption`, `WritesAssumption`, `SourcesAssumption`,
`InodesAssumption`, `ExecutorAssumption`, `QueryPlanAssumption`, `TableAssumption`, `InputsAssumption`, `ReconstructorAssumption`), which TLC evaluates in every run. They fix
types and keep special values apart. Of the migrations they say that an element's table is its own table, and that the histories a
database may start with are sound: every element was introduced once, and a column by an app that has its table. The
definitions themselves are any, since `NewPlanner` and `Normalize` do not compare apps with each other; that the recorder
stays sound whatever is executed is part of the induction (`Agreeing`). `TableAssumption` says that a model has columns, no two of one name, and a finite number of rows with values of the
kinds of their fields (declared so by the migrations, written so by `Save`), and that the arguments of `Filter` and `OrderBy` are results of `ParseDynamic` or of the methods that
the generated field types have (`Offers`): the fields of `query.Condition` can be set elsewhere, but `orm.Predicate` keeps its condition unexported. Below, for each module, the inductive
invariant and why the property alone would not do. All invariants but those of `PlannerProofs`,
`QueryPlanProofs` and `StateReconstructorProofs` follow one actor each: a step of another actor leaves
the variables of this one alone (lemmas `OtherCalls`, `OtherExecutors`, `OthersKeep`), so what remains is what the
actor's own step does, and what others do to the state they share.

**QuerySetCacheProofs.** `IInv` is the conjunction of

* `TypeOK`;
* `Located`: labels belong to operations, calls and caches to derived states;
* `Ownership`: an owner holds the flight that its cold state points to, and no
  other call owns the same flight. `SingleOwner` alone is not inductive: a flight could be free
  while somebody still works for it;
* `Contexts`: an error with the cause `ctx` belongs to a caller whose own
  context ended, a caller that woke up canceled is on its way out, and a
  connection belongs to open rows;
* `Snapshots`: versions and lengths in flight and in the cache are those of one
  version between the birth of the state and now.

`NextIInv` has one step per action. From it follow `SpecSingleOwner`, `SpecAllReturnsCache`,
`SpecCacheComplete`, `SpecNotOlderThanState`, `SpecNoForeignCancellation`,
`SpecCanceledWaiterNeverOwns`, `SpecRowsReleased` and the action property
`SpecCacheStable`. `Answers` adds what the terminals that do not read everything have counted so far, which
gives `SpecAnswersAgree`. `SpecImplementsCell` shows the refinement: `Init` maps to
the initial cell, and each action to the one of `EvaluationCell` it stands for, or
to a stutter; the only step that fills the cell is `Publish`.

**PlannerProofs.** `IInv` is `TypeOK`, `WorkingClosed`, `TargetInHand`, and, for each direction, what has been searched
and that the search was complete when emission begins. From that a least
element of the remaining candidates in the acyclic order is always ready, hence
`SpecWorkingClosed` and `SpecEmitNeverStuck`. For `SpecPlanSound`, `Replayed` says that the plan
so far is sound and leads from the given history to the working set; a step
appended to it is then sound by `WorkingClosed`. For `SpecTargetExact`, `Aims`
says, for a single target, which part of the wanted change is done and which is still among the candidates;
the lemmas `AncestorsLeast` and `DescendantsLeast` show that the set a finished search has visited is the
transitive closure of the reference definition, by the least fixed point property and without induction.

**AtomicWritesProofs.** `Control` ties, writer by writer, connection and lock to the open
transaction (`Connected`), the session to the callback (`InSession`), the rows changed so far
to the write in progress (`Counted`), and what was changed to what is durable (`Settled`). A statement that took effect and
failed counts as a change, so a write that ends with a database error has changed one row or none.
It gives `SpecConnectionReleased`, `SpecLateCallRefused`, `SpecOneRowOrNone` and
`SpecAllOrNothing`, with helper goroutines, panics and cancellation at any point.

For the rows: at any time there are two versions of the table that the future can start
from: the committed one and that of the lock holder (`Top`). `Ownership` says of both that a generated key is unique, lies
below the AUTOINCREMENT mark that any later insert starts from, and leads to no other instance's row, and that an instance's rows are nowhere
else, but for the rows whose keys it was never given (`Only`, `Alone`); `Merges` says where the two versions may differ. It gives `SpecOwnRowOnly`,
`SpecSaveTwiceOneRow` and `SpecMaskedSavesMerge`. The first version of this proof failed,
rightly: `by` used to name the instance also when a stale instance inserted, so that
`OwnRowOnly` could be lost in an instance with more keys than the run has. The row of a stale or explicit insert now belongs to nobody.

**GeneratedFileProofs.** `Files` says that every inode the path has named since the machine started is whole,
synced and, for m1generate, compiled (`HistoryWhole`), which is why a power loss that goes back to one of them does no
harm; and per call what is on the disk of its candidate, whether it has renamed it, what
a check has read, and which names exist. It gives `SpecTargetWhole`, `SpecAnswersTrue` and `SpecNothingLeftBehind` for any
number of calls.

**MigrationExecutorProofs.** `Controlled` ties the place of a call in its plan to what the preflight
prepared and what was made durable, and the open transaction to the lock and the recorder. `SpecResultHonest` holds for any number of executors
in any directions.
`Agreeing` adds that the recorder is a sound history (`SoundHistory`), that an open transaction has done exactly the
operations before the next one to the schema that is still the durable one (`SchemaCopied`), and what a stale working state is good for (`UpToDate`): going
backward, an executor still knows of everything that is there, and going forward, of nothing else. Without the first, the `DROP TABLE` of one
executor could take a column along that another one added; without the second, an `AddField` could find the table of another app. `SchemaCopied`
speaks only of steps that the recorder will take: a step that repeats what is recorded may have damaged its copy, which then never becomes durable. `SpecSchemaMatchesRecorder` and
`SpecEachStepOnce` are theorems of `SameWaySpec`, any number of executors whose overlapping calls go
the same way: without that they are false, as section 4 explains.
`SpecDurablePrefix` and `SpecCleanRunSucceeds` assume that there is one executor, as their run does: what another executor
commits makes a preflight stale, which is a failure of no environment. The invariant `Lone` says that its
working state is the one the recorder tells of, and why it failed, if it did: `CREATE TABLE` of a table of another app (`TableTaken`) is the
only failure after a passed preflight that is neither a fault nor a repeated step. An `AddField` cannot fail like that, because its column is in a table of its own app (`SoundHistory`).
The proof of the latter found that a plan is carried out only if each migration creates a table before it adds columns to it
(`TablesFirst`), which every migration of the run did; the reference definition `RestIsSensible` now says so.

**QueryPlanProofs.** `Independent` says that the slices of every plan lie in written cells of arrays that no caller holds,
and that their elements are what was asked for. `AppendedEffect` is the crux: `append` changes only the array of the slice it is
given or a new one; `CloneEffect` shows that in a derivation that slice is always one the derivation has just made, and not the array of the
other slice of the plan. Plans of `Fresh` share arrays, which nobody writes. `SpecPlansIndependent` follows for any number of QuerySets and any spare capacity.

`RowsMeant` compares the answer with the calls. `Independent` says that the plan is what the calls mean; the invariant `Asked` that what they mean is
something the compiler takes, since predicates and orderings of the ORM refer to columns of the model with lookups and values of their kinds
(`PredicateAsks`, `OrderingAsks`); and `Answered` that an answer, once given, is the one of `RowsMeant`. Only `Evaluate` changes it, in four steps:
`CompileAsked` (never refused); `ArgumentsBound` (the argument of a test stands at the number of tests with
parameters up to it, so IS NULL shifts nothing) with `LimitBound`; `PassesMeans` (a row passes exactly if it satisfies every condition);
and `ExecuteMeans` (a prefix of a sorted list, for any of the orders that equal keys leave open). The crux of the third is `LikeFinds`: for any two texts that `LIKE` takes whole (section 7), the escaped one between `%` matches
exactly if it occurs. Both loops are folds, so the induction is over the prefixes of the text sought: after each one the
pattern can have matched exactly up to the places where that prefix ends (`EndsOnto`, `EndsAfter`). `EscapeLikeMore` shows that the three passes of `escapeLike` escape each
character once, because the escape character goes first; a pass that came after the others would escape their escapes.

**FoldFacts.** The library's induction theorems take a predicate as a parameter, which the provers here cannot
instantiate; a constant operator of a module they can. `FoldFacts` has the step and the invariant of a loop as constants, `Op` and `Inv`,
and proves once that `FoldLeft` has a run (`FoldRun`, from the well-foundedness of < on the naturals) and keeps what each step keeps
(`FoldKeeps`), that it gives its base for no elements (`FoldNone`), and that an element more is a step more (`FoldMore`). Each loop of the model that a proof is about is an instance.

**StateReconstructorProofs: the planner.** `SpecDiagnosisExact` is a correctness proof of Tarjan's algorithm as
`firstCycleComponent` has it, for any definitions. `DiagnosisExact` only speaks of the answer; the
invariant `Diagnosed` has to say what the stack, the low links and the calls of `visit` that have not
returned mean. The stack falls into segments, one per call. `Linked`: a call reaches everything that was pushed after
it, and everything that was pushed before the next call reaches it. `LowLinks`: a low link below the index of
an outer call proves a path to the caller of that one, so a call that is no root shares its component. `Seen`: the dependencies of
a segment have been visited, and a low link is no greater than the index of any that is still on the stack, so
nothing leads out of the segment of a root (`ComponentClosed`). `DoneClosed`: what was popped is closed under
dependencies; with it no later call can reach back. `Found`: the components so far are exactly those of the finished migrations that lie
on cycles, which `ClosedKeeps` shows for a pop. Low links are handed to the caller also by a root, as in the code;
that changes nothing, since a root's low link is its own index, which is above the caller's. Paths are the least fixed point of `ReachedFrom`,
so they need no induction over their length; a graph without a cycle is `Acyclic` because, of a set of migrations,
one that reaches the fewest others depends on nothing in the set (`AcyclicWithoutCycle`).

**StateReconstructorProofs: projections.** `Arranged(g, s, C)` says that *s* lists *C*, each once and dependencies first. The emission of a closed set
is one (`EmittedArranged`), so is what a filter keeps of one (`KeepArranged`), and two after each other when nothing in the first depends on
the second (`ConcatArranged`), which holds in `TargetProjection` because the closures before are closed. The leaves of the apps reach every migration (`LeavesReachAll`).
`SpecProjectionExact` follows for every request.

**StateReconstructorProofs: states.** Two executors that made the same migrations in different orders hold different sequences of models and fields, so
no invariant can say which state it is. `Facts` takes a state apart into facts, one per model and one per field, that together determine it up to order
(`FactsDetermine`); an operation makes the facts `Made`, which depend on it alone. `Holds(defs, P, s)` says that *s* is its own normal form, that its facts
are those made at the places *P* of the definitions, that no two of these make the same one, and that what a `CreateModel` made still begins its model.
The lemmas about one operation show that it adds exactly its own facts when it succeeds forward (`CreateForwardHolds`, `AddFieldForwardHolds`) and takes exactly these
away backward (`CreateBackwardHolds`, `AddFieldBackwardHolds`), and when it must succeed: forward when all of *P* is part of a state that some execution
reached, so that nothing clashes, and the model is there; backward for `AddField` always, and for `CreateModel` when no other field is left on the model, which is when
`modelEqual` accepts it. `MigrationForward`, `MigrationBackward` and `ReplayHolds` lift this over the loops of `preflight` and `replay`.
The prefix in `Holds` is needed because facts know no order: a model with the fields of `CreateModel` in another order would be refused.

The inductive invariant is `Executed`: the working state `Holds` the operations of the recorded migrations, and the record has no hole (`SpecExecuted`). A replay of the
same record holds the same operations, hence has the same facts: `SpecHistoryIndependent`. That it cannot fail, and that a migration on top of the record can be
unapplied (`TopBare`), needs `Declared`: what an `AddField` needs is created by a migration in its closure, which the arrangement puts first and which cannot be
unapplied before. `SpecReversible` follows. Both are for any definitions that `NewPlanner` accepts, in whatever order migrations are applied and unapplied.

Only model-checked:

* liveness under fairness (`EveryCallReturns`, `CanceledCallReturns`, `EveryRunReturns`);
* `GateExact` and `DeviationScoped`: values nest, and their comparison is a RECURSIVE operator.

## 7. Not modelled, and simplifications

* The definitions passed to `ExecutePlan` are fixed by a constant and valid;
  duplicate and malformed definitions are refused before any effect.
* The capability checks of SQLite before DROP COLUMN are a nondeterministic
  refusal. A failed `COMMIT` is taken as rolled back: what the driver does with the
  connection afterwards is not determined by the sources.
* The code generator: a pure function from a schema to text.
* The conformance scenarios: straight-line test programs over the modelled components.
  The lifecycle fence is a prototype in test files only.
* SQLite's limits on a `LIKE` pattern (50000 bytes by default, above which the statement fails) and its
  handling of NUL characters in one: `RowsMeant` is about texts that `LIKE` takes whole.
* After an error of a statement the model does not say whether the driver or SQLite caused it; every `fault` may
  come before or after the effect of a statement that could have one. That the connection breaks for later calls is left out.
* `CanonicalJSON` and `Hash` of a schema; rendering of errors, logging, SQL text.
* Opening the backend, and closing it while calls run.
* Values and types of fields: unknown fields, wrong types and repeated options are
  refused by the writes before any I/O. `Session.Query` reads and changes nothing.
* Two transactions of `Atomic` at once; a transaction meets writers on the backend.
* A callback that uses the backend instead of its session; with one connection it
  waits for itself.

## 8. Plan

1. (done) query cache, planner, executor, writes with their runs; proofs for the
   first two.
2. (done) diagnostics of `NewPlanner`, reconstructor with normalized schemas, file
   writer, query plans and compiler, conformance gate.
3. (done) proofs of every safety invariant, action property and refinement that the runs of the
   cache, the planner, the executor, the writes, the file writer, the reconstructor and the query plans check.
4. Left to TLC: liveness, and `GateExact` and `DeviationScoped`, which need the comparison of nested values without
   a RECURSIVE operator, and an induction over the depth of values.
