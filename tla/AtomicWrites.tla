---------------------------- MODULE AtomicWrites ----------------------------
(***************************************************************************)
(* Manager.Create, Update, Delete and Save (orm/write.go, orm/save.go) on  *)
(* the SQLite backend (db/sqlite/write.go), directly or through the        *)
(* session of Backend.Atomic (db/sqlite/transaction.go).                   *)
(*                                                                         *)
(* Every writer has one model instance, of which the key and its presence  *)
(* flag are kept.  A field of a row holds the name of the writer that      *)
(* wrote it last, so what was written, and by whom, can be read off.       *)
(* Calls of other writers fall between any two statements; contexts end,   *)
(* statements and commits fail, a statement takes effect and still returns *)
(* an error, callbacks fail or panic, and a goroutine that the callback    *)
(* started keeps using the session.                                        *)
(***************************************************************************)
EXTENDS Integers, FiniteSets

CONSTANTS
    Writers,
    Fields,         \* writable, non-key fields of the model
    MaxKey,         \* bound: greatest primary key
    ExplicitKeys,   \* keys a caller gives to New<Model>WithID
    Masks,          \* update masks, and fields of patches, that callers pass
    Kinds,          \* operations that callers use
    Direct, Atomic, \* writers that use the backend itself, and Atomic
    Sharers,        \* writers whose callback shares its session
    MaxConns,       \* connections of the pool (1 for OpenMemory)
    MaxCalls,       \* bound: calls of one writer outside a callback
    MaxOps          \* bound: writes of one callback

Nobody == "nobody"
Keys == 0 .. MaxKey

ASSUME WritesAssumption ==
    /\ Nobody \notin Writers
    /\ MaxKey \in Nat /\ ExplicitKeys \subseteq Keys
    /\ Masks \subseteq SUBSET Fields
    /\ Kinds \subseteq {"create", "save", "update", "delete"}
    /\ Direct \cup Atomic \cup Sharers \subseteq Writers
    /\ MaxConns \in Nat \ {0} /\ MaxCalls \in Nat /\ MaxOps \in Nat

VARIABLES
    db,             \* committed rows, and the AUTOINCREMENT high-water mark
    lock,           \* writer whose transaction has begun to write
    conns,          \* writers whose transaction holds a connection
    copy,           \* what an open transaction has written
    txopen,         \* the sql.Tx is not done
    active,         \* transactionSession.active
    pc,
    scope,          \* "direct", or "atomic" from Atomic on
    plan,           \* the write in progress
    inst,           \* the model instance: key and presence
    res,            \* result of the last write, and in the end of the call
    cancelled,
    helper,         \* goroutine that shares the session
    calls, ops,
    hist            \* what happened so far, see NoHistory

txVars == <<conns, txopen, copy, lock>>
callVars == <<scope, calls, ops>>
vars == <<db, txVars, active, pc, callVars, plan, inst, res, cancelled, helper, hist>>

Labels == {"idle", "config", "update", "insert", "delete", "begin", "callback",
           "ctxcheck", "commit", "rollback", "return"}
Results == {"none", "ok", "noop", "ctx", "refused", "not_updated",
            "unexpected_rows", "unique", "fault", "callback", "panic", "commit"}

\* Arguments of the four operations.  A masked Save has an update mask; the
\* fields of an Update are those that its patch sets.
Requests ==
    {r \in [kind : Kinds, masked : BOOLEAN, fields : Masks \cup {Fields},
            force : SUBSET {"insert", "update"}] :
        /\ r.kind # "save" => r.force = {} /\ r.masked = (r.kind = "update")
        /\ ~r.masked => r.fields = Fields}

NoPlan == [kind |-> "none", update |-> FALSE, insert |-> "none", fields |-> {}]
NoHelper == [pc |-> "none", late |-> FALSE, res |-> "none"]

\* changed: rows that the write in progress has changed.
\* made, durable: row changes of the call, reported or not, and those that
\*   are committed.
\* lost: keys that were generated for the instance and that it was not given,
\*   because the result of the insert was lost.
\* touched: fields that the call was asked to write.
\* rekeyed: the open transaction changed the key of the instance.
\* stale: a transaction that did so was rolled back.
\* explicit: the key of the instance was given by the caller.
\* foreign: with neither, the instance wrote a row that another such one inserted,
\*   or was given the key of a row.
NoHistory ==
    [changed |-> 0, made |-> 0, durable |-> 0, touched |-> {}, lost |-> {},
     rekeyed |-> FALSE, stale |-> FALSE, explicit |-> FALSE, foreign |-> FALSE]

\* Instances of callers: a new one, one whose ID was set without presence,
\* and New<Model>WithID.
Absent == [key |-> 0, present |-> FALSE]
Instances == {Absent} \cup [key : ExplicitKeys, present : BOOLEAN]

Row(w, by) == [val |-> [f \in Fields |-> w], by |-> by]
Put(rows, k, row) == [i \in DOMAIN rows \cup {k} |-> IF i = k THEN row ELSE rows[i]]
Without(rows, k) == [i \in DOMAIN rows \ {k} |-> rows[i]]
EmptyTable == [i \in {} |-> Row(Nobody, Nobody)]

Init ==
    /\ db \in {[rows |-> EmptyTable, seq |-> 0]}
              \cup {[rows |-> Put(EmptyTable, k, Row(Nobody, Nobody)), seq |-> k] :
                      k \in ExplicitKeys}
    /\ lock = Nobody /\ conns = {}
    /\ copy = [w \in Writers |-> [rows |-> EmptyTable, seq |-> 0]]
    /\ txopen = [w \in Writers |-> FALSE]
    /\ active = [w \in Writers |-> FALSE]
    /\ pc = [w \in Writers |-> "idle"]
    /\ scope = [w \in Writers |-> "direct"]
    /\ plan = [w \in Writers |-> NoPlan]
    /\ inst \in [Writers -> Instances]
    /\ res = [w \in Writers |-> "none"]
    /\ cancelled = [w \in Writers |-> FALSE]
    /\ helper = [w \in Writers |-> NoHelper]
    /\ calls = [w \in Writers |-> 0]
    /\ ops = [w \in Writers |-> 0]
    /\ hist = [w \in Writers |-> [NoHistory EXCEPT !.explicit = inst[w].present]]

Goto(w, label) == pc' = [pc EXCEPT ![w] = label]

\* A write has its result and goes back to the caller or to the callback.
OpEnds(w, result) ==
    /\ plan' = [plan EXCEPT ![w] = NoPlan]
    /\ res' = [res EXCEPT ![w] = result]
    /\ Goto(w, IF scope[w] = "direct" THEN "return" ELSE "callback")

-----------------------------------------------------------------------------
(* Callers.                                                                *)

\* A write on the backend itself.
CallDirect(w) ==
    /\ w \in Direct /\ pc[w] = "idle" /\ calls[w] < MaxCalls
    /\ Goto(w, "config")
    /\ scope' = [scope EXCEPT ![w] = "direct"]
    /\ calls' = [calls EXCEPT ![w] = @ + 1]
    /\ UNCHANGED <<db, txVars, active, plan, ops, inst, res, cancelled, helper, hist>>

\* A write of the callback on its session.
CallSession(w) ==
    /\ pc[w] = "callback" /\ ops[w] < MaxOps
    /\ Goto(w, "config")
    /\ ops' = [ops EXCEPT ![w] = @ + 1]
    /\ UNCHANGED <<db, txVars, active, scope, plan, calls, inst, res, cancelled,
                   helper, hist>>

\* Atomic is called.  An earlier session is not followed any longer.
CallAtomic(w) ==
    /\ w \in Atomic /\ pc[w] = "idle" /\ calls[w] < MaxCalls /\ helper[w].pc # "running"
    /\ Goto(w, "begin")
    /\ scope' = [scope EXCEPT ![w] = "atomic"]
    /\ helper' = [helper EXCEPT ![w] = NoHelper]
    /\ ops' = [ops EXCEPT ![w] = 0]
    /\ calls' = [calls EXCEPT ![w] = @ + 1]
    /\ UNCHANGED <<db, txVars, active, plan, inst, res, cancelled, hist>>

Cancel(w) ==
    /\ pc[w] # "idle" /\ ~cancelled[w]
    /\ cancelled' = [cancelled EXCEPT ![w] = TRUE]
    /\ UNCHANGED <<db, txVars, active, pc, callVars, plan, inst, res, helper, hist>>

\* The call returns; the next one has a fresh context.
Return(w) ==
    /\ pc[w] = "return"
    /\ Goto(w, "idle")
    /\ cancelled' = [cancelled EXCEPT ![w] = FALSE]
    /\ res' = [res EXCEPT ![w] = "none"]
    /\ hist' = [hist EXCEPT ![w] =
          [@ EXCEPT !.changed = 0, !.made = 0, !.durable = 0, !.touched = {}]]
    /\ UNCHANGED <<db, txVars, active, callVars, plan, inst, helper>>

-----------------------------------------------------------------------------
(* Plans.                                                                  *)

\* Save is refused before any I/O: both force flags, force_insert with a
\* mask, a key without presence, or an update-only save without a key.
\* Masks with unknown fields and repeated options are refused as well and
\* are not in Requests.
SaveRefused(i, r) ==
    \/ r.force = {"insert", "update"}
    \/ /\ ~(r.masked /\ r.fields = {})
       /\ \/ "insert" \in r.force /\ r.masked
          \/ ~i.present /\ (i.key # 0 \/ "update" \in r.force \/ r.masked)

\* resolveSaveFields and saveAssignments: the fields of the mask, or all.
SelectedFields(r) == IF r.masked THEN r.fields ELSE Fields

\* Faulty variant: the mask decides whether to insert, but not what to write.
SavePlanAllFields(i, r) ==
    LET updateOnly == "update" \in r.force \/ r.masked
        noop == r.masked /\ r.fields = {}
    IN  [kind |-> "save",
         update |-> ~noop /\ i.present /\ "insert" \notin r.force,
         insert |-> IF noop \/ (i.present /\ updateOnly) THEN "none"
                    ELSE IF i.present THEN "explicit" ELSE "generated",
         fields |-> Fields]

\* buildSaveExecutionPlan: an empty mask is a no-op; without a key insert,
\* with a key update, and insert if nothing was updated unless the caller
\* asked for an update only.
SavePlan(i, r) ==
    LET updateOnly == "update" \in r.force \/ r.masked
        noop == r.masked /\ r.fields = {}
    IN  [kind |-> "save",
         update |-> ~noop /\ i.present /\ "insert" \notin r.force,
         insert |-> IF noop \/ (i.present /\ updateOnly) THEN "none"
                    ELSE IF i.present THEN "explicit" ELSE "generated",
         fields |-> SelectedFields(r)]

\* validateMutation, for the mutations that generated inputs build.
PatchValid(r) == r.fields # {}

\* Update and Delete need an explicit key, Update a patch that sets a field.
Refused(i, r) ==
    CASE r.kind = "create" -> FALSE
      [] r.kind = "save"   -> SaveRefused(i, r)
      [] r.kind = "update" -> ~i.present \/ ~PatchValid(r)
      [] r.kind = "delete" -> ~i.present

PlanOf(i, r) ==
    CASE r.kind = "create" -> [NoPlan EXCEPT !.kind = "create", !.insert = "generated"]
      [] r.kind = "save"   -> SavePlan(i, r)
      [] r.kind = "update" -> [NoPlan EXCEPT !.kind = "update", !.update = TRUE,
                                             !.fields = r.fields]
      [] r.kind = "delete" -> [NoPlan EXCEPT !.kind = "delete"]

FirstLabel(p) ==
    IF p.kind = "delete" THEN "delete"
    ELSE IF p.update THEN "update"
    ELSE IF p.insert # "none" THEN "insert" ELSE "noop"

\* writeConfiguration: the context has ended.
ConfigureCanceled(w) ==
    /\ pc[w] = "config" /\ cancelled[w]
    /\ OpEnds(w, "ctx")
    /\ hist' = [hist EXCEPT ![w].changed = 0]
    /\ UNCHANGED <<db, txVars, active, callVars, inst, cancelled, helper>>

\* writeConfiguration, and the validation and planning of a write with the
\* arguments r, all before the first statement.  Create makes a new
\* instance, so it is followed only when the old one has no key.
Configure(w, r) ==
    /\ pc[w] = "config" /\ ~cancelled[w]
    /\ r.kind = "create" => ~inst[w].present
    /\ hist' = [hist EXCEPT ![w].changed = 0, ![w].touched = @ \cup r.fields]
    /\ IF Refused(inst[w], r)
       THEN OpEnds(w, "refused")
       ELSE LET p == PlanOf(inst[w], r) IN
            IF FirstLabel(p) = "noop"
            THEN OpEnds(w, "noop")
            ELSE /\ plan' = [plan EXCEPT ![w] = p]
                 /\ Goto(w, FirstLabel(p))
                 /\ UNCHANGED res
    /\ UNCHANGED <<db, txVars, active, callVars, inst, cancelled, helper>>

-----------------------------------------------------------------------------
(* Statements.                                                             *)

\* What a statement of w sees: the first write of a transaction takes the
\* database's write lock and with it the committed state.
View(w) == IF lock = w THEN copy[w] ELSE db

\* Faulty variant: only the context is checked.
SessionValidIgnoresActive(w) == ~cancelled[w]

\* validate, before a session's statement.
SessionValid(w) == active[w] /\ ~cancelled[w]

\* A statement runs: outside a transaction it needs a connection and no
\* other writer, in one a valid session and an open transaction.
CanRun(w) ==
    /\ ~cancelled[w]
    /\ IF scope[w] = "direct"
       THEN lock = Nobody /\ Cardinality(conns) < MaxConns
       ELSE SessionValid(w) /\ txopen[w] /\ lock \in {Nobody, w}

\* The statement leaves d: committed at once, or in the transaction.
Leaves(w, d) ==
    IF scope[w] = "direct"
    THEN db' = d /\ UNCHANGED txVars
    ELSE /\ copy' = [copy EXCEPT ![w] = d]
         /\ lock' = w
         /\ UNCHANGED <<db, conns, txopen>>

\* Bookkeeping of a changed row; rekeyed says that the instance changed, and
\* lost which generated keys it was not given.
Changed(w, k, rekeyed, lost) ==
    LET rows == View(w).rows
        others == k \in DOMAIN rows /\ (inst[w].present => rows[k].by \notin {Nobody, w})
        h == hist[w]
    IN  hist' = [hist EXCEPT ![w] = [h EXCEPT
            !.changed = h.changed + 1, !.made = h.made + 1, !.lost = lost,
            !.durable = IF scope[w] = "direct" THEN h.durable + 1 ELSE h.durable,
            !.foreign = h.foreign \/ (others /\ ~h.explicit /\ ~h.stale),
            !.explicit = h.explicit /\ ~rekeyed,
            !.rekeyed = h.rekeyed \/ (rekeyed /\ scope[w] = "atomic")]]

Overwrite(w, row, fields) ==
    [val |-> [f \in Fields |-> IF f \in fields THEN w ELSE row.val[f]], by |-> row.by]

\* A statement that takes effect, at once on the backend, may still return an
\* error: RowsAffected or LastInsertId fails, or the driver reports that the
\* context ended.  read says that its result was read; if not, the write
\* fails and leaves the instance as it is.
Outcome(read) == IF read THEN "ok" ELSE "fault"

\* Faulty variant: Save goes on to its insert after a successful update.
UpdateRowGoesOn(w, read) ==
    LET k == inst[w].key d == View(w) IN
    /\ pc[w] = "update" /\ CanRun(w) /\ k \in DOMAIN d.rows
    /\ Leaves(w, [d EXCEPT !.rows[k] = Overwrite(w, d.rows[k], plan[w].fields)])
    /\ Changed(w, k, FALSE, hist[w].lost)
    /\ IF plan[w].insert = "explicit" /\ read
       THEN Goto(w, "insert") /\ UNCHANGED <<plan, res>>
       ELSE OpEnds(w, Outcome(read))
    /\ UNCHANGED <<active, callVars, inst, cancelled, helper>>

\* Faulty variant: an error of the UPDATE counts as no row.
UpdateRowErrorGoesOn(w, read) ==
    LET k == inst[w].key d == View(w) IN
    /\ pc[w] = "update" /\ CanRun(w) /\ k \in DOMAIN d.rows
    /\ Leaves(w, [d EXCEPT !.rows[k] = Overwrite(w, d.rows[k], plan[w].fields)])
    /\ Changed(w, k, FALSE, hist[w].lost)
    /\ IF plan[w].insert = "explicit" /\ ~read
       THEN Goto(w, "insert") /\ UNCHANGED <<plan, res>>
       ELSE OpEnds(w, Outcome(read))
    /\ UNCHANGED <<active, callVars, inst, cancelled, helper>>

\* UPDATE changes the one row with the key.
UpdateRow(w, read) ==
    LET k == inst[w].key d == View(w) IN
    /\ pc[w] = "update" /\ CanRun(w) /\ k \in DOMAIN d.rows
    /\ Leaves(w, [d EXCEPT !.rows[k] = Overwrite(w, d.rows[k], plan[w].fields)])
    /\ Changed(w, k, FALSE, hist[w].lost)
    /\ OpEnds(w, Outcome(read))
    /\ UNCHANGED <<active, callVars, inst, cancelled, helper>>

\* UPDATE changes no row: Save goes on to its insert if it has one.
UpdateNone(w) ==
    /\ pc[w] = "update" /\ CanRun(w) /\ inst[w].key \notin DOMAIN View(w).rows
    /\ Leaves(w, View(w))
    /\ IF plan[w].insert = "explicit"
       THEN Goto(w, "insert") /\ UNCHANGED <<plan, res>>
       ELSE OpEnds(w, IF plan[w].kind = "save" THEN "not_updated" ELSE "unexpected_rows")
    /\ UNCHANGED <<active, callVars, inst, cancelled, helper, hist>>

\* Faulty variant: a table without AUTOINCREMENT.
NextKeyOfRows(d) ==
    CHOOSE k \in 1 .. MaxKey + 1 : /\ k \notin DOMAIN d.rows
                                   /\ \A i \in DOMAIN d.rows : i < k
                                   /\ k > 1 => k - 1 \in DOMAIN d.rows

\* AUTOINCREMENT: a key above every key the table has ever had.
NextKey(d) == d.seq + 1

\* Faulty variant: the instance is not told its key.
InsertForgetsKey(w, read) ==
    LET d == View(w) k == NextKey(d) IN
    /\ pc[w] = "insert" /\ plan[w].insert = "generated" /\ CanRun(w)
    /\ k \in Keys
    /\ Leaves(w, [rows |-> Put(d.rows, k, Row(w, w)), seq |-> k])
    /\ Changed(w, k, FALSE, IF read THEN hist[w].lost ELSE hist[w].lost \cup {k})
    /\ OpEnds(w, Outcome(read))
    /\ UNCHANGED <<active, callVars, inst, cancelled, helper>>

\* INSERT without a key, and SetPrimaryKey on the instance if it was read.
InsertGenerated(w, read) ==
    LET d == View(w) k == NextKey(d) IN
    /\ pc[w] = "insert" /\ plan[w].insert = "generated" /\ CanRun(w)
    /\ k \in Keys
    /\ Leaves(w, [rows |-> Put(d.rows, k, Row(w, w)), seq |-> k])
    /\ IF read
       THEN /\ inst' = [inst EXCEPT ![w] = [key |-> k, present |-> TRUE]]
            /\ Changed(w, k, TRUE, hist[w].lost \ {k})
       ELSE /\ Changed(w, k, FALSE, hist[w].lost \cup {k})
            /\ UNCHANGED inst
    /\ OpEnds(w, Outcome(read))
    /\ UNCHANGED <<active, callVars, cancelled, helper>>

\* Faulty variant: an explicit key does not raise the sequence.
InsertKeepsSequence(w, read) ==
    LET d == View(w) k == inst[w].key
        by == IF hist[w].explicit \/ hist[w].stale THEN Nobody ELSE w
    IN
    /\ pc[w] = "insert" /\ plan[w].insert = "explicit" /\ CanRun(w)
    /\ IF k \in DOMAIN d.rows
       THEN Leaves(w, d) /\ OpEnds(w, "unique") /\ UNCHANGED hist
       ELSE /\ Leaves(w, [d EXCEPT !.rows = Put(@, k, Row(w, by))])
            /\ Changed(w, k, FALSE, hist[w].lost)
            /\ OpEnds(w, Outcome(read))
    /\ UNCHANGED <<active, callVars, inst, cancelled, helper>>

\* INSERT with the key of the instance, which may be taken.
InsertExplicit(w, read) ==
    LET d == View(w) k == inst[w].key
        by == IF hist[w].explicit \/ hist[w].stale THEN Nobody ELSE w
    IN
    /\ pc[w] = "insert" /\ plan[w].insert = "explicit" /\ CanRun(w)
    /\ IF k \in DOMAIN d.rows
       THEN Leaves(w, d) /\ OpEnds(w, "unique") /\ UNCHANGED hist
       ELSE /\ Leaves(w, [rows |-> Put(d.rows, k, Row(w, by)),
                          seq |-> IF k > d.seq THEN k ELSE d.seq])
            /\ Changed(w, k, FALSE, hist[w].lost)
            /\ OpEnds(w, Outcome(read))
    /\ UNCHANGED <<active, callVars, inst, cancelled, helper>>

\* DELETE of the row with the key, and ClearPrimaryKey on the instance if the
\* result was read.
DeleteRow(w, read) ==
    LET k == inst[w].key d == View(w) IN
    /\ pc[w] = "delete" /\ CanRun(w)
    /\ IF k \in DOMAIN d.rows
       THEN /\ Leaves(w, [d EXCEPT !.rows = Without(d.rows, k)])
            /\ inst' = IF read THEN [inst EXCEPT ![w] = Absent] ELSE inst
            /\ Changed(w, k, read, hist[w].lost)
            /\ OpEnds(w, Outcome(read))
       ELSE Leaves(w, d) /\ OpEnds(w, "unexpected_rows") /\ UNCHANGED <<inst, hist>>
    /\ UNCHANGED <<active, callVars, cancelled, helper>>

\* A statement fails without effect: the context ended, also while waiting
\* for a connection, the session is not valid, another writer holds the lock,
\* a trigger ignores the row, or the driver fails.
StatementFails(w) ==
    /\ pc[w] \in {"update", "insert", "delete"}
    /\ OpEnds(w, "fault")
    /\ UNCHANGED <<db, txVars, active, callVars, inst, cancelled, helper, hist>>

-----------------------------------------------------------------------------
(* Atomic.                                                                 *)

\* validateWriteContext and BeginTx, which waits for a connection.
Begin(w) ==
    /\ pc[w] = "begin" /\ ~cancelled[w]
    /\ Cardinality(conns) < MaxConns
    /\ conns' = conns \cup {w}
    /\ txopen' = [txopen EXCEPT ![w] = TRUE]
    /\ active' = [active EXCEPT ![w] = TRUE]
    /\ Goto(w, "callback")
    /\ UNCHANGED <<db, copy, lock, callVars, plan, inst, res, cancelled, helper, hist>>

BeginFails(w) ==
    /\ pc[w] = "begin"
    /\ res' = [res EXCEPT ![w] = IF cancelled[w] THEN "ctx" ELSE "fault"]
    /\ Goto(w, "return")
    /\ UNCHANGED <<db, txVars, active, callVars, plan, inst, cancelled, helper, hist>>

\* The sql.Tx is done: its connection and its lock are free again.
TxDone(w) ==
    /\ txopen' = [txopen EXCEPT ![w] = FALSE]
    /\ conns' = conns \ {w}
    /\ lock' = IF lock = w THEN Nobody ELSE lock
    /\ copy' = [copy EXCEPT ![w] = [rows |-> EmptyTable, seq |-> 0]]

\* The transaction is given up.
Discard(w) ==
    /\ TxDone(w)
    /\ hist' = [hist EXCEPT ![w] =
          [@ EXCEPT !.stale = hist[w].stale \/ hist[w].rekeyed, !.rekeyed = FALSE]]

\* Faulty variant: an error of the callback does not prevent the commit.
CallbackErrorCommits(w, result) ==
    /\ pc[w] = "callback"
    /\ active' = [active EXCEPT ![w] = FALSE]
    /\ res' = [res EXCEPT ![w] = result]
    /\ Goto(w, IF result = "panic" THEN "rollback" ELSE "ctxcheck")
    /\ UNCHANGED <<db, txVars, callVars, plan, inst, cancelled, helper, hist>>

\* Faulty variant: there is no deferred function.
CallbackPanicLeaks(w, result) ==
    /\ pc[w] = "callback"
    /\ active' = [active EXCEPT ![w] = FALSE]
    /\ res' = [res EXCEPT ![w] = result]
    /\ Goto(w, CASE result = "ok" -> "ctxcheck"
                 [] result = "panic" -> "return"
                 [] OTHER -> "rollback")
    /\ UNCHANGED <<db, txVars, callVars, plan, inst, cancelled, helper, hist>>

\* The callback returns, fails or panics; the session ends with it.  A
\* panic runs the deferred function, which rolls back as well.
CallbackEnds(w, result) ==
    /\ pc[w] = "callback"
    /\ active' = [active EXCEPT ![w] = FALSE]
    /\ res' = [res EXCEPT ![w] = result]
    /\ Goto(w, IF result = "ok" THEN "ctxcheck" ELSE "rollback")
    /\ UNCHANGED <<db, txVars, callVars, plan, inst, cancelled, helper, hist>>

CheckContext(w) ==
    /\ pc[w] = "ctxcheck"
    /\ IF cancelled[w]
       THEN res' = [res EXCEPT ![w] = "ctx"] /\ Goto(w, "rollback")
       ELSE Goto(w, "commit") /\ UNCHANGED res
    /\ UNCHANGED <<db, txVars, active, callVars, plan, inst, cancelled, helper, hist>>

Commit(w) ==
    /\ pc[w] = "commit" /\ ~cancelled[w] /\ txopen[w]
    /\ db' = View(w)
    /\ TxDone(w)
    /\ hist' = [hist EXCEPT ![w] = [@ EXCEPT !.durable = hist[w].made, !.rekeyed = FALSE]]
    /\ Goto(w, "return")
    /\ UNCHANGED <<active, callVars, plan, inst, res, cancelled, helper>>

\* Commit fails: database/sql sees the context ended and leaves the
\* transaction as it is, or COMMIT fails and the transaction is done.
CommitFails(w) ==
    /\ pc[w] = "commit"
    /\ IF cancelled[w]
       THEN res' = [res EXCEPT ![w] = "ctx"] /\ UNCHANGED <<txVars, hist>>
       ELSE res' = [res EXCEPT ![w] = "commit"] /\ Discard(w)
    /\ Goto(w, "rollback")
    /\ UNCHANGED <<db, active, callVars, plan, inst, cancelled, helper>>

\* Rollback, for which a transaction that is already done is no error.
Rollback(w) ==
    /\ pc[w] = "rollback"
    /\ IF txopen[w] THEN Discard(w) ELSE UNCHANGED <<txVars, hist>>
    /\ Goto(w, "return")
    /\ UNCHANGED <<db, active, callVars, plan, inst, res, cancelled, helper>>

\* database/sql rolls back a transaction whose context has ended.
DriverRollsBack(w) ==
    /\ cancelled[w] /\ txopen[w]
    /\ Discard(w)
    /\ UNCHANGED <<db, active, pc, callVars, plan, inst, res, cancelled, helper>>

-----------------------------------------------------------------------------
(* A goroutine that the callback starts and that keeps its session.        *)

InCallback(w) ==
    /\ scope[w] = "atomic"
    /\ pc[w] \in {"callback", "config", "update", "insert", "delete"}

StartHelper(w) ==
    /\ w \in Sharers /\ pc[w] = "callback" /\ helper[w].pc = "none"
    /\ helper' = [helper EXCEPT ![w].pc = "ready"]
    /\ UNCHANGED <<db, txVars, active, pc, callVars, plan, inst, res, cancelled, hist>>

HelperCall(w) ==
    /\ helper[w].pc = "ready"
    /\ helper' = [helper EXCEPT ![w] =
          [pc |-> IF SessionValid(w) THEN "running" ELSE "done",
           late |-> ~InCallback(w),
           res |-> IF SessionValid(w) THEN "none" ELSE "refused"]]
    /\ UNCHANGED <<db, txVars, active, pc, callVars, plan, inst, res, cancelled, hist>>

\* The statement, an UPDATE of all fields of some row, on the sql.Tx; its
\* result may be lost as well.
HelperUpdates(w, k, read) ==
    /\ helper[w].pc = "running" /\ ~cancelled[w]
    /\ txopen[w] /\ lock \in {Nobody, w} /\ k \in DOMAIN View(w).rows
    /\ copy' = [copy EXCEPT ![w] =
          [View(w) EXCEPT !.rows[k] = Overwrite(w, View(w).rows[k], Fields)]]
    /\ lock' = w
    /\ helper' = [helper EXCEPT ![w] = [@ EXCEPT !.pc = "done",
                                              !.res = IF read THEN "ok" ELSE "failed"]]
    /\ hist' = [hist EXCEPT ![w] = [@ EXCEPT !.made = hist[w].made + 1, !.touched = Fields]]
    /\ UNCHANGED <<db, conns, txopen, active, pc, callVars, plan, inst, res, cancelled>>

\* It fails: the transaction is done, or as in StatementFails.
HelperFails(w) ==
    /\ helper[w].pc = "running"
    /\ helper' = [helper EXCEPT ![w] = [@ EXCEPT !.pc = "done", !.res = "failed"]]
    /\ UNCHANGED <<db, txVars, active, pc, callVars, plan, inst, res, cancelled, hist>>

-----------------------------------------------------------------------------
Helper(w) ==
    \/ HelperCall(w) \/ HelperFails(w)
    \/ \E k \in ExplicitKeys, read \in BOOLEAN : HelperUpdates(w, k, read)

\* Steps of a call that is under way.
Step(w) ==
    \/ ConfigureCanceled(w) \/ \E r \in Requests : Configure(w, r)
    \/ \E read \in BOOLEAN :
          \/ UpdateRow(w, read) \/ InsertGenerated(w, read)
          \/ InsertExplicit(w, read) \/ DeleteRow(w, read)
    \/ UpdateNone(w) \/ StatementFails(w)
    \/ Begin(w) \/ BeginFails(w) \/ CheckContext(w) \/ Commit(w)
    \/ CommitFails(w) \/ Rollback(w) \/ DriverRollsBack(w) \/ Return(w)
    \/ \E result \in {"ok", "callback", "panic"} : CallbackEnds(w, result)

Next ==
    \E w \in Writers :
        \/ CallDirect(w) \/ CallSession(w) \/ CallAtomic(w)
        \/ Cancel(w) \/ Step(w)
        \/ StartHelper(w) \/ Helper(w)

Spec == Init /\ [][Next]_vars

-----------------------------------------------------------------------------
(* Properties.                                                             *)

\* Types; in particular the sequence is never below a key of the table.
TypeOK ==
    /\ lock \in Writers \cup {Nobody} /\ conns \subseteq Writers
    /\ db.seq \in Keys /\ DOMAIN db.rows \subseteq 0 .. db.seq
    /\ \A k \in DOMAIN db.rows :
          db.rows[k] \in [val : [Fields -> Writers \cup {Nobody}],
                          by : Writers \cup {Nobody}]
    /\ txopen \in [Writers -> BOOLEAN] /\ active \in [Writers -> BOOLEAN]
    /\ pc \in [Writers -> Labels] /\ scope \in [Writers -> {"direct", "atomic"}]
    /\ plan \in [Writers -> [kind : Kinds \cup {"none"}, update : BOOLEAN,
                             fields : SUBSET Fields,
                             insert : {"none", "generated", "explicit"}]]
    /\ inst \in [Writers -> [key : Keys, present : BOOLEAN]]
    /\ res \in [Writers -> Results] /\ cancelled \in [Writers -> BOOLEAN]
    /\ helper \in [Writers -> [pc : {"none", "ready", "running", "done"},
                               late : BOOLEAN,
                               res : {"none", "ok", "refused", "failed"}]]
    /\ calls \in [Writers -> 0 .. MaxCalls] /\ ops \in [Writers -> 0 .. MaxOps]

\* Atomic is all or nothing: when it returns nil, every row change that was
\* made on its session is committed, also one of another goroutine and one
\* whose write returned an error; when it fails or panics, none is.
AllOrNothing ==
    \A w \in Writers : scope[w] = "atomic" /\ pc[w] = "return" =>
        hist[w].durable = IF res[w] = "ok" THEN hist[w].made ELSE 0

\* A session call that begins after the callback has returned is refused and
\* never runs a statement, whatever Atomic is doing at that time.
LateCallRefused ==
    \A w \in Writers : helper[w].late => helper[w].res = "refused"

\* Whatever other writers do between the UPDATE and the INSERT of Save: a
\* write that reports success changed exactly one row, one that ends with an
\* error of the database at most one, since the error may come after the
\* effect, and one that was refused, found no row or a taken key, or whose
\* context had ended before it began, none.
OneRowOrNone ==
    \A w \in Writers :
        \/ pc[w] = "return" /\ scope[w] = "direct"
        \/ pc[w] = "callback" /\ ops[w] > 0
        => hist[w].changed \in CASE res[w] = "ok"    -> {1}
                                 [] res[w] = "fault" -> {0, 1}
                                 [] OTHER            -> {0}

\* Masked saves and patches of different fields merge: a committed field
\* changes only to the value of a writer that was asked to write it.
MaskedSavesMerge ==
    [][\A k \in DOMAIN db.rows \cap DOMAIN db'.rows, f \in Fields :
          LET now == db'.rows[k].val[f]
          IN  now # db.rows[k].val[f] => f \in hist'[now].touched]_vars

\* An instance whose key was generated, and is not left over from a rolled
\* back transaction, never writes a row that another such instance inserted,
\* and no key in use is generated: a generated key is never used twice,
\* deletions and explicit keys or not.
OwnRowOnly ==
    \A w \in Writers : ~hist[w].foreign

\* Saving an instance again never makes a second row of it, unless the key
\* state was changed by a transaction that was rolled back.  Rows apart whose
\* insert took effect and yet failed: the instance was never given their
\* keys, and saving it again inserts another row.
SaveTwiceOneRow ==
    \A w \in Writers : ~hist[w].stale =>
        Cardinality({k \in DOMAIN db.rows \ hist[w].lost : db.rows[k].by = w}) <= 1

\* A connection is held exactly while a transaction is open, and every
\* transaction is over when Atomic returns, panics included.
ConnectionReleased ==
    \A w \in Writers :
        /\ w \in conns <=> txopen[w]
        /\ pc[w] \in {"idle", "return"} => w \notin conns
=============================================================================
