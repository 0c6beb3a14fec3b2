------------------------- MODULE AtomicWritesProofs -------------------------
(***************************************************************************)
(* Proofs about AtomicWrites for any number of writers, fields, keys,      *)
(* connections and calls.                                                  *)
(*                                                                         *)
(* A property of one writer can only be lost by a step of that writer:     *)
(* the others share the table, the lock and the pool with it, but none of  *)
(* the variables that say how far its call and its transaction are.  The   *)
(* invariant of a writer has four parts.  Connected ties the connection    *)
(* and the lock to an open transaction and to the labels at which one may  *)
(* be open; InSession follows the session and the goroutine that shares    *)
(* it; Counted the rows that the write in progress has changed; Settled    *)
(* what the call has changed and what of it is committed.  The keys and    *)
(* rows that writers share come after that.                                *)
(***************************************************************************)
EXTENDS AtomicWrites, FiniteSetTheorems, TLAPS

Histories ==
    [changed : Nat, made : Nat, durable : Nat, touched : SUBSET Fields, lost : SUBSET Keys,
     rekeyed : BOOLEAN, stale : BOOLEAN, explicit : BOOLEAN, foreign : BOOLEAN]

Helpers == [pc : {"none", "ready", "running", "done"}, late : BOOLEAN,
            res : {"none", "ok", "refused", "failed"}]

\* The types of everything but the table and what is written to it.
FlowOK ==
    /\ pc \in [Writers -> Labels] /\ scope \in [Writers -> {"direct", "atomic"}]
    /\ res \in [Writers -> Results] /\ cancelled \in [Writers -> BOOLEAN]
    /\ calls \in [Writers -> 0 .. MaxCalls] /\ ops \in [Writers -> 0 .. MaxOps]

SharedOK ==
    /\ lock \in Writers \cup {Nobody} /\ conns \subseteq Writers
    /\ txopen \in [Writers -> BOOLEAN] /\ active \in [Writers -> BOOLEAN]
    /\ helper \in [Writers -> Helpers]

HistoryOK == hist \in [Writers -> Histories]

ControlOK == FlowOK /\ SharedOK /\ HistoryOK

\* The labels at which a transaction may be open.
Inside == {"callback", "config", "update", "insert", "delete", "ctxcheck",
           "commit", "rollback"}

\* A connection and the lock belong to an open transaction, which belongs to
\* an Atomic that has not returned.
Connected(w) ==
    /\ w \in conns <=> txopen[w]
    /\ lock = w => txopen[w]
    /\ txopen[w] => scope[w] = "atomic" /\ pc[w] \in Inside
    /\ pc[w] \in {"begin", "callback", "ctxcheck", "commit", "rollback"} =>
          scope[w] = "atomic"

\* The session is valid during the callback only; a helper that came late was
\* refused before it could run a statement.
InSession(w) ==
    /\ active[w] => InCallback(w)
    /\ helper[w].late => helper[w].pc = "done" /\ helper[w].res = "refused"

\* A statement finds nothing changed by the write it belongs to.
Counted(w) ==
    /\ pc[w] = "begin" => ops[w] = 0
    /\ pc[w] \in {"update", "insert", "delete"} => hist[w].changed = 0
    /\ \/ pc[w] = "return" /\ scope[w] = "direct"
       \/ pc[w] = "callback" /\ ops[w] > 0
       => /\ res[w] = "ok" => hist[w].changed = 1
          /\ res[w] = "fault" => hist[w].changed \in {0, 1}
          /\ res[w] \notin {"ok", "fault"} => hist[w].changed = 0

\* Nothing of an Atomic is committed before it returns, only a success gets to
\* the commit, and no success to the rollback.
Settled(w) ==
    /\ pc[w] = "idle" => hist[w].made = 0 /\ hist[w].durable = 0
    /\ scope[w] = "atomic" /\ pc[w] \notin {"idle", "return"} => hist[w].durable = 0
    /\ pc[w] \in {"ctxcheck", "commit"} => res[w] = "ok"
    /\ pc[w] = "rollback" => res[w] # "ok"
    /\ scope[w] = "atomic" /\ pc[w] = "return" =>
          hist[w].durable = IF res[w] = "ok" THEN hist[w].made ELSE 0

WriterOK(w) == Connected(w) /\ InSession(w) /\ Counted(w) /\ Settled(w)

Control == ControlOK /\ \A w \in Writers : WriterOK(w)

-----------------------------------------------------------------------------
\* Everything the invariant of w looks at.
writerView(w) ==
    <<w \in conns, lock = w, txopen[w], active[w], pc[w], scope[w], res[w],
      helper[w], ops[w], hist[w]>>

Moves(w) ==
    \/ CallDirect(w) \/ CallSession(w) \/ CallAtomic(w)
    \/ Cancel(w) \/ Step(w)
    \/ StartHelper(w) \/ Helper(w)

\* A statement that may take effect.
Takes(w, read) ==
    \/ UpdateRow(w, read) \/ InsertGenerated(w, read)
    \/ InsertExplicit(w, read) \/ DeleteRow(w, read)

\* What a statement does to the transaction.
LEMMA LeavesControl ==
    ASSUME ControlOK, NEW w \in Writers, NEW d, CanRun(w), Leaves(w, d)
    PROVE  /\ UNCHANGED <<conns, txopen>>
           /\ scope[w] = "direct" => UNCHANGED <<copy, lock>>
           /\ scope[w] # "direct" =>
                lock' = w /\ txopen[w] /\ lock \in {Nobody, w} /\ UNCHANGED db
  BY DEF CanRun, Leaves, txVars

\* A step of w leaves the other writers where they are.
LEMMA OtherWriters ==
    ASSUME ControlOK, NEW w \in Writers, NEW v \in Writers, v # w, Moves(w)
    PROVE  UNCHANGED writerView(v)
  <1> USE WritesAssumption DEF writerView, ControlOK, FlowOK, SharedOK, HistoryOK, txVars, callVars, Goto, OpEnds
  <1>1. CASE CallDirect(w) \/ CallSession(w) \/ CallAtomic(w) \/ Cancel(w) \/ Return(w)
    BY <1>1 DEF CallDirect, CallSession, CallAtomic, Cancel, Return
  <1>2. CASE ConfigureCanceled(w) \/ \E r \in Requests : Configure(w, r)
    BY <1>2 DEF ConfigureCanceled, Configure
  <1>3. CASE UpdateNone(w) \/ StatementFails(w)
    BY <1>3 DEF UpdateNone, StatementFails, CanRun, Leaves
  <1>7. ASSUME NEW read \in BOOLEAN, Takes(w, read) PROVE UNCHANGED writerView(v)
    <2>1. CASE UpdateRow(w, read)
      BY <2>1 DEF UpdateRow, CanRun, Leaves, Changed
    <2>2. CASE InsertGenerated(w, read)
      BY <2>2 DEF InsertGenerated, CanRun, Leaves, Changed
    <2>3. CASE InsertExplicit(w, read)
      BY <2>3 DEF InsertExplicit, CanRun, Leaves, Changed
    <2>4. CASE DeleteRow(w, read)
      BY <2>4 DEF DeleteRow, CanRun, Leaves, Changed
    <2> QED BY <1>7, <2>1, <2>2, <2>3, <2>4 DEF Takes
  <1>4. CASE Begin(w) \/ BeginFails(w) \/ CheckContext(w)
               \/ \E result \in {"ok", "callback", "panic"} : CallbackEnds(w, result)
    BY <1>4 DEF Begin, BeginFails, CheckContext, CallbackEnds
  <1>5. CASE Commit(w) \/ CommitFails(w) \/ Rollback(w) \/ DriverRollsBack(w)
    BY <1>5 DEF Commit, CommitFails, Rollback, DriverRollsBack, Discard, TxDone
  <1>6. CASE StartHelper(w) \/ HelperCall(w) \/ HelperFails(w)
    BY <1>6 DEF StartHelper, HelperCall, HelperFails
  <1>8. ASSUME NEW k \in ExplicitKeys, NEW read \in BOOLEAN, HelperUpdates(w, k, read)
        PROVE  UNCHANGED writerView(v)
    BY <1>8 DEF HelperUpdates
  <1> QED BY <1>1, <1>2, <1>3, <1>4, <1>5, <1>6, <1>7, <1>8 DEF Moves, Step, Helper, Takes

-----------------------------------------------------------------------------
\* Every step keeps the types of the calls.
LEMMA FlowTypes ==
    ASSUME FlowOK, NEW w \in Writers, Moves(w)
    PROVE  FlowOK'
  <1> USE WritesAssumption DEF FlowOK, callVars, Goto, OpEnds
  <1>1. CASE CallDirect(w) \/ CallSession(w) \/ CallAtomic(w) \/ Cancel(w) \/ Return(w)
    <2>1. pc' \in [Writers -> Labels] /\ res' \in [Writers -> Results]
      BY <1>1 DEF CallDirect, CallSession, CallAtomic, Cancel, Return, Labels, Results
    <2>2. scope' \in [Writers -> {"direct", "atomic"}] /\ cancelled' \in [Writers -> BOOLEAN]
      BY <1>1 DEF CallDirect, CallSession, CallAtomic, Cancel, Return
    <2>3. calls' \in [Writers -> 0 .. MaxCalls]
      BY <1>1 DEF CallDirect, CallSession, CallAtomic, Cancel, Return
    <2>4. ops' \in [Writers -> 0 .. MaxOps]
      BY <1>1 DEF CallDirect, CallSession, CallAtomic, Cancel, Return
    <2> QED BY <2>1, <2>2, <2>3, <2>4
  <1>2. ASSUME UNCHANGED <<scope, cancelled, calls, ops>>,
               pc' \in [Writers -> Labels], res' \in [Writers -> Results]
        PROVE  FlowOK'
    BY <1>2
  <1>3. CASE ConfigureCanceled(w)
    BY <1>2, <1>3 DEF ConfigureCanceled, Labels, Results
  <1>4. ASSUME NEW r \in Requests, Configure(w, r) PROVE FlowOK'
    <2>1. FirstLabel(PlanOf(inst[w], r)) \in {"delete", "update", "insert", "noop"}
      BY DEF FirstLabel
    <2>2. pc' \in [Writers -> Labels]
      BY <1>4, <2>1 DEF Configure, Labels
    <2>3. res' \in [Writers -> Results]
      BY <1>4 DEF Configure, Results
    <2> QED BY <1>2, <1>4, <2>2, <2>3 DEF Configure
  <1>5. CASE UpdateNone(w) \/ StatementFails(w)
    BY <1>2, <1>5 DEF UpdateNone, StatementFails, Labels, Results
  <1>6. ASSUME NEW read \in BOOLEAN, Takes(w, read) PROVE FlowOK'
    BY <1>2, <1>6 DEF Takes, UpdateRow, InsertGenerated, InsertExplicit, DeleteRow, Outcome,
       Labels, Results
  <1>7. CASE Begin(w) \/ BeginFails(w) \/ CheckContext(w)
               \/ \E result \in {"ok", "callback", "panic"} : CallbackEnds(w, result)
    BY <1>2, <1>7 DEF Begin, BeginFails, CheckContext, CallbackEnds, Labels, Results
  <1>8. CASE Commit(w) \/ CommitFails(w) \/ Rollback(w) \/ DriverRollsBack(w)
    BY <1>2, <1>8 DEF Commit, CommitFails, Rollback, DriverRollsBack, Labels, Results
  <1>9. CASE StartHelper(w) \/ Helper(w)
    BY <1>2, <1>9 DEF StartHelper, Helper, HelperCall, HelperFails, HelperUpdates
  <1> QED BY <1>1, <1>3, <1>4, <1>5, <1>6, <1>7, <1>8, <1>9 DEF Moves, Step, Takes

\* Every step keeps the types of the lock, the pool, the transactions, the
\* sessions and the goroutines that share them.
LEMMA SharedTypes ==
    ASSUME SharedOK, NEW w \in Writers, Moves(w)
    PROVE  SharedOK'
  <1> USE DEF SharedOK, txVars, Helpers
  <1>1. CASE CallDirect(w) \/ CallSession(w) \/ CallAtomic(w) \/ Cancel(w) \/ Return(w)
    <2>1. CASE CallAtomic(w)
      BY <2>1 DEF CallAtomic, NoHelper
    <2>2. CASE ~CallAtomic(w)
      BY <1>1, <2>2 DEF CallDirect, CallSession, Cancel, Return
    <2> QED BY <2>1, <2>2
  <1>2. CASE ConfigureCanceled(w) \/ \E r \in Requests : Configure(w, r)
    BY <1>2 DEF ConfigureCanceled, Configure
  <1>3. CASE UpdateNone(w) \/ StatementFails(w)
    BY <1>3 DEF UpdateNone, StatementFails, Leaves
  <1>4. ASSUME NEW read \in BOOLEAN, Takes(w, read) PROVE SharedOK'
    BY <1>4 DEF Takes, UpdateRow, InsertGenerated, InsertExplicit, DeleteRow, Leaves
  <1>5. CASE Begin(w) \/ BeginFails(w) \/ CheckContext(w)
               \/ \E result \in {"ok", "callback", "panic"} : CallbackEnds(w, result)
    BY <1>5 DEF Begin, BeginFails, CheckContext, CallbackEnds
  <1>6. CASE Commit(w) \/ CommitFails(w) \/ Rollback(w) \/ DriverRollsBack(w)
    BY <1>6 DEF Commit, CommitFails, Rollback, DriverRollsBack, Discard, TxDone
  <1>7. CASE StartHelper(w)
    BY <1>7 DEF StartHelper
  <1>8. CASE HelperCall(w)
    BY <1>8 DEF HelperCall, InCallback, SessionValid
  <1>9. CASE HelperFails(w)
    BY <1>9 DEF HelperFails
  <1>10. ASSUME NEW k \in ExplicitKeys, NEW read \in BOOLEAN, HelperUpdates(w, k, read)
         PROVE  SharedOK'
    BY <1>10 DEF HelperUpdates
  <1> QED BY <1>1, <1>2, <1>3, <1>4, <1>5, <1>6, <1>7, <1>8, <1>9, <1>10
      DEF Moves, Step, Helper, Takes

\* A changed row is counted, as committed when there is no transaction.
LEMMA ChangedCounts ==
    ASSUME HistoryOK, NEW w \in Writers, NEW k, NEW b \in BOOLEAN, NEW l \in SUBSET Keys,
           Changed(w, k, b, l)
    PROVE  /\ HistoryOK'
           /\ hist'[w].changed = hist[w].changed + 1
           /\ hist'[w].made = hist[w].made + 1
           /\ scope[w] # "direct" => hist'[w].durable = hist[w].durable
  <1> DEFINE h == hist[w]
             n == h.changed + 1
             a == h.made + 1
             d == IF scope[w] = "direct" THEN h.durable + 1 ELSE h.durable
             f == h.foreign \/ (/\ k \in DOMAIN View(w).rows
                                /\ inst[w].present => View(w).rows[k].by \notin {Nobody, w}
                                /\ ~h.explicit /\ ~h.stale)
             x == h.explicit /\ ~b
             r == h.rekeyed \/ (b /\ scope[w] = "atomic")
             new == [h EXCEPT !.changed = n, !.made = a, !.lost = l, !.durable = d,
                              !.foreign = f, !.explicit = x, !.rekeyed = r]
  <1>1. h \in Histories /\ n \in Nat /\ a \in Nat /\ d \in Nat
    BY DEF HistoryOK, Histories
  <1>2. f \in BOOLEAN /\ x \in BOOLEAN /\ r \in BOOLEAN
    BY <1>1, Zenon DEF Histories
  <1>3. hist' = [hist EXCEPT ![w] = new]
    BY Zenon DEF Changed
  <1>4. scope[w] # "direct" => d = h.durable
    OBVIOUS
  <1> HIDE DEF n, a, d, f, x, r
  <1>5. new \in Histories /\ new.changed = n /\ new.made = a /\ new.durable = d
    BY <1>1, <1>2 DEF Histories
  <1>6. HistoryOK' /\ hist'[w] = new
    BY <1>3, <1>5 DEF HistoryOK
  <1> QED BY <1>4, <1>5, <1>6 DEF n, a

\* A statement that takes effect counts its row, also when its result is
\* lost; without effect, it says that the key is taken or that no row has it.
LEMMA TakesCounts ==
    ASSUME HistoryOK, NEW w \in Writers, NEW read \in BOOLEAN, Takes(w, read)
    PROVE  \/ /\ OpEnds(w, Outcome(read)) /\ HistoryOK'
              /\ hist'[w].changed = hist[w].changed + 1
              /\ scope[w] # "direct" => hist'[w].durable = hist[w].durable
           \/ (OpEnds(w, "unique") \/ OpEnds(w, "unexpected_rows")) /\ UNCHANGED hist
  <1>1. hist[w].lost \in SUBSET Keys
    BY DEF HistoryOK, Histories
  <1>2. CASE UpdateRow(w, read)
    BY <1>1, <1>2, ChangedCounts DEF UpdateRow
  <1>3. CASE InsertGenerated(w, read)
    <2>1. PICK k \in Keys : /\ OpEnds(w, Outcome(read))
                            /\ \/ Changed(w, k, TRUE, hist[w].lost \ {k})
                               \/ Changed(w, k, FALSE, hist[w].lost \cup {k})
      BY <1>3 DEF InsertGenerated
    <2>2. hist[w].lost \ {k} \in SUBSET Keys /\ hist[w].lost \cup {k} \in SUBSET Keys
      BY <1>1
    <2> QED BY <2>1, <2>2, ChangedCounts
  <1>4. CASE InsertExplicit(w, read)
    BY <1>1, <1>4, ChangedCounts DEF InsertExplicit
  <1>5. CASE DeleteRow(w, read)
    BY <1>1, <1>5, ChangedCounts DEF DeleteRow
  <1> QED BY <1>2, <1>3, <1>4, <1>5 DEF Takes

\* What a transaction that is given up leaves behind.
LEMMA DiscardKeeps ==
    ASSUME SharedOK, HistoryOK, NEW w \in Writers, Discard(w)
    PROVE  /\ HistoryOK'
           /\ hist'[w].changed = hist[w].changed /\ hist'[w].made = hist[w].made
           /\ hist'[w].durable = hist[w].durable
           /\ w \notin conns' /\ lock' # w /\ ~txopen'[w]
  <1> DEFINE s == hist[w].stale \/ hist[w].rekeyed
             new == [hist[w] EXCEPT !.stale = s, !.rekeyed = FALSE]
  <1>1. hist[w] \in Histories
    BY DEF HistoryOK
  <1>2. s \in BOOLEAN
    BY <1>1, Zenon DEF Histories
  <1>3. hist' = [hist EXCEPT ![w] = new]
    BY Zenon DEF Discard
  <1> HIDE DEF s
  <1>4. /\ new \in Histories /\ new.changed = hist[w].changed
        /\ new.made = hist[w].made /\ new.durable = hist[w].durable
    BY <1>1, <1>2 DEF Histories
  <1>5. HistoryOK' /\ hist'[w] = new
    BY <1>3, <1>4 DEF HistoryOK
  <1>6. w \notin conns' /\ lock' # w /\ ~txopen'[w]
    BY WritesAssumption DEF SharedOK, Discard, TxDone
  <1> QED BY <1>4, <1>5, <1>6

\* Every step keeps the types of what is remembered.
LEMMA HistoryTypes ==
    ASSUME HistoryOK, NEW w \in Writers, Moves(w)
    PROVE  HistoryOK'
  <1> USE DEF HistoryOK, Histories
  <1>1. CASE CallDirect(w) \/ CallSession(w) \/ CallAtomic(w) \/ Cancel(w) \/ Return(w)
    <2>1. CASE Return(w)
      BY <2>1 DEF Return
    <2>2. CASE ~Return(w)
      BY <1>1, <2>2 DEF CallDirect, CallSession, CallAtomic, Cancel
    <2> QED BY <2>1, <2>2
  <1>2. CASE ConfigureCanceled(w)
    BY <1>2 DEF ConfigureCanceled
  <1>3. ASSUME NEW r \in Requests, Configure(w, r) PROVE HistoryOK'
    <2>1. r.fields \subseteq Fields
      BY WritesAssumption DEF Requests
    <2>2. PICK t \in SUBSET Fields :
              hist' = [hist EXCEPT ![w] = [@ EXCEPT !.changed = 0, !.touched = t]]
      BY <1>3, <2>1 DEF Configure
    <2> QED BY <2>2
  <1>4. ASSUME NEW read \in BOOLEAN, Takes(w, read) PROVE HistoryOK'
    BY <1>4, TakesCounts
  <1>8. CASE UpdateNone(w) \/ StatementFails(w)
    BY <1>8 DEF UpdateNone, StatementFails
  <1>9. CASE Begin(w) \/ BeginFails(w) \/ CheckContext(w)
               \/ \E result \in {"ok", "callback", "panic"} : CallbackEnds(w, result)
    BY <1>9 DEF Begin, BeginFails, CheckContext, CallbackEnds
  <1>10. CASE Commit(w)
    BY <1>10 DEF Commit
  <1>11. ASSUME Discard(w) PROVE HistoryOK'
    BY <1>11 DEF Discard
  <1>12. CASE CommitFails(w) \/ Rollback(w) \/ DriverRollsBack(w)
    BY <1>11, <1>12 DEF CommitFails, Rollback, DriverRollsBack
  <1>13. CASE StartHelper(w) \/ HelperCall(w) \/ HelperFails(w)
    BY <1>13 DEF StartHelper, HelperCall, HelperFails
  <1>14. ASSUME NEW k \in ExplicitKeys, NEW read \in BOOLEAN, HelperUpdates(w, k, read)
         PROVE  HistoryOK'
    <2>1. hist[w].made + 1 \in Nat
      OBVIOUS
    <2>2. PICK n \in Nat : hist' = [hist EXCEPT ![w] = [@ EXCEPT !.made = n, !.touched = Fields]]
      BY <1>14, <2>1 DEF HelperUpdates
    <2> QED BY <2>2
  <1> QED BY <1>1, <1>2, <1>3, <1>4, <1>8, <1>9, <1>10, <1>12, <1>13,
      <1>14 DEF Moves, Step, Helper, Takes

\* A write that ends inside its call: its result says what it changed.
LEMMA StatementKeeps ==
    ASSUME ControlOK, ControlOK', NEW w \in Writers, WriterOK(w),
           UpdateNone(w) \/ StatementFails(w) \/ \E read \in BOOLEAN : Takes(w, read)
    PROVE  WriterOK(w)'
  <1> USE WritesAssumption DEF ControlOK, FlowOK, SharedOK, HistoryOK, txVars, callVars, Goto, WriterOK
  <1>0. /\ pc[w] \in {"update", "insert", "delete"} /\ hist[w].changed = 0
        /\ UNCHANGED <<conns, txopen, active, scope, helper, ops>>
    BY DEF Takes, UpdateRow, UpdateNone, InsertGenerated, InsertExplicit, DeleteRow,
       StatementFails, OpEnds, Counted, Leaves
  <1>l. lock' = w => txopen[w]
    BY LeavesControl DEF Takes, UpdateRow, UpdateNone, InsertGenerated, InsertExplicit,
       DeleteRow, StatementFails, Connected
  <1> DEFINE back == IF scope[w] = "direct" THEN "return" ELSE "callback"
  <1>e. ASSUME NEW result, OpEnds(w, result) PROVE pc'[w] = back /\ res'[w] = result
    BY <1>e DEF OpEnds
  <1> DEFINE told == \/ /\ pc'[w] = "insert" /\ UNCHANGED <<hist, res>>
                     \/ /\ pc'[w] = back /\ res'[w] # "ok" /\ UNCHANGED hist
                     \/ /\ pc'[w] = back /\ res'[w] \in {"ok", "fault"}
                        /\ hist'[w].changed = hist[w].changed + 1
                        /\ scope[w] # "direct" => hist'[w].durable = hist[w].durable
  <1>1. told
    <2>1. ASSUME NEW read \in BOOLEAN, Takes(w, read) PROVE told
      BY <1>e, <2>1, TakesCounts DEF Outcome
    <2>3. CASE UpdateNone(w)
      BY <1>e, <2>3 DEF UpdateNone
    <2>4. CASE StatementFails(w)
      BY <1>e, <2>4 DEF StatementFails
    <2> QED BY <2>1, <2>3, <2>4
  <1>b. back \in {"return", "callback"} /\ (back = "return" <=> scope[w] = "direct")
    OBVIOUS
  <1> HIDE DEF back
  <1>2. Connected(w)'
    BY <1>0, <1>l, <1>1, <1>b DEF Connected, Inside
  <1>3. InSession(w)'
    BY <1>0, <1>1, <1>b DEF InSession, InCallback
  <1>4. Counted(w)'
    BY <1>0, <1>1, <1>b DEF Counted
  <1>5. Settled(w)'
    BY <1>0, <1>1, <1>b DEF Settled
  <1> QED BY <1>2, <1>3, <1>4, <1>5

\* So do the steps before the first statement.
LEMMA ConfigureKeeps ==
    ASSUME ControlOK, ControlOK', NEW w \in Writers, WriterOK(w),
           ConfigureCanceled(w) \/ \E r \in Requests : Configure(w, r)
    PROVE  WriterOK(w)'
  <1> USE DEF ControlOK, FlowOK, SharedOK, HistoryOK, txVars, callVars, Goto, WriterOK, OpEnds
  <1>0. /\ pc[w] = "config"
        /\ UNCHANGED <<conns, lock, txopen, active, scope, helper, ops>>
        /\ hist'[w].changed = 0 /\ hist'[w].durable = hist[w].durable
    BY DEF ConfigureCanceled, Configure, Histories
  <1>1. \/ pc'[w] \in {"update", "insert", "delete"}
        \/ /\ pc'[w] = IF scope[w] = "direct" THEN "return" ELSE "callback"
           /\ res'[w] # "ok"
    <2>1. CASE ConfigureCanceled(w)
      BY <2>1 DEF ConfigureCanceled
    <2>2. ASSUME NEW r \in Requests, Configure(w, r)
          PROVE  \/ pc'[w] \in {"update", "insert", "delete"}
                 \/ /\ pc'[w] = IF scope[w] = "direct" THEN "return" ELSE "callback"
                    /\ res'[w] # "ok"
      <3>1. FirstLabel(PlanOf(inst[w], r)) \in {"delete", "update", "insert", "noop"}
        BY DEF FirstLabel
      <3>2. CASE pc' = [pc EXCEPT ![w] = FirstLabel(PlanOf(inst[w], r))]
                 /\ FirstLabel(PlanOf(inst[w], r)) # "noop"
        BY <3>1, <3>2
      <3>3. CASE OpEnds(w, "refused") \/ OpEnds(w, "noop")
        BY <3>3
      <3> QED BY <2>2, <3>2, <3>3, Zenon DEF Configure, Goto
    <2> QED BY <2>1, <2>2
  <1>2. Connected(w)' /\ InSession(w)'
    BY <1>0, <1>1 DEF Connected, Inside, InSession, InCallback
  <1>3. Counted(w)' /\ Settled(w)'
    BY <1>0, <1>1 DEF Counted, Settled
  <1> QED BY <1>2, <1>3

\* The steps of Atomic itself.
LEMMA AtomicKeeps ==
    ASSUME ControlOK, ControlOK', NEW w \in Writers, WriterOK(w),
           \/ Begin(w) \/ BeginFails(w) \/ CheckContext(w) \/ Commit(w) \/ CommitFails(w)
           \/ Rollback(w) \/ DriverRollsBack(w)
           \/ \E result \in {"ok", "callback", "panic"} : CallbackEnds(w, result)
    PROVE  WriterOK(w)'
  <1> USE WritesAssumption
      DEF ControlOK, FlowOK, SharedOK, HistoryOK, txVars, callVars, Goto, WriterOK, Connected, Inside, InSession,
          InCallback, Counted, Settled, TxDone, Histories
  <1>1. CASE Begin(w) \/ BeginFails(w)
    BY <1>1 DEF Begin, BeginFails
  <1>2. CASE \E result \in {"ok", "callback", "panic"} : CallbackEnds(w, result)
    BY <1>2 DEF CallbackEnds
  <1>3. CASE CheckContext(w)
    BY <1>3 DEF CheckContext
  <1>4. CASE Commit(w)
    BY <1>4 DEF Commit
  <1>5. CASE CommitFails(w)
    <2>1. CASE cancelled[w]
      BY <1>5, <2>1 DEF CommitFails
    <2>2. CASE ~cancelled[w]
      BY <1>5, <2>2, DiscardKeeps DEF CommitFails
    <2> QED BY <2>1, <2>2
  <1>6. CASE Rollback(w)
    <2>1. CASE ~txopen[w]
      BY <1>6, <2>1 DEF Rollback
    <2>2. CASE txopen[w]
      BY <1>6, <2>2, DiscardKeeps DEF Rollback
    <2> QED BY <2>1, <2>2
  <1>7. CASE DriverRollsBack(w)
    BY <1>7, DiscardKeeps DEF DriverRollsBack
  <1> QED BY <1>1, <1>2, <1>3, <1>4, <1>5, <1>6, <1>7

\* The steps of the caller and of the goroutine that shares the session.
LEMMA CallerKeeps ==
    ASSUME ControlOK, ControlOK', NEW w \in Writers, WriterOK(w),
           \/ CallDirect(w) \/ CallSession(w) \/ CallAtomic(w) \/ Cancel(w) \/ Return(w)
           \/ StartHelper(w) \/ Helper(w)
    PROVE  WriterOK(w)'
  <1> USE WritesAssumption
      DEF ControlOK, FlowOK, SharedOK, HistoryOK, txVars, callVars, Goto, WriterOK, Connected, Inside, InSession,
          InCallback, Counted, Settled, Histories, Helpers
  <1>1. CASE CallDirect(w) \/ CallSession(w)
    BY <1>1 DEF CallDirect, CallSession
  <1>2. CASE CallAtomic(w)
    BY <1>2 DEF CallAtomic, NoHelper
  <1>3. CASE Cancel(w) \/ Return(w)
    <2>1. CASE Cancel(w)
      BY <2>1 DEF Cancel
    <2>2. CASE Return(w)
      BY <2>2 DEF Return
    <2> QED BY <1>3, <2>1, <2>2
  <1>4. CASE StartHelper(w)
    BY <1>4 DEF StartHelper
  <1>5. CASE HelperCall(w)
    BY <1>5 DEF HelperCall, SessionValid
  <1>6. CASE HelperFails(w)
    BY <1>6 DEF HelperFails
  <1>7. ASSUME NEW k \in ExplicitKeys, NEW read \in BOOLEAN, HelperUpdates(w, k, read)
        PROVE  WriterOK(w)'
    BY <1>7 DEF HelperUpdates
  <1> QED BY <1>1, <1>2, <1>3, <1>4, <1>5, <1>6, <1>7 DEF Helper

\* Nothing has been called yet.
LEMMA InitControl == Init => Control
  <1> SUFFICES ASSUME Init PROVE Control
    OBVIOUS
  <1>1. FlowOK /\ SharedOK
    BY WritesAssumption DEF Init, FlowOK, SharedOK, Labels, Results, Helpers, NoHelper
  <1>2. HistoryOK /\ \A w \in Writers : hist[w].made = 0 /\ hist[w].durable = 0
    <2>1. ASSUME NEW b \in BOOLEAN
          PROVE  /\ [NoHistory EXCEPT !.explicit = b] \in Histories
                 /\ [NoHistory EXCEPT !.explicit = b].made = 0
                 /\ [NoHistory EXCEPT !.explicit = b].durable = 0
      BY DEF Histories, NoHistory
    <2>2. \A w \in Writers : inst[w].present \in BOOLEAN
      <3>1. \A i \in Instances : i.present \in BOOLEAN
        <4>1. \A i \in [key : ExplicitKeys, present : BOOLEAN] : i.present \in BOOLEAN
          OBVIOUS
        <4>2. Absent.present = FALSE
          BY DEF Absent
        <4> QED BY <4>1, <4>2, Zenon DEF Instances
      <3> QED BY <3>1 DEF Init
    <2>3. hist = [w \in Writers |-> [NoHistory EXCEPT !.explicit = inst[w].present]]
      BY DEF Init
    <2> QED BY <2>1, <2>2, <2>3 DEF HistoryOK
  <1>3. ASSUME NEW w \in Writers PROVE WriterOK(w)
    BY <1>2, WritesAssumption DEF Init, NoHelper, WriterOK, Connected, InSession, Counted,
       Settled
  <1> QED BY <1>1, <1>2, <1>3 DEF Control, ControlOK

\* Every step preserves the invariant of every writer.
LEMMA NextControl == Control /\ [Next]_vars => Control'
  <1> SUFFICES ASSUME Control, [Next]_vars PROVE Control'
    OBVIOUS
  <1>1. CASE UNCHANGED vars
    BY <1>1 DEF vars, txVars, callVars, Control, ControlOK, FlowOK, SharedOK, HistoryOK, WriterOK, Connected,
       InSession, InCallback, Counted, Settled
  <1>2. ASSUME NEW w \in Writers, Moves(w) PROVE Control'
    <2>1. ControlOK'
      BY <1>2, FlowTypes, SharedTypes, HistoryTypes DEF Control, ControlOK
    <2>2. ASSUME NEW v \in Writers, v # w PROVE WriterOK(v)'
      <3>1. UNCHANGED writerView(v)
        BY <1>2, <2>2, OtherWriters DEF Control
      <3> QED
        BY <3>1 DEF Control, writerView, WriterOK, Connected, InSession, InCallback,
           Counted, Settled
    <2>3. WriterOK(w)'
      BY <1>2, <2>1, StatementKeeps, ConfigureKeeps, AtomicKeeps, CallerKeeps
      DEF Control, Moves, Step, Takes
    <2> QED BY <2>1, <2>2, <2>3 DEF Control
  <1> QED BY <1>1, <1>2 DEF Next, Moves

\* The invariant holds in every reachable state.
THEOREM SpecControl == Spec => []Control
  BY InitControl, NextControl, PTL DEF Spec

\* A connection is held exactly while a transaction is open, and never by a
\* call that has returned: not after a panic, a failed commit or a rollback
\* of the driver.
THEOREM SpecConnectionReleased == Spec => []ConnectionReleased
  <1>1. Control => ConnectionReleased
    BY DEF Control, WriterOK, Connected, Inside, ConnectionReleased
  <1> QED BY <1>1, SpecControl, PTL

\* A session call that begins after the callback has returned is refused.
THEOREM SpecLateCallRefused == Spec => []LateCallRefused
  <1>1. Control => LateCallRefused
    BY DEF Control, WriterOK, InSession, LateCallRefused
  <1> QED BY <1>1, SpecControl, PTL

\* A write that reports success changed exactly one row, one that ends with an
\* error of the database at most one, any other none, whatever other writers
\* do between the statements of a Save.
THEOREM SpecOneRowOrNone == Spec => []OneRowOrNone
  <1>1. Control => OneRowOrNone
    BY DEF Control, ControlOK, FlowOK, WriterOK, Counted, OneRowOrNone
  <1> QED BY <1>1, SpecControl, PTL

\* Atomic commits every row change that was made on its session, reported or
\* not, or none, and says which.
THEOREM SpecAllOrNothing == Spec => []AllOrNothing
  <1>1. Control => AllOrNothing
    BY DEF Control, WriterOK, Settled, AllOrNothing
  <1> QED BY <1>1, SpecControl, PTL

-----------------------------------------------------------------------------
(***************************************************************************)
(* The rows.  At most one writer has a version of the table of its own:    *)
(* the one that holds the lock.  The next statement that runs, and the     *)
(* next commit that changes anything, start from that version, or from the *)
(* committed one if nobody has the lock; it is called Top.  What can be    *)
(* said of a key or of a row has to be said of both versions, since a      *)
(* rollback goes back to the committed one.                                *)
(***************************************************************************)

Names == Writers \cup {Nobody}
RowTypes == [val : [Fields -> Names], by : Names]

Tables ==
    {d \in [rows : UNION {[S -> RowTypes] : S \in SUBSET Keys}, seq : Keys] :
        DOMAIN d.rows \subseteq 0 .. d.seq}

PlanTypes == [kind : Kinds \cup {"none"}, update : BOOLEAN, fields : SUBSET Fields,
              insert : {"none", "generated", "explicit"}]

Top == IF lock = Nobody THEN db ELSE copy[lock]

TablesOK == db \in Tables /\ copy \in [Writers -> Tables] /\ db.seq <= Top.seq

InstancesOK ==
    /\ plan \in [Writers -> PlanTypes]
    /\ inst \in [Writers -> [key : Keys, present : BOOLEAN]]

\* A plan fits the instance, and writes only what the call was asked to.
PlanFits(w) ==
    /\ pc[w] \in {"update", "delete"} => inst[w].present
    /\ pc[w] \in {"update", "insert"} =>
          /\ plan[w].fields \subseteq hist[w].touched
          /\ plan[w].insert = "explicit" => inst[w].present
          /\ plan[w].insert = "generated" => ~inst[w].present
          /\ plan[w].insert # "none" => hist[w].touched = Fields

\* The instance has a key that was generated for it.
Generated(w) == inst[w].present /\ ~hist[w].explicit /\ ~hist[w].stale

\* It was generated by the open transaction, or is committed; no table that
\* it could be generated from again has forgotten it.
KeyOK(w) ==
    /\ hist[w].explicit => inst[w].present
    /\ hist[w].rekeyed => lock = w
    /\ Generated(w) =>
          inst[w].key <= IF hist[w].rekeyed THEN Top.seq ELSE db.seq

\* No other instance has it.
KeysDiffer ==
    \A v, w \in Writers : v # w /\ Generated(v) /\ Generated(w) => inst[v].key # inst[w].key

\* A row under the key is its own, or one that had a key of a caller.
Owned(w, d) ==
    Generated(w) /\ inst[w].key \in DOMAIN d.rows => d.rows[inst[w].key].by \in {w, Nobody}

\* And its own rows are nowhere else, but for those whose keys it was not given.
Only(w, d) ==
    ~hist[w].stale =>
        \A k \in DOMAIN d.rows :
            d.rows[k].by = w /\ k \notin hist[w].lost => Generated(w) /\ k = inst[w].key

Alone(w) ==
    ~hist[w].stale =>
        \A j, k \in DOMAIN db.rows \ hist[w].lost :
            db.rows[j].by = w /\ db.rows[k].by = w => j = k

RowsOK(w) ==
    /\ Owned(w, db) /\ Owned(w, Top)
    /\ Only(w, Top) /\ (~hist[w].rekeyed => Only(w, db)) /\ Alone(w)
    /\ ~hist[w].foreign

\* The version of a transaction differs from the committed one in fields
\* that its writer was asked to write.
Merges ==
    \A w \in Writers : lock = w =>
        \A k \in DOMAIN db.rows \cap DOMAIN copy[w].rows, f \in Fields :
            \/ copy[w].rows[k].val[f] = db.rows[k].val[f]
            \/ copy[w].rows[k].val[f] = w /\ f \in hist[w].touched

Ownership == KeysDiffer /\ Merges /\ \A w \in Writers : KeyOK(w) /\ RowsOK(w)

\* A step changes a committed field only to the value of a writer that was
\* asked to write it.
MergeStep ==
    \A k \in DOMAIN db.rows \cap DOMAIN db'.rows, f \in Fields :
        LET now == db'.rows[k].val[f]
        IN  now # db.rows[k].val[f] => f \in hist'[now].touched

Rows ==
    /\ Control /\ TablesOK /\ InstancesOK /\ Ownership
    /\ \A w \in Writers : PlanFits(w)

-----------------------------------------------------------------------------
(* Tables.                                                                 *)

\* What every table is made of.
LEMMA TableParts ==
    ASSUME NEW d \in Tables
    PROVE  /\ d.seq \in Keys /\ d.seq \in Nat /\ d = [rows |-> d.rows, seq |-> d.seq]
           /\ DOMAIN d.rows \subseteq Keys
           /\ d.rows \in [DOMAIN d.rows -> RowTypes]
           /\ \A k \in DOMAIN d.rows : k \in Nat /\ k <= d.seq /\ d.rows[k] \in RowTypes
  BY WritesAssumption DEF Tables, Keys

\* And what is a table.
LEMMA IsTable ==
    ASSUME NEW s \in Keys, NEW S \in SUBSET Keys, NEW rows \in [S -> RowTypes],
           \A k \in S : k <= s
    PROVE  [rows |-> rows, seq |-> s] \in Tables
  <1>1. S \subseteq 0 .. s
    BY WritesAssumption DEF Keys
  <1>2. rows \in UNION {[Q -> RowTypes] : Q \in SUBSET Keys}
    OBVIOUS
  <1> QED BY <1>1, <1>2 DEF Tables

\* An inserted row: the others stay as they are.
Inserted(d, k, row, s) == [rows |-> Put(d.rows, k, row), seq |-> s]

LEMMA PutTable ==
    ASSUME NEW d \in Tables, NEW k \in Keys, NEW s \in Keys, d.seq <= s, k <= s,
           NEW row \in RowTypes, NEW e, e = Inserted(d, k, row, s)
    PROVE  /\ e \in Tables /\ e.seq = s /\ DOMAIN e.rows = DOMAIN d.rows \cup {k}
           /\ e.rows[k] = row
           /\ \A i \in DOMAIN d.rows : i # k => e.rows[i] = d.rows[i]
  <1> DEFINE S == DOMAIN d.rows \cup {k}
  <1>1. S \in SUBSET Keys /\ \A i \in S : i <= s
    BY TableParts, WritesAssumption DEF Keys
  <1>2. Put(d.rows, k, row) \in [S -> RowTypes]
    BY TableParts DEF Put
  <1> QED BY <1>1, <1>2, IsTable DEF Inserted, Put

\* An updated row: only the fields that are written change.
Overwritten(d, k, w, fields) == [d EXCEPT !.rows[k] = Overwrite(w, d.rows[k], fields)]

LEMMA OverwriteTable ==
    ASSUME NEW d \in Tables, NEW k \in DOMAIN d.rows, NEW w \in Writers, NEW fields,
           NEW e, e = Overwritten(d, k, w, fields)
    PROVE  /\ e \in Tables /\ e.seq = d.seq /\ DOMAIN e.rows = DOMAIN d.rows
           /\ \A i \in DOMAIN d.rows : e.rows[i].by = d.rows[i].by
           /\ \A i \in DOMAIN d.rows, f \in Fields :
                 \/ e.rows[i].val[f] = d.rows[i].val[f]
                 \/ e.rows[i].val[f] = w /\ f \in fields
  <1> DEFINE row == Overwrite(w, d.rows[k], fields)
             rows == [d.rows EXCEPT ![k] = row]
  <1>1. /\ row \in RowTypes /\ row.by = d.rows[k].by
        /\ \A f \in Fields : \/ row.val[f] = d.rows[k].val[f]
                             \/ row.val[f] = w /\ f \in fields
    BY TableParts DEF Overwrite, RowTypes, Names
  <1>2. e = [rows |-> rows, seq |-> d.seq]
    BY TableParts DEF Overwritten
  <1> HIDE DEF row
  <1>3. rows \in [DOMAIN d.rows -> RowTypes]
    BY <1>1, TableParts
  <1>4. e \in Tables
    BY <1>2, <1>3, TableParts, IsTable
  <1>5. e.rows = rows /\ e.seq = d.seq
    BY <1>2
  <1>6. /\ DOMAIN rows = DOMAIN d.rows
        /\ \A i \in DOMAIN d.rows : rows[i] = IF i = k THEN row ELSE d.rows[i]
    BY TableParts
  <1> HIDE DEF rows
  <1>7. \A i \in DOMAIN d.rows : e.rows[i].by = d.rows[i].by
    BY <1>1, <1>5, <1>6, Zenon
  <1>8. \A i \in DOMAIN d.rows, f \in Fields :
           \/ e.rows[i].val[f] = d.rows[i].val[f]
           \/ e.rows[i].val[f] = w /\ f \in fields
    BY <1>1, <1>5, <1>6, Zenon
  <1> QED BY <1>4, <1>5, <1>6, <1>7, <1>8, Zenon

\* A deleted row: the sequence stays.
Deleted(d, k) == [d EXCEPT !.rows = Without(d.rows, k)]

LEMMA WithoutTable ==
    ASSUME NEW d \in Tables, NEW k, NEW e, e = Deleted(d, k)
    PROVE  /\ e \in Tables /\ e.seq = d.seq /\ DOMAIN e.rows = DOMAIN d.rows \ {k}
           /\ \A i \in DOMAIN e.rows : e.rows[i] = d.rows[i]
  <1>1. e = [rows |-> Without(d.rows, k), seq |-> d.seq]
    BY TableParts DEF Deleted
  <1>2. Without(d.rows, k) \in [DOMAIN d.rows \ {k} -> RowTypes]
    BY TableParts DEF Without
  <1>3. e \in Tables
    BY <1>1, <1>2, TableParts, IsTable
  <1> QED BY <1>1, <1>3 DEF Without

\* The empty table.
LEMMA EmptyIsTable == [rows |-> EmptyTable, seq |-> 0] \in Tables
  <1>1. 0 \in Keys /\ EmptyTable \in [{} -> RowTypes]
    BY WritesAssumption DEF Keys, EmptyTable
  <1> QED BY <1>1, IsTable

-----------------------------------------------------------------------------
(* Statements.                                                             *)

\* A statement of w leaves d.
Writes(w, d) ==
    /\ lock \in {Nobody, w}
    /\ \/ /\ scope[w] = "direct" /\ lock = Nobody
          /\ db' = d /\ UNCHANGED <<lock, copy>>
       \/ /\ scope[w] = "atomic"
          /\ copy' = [copy EXCEPT ![w] = d] /\ lock' = w /\ UNCHANGED db

\* It starts from the newest version.
LEMMA LeavesWrites ==
    ASSUME ControlOK, NEW w \in Writers, NEW d, CanRun(w), Leaves(w, d)
    PROVE  Writes(w, d) /\ View(w) = Top
  <1>1. scope[w] \in {"direct", "atomic"} /\ w # Nobody
    BY WritesAssumption DEF ControlOK, FlowOK
  <1> QED BY <1>1 DEF CanRun, Leaves, Writes, View, Top, txVars

\* What it leaves is the newest version, which nothing was lost from.
LEMMA WritesTop ==
    ASSUME TablesOK, ControlOK, NEW w \in Writers, NEW d \in Tables, Top.seq <= d.seq,
           Writes(w, d)
    PROVE  /\ Top' = d /\ db' \in {db, d}
           /\ db' \in Tables /\ copy' \in [Writers -> Tables] /\ Top \in Tables
           /\ db.seq <= db'.seq /\ db'.seq <= Top'.seq
           /\ scope[w] = "direct" => db' = d /\ lock = Nobody
           /\ scope[w] = "atomic" => db' = db /\ lock' = w
  <1> USE WritesAssumption DEF TablesOK, InstancesOK
  <1>1. CASE scope[w] = "direct"
    <2>1. Top' = d /\ db' = d /\ copy' = copy /\ Top = db
      BY <1>1 DEF Writes, Top
    <2> QED BY <1>1, <2>1, TableParts DEF Writes
  <1>2. CASE scope[w] = "atomic"
    <2>1. Top' = d /\ db' = db /\ copy' \in [Writers -> Tables] /\ lock' = w
      BY <1>2 DEF Writes, Top
    <2>2. Top \in Tables
      BY DEF Top, Writes
    <2>3. db.seq \in Nat /\ d.seq \in Nat /\ Top.seq \in Nat
      BY <2>2, TableParts
    <2> QED BY <1>2, <2>1, <2>2, <2>3
  <1> QED BY <1>1, <1>2 DEF Writes

\* What another instance knows of its key and its rows stays true, unless a
\* row appears under its key.
LEMMA OthersKeep ==
    ASSUME Rows, NEW w \in Writers, NEW d \in Tables, Top.seq <= d.seq, Writes(w, d),
           NEW v \in Writers, v # w, inst'[v] = inst[v], hist'[v] = hist[v],
           \A i \in DOMAIN d.rows :
              \/ i \in DOMAIN Top.rows /\ d.rows[i].by = Top.rows[i].by
              \/ d.rows[i].by = Nobody
              \/ d.rows[i].by = w /\ (Generated(v) => i # inst[v].key)
    PROVE  KeyOK(v)' /\ RowsOK(v)'
  <1> USE WritesAssumption DEF Rows, Ownership, Control
  <1>1. /\ Top' = d /\ db' \in {db, d} /\ db.seq <= db'.seq
        /\ db' = db \/ (db' = d /\ lock = Nobody /\ Top = db)
    BY WritesTop DEF Writes, Top
  <1>2. (Generated(v)' <=> Generated(v)) /\ (Generated(v) => inst[v].key \in Nat)
    BY DEF Generated, TablesOK, InstancesOK, Keys
  <1>3. ~hist[v].rekeyed
    BY DEF Writes, KeyOK
  <1>4. KeyOK(v)'
    <2>1. db.seq \in Nat /\ db'.seq \in Nat
      BY WritesTop, TableParts DEF TablesOK, InstancesOK
    <2>2. Generated(v) => inst[v].key <= db.seq
      BY <1>3 DEF KeyOK
    <2>3. Generated(v) => inst[v].key <= db'.seq
      BY <1>1, <1>2, <2>1, <2>2
    <2> QED BY <1>2, <1>3, <2>3 DEF KeyOK
  <1>5. Owned(v, d)'
    BY <1>2 DEF RowsOK, Owned
  <1>6. Only(v, d)'
    BY <1>2 DEF RowsOK, Only
  <1>7. Owned(v, db)' /\ Only(v, db)' /\ Alone(v)'
    <2>1. CASE db' = d
      BY <1>5, <1>6, <2>1 DEF Owned, Only, Alone
    <2>2. CASE db' = db
      BY <1>2, <1>3, <2>2 DEF RowsOK, Owned, Only, Alone
    <2> QED BY <1>1, <2>1, <2>2
  <1> QED BY <1>1, <1>4, <1>5, <1>6, <1>7 DEF RowsOK, Owned, Only

\* So does what the instance of w knows, if the statement tells it.
LEMMA OwnKeeps ==
    ASSUME Rows, NEW w \in Writers, NEW d \in Tables, Top.seq <= d.seq, Writes(w, d),
           inst'[w].key \in Nat,
           hist'[w].stale <=> hist[w].stale, ~hist'[w].foreign,
           \A i \in DOMAIN db.rows : i \in hist[w].lost => i \in hist'[w].lost,
           hist'[w].explicit => inst'[w].present,
           hist'[w].rekeyed => scope[w] = "atomic",
           Generated(w)' => inst'[w].key <= d.seq,
           Owned(w, d)', Only(w, d)',
           \/ scope[w] = "direct"
           \/ /\ inst'[w] = inst[w] /\ (hist'[w].explicit <=> hist[w].explicit)
              /\ hist'[w].rekeyed <=> hist[w].rekeyed
           \/ hist'[w].rekeyed /\ (Generated(w)' => inst'[w].key > db.seq)
    PROVE  KeyOK(w)' /\ RowsOK(w)'
  <1> USE WritesAssumption DEF Rows, Ownership, Control
  <1>1. /\ Top' = d /\ db' \in {db, d} /\ db \in Tables
        /\ db.seq \in Nat /\ db'.seq \in Nat /\ d.seq \in Nat
        /\ scope[w] = "direct" => db' = d
        /\ scope[w] = "atomic" => db' = db /\ lock' = w
    BY WritesTop, TableParts DEF TablesOK, InstancesOK
  <1>2. scope[w] \in {"direct", "atomic"}
    BY DEF Writes
  <1>3. CASE scope[w] = "direct"
    BY <1>1, <1>3 DEF KeyOK, RowsOK, Owned, Only, Alone
  <1>4. CASE /\ inst'[w] = inst[w] /\ (hist'[w].explicit <=> hist[w].explicit)
             /\ hist'[w].rekeyed <=> hist[w].rekeyed
             /\ scope[w] = "atomic"
    <2>1. Generated(w)' <=> Generated(w)
      BY <1>4 DEF Generated
    <2>2. Owned(w, db)' /\ (~hist'[w].rekeyed => Only(w, db)') /\ Alone(w)'
      BY <1>1, <1>4, <2>1 DEF RowsOK, Owned, Only, Alone
    <2>3. KeyOK(w)'
      BY <1>1, <1>4, <2>1 DEF KeyOK
    <2> QED BY <1>1, <2>2, <2>3 DEF RowsOK, Owned, Only
  <1>5. CASE /\ hist'[w].rekeyed /\ (Generated(w)' => inst'[w].key > db.seq)
             /\ scope[w] = "atomic"
    <2>1. Owned(w, db)'
      <3>1. Generated(w)' => inst'[w].key \notin DOMAIN db.rows
        BY <1>1, <1>5, TableParts
      <3> QED BY <1>1, <1>5, <3>1 DEF Owned
    <2>2. Alone(w)'
      BY <1>1, <1>5 DEF RowsOK, Alone
    <2>3. KeyOK(w)'
      BY <1>1, <1>5 DEF KeyOK
    <2> QED BY <1>1, <1>5, <2>1, <2>2, <2>3 DEF RowsOK, Owned, Only
  <1> QED BY <1>2, <1>3, <1>4, <1>5

\* Generated keys stay different when no instance, or the instance of w only,
\* gets a key, and that is a new one.
LEMMA DifferKeeps ==
    ASSUME KeysDiffer, NEW w \in Writers,
           \A v \in Writers : v # w => inst'[v] = inst[v] /\ hist'[v] = hist[v],
           \/ Generated(w)' => Generated(w) /\ inst'[w] = inst[w]
           \/ \A v \in Writers : v # w /\ Generated(v) => inst[v].key # inst'[w].key
    PROVE  KeysDiffer'
  <1>1. \A v \in Writers : v # w => (Generated(v)' <=> Generated(v))
    BY DEF Generated
  <1> QED BY <1>1 DEF KeysDiffer

\* A statement of a transaction differs from the last version in fields it
\* was asked to write.
LEMMA MergesKeep ==
    ASSUME Rows, NEW w \in Writers, NEW d \in Tables, Writes(w, d),
           hist[w].touched \subseteq hist'[w].touched,
           \A i \in DOMAIN d.rows, f \in Fields :
              \/ i \in DOMAIN Top.rows /\ d.rows[i].val[f] = Top.rows[i].val[f]
              \/ d.rows[i].val[f] = w /\ f \in hist'[w].touched
    PROVE  Merges' /\ MergeStep
  <1> USE WritesAssumption DEF Rows, Ownership
  <1>1. CASE scope[w] = "direct"
    <2>1. Merges'
      BY <1>1 DEF Writes, Merges
    <2>2. db' = d /\ Top = db
      BY <1>1 DEF Writes, Top
    <2> QED BY <2>1, <2>2 DEF MergeStep
  <1>2. CASE scope[w] = "atomic"
    <2>1. /\ lock' = w /\ copy'[w] = d /\ db' = db
          /\ lock = w \/ (lock = Nobody /\ Top = db)
          /\ lock = w => Top = copy[w]
      BY <1>2 DEF Writes, Top, TablesOK, InstancesOK
    <2>2. SUFFICES ASSUME NEW k \in DOMAIN db.rows \cap DOMAIN d.rows, NEW f \in Fields
                   PROVE  \/ d.rows[k].val[f] = db.rows[k].val[f]
                          \/ d.rows[k].val[f] = w /\ f \in hist'[w].touched
      BY <2>1 DEF Merges, MergeStep
    <2>3. CASE lock = w
      BY <2>1, <2>3 DEF Merges
    <2>4. CASE Top = db
      BY <2>4
    <2> QED BY <2>1, <2>3, <2>4
  <1> QED BY <1>1, <1>2 DEF Writes

\* What is remembered of a changed row.
LEMMA ChangedRows ==
    ASSUME HistoryOK, NEW w \in Writers, NEW k, NEW b \in BOOLEAN, NEW l,
           Changed(w, k, b, l)
    PROVE  /\ hist'[w].lost = l
           /\ \A v \in Writers : v # w => hist'[v] = hist[v]
           /\ hist'[w].explicit <=> hist[w].explicit /\ ~b
           /\ hist'[w].stale <=> hist[w].stale
           /\ hist'[w].rekeyed <=> hist[w].rekeyed \/ (b /\ scope[w] = "atomic")
           /\ hist'[w].touched = hist[w].touched
           /\ hist'[w].foreign =>
                 \/ hist[w].foreign
                 \/ /\ k \in DOMAIN View(w).rows
                    /\ inst[w].present => View(w).rows[k].by \notin {Nobody, w}
                    /\ ~hist[w].explicit /\ ~hist[w].stale
  <1> DEFINE h == hist[w]
             n == h.changed + 1
             a == h.made + 1
             d == IF scope[w] = "direct" THEN h.durable + 1 ELSE h.durable
             f == h.foreign \/ (/\ k \in DOMAIN View(w).rows
                                /\ inst[w].present => View(w).rows[k].by \notin {Nobody, w}
                                /\ ~h.explicit /\ ~h.stale)
             x == h.explicit /\ ~b
             r == h.rekeyed \/ (b /\ scope[w] = "atomic")
             new == [h EXCEPT !.changed = n, !.made = a, !.lost = l, !.durable = d,
                              !.foreign = f, !.explicit = x, !.rekeyed = r]
  <1>1. h \in Histories
    BY DEF HistoryOK
  <1>2. hist' = [hist EXCEPT ![w] = new]
    BY Zenon DEF Changed
  <1> HIDE DEF n, a, d, f, x, r
  <1>3. /\ new.explicit = x /\ new.rekeyed = r /\ new.foreign = f
        /\ new.stale = h.stale /\ new.touched = h.touched /\ new.lost = l
    BY <1>1 DEF Histories
  <1>4. hist'[w] = new /\ \A v \in Writers : v # w => hist'[v] = hist[v]
    BY <1>2 DEF HistoryOK
  <1> HIDE DEF new
  <1> QED BY <1>3, <1>4, Zenon DEF x, r, f

\* A statement starts from the newest version.
LEMMA StatementWrites ==
    ASSUME Rows, NEW w \in Writers, NEW d, CanRun(w), Leaves(w, d)
    PROVE  /\ Writes(w, d) /\ View(w) = Top /\ Top \in Tables
           /\ db.seq <= Top.seq /\ db.seq \in Nat /\ Top.seq \in Nat
           /\ scope[w] \in {"direct", "atomic"} /\ ~hist[w].foreign
           /\ inst[w].key \in Keys /\ inst[w].key \in Nat
           /\ \A v \in Writers : v # w => ~hist[v].rekeyed
  <1>1. Writes(w, d) /\ View(w) = Top
    BY LeavesWrites DEF Rows, Control
  <1>2. Top \in Tables
    BY WritesAssumption, <1>1 DEF Rows, TablesOK, Top, Writes
  <1>3. \A v \in Writers : v # w => ~hist[v].rekeyed
    BY WritesAssumption, <1>1 DEF Rows, Ownership, KeyOK, Writes
  <1>4. inst[w].key \in Keys /\ inst[w].key \in Nat
    BY WritesAssumption DEF Rows, InstancesOK, Keys
  <1> QED BY <1>1, <1>2, <1>3, <1>4, TableParts
       DEF Rows, TablesOK, Control, ControlOK, FlowOK, Ownership, RowsOK

\* A statement that neither inserts nor deletes.
LEMMA SameKeys ==
    ASSUME Rows, NEW w \in Writers, NEW d \in Tables, Writes(w, d), Top \in Tables,
           scope[w] \in {"direct", "atomic"}, ~hist'[w].foreign, inst' = inst,
           d.seq = Top.seq, DOMAIN d.rows = DOMAIN Top.rows,
           \A i \in DOMAIN d.rows : d.rows[i].by = Top.rows[i].by,
           \A i \in DOMAIN d.rows, f \in Fields :
              \/ d.rows[i].val[f] = Top.rows[i].val[f]
              \/ d.rows[i].val[f] = w /\ f \in hist'[w].touched,
           \A v \in Writers : v # w => hist'[v] = hist[v],
           hist'[w].explicit <=> hist[w].explicit,
           hist'[w].stale <=> hist[w].stale,
           hist'[w].rekeyed <=> hist[w].rekeyed,
           hist'[w].lost = hist[w].lost,
           hist[w].touched \subseteq hist'[w].touched
    PROVE  TablesOK' /\ Ownership' /\ MergeStep
  <1> USE DEF Rows, Ownership
  <1>1. Top.seq <= d.seq /\ db.seq \in Nat /\ Top.seq \in Nat /\ inst[w].key \in Nat
    BY WritesAssumption, TableParts DEF TablesOK, InstancesOK, Keys
  <1>2. \A v \in Writers : v # w => KeyOK(v)' /\ RowsOK(v)'
    BY <1>1, OthersKeep
  <1>3. Generated(w)' <=> Generated(w)
    BY DEF Generated
  <1>4. KeyOK(w)' /\ RowsOK(w)'
    <2>1. Owned(w, d)' /\ Only(w, d)'
      BY <1>3 DEF RowsOK, Owned, Only
    <2>2. Generated(w)' => inst'[w].key <= d.seq
      BY <1>1, <1>3 DEF KeyOK, TablesOK
    <2>3. /\ hist'[w].explicit => inst'[w].present
          /\ hist'[w].rekeyed => scope[w] = "atomic"
      BY WritesAssumption DEF KeyOK, Writes
    <2> QED BY <1>1, <2>1, <2>2, <2>3, OwnKeeps
  <1>5. KeysDiffer'
    BY <1>3, DifferKeeps
  <1>6. Merges' /\ MergeStep
    BY MergesKeep
  <1>7. TablesOK'
    BY <1>1, WritesTop DEF TablesOK, Control
  <1> QED BY <1>2, <1>4, <1>5, <1>6, <1>7

\* UPDATE of the row under the key.
LEMMA UpdateRowKeeps ==
    ASSUME Rows, NEW w \in Writers, NEW read \in BOOLEAN, UpdateRow(w, read)
    PROVE  TablesOK' /\ Ownership' /\ MergeStep
  <1> DEFINE k == inst[w].key
  <1>1. PICK d : d = Overwritten(View(w), k, w, plan[w].fields)
    OBVIOUS
  <1>2. /\ CanRun(w) /\ Leaves(w, d) /\ Changed(w, k, FALSE, hist[w].lost) /\ inst' = inst
        /\ inst[w].present /\ plan[w].fields \subseteq hist[w].touched
        /\ k \in DOMAIN View(w).rows
    BY <1>1 DEF UpdateRow, Overwritten, Rows, PlanFits
  <1>3. /\ Writes(w, d) /\ View(w) = Top /\ Top \in Tables /\ ~hist[w].foreign
        /\ scope[w] \in {"direct", "atomic"}
    BY <1>2, StatementWrites
  <1>4. /\ d \in Tables /\ d.seq = Top.seq /\ DOMAIN d.rows = DOMAIN Top.rows
        /\ \A i \in DOMAIN d.rows : d.rows[i].by = Top.rows[i].by
        /\ \A i \in DOMAIN d.rows, f \in Fields :
              \/ d.rows[i].val[f] = Top.rows[i].val[f]
              \/ d.rows[i].val[f] = w /\ f \in plan[w].fields
    BY <1>1, <1>2, <1>3, OverwriteTable
  <1>5. Generated(w) => View(w).rows[k].by \in {w, Nobody}
    BY <1>2, <1>3 DEF Rows, Ownership, RowsOK, Owned
  <1>6. HistoryOK
    BY DEF Rows, Control, ControlOK
  <1>7. /\ \A v \in Writers : v # w => hist'[v] = hist[v]
        /\ hist'[w].explicit <=> hist[w].explicit
        /\ hist'[w].stale <=> hist[w].stale
        /\ hist'[w].rekeyed <=> hist[w].rekeyed
        /\ hist'[w].touched = hist[w].touched /\ hist'[w].lost = hist[w].lost
        /\ ~hist'[w].foreign
    BY <1>2, <1>3, <1>5, <1>6, ChangedRows DEF Generated
  <1>8. \A i \in DOMAIN d.rows, f \in Fields :
           \/ d.rows[i].val[f] = Top.rows[i].val[f]
           \/ d.rows[i].val[f] = w /\ f \in hist'[w].touched
    BY <1>2, <1>4, <1>7
  <1> QED BY <1>2, <1>3, <1>4, <1>7, <1>8, SameKeys

\* A statement that changes no row.
LEMMA NoRowKeeps ==
    ASSUME Rows, NEW w \in Writers, CanRun(w), Leaves(w, View(w)), UNCHANGED <<inst, hist>>
    PROVE  TablesOK' /\ Ownership' /\ MergeStep
  <1>1. PICK d : d = View(w)
    OBVIOUS
  <1>2. /\ Writes(w, d) /\ d = Top /\ d \in Tables /\ ~hist[w].foreign
        /\ scope[w] \in {"direct", "atomic"}
    BY <1>1, StatementWrites
  <1> QED BY <1>2, SameKeys

\* The statement of a goroutine that shares the session.
LEMMA HelperUpdatesKeeps ==
    ASSUME Rows, NEW w \in Writers, NEW k \in ExplicitKeys, NEW read \in BOOLEAN,
           HelperUpdates(w, k, read)
    PROVE  TablesOK' /\ Ownership' /\ MergeStep
  <1> USE WritesAssumption DEF Rows, Ownership, Control, ControlOK
  <1>1. PICK d : d = Overwritten(View(w), k, w, Fields)
    OBVIOUS
  <1>2. /\ lock \in {Nobody, w} /\ k \in DOMAIN View(w).rows
        /\ copy' = [copy EXCEPT ![w] = d] /\ lock' = w /\ UNCHANGED <<db, inst>>
        /\ scope[w] = "atomic"
    BY <1>1 DEF HelperUpdates, Overwritten, WriterOK, Connected
  <1>3. Writes(w, d) /\ View(w) = Top /\ Top \in Tables
    BY <1>2 DEF Writes, View, Top, TablesOK
  <1>4. /\ d \in Tables /\ d.seq = Top.seq /\ DOMAIN d.rows = DOMAIN Top.rows
        /\ \A i \in DOMAIN d.rows : d.rows[i].by = Top.rows[i].by
        /\ \A i \in DOMAIN d.rows, f \in Fields :
              \/ d.rows[i].val[f] = Top.rows[i].val[f]
              \/ d.rows[i].val[f] = w /\ f \in Fields
    BY <1>1, <1>2, <1>3, OverwriteTable
  <1>5. PICK n : hist' = [hist EXCEPT ![w] = [@ EXCEPT !.made = n, !.touched = Fields]]
    BY DEF HelperUpdates
  <1>6. /\ hist[w] \in Histories /\ hist'[w] = [hist[w] EXCEPT !.made = n, !.touched = Fields]
        /\ \A v \in Writers : v # w => hist'[v] = hist[v]
    BY <1>5 DEF HistoryOK
  <1>7. /\ hist'[w].explicit = hist[w].explicit /\ hist'[w].stale = hist[w].stale
        /\ hist'[w].rekeyed = hist[w].rekeyed /\ hist'[w].touched = Fields
        /\ hist'[w].foreign = hist[w].foreign /\ hist[w].touched \subseteq Fields
        /\ hist'[w].lost = hist[w].lost
    BY <1>6 DEF Histories
  <1>8. ~hist[w].foreign
    BY DEF RowsOK
  <1>9. /\ ~hist'[w].foreign
        /\ \A i \in DOMAIN d.rows, f \in Fields :
              \/ d.rows[i].val[f] = Top.rows[i].val[f]
              \/ d.rows[i].val[f] = w /\ f \in hist'[w].touched
    BY <1>4, <1>7, <1>8
  <1>10. /\ hist'[w].explicit <=> hist[w].explicit
         /\ hist'[w].stale <=> hist[w].stale
         /\ hist'[w].rekeyed <=> hist[w].rekeyed
         /\ hist'[w].lost = hist[w].lost
         /\ hist[w].touched \subseteq hist'[w].touched
    BY <1>7
  <1>11. Rows /\ scope[w] \in {"direct", "atomic"}
    BY <1>2
  <1> HIDE DEF Rows, Ownership, Control, ControlOK
  <1> QED BY <1>2, <1>3, <1>4, <1>6, <1>9, <1>10, <1>11, SameKeys

\* INSERT with a generated key: no table and no instance has it.
LEMMA InsertGeneratedKeeps ==
    ASSUME Rows, NEW w \in Writers, NEW read \in BOOLEAN, InsertGenerated(w, read)
    PROVE  TablesOK' /\ Ownership' /\ MergeStep
  <1>1. PICK k : k = NextKey(View(w))
    OBVIOUS
  <1>2. PICK d : d = Inserted(View(w), k, Row(w, w), k)
    OBVIOUS
  <1>l. PICK l : l = IF read THEN hist[w].lost \ {k} ELSE hist[w].lost \cup {k}
    OBVIOUS
  <1>3. /\ CanRun(w) /\ Leaves(w, d) /\ Changed(w, k, read, l) /\ k \in Keys
        /\ inst' = IF read THEN [inst EXCEPT ![w] = [key |-> k, present |-> TRUE]] ELSE inst
        /\ ~inst[w].present /\ hist[w].touched = Fields
    BY <1>1, <1>2, <1>l DEF InsertGenerated, Inserted, Rows, PlanFits
  <1>4. /\ Writes(w, d) /\ View(w) = Top /\ Top \in Tables /\ ~hist[w].foreign
        /\ Top.seq \in Nat /\ scope[w] \in {"direct", "atomic"}
        /\ db.seq \in Nat /\ db.seq <= Top.seq /\ \A v \in Writers : v # w => ~hist[v].rekeyed
    BY <1>3, StatementWrites
  <1>5. /\ k = Top.seq + 1 /\ k \in Keys /\ k \in Nat /\ k > db.seq /\ Top.seq <= k
        /\ k \notin DOMAIN Top.rows
    BY <1>1, <1>3, <1>4, TableParts, WritesAssumption DEF NextKey, Keys
  <1>6. Row(w, w) \in RowTypes /\ Row(w, w).by = w /\ \A f \in Fields : Row(w, w).val[f] = w
    BY DEF Row, RowTypes, Names
  <1>7. /\ d \in Tables /\ d.seq = k /\ DOMAIN d.rows = DOMAIN Top.rows \cup {k}
        /\ d.rows[k] = Row(w, w) /\ \A i \in DOMAIN Top.rows : d.rows[i] = Top.rows[i]
    <2>1. Top.seq \in Keys /\ k <= k
      BY <1>4, <1>5, TableParts
    <2> QED BY <1>2, <1>4, <1>5, <1>6, <2>1, PutTable
  <1>8. HistoryOK
    BY DEF Rows, Control, ControlOK
  <1>e. ~hist[w].explicit
    BY <1>3 DEF Rows, Ownership, KeyOK
  <1>f. k \notin DOMAIN View(w).rows
    BY <1>4, <1>5
  <1>9. /\ \A v \in Writers : v # w => hist'[v] = hist[v]
        /\ ~hist'[w].explicit /\ hist'[w].lost = l
        /\ hist'[w].stale <=> hist[w].stale
        /\ hist'[w].rekeyed <=> hist[w].rekeyed \/ (read /\ scope[w] = "atomic")
        /\ hist'[w].touched = hist[w].touched
        /\ ~hist'[w].foreign
    <2>1. /\ \A v \in Writers : v # w => hist'[v] = hist[v]
          /\ hist'[w].explicit <=> hist[w].explicit /\ ~read
          /\ hist'[w].lost = l /\ hist'[w].touched = hist[w].touched
          /\ hist'[w].stale <=> hist[w].stale
          /\ hist'[w].rekeyed <=> hist[w].rekeyed \/ (read /\ scope[w] = "atomic")
          /\ hist'[w].foreign => hist[w].foreign \/ k \in DOMAIN View(w).rows
      BY <1>3, <1>8, ChangedRows, Zenon
    <2> QED BY <1>4, <1>e, <1>f, <2>1, Zenon
  <1>10. /\ read => inst'[w].key = k /\ inst'[w].present
         /\ ~read => inst'[w] = inst[w] /\ ~Generated(w)'
         /\ \A v \in Writers : v # w => inst'[v] = inst[v]
    BY <1>3 DEF Rows, InstancesOK, Generated
  <1> USE DEF Rows, Ownership
  <1>11. \A v \in Writers : v # w /\ Generated(v) => inst[v].key # k
    <2> SUFFICES ASSUME NEW v \in Writers, v # w, Generated(v) PROVE inst[v].key # k
      OBVIOUS
    <2>1. inst[v].key <= db.seq /\ inst[v].key \in Nat
      BY <1>4, WritesAssumption DEF KeyOK, InstancesOK, Keys
    <2> QED BY <1>4, <1>5, <2>1
  <1>12. ASSUME NEW v \in Writers, v # w PROVE KeyOK(v)' /\ RowsOK(v)'
    <2>1. \A i \in DOMAIN d.rows :
              \/ i \in DOMAIN Top.rows /\ d.rows[i].by = Top.rows[i].by
              \/ d.rows[i].by = w /\ (Generated(v) => i # inst[v].key)
      BY <1>6, <1>7, <1>11, <1>12
    <2> QED BY <1>4, <1>5, <1>7, <1>9, <1>10, <1>12, <2>1, OthersKeep
  <1>13. KeyOK(w)' /\ RowsOK(w)'
    <2>1. Owned(w, d)'
      BY <1>6, <1>7, <1>10 DEF Owned
    <2>2. Only(w, d)'
      <3> SUFFICES ASSUME ~hist[w].stale, NEW i \in DOMAIN d.rows, d.rows[i].by = w, i \notin l
                   PROVE  Generated(w)' /\ i = inst'[w].key
        BY <1>9 DEF Only
      <3>1. i = k
        <4> SUFFICES ASSUME i # k PROVE FALSE
          OBVIOUS
        <4>1. i \in DOMAIN Top.rows /\ Top.rows[i].by = w /\ i \notin hist[w].lost
          BY <1>7, <1>l
        <4> QED BY <1>3, <4>1 DEF RowsOK, Only, Generated
      <3>2. read
        BY <1>l, <3>1
      <3> QED BY <1>9, <1>10, <3>1, <3>2 DEF Generated
    <2>3. hist'[w].rekeyed => scope[w] = "atomic"
      BY WritesAssumption, <1>4, <1>9 DEF KeyOK, Writes
    <2>4. /\ inst'[w].key \in Nat /\ Top.seq <= d.seq
          /\ read => inst'[w].key > db.seq /\ inst'[w].key <= d.seq
      BY <1>5, <1>7, <1>10, WritesAssumption DEF InstancesOK, Keys
    <2>5. \A i \in DOMAIN db.rows : i \in hist[w].lost => i \in hist'[w].lost
      <3>1. k \notin DOMAIN db.rows
        BY <1>4, <1>5, TableParts DEF TablesOK
      <3> QED BY <1>9, <1>l, <3>1
    <2>6. CASE read
      BY <1>4, <1>7, <1>9, <1>10, <2>1, <2>2, <2>3, <2>4, <2>5, <2>6, OwnKeeps
    <2>7. CASE ~read
      BY <1>4, <1>7, <1>9, <1>10, <1>e, <2>1, <2>2, <2>3, <2>4, <2>5, <2>7, OwnKeeps
    <2> QED BY <2>6, <2>7
  <1>14. KeysDiffer'
    BY <1>9, <1>10, <1>11, DifferKeeps
  <1>15. Merges' /\ MergeStep
    BY <1>3, <1>4, <1>6, <1>7, <1>9, MergesKeep
  <1>16. TablesOK'
    BY <1>4, <1>5, <1>7, WritesTop DEF TablesOK, Control
  <1> QED BY <1>12, <1>13, <1>14, <1>15, <1>16

\* INSERT with the key of the instance: a row of the instance only if no
\* other instance can have that key.
LEMMA InsertExplicitKeeps ==
    ASSUME Rows, NEW w \in Writers, NEW read \in BOOLEAN, InsertExplicit(w, read)
    PROVE  TablesOK' /\ Ownership' /\ MergeStep
  <1> DEFINE k == inst[w].key
             by == IF hist[w].explicit \/ hist[w].stale THEN Nobody ELSE w
             s == IF k > View(w).seq THEN k ELSE View(w).seq
  <1>1. CASE k \in DOMAIN View(w).rows
    BY <1>1, NoRowKeeps DEF InsertExplicit
  <1>2. CASE k \notin DOMAIN View(w).rows
    <2>1. PICK row : row = Row(w, by)
      OBVIOUS
    <2>2. PICK d : d = Inserted(View(w), k, row, s)
      OBVIOUS
    <2>3. /\ CanRun(w) /\ Leaves(w, d) /\ Changed(w, k, FALSE, hist[w].lost) /\ inst' = inst
          /\ inst[w].present /\ hist[w].touched = Fields
      BY <1>2, <2>1, <2>2 DEF InsertExplicit, Inserted, Rows, PlanFits
    <2>4. /\ Writes(w, d) /\ View(w) = Top /\ Top \in Tables /\ ~hist[w].foreign
          /\ Top.seq \in Nat /\ Top.seq \in Keys /\ scope[w] \in {"direct", "atomic"}
          /\ db.seq \in Nat /\ db.seq <= Top.seq /\ k \in Keys /\ k \in Nat
      BY <2>3, StatementWrites, TableParts
    <2>5. /\ row \in RowTypes /\ row.by \in {w, Nobody}
          /\ row.by = w <=> Generated(w)
          /\ \A f \in Fields : row.val[f] = w
      BY <2>1, <2>3, WritesAssumption DEF Row, RowTypes, Names, Generated
    <2>6. s \in Keys /\ Top.seq <= s /\ k <= s
      BY <2>4
    <2> HIDE DEF s
    <2>7. /\ d \in Tables /\ d.seq = s /\ DOMAIN d.rows = DOMAIN Top.rows \cup {k}
          /\ d.rows[k] = row /\ \A i \in DOMAIN Top.rows : d.rows[i] = Top.rows[i]
      BY <1>2, <2>2, <2>4, <2>5, <2>6, PutTable
    <2>8. HistoryOK
      BY DEF Rows, Control, ControlOK
    <2>9. /\ \A v \in Writers : v # w => hist'[v] = hist[v] /\ inst'[v] = inst[v]
          /\ hist'[w].explicit <=> hist[w].explicit
          /\ hist'[w].stale <=> hist[w].stale
          /\ hist'[w].rekeyed <=> hist[w].rekeyed
          /\ hist'[w].touched = hist[w].touched /\ hist'[w].lost = hist[w].lost
          /\ ~hist'[w].foreign
      BY <1>2, <2>3, <2>4, <2>8, ChangedRows
    <2>10. Generated(w)' <=> Generated(w)
      BY <2>3, <2>9 DEF Generated
    <2> USE DEF Rows, Ownership
    <2>11. ASSUME NEW v \in Writers, v # w PROVE KeyOK(v)' /\ RowsOK(v)'
      <3>1. \A i \in DOMAIN d.rows :
                \/ i \in DOMAIN Top.rows /\ d.rows[i].by = Top.rows[i].by
                \/ d.rows[i].by = Nobody
                \/ d.rows[i].by = w /\ (Generated(v) => i # inst[v].key)
        BY <2>5, <2>7, <2>11 DEF KeysDiffer
      <3> QED BY <2>4, <2>6, <2>7, <2>9, <2>11, <3>1, OthersKeep
    <2>12. KeyOK(w)' /\ RowsOK(w)'
      <3>1. Owned(w, d)'
        BY <2>3, <2>5, <2>7, <2>10 DEF Owned
      <3>2. Only(w, d)'
        BY <2>3, <2>5, <2>7, <2>9, <2>10 DEF RowsOK, Only
      <3>3. /\ hist'[w].explicit => inst'[w].present
            /\ hist'[w].rekeyed => scope[w] = "atomic"
        BY WritesAssumption, <2>3, <2>4, <2>9 DEF KeyOK, Writes
      <3>4. inst'[w].key <= d.seq /\ Top.seq <= d.seq
        BY <2>3, <2>6, <2>7
      <3> QED BY <2>3, <2>4, <2>7, <2>9, <3>1, <3>2, <3>3, <3>4, OwnKeeps
    <2>13. KeysDiffer'
      BY <2>3, <2>9, <2>10, DifferKeeps
    <2>14. Merges' /\ MergeStep
      BY <2>3, <2>4, <2>5, <2>7, <2>9, MergesKeep
    <2>15. TablesOK'
      BY <2>4, <2>6, <2>7, WritesTop DEF TablesOK, Control
    <2> QED BY <2>11, <2>12, <2>13, <2>14, <2>15
  <1> QED BY <1>1, <1>2

\* DELETE of the row under the key, which the instance then has no longer if
\* it was told.
LEMMA DeleteRowKeeps ==
    ASSUME Rows, NEW w \in Writers, NEW read \in BOOLEAN, DeleteRow(w, read)
    PROVE  TablesOK' /\ Ownership' /\ MergeStep
  <1> DEFINE k == inst[w].key
  <1>1. CASE k \notin DOMAIN View(w).rows
    BY <1>1, NoRowKeeps DEF DeleteRow
  <1>2. CASE k \in DOMAIN View(w).rows
    <2>1. PICK d : d = Deleted(View(w), k)
      OBVIOUS
    <2>2. /\ CanRun(w) /\ Leaves(w, d) /\ Changed(w, k, read, hist[w].lost)
          /\ inst' = IF read THEN [inst EXCEPT ![w] = Absent] ELSE inst
          /\ inst[w].present
      BY <1>2, <2>1 DEF DeleteRow, Deleted, Rows, PlanFits
    <2>3. /\ Writes(w, d) /\ View(w) = Top /\ Top \in Tables /\ ~hist[w].foreign
          /\ Top.seq \in Nat /\ scope[w] \in {"direct", "atomic"}
      BY <2>2, StatementWrites
    <2>4. /\ d \in Tables /\ d.seq = Top.seq /\ DOMAIN d.rows = DOMAIN Top.rows \ {k}
          /\ \A i \in DOMAIN d.rows : d.rows[i] = Top.rows[i]
      BY <2>1, <2>3, WithoutTable
    <2>5. HistoryOK
      BY DEF Rows, Control, ControlOK
    <2>6. Generated(w) => View(w).rows[k].by \in {w, Nobody}
      BY <1>2, <2>3 DEF Rows, Ownership, RowsOK, Owned
    <2>7. /\ \A v \in Writers : v # w => hist'[v] = hist[v]
          /\ hist'[w].explicit <=> hist[w].explicit /\ ~read
          /\ hist'[w].stale <=> hist[w].stale
          /\ hist'[w].rekeyed <=> hist[w].rekeyed \/ (read /\ scope[w] = "atomic")
          /\ hist'[w].touched = hist[w].touched /\ hist'[w].lost = hist[w].lost
          /\ ~hist'[w].foreign
      <3>1. PICK i, l : i = k /\ l = hist[w].lost /\ Changed(w, i, read, l)
        BY <2>2
      <3>2. /\ \A v \in Writers : v # w => hist'[v] = hist[v]
            /\ hist'[w].explicit <=> hist[w].explicit /\ ~read
            /\ hist'[w].lost = l /\ hist'[w].touched = hist[w].touched
            /\ hist'[w].stale <=> hist[w].stale
            /\ hist'[w].rekeyed <=> hist[w].rekeyed \/ (read /\ scope[w] = "atomic")
            /\ hist'[w].foreign =>
                  \/ hist[w].foreign
                  \/ /\ inst[w].present => View(w).rows[i].by \notin {Nobody, w}
                     /\ ~hist[w].explicit /\ ~hist[w].stale
        <4>1. Changed(w, i, read, l)
          BY <3>1
        <4> QED BY <2>5, <4>1, ChangedRows, Zenon
      <3> QED BY <2>2, <2>3, <2>6, <3>1, <3>2, Zenon DEF Generated
    <2>8. /\ read => inst'[w].key = 0 /\ ~inst'[w].present
          /\ ~read => inst'[w] = inst[w]
          /\ \A v \in Writers : v # w => inst'[v] = inst[v]
      BY <2>2 DEF Rows, InstancesOK, Absent
    <2>9. /\ Generated(w)' => ~read /\ Generated(w)
          /\ Top.seq <= d.seq
      BY <2>3, <2>4, <2>7, <2>8 DEF Generated
    <2> USE DEF Rows, Ownership
    <2>10. ASSUME NEW v \in Writers, v # w PROVE KeyOK(v)' /\ RowsOK(v)'
      BY <2>3, <2>4, <2>7, <2>8, <2>9, <2>10, OthersKeep
    <2>11. KeyOK(w)' /\ RowsOK(w)'
      <3>1. Owned(w, d)'
        BY <2>4, <2>8, <2>9 DEF Owned
      <3>2. Only(w, d)'
        <4> SUFFICES ASSUME ~hist[w].stale, NEW i \in DOMAIN d.rows, d.rows[i].by = w,
                            i \notin hist[w].lost
                     PROVE  FALSE
          BY <2>7 DEF Only
        <4>1. i \in DOMAIN Top.rows /\ Top.rows[i].by = w /\ i # k
          BY <2>4
        <4> QED BY <4>1 DEF RowsOK, Only
      <3>3. /\ hist'[w].rekeyed => scope[w] = "atomic"
            /\ hist'[w].explicit => inst'[w].present
        BY WritesAssumption, <2>2, <2>3, <2>7, <2>8 DEF KeyOK, Writes
      <3>4. /\ inst'[w].key \in Nat
            /\ Generated(w)' => inst'[w].key <= d.seq
        <4>1. inst[w].key \in Nat /\ db.seq \in Nat /\ db.seq <= Top.seq
          BY <2>2, StatementWrites
        <4> QED BY <2>3, <2>4, <2>8, <2>9, <4>1 DEF KeyOK
      <3>5. CASE read
        BY <2>3, <2>4, <2>7, <2>8, <2>9, <3>1, <3>2, <3>3, <3>4, <3>5, OwnKeeps
      <3>6. CASE ~read
        BY <2>3, <2>4, <2>7, <2>8, <2>9, <3>1, <3>2, <3>3, <3>4, <3>6, OwnKeeps
      <3> QED BY <3>5, <3>6
    <2>12. KeysDiffer'
      BY <2>7, <2>8, <2>9, DifferKeeps
    <2>13. Merges' /\ MergeStep
      BY <2>3, <2>4, <2>7, MergesKeep
    <2>14. TablesOK'
      BY <2>3, <2>4, <2>9, WritesTop DEF TablesOK, Control
    <2> QED BY <2>10, <2>11, <2>12, <2>13, <2>14
  <1> QED BY <1>1, <1>2

-----------------------------------------------------------------------------
(* Transactions.                                                           *)

\* A step that neither writes nor ends a transaction.
LEMMA AsideKeeps ==
    ASSUME Rows, UNCHANGED <<db, lock, copy, inst>>,
           \A v \in Writers :
              /\ hist'[v].explicit <=> hist[v].explicit
              /\ hist'[v].stale <=> hist[v].stale
              /\ hist'[v].rekeyed <=> hist[v].rekeyed
              /\ hist'[v].foreign <=> hist[v].foreign
              /\ hist'[v].lost = hist[v].lost
              /\ lock = v => hist[v].touched \subseteq hist'[v].touched
    PROVE  TablesOK' /\ Ownership' /\ MergeStep
  <1> USE DEF Rows, Ownership
  <1>1. Top' = Top /\ TablesOK'
    BY DEF Top, TablesOK
  <1>2. \A v \in Writers : Generated(v)' <=> Generated(v)
    BY DEF Generated
  <1>3. KeysDiffer' /\ Merges' /\ MergeStep
    BY <1>2 DEF KeysDiffer, Merges, MergeStep
  <1>4. ASSUME NEW v \in Writers PROVE KeyOK(v)' /\ RowsOK(v)'
    BY <1>1, <1>2 DEF KeyOK, RowsOK, Owned, Only, Alone
  <1> QED BY <1>1, <1>3, <1>4

\* What the end of a transaction does to the tables.
LEMMA DoneTables ==
    ASSUME TablesOK, ControlOK, NEW w \in Writers, TxDone(w)
    PROVE  /\ copy' \in [Writers -> Tables]
           /\ lock = w => lock' = Nobody /\ Top' = db' /\ Top = copy[w]
           /\ lock # w => lock' = lock /\ (UNCHANGED db => Top' = Top)
           /\ \A v \in Writers : v # w => copy'[v] = copy[v]
  BY EmptyIsTable, WritesAssumption DEF TxDone, TablesOK, Top, ControlOK, SharedOK

\* A transaction that is given up leaves an instance that it changed with a
\* key of its own making.
LEMMA RollbackKeeps ==
    ASSUME Rows, NEW w \in Writers, Discard(w), UNCHANGED <<db, inst>>
    PROVE  TablesOK' /\ Ownership' /\ MergeStep
  <1> USE WritesAssumption DEF Rows, Ownership, Control, ControlOK
  <1>1. /\ copy' \in [Writers -> Tables]
        /\ lock = w => lock' = Nobody /\ Top' = db /\ Top = copy[w]
        /\ lock # w => lock' = lock /\ Top' = Top
        /\ \A v \in Writers : v # w => copy'[v] = copy[v]
    BY DoneTables DEF Discard
  <1>2. PICK s : hist' = [hist EXCEPT ![w] = [hist[w] EXCEPT !.stale = s, !.rekeyed = FALSE]]
                 /\ (s <=> hist[w].stale \/ hist[w].rekeyed)
    <2>1. PICK s : s = (hist[w].stale \/ hist[w].rekeyed)
      OBVIOUS
    <2> QED BY <2>1, Zenon DEF Discard
  <1>3. /\ \A v \in Writers : v # w => hist'[v] = hist[v]
        /\ hist'[w].explicit = hist[w].explicit /\ ~hist'[w].rekeyed
        /\ hist'[w].foreign = hist[w].foreign /\ hist'[w].touched = hist[w].touched
        /\ hist'[w].lost = hist[w].lost
        /\ hist'[w].stale <=> hist[w].stale \/ hist[w].rekeyed
    BY <1>2 DEF HistoryOK, Histories
  <1>4. /\ db.seq \in Nat /\ TablesOK'
        /\ \A v \in Writers : inst[v].key \in Nat
    BY <1>1, TableParts DEF TablesOK, InstancesOK, Keys
  <1>5. /\ \A v \in Writers : v # w => (Generated(v)' <=> Generated(v))
        /\ Generated(w)' <=> Generated(w) /\ ~hist[w].rekeyed
    BY <1>3 DEF Generated
  <1>6. KeysDiffer'
    BY <1>5 DEF KeysDiffer
  <1>7. Merges' /\ MergeStep
    BY <1>1, <1>3 DEF Merges, MergeStep
  <1>8. ASSUME NEW v \in Writers PROVE KeyOK(v)'
    <2>1. hist'[v].rekeyed => hist[v].rekeyed /\ v # w
      BY <1>3
    <2>2. (hist'[v].explicit => inst[v].present) /\ (hist'[v].rekeyed => lock' = v)
      BY <1>1, <1>3, <2>1 DEF KeyOK
    <2>3. Generated(v)' => inst[v].key <= IF hist'[v].rekeyed THEN Top'.seq ELSE db.seq
      BY <1>1, <1>3, <1>5, <2>1 DEF KeyOK
    <2> QED BY <2>2, <2>3 DEF KeyOK
  <1>9. ASSUME NEW v \in Writers PROVE RowsOK(v)'
    <2>1. Generated(v)' => Generated(v)
      BY <1>5
    <2>2. Top' = db \/ Top' = Top
      BY <1>1
    <2>3. Owned(v, db)' /\ Owned(v, Top)'
      BY <2>1, <2>2 DEF RowsOK, Owned
    <2>4. CASE v = w
      BY <1>1, <1>3, <1>5, <2>2, <2>3, <2>4 DEF RowsOK, Only, Alone
    <2>5. CASE v # w
      BY <1>1, <1>3, <1>5, <2>2, <2>3, <2>5 DEF RowsOK, Only, Alone, KeyOK
    <2> QED BY <2>4, <2>5
  <1> QED BY <1>4, <1>6, <1>7, <1>8, <1>9

\* A commit makes the newest version the committed one.
LEMMA CommitKeeps ==
    ASSUME Rows, NEW w \in Writers, Commit(w)
    PROVE  TablesOK' /\ Ownership' /\ MergeStep
  <1> USE WritesAssumption DEF Rows, Ownership, Control, ControlOK
  <1>1. /\ copy' \in [Writers -> Tables] /\ inst' = inst
        /\ lock = w => lock' = Nobody /\ Top' = db' /\ Top = copy[w] /\ db' = Top
        /\ lock # w => lock' = lock /\ Top' = Top /\ db' = db
        /\ \A v \in Writers : v # w => copy'[v] = copy[v]
    BY DoneTables DEF Commit, View
  <1>2. PICK n : hist' = [hist EXCEPT ![w] = [@ EXCEPT !.durable = n, !.rekeyed = FALSE]]
    BY DEF Commit
  <1>3. /\ \A v \in Writers : v # w => hist'[v] = hist[v]
        /\ hist'[w].explicit = hist[w].explicit /\ ~hist'[w].rekeyed
        /\ hist'[w].foreign = hist[w].foreign /\ hist'[w].touched = hist[w].touched
        /\ hist'[w].stale = hist[w].stale /\ hist'[w].lost = hist[w].lost
    BY <1>2 DEF HistoryOK, Histories
  <1>4. /\ db.seq \in Nat /\ Top.seq \in Nat /\ db.seq <= Top.seq /\ TablesOK'
        /\ \A v \in Writers : inst[v].key \in Nat
    BY <1>1, TableParts DEF TablesOK, InstancesOK, Keys, Top, SharedOK
  <1>5. \A v \in Writers : Generated(v)' <=> Generated(v)
    BY <1>1, <1>3 DEF Generated
  <1>6. KeysDiffer'
    BY <1>1, <1>5 DEF KeysDiffer
  <1>7. Merges' /\ MergeStep
    BY <1>1, <1>3 DEF Merges, MergeStep
  <1>8. ASSUME NEW v \in Writers PROVE KeyOK(v)'
    <2>1. hist'[v].rekeyed => hist[v].rekeyed /\ v # w
      BY <1>3
    <2>2. (hist'[v].explicit => inst[v].present) /\ (hist'[v].rekeyed => lock' = v)
      BY <1>1, <1>3, <2>1 DEF KeyOK
    <2>3. Generated(v)' => inst[v].key <= IF hist'[v].rekeyed THEN Top'.seq ELSE db'.seq
      <3>1. CASE lock = w
        BY <1>1, <1>4, <1>5, <2>1, <3>1 DEF KeyOK
      <3>2. CASE lock # w
        BY <1>1, <1>3, <1>5, <2>1, <3>2 DEF KeyOK
      <3> QED BY <3>1, <3>2
    <2> QED BY <1>1, <2>2, <2>3 DEF KeyOK
  <1>9. ASSUME NEW v \in Writers PROVE RowsOK(v)'
    <2>1. CASE lock = w
      <3>1. Owned(v, Top)' /\ Owned(v, db)'
        BY <1>1, <1>5, <2>1 DEF RowsOK, Owned
      <3>2. Only(v, Top)' /\ Only(v, db)' /\ Alone(v)'
        BY <1>1, <1>3, <1>5, <2>1 DEF RowsOK, Only, Alone
      <3> QED BY <1>3, <3>1, <3>2 DEF RowsOK
    <2>2. CASE lock # w
      <3>1. ~hist[w].rekeyed
        BY <2>2 DEF KeyOK
      <3>2. Owned(v, Top)' /\ Owned(v, db)'
        BY <1>1, <1>5, <2>2 DEF RowsOK, Owned
      <3>3. Only(v, Top)' /\ (~hist'[v].rekeyed => Only(v, db)') /\ Alone(v)'
        BY <1>1, <1>3, <1>5, <2>2, <3>1 DEF RowsOK, Only, Alone
      <3> QED BY <1>3, <3>2, <3>3 DEF RowsOK
    <2> QED BY <2>1, <2>2
  <1> QED BY <1>4, <1>6, <1>7, <1>8, <1>9

-----------------------------------------------------------------------------
(* Plans.                                                                  *)

\* A plan that is not refused fits the instance and the arguments.
LEMMA PlanOfFits ==
    ASSUME NEW i \in [key : Keys, present : BOOLEAN], NEW r \in Requests, ~Refused(i, r),
           NEW p, p = PlanOf(i, r)
    PROVE  /\ p \in PlanTypes /\ p.fields \subseteq r.fields
           /\ p.insert = "explicit" => i.present
           /\ p.insert = "generated" => ~i.present \/ r.kind = "create"
           /\ p.insert # "none" => r.fields = Fields
           /\ FirstLabel(p) \in {"update", "delete"} => i.present
           /\ FirstLabel(p) \in {"update", "delete", "insert", "noop"}
  <1>1. /\ r.kind \in Kinds /\ r.kind \in {"create", "save", "update", "delete"}
        /\ r.fields \subseteq Fields /\ r.force \subseteq {"insert", "update"}
        /\ r.masked \in BOOLEAN /\ (~r.masked => r.fields = Fields)
        /\ r.kind # "save" => r.masked = (r.kind = "update")
    BY WritesAssumption DEF Requests
  <1>2. CASE r.kind = "create"
    BY <1>1, <1>2 DEF PlanOf, NoPlan, PlanTypes, FirstLabel
  <1>3. CASE r.kind = "save"
    <2>1. p = SavePlan(i, r) /\ ~SaveRefused(i, r)
      BY <1>3 DEF PlanOf, Refused
    <2>2. /\ p.kind = "save" /\ p.update \in BOOLEAN /\ p.fields = SelectedFields(r)
          /\ p.insert \in {"none", "generated", "explicit"}
          /\ p = [kind |-> p.kind, update |-> p.update, insert |-> p.insert,
                  fields |-> p.fields]
          /\ p.update => i.present
      BY <2>1 DEF SavePlan
    <2>3. p.fields = r.fields
      BY <1>1, <2>2 DEF SelectedFields
    <2>4. /\ p.insert = "explicit" => i.present /\ ~r.masked
          /\ p.insert = "generated" => ~i.present /\ ~r.masked
      BY <2>1 DEF SavePlan, SaveRefused
    <2> QED BY <1>1, <1>3, <2>2, <2>3, <2>4 DEF PlanTypes, FirstLabel
  <1>4. CASE r.kind = "update"
    BY <1>1, <1>4 DEF PlanOf, Refused, NoPlan, PlanTypes, FirstLabel
  <1>5. CASE r.kind = "delete"
    BY <1>1, <1>5 DEF PlanOf, Refused, NoPlan, PlanTypes, FirstLabel
  <1> QED BY <1>1, <1>2, <1>3, <1>4, <1>5

\* Every step keeps the types of plans and instances, and those of others.
LEMMA InstancesKeep ==
    ASSUME Rows, NEW w \in Writers, Moves(w)
    PROVE  /\ InstancesOK'
           /\ \A v \in Writers : v # w => plan'[v] = plan[v] /\ inst'[v] = inst[v]
  <1> USE DEF Rows, InstancesOK, OpEnds
  <1>0. NoPlan \in PlanTypes /\ Absent \in [key : Keys, present : BOOLEAN]
    BY WritesAssumption DEF NoPlan, PlanTypes, Absent, Keys
  <1>1. CASE CallDirect(w) \/ CallSession(w) \/ CallAtomic(w) \/ Cancel(w) \/ Return(w)
    BY <1>1 DEF CallDirect, CallSession, CallAtomic, Cancel, Return
  <1>2. CASE ConfigureCanceled(w)
    BY <1>0, <1>2 DEF ConfigureCanceled
  <1>3. ASSUME NEW r \in Requests, Configure(w, r)
        PROVE  /\ InstancesOK'
               /\ \A v \in Writers : v # w => plan'[v] = plan[v] /\ inst'[v] = inst[v]
    <2>1. CASE plan' = [plan EXCEPT ![w] = NoPlan]
      BY <1>0, <1>3, <2>1 DEF Configure
    <2>2. CASE ~Refused(inst[w], r) /\ plan' = [plan EXCEPT ![w] = PlanOf(inst[w], r)]
      BY <1>3, <2>2, PlanOfFits DEF Configure
    <2> QED BY <1>3, <2>1, <2>2 DEF Configure
  <1>4. CASE UpdateNone(w) \/ StatementFails(w)
    BY <1>0, <1>4 DEF UpdateNone, StatementFails
  <1>5. ASSUME NEW read \in BOOLEAN, UpdateRow(w, read) \/ InsertExplicit(w, read)
        PROVE  /\ InstancesOK'
               /\ \A v \in Writers : v # w => plan'[v] = plan[v] /\ inst'[v] = inst[v]
    BY <1>0, <1>5 DEF UpdateRow, InsertExplicit
  <1>6. ASSUME NEW read \in BOOLEAN, InsertGenerated(w, read)
        PROVE  /\ InstancesOK'
               /\ \A v \in Writers : v # w => plan'[v] = plan[v] /\ inst'[v] = inst[v]
    <2>1. PICK i \in [key : Keys, present : BOOLEAN] :
              inst' = inst \/ inst' = [inst EXCEPT ![w] = i]
      BY <1>0, <1>6 DEF InsertGenerated
    <2>2. plan' = [plan EXCEPT ![w] = NoPlan]
      BY <1>6 DEF InsertGenerated
    <2> QED BY <1>0, <2>1, <2>2
  <1>7. ASSUME NEW read \in BOOLEAN, DeleteRow(w, read)
        PROVE  /\ InstancesOK'
               /\ \A v \in Writers : v # w => plan'[v] = plan[v] /\ inst'[v] = inst[v]
    BY <1>0, <1>7 DEF DeleteRow
  <1>9. CASE Begin(w) \/ BeginFails(w) \/ CheckContext(w)
               \/ \E result \in {"ok", "callback", "panic"} : CallbackEnds(w, result)
    BY <1>9 DEF Begin, BeginFails, CheckContext, CallbackEnds
  <1>10. CASE Commit(w) \/ CommitFails(w) \/ Rollback(w) \/ DriverRollsBack(w)
    BY <1>10 DEF Commit, CommitFails, Rollback, DriverRollsBack
  <1>11. CASE StartHelper(w) \/ Helper(w)
    BY <1>11 DEF StartHelper, Helper, HelperCall, HelperFails, HelperUpdates
  <1> QED BY <1>1, <1>2, <1>3, <1>4, <1>5, <1>6, <1>7, <1>9, <1>10, <1>11
      DEF Moves, Step

\* Every step leaves a plan that fits.
LEMMA PlanFitsKeeps ==
    ASSUME Rows, NEW w \in Writers, Moves(w)
    PROVE  PlanFits(w)'
  <1> USE DEF Rows, Control, ControlOK, FlowOK, OpEnds, Goto
  <1>0. ASSUME pc'[w] \notin {"update", "insert", "delete"} PROVE PlanFits(w)'
    BY <1>0 DEF PlanFits
  <1>1. CASE CallDirect(w) \/ CallSession(w) \/ CallAtomic(w) \/ Return(w)
    BY <1>0, <1>1 DEF CallDirect, CallSession, CallAtomic, Return
  <1>2. CASE ConfigureCanceled(w)
    BY <1>0, <1>2 DEF ConfigureCanceled
  <1>3. ASSUME NEW r \in Requests, Configure(w, r) PROVE PlanFits(w)'
    <2>1. CASE pc'[w] \in {"return", "callback"}
      BY <1>0, <2>1
    <2>2. CASE /\ ~Refused(inst[w], r) /\ plan' = [plan EXCEPT ![w] = PlanOf(inst[w], r)]
               /\ pc' = [pc EXCEPT ![w] = FirstLabel(PlanOf(inst[w], r))]
      <3>1. PICK p : p = PlanOf(inst[w], r)
        OBVIOUS
      <3>2. /\ p.fields \subseteq r.fields
            /\ p.insert = "explicit" => inst[w].present
            /\ p.insert = "generated" => ~inst[w].present
            /\ p.insert # "none" => r.fields = Fields
            /\ FirstLabel(p) \in {"update", "delete"} => inst[w].present
        BY <1>3, <2>2, <3>1, PlanOfFits DEF Configure, InstancesOK
      <3>3. hist[w].touched \subseteq Fields /\ r.fields \subseteq Fields
        BY WritesAssumption DEF HistoryOK, Histories, Requests
      <3>4. hist'[w].touched = hist[w].touched \cup r.fields
        BY <1>3 DEF Configure, HistoryOK, Histories
      <3>5. inst' = inst /\ plan'[w] = p /\ pc'[w] = FirstLabel(p)
        BY <1>3, <2>2, <3>1 DEF Configure, InstancesOK
      <3> QED BY <3>2, <3>3, <3>4, <3>5 DEF PlanFits
    <2> QED BY <1>3, <2>1, <2>2 DEF Configure
  <1>4. CASE StatementFails(w)
    BY <1>0, <1>4 DEF StatementFails
  <1>5. CASE UpdateNone(w)
    <2>1. CASE pc'[w] \in {"return", "callback"}
      BY <1>0, <2>1
    <2>2. CASE plan[w].insert = "explicit" /\ pc'[w] = "insert" /\ plan' = plan
      BY <1>5, <2>2 DEF UpdateNone, PlanFits
    <2> QED BY <1>5, <2>1, <2>2 DEF UpdateNone
  <1>6. CASE \E read \in BOOLEAN : Takes(w, read)
    BY <1>0, <1>6 DEF Takes, UpdateRow, InsertGenerated, InsertExplicit, DeleteRow
  <1>7. CASE Begin(w) \/ BeginFails(w) \/ CheckContext(w)
               \/ \E result \in {"ok", "callback", "panic"} : CallbackEnds(w, result)
    BY <1>0, <1>7 DEF Begin, BeginFails, CheckContext, CallbackEnds
  <1>8. CASE Commit(w) \/ CommitFails(w) \/ Rollback(w)
    BY <1>0, <1>8 DEF Commit, CommitFails, Rollback
  <1>9. CASE DriverRollsBack(w)
    <2>1. UNCHANGED <<pc, plan, inst>>
      BY <1>9 DEF DriverRollsBack
    <2>2. PICK s : hist' = [hist EXCEPT ![w] = [hist[w] EXCEPT !.stale = s, !.rekeyed = FALSE]]
      BY <1>9, Zenon DEF DriverRollsBack, Discard
    <2>3. hist'[w].touched = hist[w].touched
      BY <2>2 DEF HistoryOK, Histories
    <2> QED BY <2>1, <2>3 DEF PlanFits
  <1>10. CASE Cancel(w) \/ StartHelper(w) \/ HelperCall(w) \/ HelperFails(w)
    BY <1>10 DEF Cancel, StartHelper, HelperCall, HelperFails, PlanFits
  <1>11. ASSUME NEW k \in ExplicitKeys, NEW read \in BOOLEAN, HelperUpdates(w, k, read)
         PROVE  PlanFits(w)'
    <2>1. UNCHANGED <<pc, plan, inst>>
      BY <1>11 DEF HelperUpdates
    <2>2. PICK n : hist' = [hist EXCEPT ![w] = [@ EXCEPT !.made = n, !.touched = Fields]]
      BY <1>11 DEF HelperUpdates
    <2>3. hist'[w].touched = Fields
      BY <2>2 DEF HistoryOK, Histories
    <2>4. plan[w].fields \subseteq Fields
      BY DEF InstancesOK, PlanTypes
    <2> QED BY <2>1, <2>3, <2>4 DEF PlanFits
  <1> QED BY <1>1, <1>2, <1>3, <1>4, <1>5, <1>6, <1>7, <1>8, <1>9, <1>10, <1>11
      DEF Moves, Step, Helper, Takes

-----------------------------------------------------------------------------
(* The invariant.                                                          *)

\* The table is empty, or has one row that nobody here inserted.
LEMMA InitRows == Init => Rows
  <1> SUFFICES ASSUME Init PROVE Rows
    OBVIOUS
  <1>1. Control
    BY InitControl
  <1>2. /\ db \in Tables /\ copy \in [Writers -> Tables] /\ lock = Nobody
        /\ \A k \in DOMAIN db.rows : db.rows[k].by = Nobody
    <2>1. copy \in [Writers -> Tables] /\ lock = Nobody
      BY EmptyIsTable DEF Init
    <2>2. CASE db = [rows |-> EmptyTable, seq |-> 0]
      BY <2>1, <2>2, EmptyIsTable DEF EmptyTable
    <2>3. ASSUME NEW k \in ExplicitKeys,
                 db = Inserted([rows |-> EmptyTable, seq |-> 0], k, Row(Nobody, Nobody), k)
          PROVE  db \in Tables /\ \A i \in DOMAIN db.rows : db.rows[i].by = Nobody
      <3>1. Row(Nobody, Nobody) \in RowTypes /\ Row(Nobody, Nobody).by = Nobody
        BY DEF Row, RowTypes, Names
      <3>2. PICK d : d = [rows |-> EmptyTable, seq |-> 0]
        OBVIOUS
      <3>3. d \in Tables /\ d.seq = 0 /\ DOMAIN d.rows = {}
        BY <3>2, EmptyIsTable DEF EmptyTable
      <3>4. k \in Keys /\ 0 <= k /\ k <= k
        BY WritesAssumption DEF Keys
      <3>5. PICK e : e = db /\ e = Inserted(d, k, Row(Nobody, Nobody), k)
        BY <2>3, <3>2
      <3>6. e \in Tables /\ DOMAIN e.rows = {k} /\ e.rows[k] = Row(Nobody, Nobody)
        BY <3>1, <3>3, <3>4, <3>5, PutTable
      <3> QED BY <3>1, <3>5, <3>6
    <2> QED BY <2>1, <2>2, <2>3 DEF Init, Inserted
  <1>3. Top = db /\ db.seq \in Nat /\ TablesOK
    BY <1>2, TableParts DEF Top, TablesOK
  <1>4. Instances \subseteq [key : Keys, present : BOOLEAN]
    <2>1. [key : ExplicitKeys, present : BOOLEAN] \subseteq [key : Keys, present : BOOLEAN]
      BY WritesAssumption
    <2>2. Absent \in [key : Keys, present : BOOLEAN]
      BY WritesAssumption DEF Absent, Keys
    <2> QED BY <2>1, <2>2, Zenon DEF Instances
  <1>5. InstancesOK
    <2>1. NoPlan \in PlanTypes
      BY DEF NoPlan, PlanTypes
    <2> QED BY <1>4, <2>1 DEF Init, InstancesOK
  <1>6. ASSUME NEW b \in BOOLEAN
        PROVE  LET h == [NoHistory EXCEPT !.explicit = b]
               IN  /\ h.explicit <=> b
                   /\ ~h.rekeyed /\ ~h.stale /\ ~h.foreign
    BY DEF NoHistory
  <1>7. \A w \in Writers : /\ hist[w].explicit <=> inst[w].present
                           /\ ~hist[w].rekeyed /\ ~hist[w].stale /\ ~hist[w].foreign
    BY <1>5, <1>6 DEF Init, InstancesOK
  <1>8. \A w \in Writers : ~Generated(w)
    BY <1>7 DEF Generated
  <1>9. Ownership
    <2>1. KeysDiffer /\ Merges
      BY <1>2, <1>8, WritesAssumption DEF KeysDiffer, Merges
    <2>2. \A w \in Writers : KeyOK(w) /\ RowsOK(w)
      BY <1>2, <1>3, <1>7, <1>8, WritesAssumption DEF KeyOK, RowsOK, Owned, Only, Alone
    <2> QED BY <2>1, <2>2 DEF Ownership
  <1>10. \A w \in Writers : PlanFits(w)
    BY DEF Init, PlanFits
  <1> QED BY <1>1, <1>3, <1>5, <1>9, <1>10 DEF Rows

\* Every step keeps the tables and what instances know of them.
LEMMA OwnershipKeeps ==
    ASSUME Rows, NEW w \in Writers, Moves(w)
    PROVE  TablesOK' /\ Ownership' /\ MergeStep
  <1> USE WritesAssumption DEF txVars, callVars
  <1>0. HistoryOK /\ Connected(w)
    BY DEF Rows, Control, ControlOK, WriterOK
  <1>1. ASSUME UNCHANGED <<db, lock, copy, inst, hist>> PROVE TablesOK' /\ Ownership' /\ MergeStep
    BY <1>1, AsideKeeps
  <1>2. CASE CallDirect(w) \/ CallSession(w) \/ CallAtomic(w) \/ Cancel(w)
             \/ StatementFails(w) \/ Begin(w) \/ BeginFails(w) \/ CheckContext(w)
             \/ (\E result \in {"ok", "callback", "panic"} : CallbackEnds(w, result))
             \/ StartHelper(w) \/ HelperCall(w) \/ HelperFails(w)
    BY <1>1, <1>2 DEF CallDirect, CallSession, CallAtomic, Cancel, StatementFails, Begin,
       BeginFails, CheckContext, CallbackEnds, StartHelper, HelperCall, HelperFails
  <1>3. CASE Return(w)
    <2>1. lock # w /\ UNCHANGED <<db, lock, copy, inst>>
      BY <1>0, <1>3 DEF Return, Connected, Inside
    <2>2. PICK n : hist' = [hist EXCEPT ![w] =
                      [@ EXCEPT !.changed = n, !.made = n, !.durable = n, !.touched = {}]]
      BY <1>3 DEF Return
    <2>3. \A v \in Writers :
              /\ hist'[v].explicit = hist[v].explicit /\ hist'[v].stale = hist[v].stale
              /\ hist'[v].rekeyed = hist[v].rekeyed /\ hist'[v].foreign = hist[v].foreign
              /\ hist'[v].lost = hist[v].lost
              /\ v # w => hist'[v] = hist[v]
      BY <1>0, <2>2 DEF HistoryOK, Histories
    <2> QED BY <2>1, <2>3, AsideKeeps
  <1>4. CASE ConfigureCanceled(w)
    <2>1. \A v \in Writers :
              /\ hist'[v].explicit = hist[v].explicit /\ hist'[v].stale = hist[v].stale
              /\ hist'[v].rekeyed = hist[v].rekeyed /\ hist'[v].foreign = hist[v].foreign
              /\ hist'[v].lost = hist[v].lost
              /\ hist'[v].touched = hist[v].touched
      BY <1>0, <1>4 DEF ConfigureCanceled, HistoryOK, Histories
    <2> QED BY <1>4, <2>1, AsideKeeps DEF ConfigureCanceled
  <1>5. ASSUME NEW r \in Requests, Configure(w, r) PROVE TablesOK' /\ Ownership' /\ MergeStep
    <2>1. hist' = [hist EXCEPT ![w].changed = 0, ![w].touched = hist[w].touched \cup r.fields]
      BY <1>0, <1>5 DEF Configure, HistoryOK, Histories
    <2>2. \A v \in Writers :
              /\ hist'[v].explicit = hist[v].explicit /\ hist'[v].stale = hist[v].stale
              /\ hist'[v].rekeyed = hist[v].rekeyed /\ hist'[v].foreign = hist[v].foreign
              /\ hist'[v].lost = hist[v].lost
              /\ hist[v].touched \subseteq hist'[v].touched
      BY <1>0, <2>1 DEF HistoryOK, Histories
    <2> QED BY <1>5, <2>2, AsideKeeps DEF Configure
  <1>6. CASE UpdateNone(w)
    BY <1>6, NoRowKeeps DEF UpdateNone
  <1>7. CASE \E read \in BOOLEAN : Takes(w, read)
    BY <1>7, UpdateRowKeeps, InsertGeneratedKeeps, InsertExplicitKeeps, DeleteRowKeeps DEF Takes
  <1>8. CASE Commit(w)
    BY <1>8, CommitKeeps
  <1>9. CASE CommitFails(w) \/ Rollback(w) \/ DriverRollsBack(w)
    <2>1. UNCHANGED <<db, inst>> /\ (Discard(w) \/ UNCHANGED <<txVars, hist>>)
      BY <1>9 DEF CommitFails, Rollback, DriverRollsBack
    <2> QED BY <1>1, <2>1, RollbackKeeps
  <1>10. CASE \E k \in ExplicitKeys, read \in BOOLEAN : HelperUpdates(w, k, read)
    BY <1>10, HelperUpdatesKeeps
  <1> QED BY <1>2, <1>3, <1>4, <1>5, <1>6, <1>7, <1>8, <1>9, <1>10
      DEF Moves, Step, Helper, Takes

LEMMA NextRows == Rows /\ [Next]_vars => Rows'
  <1> SUFFICES ASSUME Rows, [Next]_vars PROVE Rows'
    OBVIOUS
  <1>1. Control'
    BY NextControl DEF Rows
  <1>2. CASE UNCHANGED vars
    <2>1. TablesOK' /\ Ownership'
      BY <1>2, AsideKeeps DEF vars, txVars
    <2>2. InstancesOK' /\ \A w \in Writers : PlanFits(w)'
      BY <1>2 DEF vars, Rows, InstancesOK, PlanFits
    <2> QED BY <1>1, <2>1, <2>2 DEF Rows
  <1>3. ASSUME NEW w \in Writers, Moves(w) PROVE Rows'
    <2>1. TablesOK' /\ Ownership' /\ InstancesOK' /\ PlanFits(w)'
      BY <1>3, OwnershipKeeps, InstancesKeep, PlanFitsKeeps
    <2>2. ASSUME NEW v \in Writers, v # w PROVE PlanFits(v)'
      <3>1. plan'[v] = plan[v] /\ inst'[v] = inst[v]
        BY <1>3, <2>2, InstancesKeep
      <3>2. pc'[v] = pc[v] /\ hist'[v] = hist[v]
        BY <1>3, <2>2, OtherWriters DEF Rows, Control, writerView
      <3> QED BY <3>1, <3>2 DEF Rows, PlanFits
    <2> QED BY <1>1, <2>1, <2>2 DEF Rows
  <1> QED BY <1>2, <1>3 DEF Next, Moves

\* The invariant holds in every reachable state.
THEOREM SpecRows == Spec => []Rows
  BY InitRows, NextRows, PTL DEF Spec

\* Every variable has its type; the sequence is never below a key.
THEOREM SpecTypeOK == Spec => []TypeOK
  <1>1. Rows => TypeOK
    <2> SUFFICES ASSUME Rows PROVE TypeOK
      OBVIOUS
    <2>1. FlowOK /\ SharedOK /\ InstancesOK
      BY DEF Rows, Control, ControlOK
    <2>2. /\ db.seq \in Keys /\ DOMAIN db.rows \subseteq 0 .. db.seq
          /\ \A k \in DOMAIN db.rows : db.rows[k] \in RowTypes
      BY TableParts DEF Rows, TablesOK, Tables
    <2> QED BY <2>1, <2>2
         DEF FlowOK, SharedOK, InstancesOK, Helpers, PlanTypes, RowTypes, Names, TypeOK
  <1> QED BY <1>1, SpecRows, PTL

\* A generated key is never used twice: no instance that has one writes a row
\* that another such instance inserted.
THEOREM SpecOwnRowOnly == Spec => []OwnRowOnly
  <1>1. Rows => OwnRowOnly
    BY DEF Rows, Ownership, RowsOK, OwnRowOnly
  <1> QED BY <1>1, SpecRows, PTL

\* An instance has one row at most, however often it is saved and whatever
\* happens between the UPDATE and the INSERT of a Save, apart from rows whose
\* generated keys it was never given.
THEOREM SpecSaveTwiceOneRow == Spec => []SaveTwiceOneRow
  <1>1. Rows => SaveTwiceOneRow
    <2> SUFFICES ASSUME Rows, NEW w \in Writers, ~hist[w].stale
                 PROVE  Cardinality({k \in DOMAIN db.rows \ hist[w].lost : db.rows[k].by = w}) <= 1
      BY DEF SaveTwiceOneRow
    <2> DEFINE own == {k \in DOMAIN db.rows \ hist[w].lost : db.rows[k].by = w}
    <2>1. \A j, k \in own : j = k
      BY DEF Rows, Ownership, RowsOK, Alone
    <2>2. CASE own = {}
      <3> HIDE DEF own
      <3>1. Cardinality(own) = 0
        BY <2>2, FS_EmptySet
      <3> QED BY <3>1 DEF own
    <2>3. CASE own # {}
      <3>1. PICK k : own = {k}
        BY <2>1, <2>3
      <3> HIDE DEF own
      <3>2. Cardinality(own) = 1
        BY <3>1, FS_Singleton
      <3> QED BY <3>2 DEF own
    <2> QED BY <2>2, <2>3
  <1> QED BY <1>1, SpecRows, PTL

\* Masked saves and patches of different fields merge: a committed field only
\* changes to the value of a writer that was asked to write it.
THEOREM SpecMaskedSavesMerge == Spec => MaskedSavesMerge
  <1>1. Rows /\ [Next]_vars => [MergeStep]_vars
    BY OwnershipKeeps DEF Next, Moves
  <1>2. Spec => [][MergeStep]_vars
    BY <1>1, SpecRows, PTL DEF Spec
  <1> QED BY <1>2 DEF MaskedSavesMerge, MergeStep

=============================================================================
