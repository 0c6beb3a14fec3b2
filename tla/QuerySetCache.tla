--------------------------- MODULE QuerySetCache ---------------------------
(***************************************************************************)
(* The evaluation cache of a QuerySet (orm/manager.go).                    *)
(*                                                                         *)
(* A QuerySet value points to an evaluationState.  Goroutines that share   *)
(* one evaluationState run the terminals All, Count, Exists, At (First is  *)
(* At(0)) and Iterate on it at the same time, each under its own context.  *)
(* All evaluates at most once: the first caller claims a flight and does   *)
(* the backend I/O, the others wait for the flight or for their own        *)
(* context.  The database moves on while rows are read.                    *)
(*                                                                         *)
(* A model list is abstracted to the version of the database it was read   *)
(* from and its length; an error to the set of causes that errors.Is finds *)
(* in it: "ctx" (context.Canceled or DeadlineExceeded), "fault" (backend,  *)
(* scan, close or callback error) and "usage" (rejected before any I/O).   *)
(***************************************************************************)
EXTENDS Integers, FiniteSets

CONSTANTS
    Callers,     \* goroutines
    States,      \* evaluationState objects
    Flights,     \* evaluationFlight objects (reused once unreachable)
    NoFlight,    \* the nil flight pointer
    MaxVersion,  \* bound: number of commits to the table
    RowsOf,      \* number of rows the plan selects in each version
    PlanLimit,   \* LIMIT of the plan each evaluation state belongs to
    Indexes,     \* indexes passed to At
    Ops,         \* terminals the callers use
    MaxConns,    \* connections of the pool (1 for OpenMemory)
    MaxCalls,    \* bound: calls of one goroutine
    Panics       \* may a descriptor or a callback panic?

Versions == 0 .. MaxVersion
Causes == {"ctx", "fault", "usage"}
Labels == {"idle", "validate", "check", "lock", "wait", "cached", "open",
           "rows", "close", "postio", "publish", "clone", "return", "dead"}

\* Value of an unused state pointer.
AnyState == CHOOSE s \in States : TRUE

ASSUME CacheAssumption ==
    /\ NoFlight \notin Flights
    /\ MaxVersion \in Nat /\ MaxCalls \in Nat /\ MaxConns \in Nat \ {0}
    /\ RowsOf \in [Versions -> Nat]
    /\ PlanLimit \in [States -> Nat]
    /\ Indexes \subseteq Nat /\ 0 \in Indexes
    /\ States # {}
    /\ Ops \subseteq {"All", "Count", "Exists", "At", "Iterate"}
    /\ Panics \in BOOLEAN

VARIABLES
    db,         \* committed version of the table
    alive,      \* evaluation states that a QuerySet points to
    born,       \* version at which the state was derived (history)
    ready, cacheVer, cacheLen, flight,   \* evaluationState, under mu
    fdone, ferr,                         \* evaluationFlight
    pc, op, st, idx, fl,                 \* a goroutine's call and its locals
    cancelled,  \* ctx.Err() # nil
    doomed,     \* left the select with a canceled context (history)
    since,      \* version at which the call began (history)
    snap, pos,  \* version being read, rows taken from it
    err,        \* causes of the error so far
    conns,      \* goroutines that hold a connection
    calls       \* calls begun

stateVars == <<ready, cacheVer, cacheLen, flight>>
flightVars == <<fdone, ferr>>
callVars == <<op, st, idx, since, calls>>
vars == <<db, alive, born, stateVars, flightVars, pc, callVars, fl,
          cancelled, doomed, snap, pos, err, conns>>

Init ==
    /\ db = 0
    /\ alive = {}
    /\ born = [s \in States |-> 0]
    /\ ready = [s \in States |-> FALSE]
    /\ cacheVer = [s \in States |-> 0]
    /\ cacheLen = [s \in States |-> 0]
    /\ flight = [s \in States |-> NoFlight]
    /\ fdone = [f \in Flights |-> FALSE]
    /\ ferr = [f \in Flights |-> {}]
    /\ pc = [c \in Callers |-> "idle"]
    /\ op = [c \in Callers |-> "none"]
    /\ st = [c \in Callers |-> AnyState]
    /\ idx = [c \in Callers |-> 0]
    /\ fl = [c \in Callers |-> NoFlight]
    /\ cancelled = [c \in Callers |-> FALSE]
    /\ doomed = [c \in Callers |-> FALSE]
    /\ since = [c \in Callers |-> 0]
    /\ snap = [c \in Callers |-> 0]
    /\ pos = [c \in Callers |-> 0]
    /\ err = [c \in Callers |-> {}]
    /\ conns = {}
    /\ calls = [c \in Callers |-> 0]

-----------------------------------------------------------------------------
(* Plans and lengths.                                                      *)

\* planWithMaximumRows: the smaller of the plan's own limit and the maximum.
PlanWithMaximumRows(limit, maximum) ==
    IF limit <= maximum THEN limit ELSE maximum

\* Length of the full result of state s in version v.
AllLen(s, v) == PlanWithMaximumRows(RowsOf[v], PlanLimit[s])

\* Faulty variant: At asks for index rows instead of index + 1.
EffectiveLimitOffByOne(c) ==
    CASE op[c] = "Exists" -> PlanWithMaximumRows(PlanLimit[st[c]], 1)
      [] op[c] = "At"     -> PlanWithMaximumRows(PlanLimit[st[c]], idx[c])
      [] OTHER            -> PlanLimit[st[c]]

\* LIMIT of the statement that a cold terminal executes.
EffectiveLimit(c) ==
    CASE op[c] = "Exists" -> PlanWithMaximumRows(PlanLimit[st[c]], 1)
      [] op[c] = "At"     -> PlanWithMaximumRows(PlanLimit[st[c]], idx[c] + 1)
      [] OTHER            -> PlanLimit[st[c]]

\* Rows the open statement of c can deliver.
RowsAvailable(c) == PlanWithMaximumRows(RowsOf[snap[c]], EffectiveLimit(c))

Goto(c, label) == pc' = [pc EXCEPT ![c] = label]

\* Return to the caller with the given error.
Fail(c, causes) ==
    /\ err' = [err EXCEPT ![c] = causes]
    /\ Goto(c, "return")

-----------------------------------------------------------------------------
(* Environment: other writers, contexts, and QuerySet derivation.          *)

\* Another session commits a change to the table.
Write ==
    /\ db < MaxVersion
    /\ db' = db + 1
    /\ UNCHANGED <<alive, born, stateVars, flightVars, pc, callVars, fl,
                   cancelled, doomed, snap, pos, err, conns>>

\* Faulty variant: the derived QuerySet inherits the cache of its source.
DeriveKeepsCache(s) ==
    /\ s \notin alive
    /\ alive' = alive \cup {s}
    /\ born' = [born EXCEPT ![s] = db]
    /\ \E source \in States :
          /\ ready' = [ready EXCEPT ![s] = ready[source]]
          /\ cacheVer' = [cacheVer EXCEPT ![s] = cacheVer[source]]
          /\ cacheLen' = [cacheLen EXCEPT ![s] = cacheLen[source]]
    /\ flight' = [flight EXCEPT ![s] = NoFlight]
    /\ UNCHANGED <<db, flightVars, pc, callVars, fl,
                   cancelled, doomed, snap, pos, err, conns>>

\* Using, Filter, OrderBy, Limit and Fresh build a new evaluationState; a
\* plain copy of a QuerySet shares the state and needs no step.
Derive(s) ==
    /\ s \notin alive
    /\ alive' = alive \cup {s}
    /\ born' = [born EXCEPT ![s] = db]
    /\ ready' = [ready EXCEPT ![s] = FALSE]
    /\ flight' = [flight EXCEPT ![s] = NoFlight]
    /\ UNCHANGED <<db, cacheVer, cacheLen, flightVars, pc, callVars, fl,
                   cancelled, doomed, snap, pos, err, conns>>

\* The context of a running call is canceled or reaches its deadline.
Cancel(c) ==
    /\ pc[c] \notin {"idle", "dead"}
    /\ ~cancelled[c]
    /\ cancelled' = [cancelled EXCEPT ![c] = TRUE]
    /\ UNCHANGED <<db, alive, born, stateVars, flightVars, pc, callVars, fl,
                   doomed, snap, pos, err, conns>>

\* A goroutine calls a terminal of a QuerySet.
Call(c, o, s, i) ==
    /\ pc[c] = "idle"
    /\ calls[c] < MaxCalls
    /\ o # "At" => i = 0
    /\ calls' = [calls EXCEPT ![c] = @ + 1]
    /\ op' = [op EXCEPT ![c] = o]
    /\ st' = [st EXCEPT ![c] = s]
    /\ idx' = [idx EXCEPT ![c] = i]
    /\ since' = [since EXCEPT ![c] = db]
    /\ Goto(c, "validate")
    /\ UNCHANGED <<db, alive, born, stateVars, flightVars, fl, cancelled,
                   doomed, snap, pos, err, conns>>

\* Faulty variant: Iterate looks at the cache like the other terminals.
FirstLabelCachesIterate(c) == IF op[c] = "All" THEN "check" ELSE "cached"

\* Where a valid call goes on: All enters its loop, Iterate opens rows, the
\* others look at the cache.
FirstLabel(c) ==
    IF op[c] = "All" THEN "check" ELSE IF op[c] = "Iterate" THEN "open" ELSE "cached"

\* validateTerminal, and At's and Iterate's argument checks: a canceled
\* context or a usage error returns before any I/O.
Validate(c) ==
    /\ pc[c] = "validate"
    /\ \/ /\ cancelled[c]
          /\ Fail(c, {"ctx"})
       \/ /\ ~cancelled[c]
          /\ Fail(c, {"usage"})
       \/ /\ ~cancelled[c]
          /\ Goto(c, FirstLabel(c))
          /\ UNCHANGED err
    /\ UNCHANGED <<db, alive, born, stateVars, flightVars, callVars, fl,
                   cancelled, doomed, snap, pos, conns>>

-----------------------------------------------------------------------------
(* All: the loop.                                                          *)

\* Faulty variant: no recheck of the context at the head of the loop.
CheckContextSkipped(c) ==
    /\ pc[c] = "check"
    /\ Goto(c, "lock")
    /\ UNCHANGED <<db, alive, born, stateVars, flightVars, callVars, fl,
                   cancelled, doomed, snap, pos, conns, err>>

\* Head of the loop: the context is checked again.
CheckContext(c) ==
    /\ pc[c] = "check"
    /\ \/ /\ cancelled[c]
          /\ Fail(c, {"ctx"})
       \/ /\ ~cancelled[c]
          /\ Goto(c, "lock")
          /\ UNCHANGED err
    /\ UNCHANGED <<db, alive, born, stateVars, flightVars, callVars, fl,
                   cancelled, doomed, snap, pos, conns>>

\* Under mu: the cache is ready and is returned.
LockReady(c) ==
    /\ pc[c] = "lock"
    /\ ready[st[c]]
    /\ snap' = [snap EXCEPT ![c] = cacheVer[st[c]]]
    /\ pos' = [pos EXCEPT ![c] = cacheLen[st[c]]]
    /\ Goto(c, "clone")
    /\ UNCHANGED <<db, alive, born, stateVars, flightVars, callVars, fl,
                   cancelled, doomed, err, conns>>

\* Faulty variant: waits without looking whether there is a flight.
LockJoinNil(c) ==
    /\ pc[c] = "lock"
    /\ ~ready[st[c]]
    /\ fl' = [fl EXCEPT ![c] = flight[st[c]]]
    /\ Goto(c, "wait")
    /\ UNCHANGED <<db, alive, born, stateVars, flightVars, callVars,
                   cancelled, doomed, snap, pos, err, conns>>

\* Under mu: another call is evaluating; wait for it outside the lock.
LockJoin(c) ==
    /\ pc[c] = "lock"
    /\ ~ready[st[c]] /\ flight[st[c]] # NoFlight
    /\ fl' = [fl EXCEPT ![c] = flight[st[c]]]
    /\ Goto(c, "wait")
    /\ UNCHANGED <<db, alive, born, stateVars, flightVars, callVars,
                   cancelled, doomed, snap, pos, err, conns>>

\* Faulty variant: the flight of another owner is overwritten.
LockClaimTwice(c, f) ==
    /\ pc[c] = "lock"
    /\ ~ready[st[c]]
    /\ \A d \in Callers : fl[d] # f
    /\ flight' = [flight EXCEPT ![st[c]] = f]
    /\ fdone' = [fdone EXCEPT ![f] = FALSE]
    /\ ferr' = [ferr EXCEPT ![f] = {}]
    /\ fl' = [fl EXCEPT ![c] = f]
    /\ Goto(c, "open")
    /\ UNCHANGED <<db, alive, born, ready, cacheVer, cacheLen, callVars,
                   cancelled, doomed, snap, pos, err, conns>>

\* Faulty variant: a ready cache is evaluated again.
LockClaimWarm(c, f) ==
    /\ pc[c] = "lock"
    /\ flight[st[c]] = NoFlight
    /\ \A d \in Callers : fl[d] # f
    /\ flight' = [flight EXCEPT ![st[c]] = f]
    /\ fdone' = [fdone EXCEPT ![f] = FALSE]
    /\ ferr' = [ferr EXCEPT ![f] = {}]
    /\ fl' = [fl EXCEPT ![c] = f]
    /\ Goto(c, "open")
    /\ UNCHANGED <<db, alive, born, ready, cacheVer, cacheLen, callVars,
                   cancelled, doomed, snap, pos, err, conns>>

\* Under mu: claim a new flight.  The object is one that nothing refers to.
LockClaim(c, f) ==
    /\ pc[c] = "lock"
    /\ ~ready[st[c]] /\ flight[st[c]] = NoFlight
    /\ \A d \in Callers : fl[d] # f
    /\ flight' = [flight EXCEPT ![st[c]] = f]
    /\ fdone' = [fdone EXCEPT ![f] = FALSE]
    /\ ferr' = [ferr EXCEPT ![f] = {}]
    /\ fl' = [fl EXCEPT ![c] = f]
    /\ Goto(c, "open")
    /\ UNCHANGED <<db, alive, born, ready, cacheVer, cacheLen, callVars,
                   cancelled, doomed, snap, pos, err, conns>>

\* Faulty variant: the waiter looks at its context only after the flight.
WaitCanceledLate(c) ==
    /\ pc[c] = "wait"
    /\ cancelled[c] /\ fdone[fl[c]]
    /\ Fail(c, {"ctx"})
    /\ fl' = [fl EXCEPT ![c] = NoFlight]
    /\ UNCHANGED <<db, alive, born, stateVars, flightVars, callVars,
                   cancelled, doomed, snap, pos, conns>>

\* The select of a waiter takes ctx.Done().
WaitCanceled(c) ==
    /\ pc[c] = "wait"
    /\ cancelled[c]
    /\ Fail(c, {"ctx"})
    /\ fl' = [fl EXCEPT ![c] = NoFlight]
    /\ UNCHANGED <<db, alive, born, stateVars, flightVars, callVars,
                   cancelled, doomed, snap, pos, conns>>

\* Faulty variant: every failure of the owner is passed on.
RetriesAfterSuccessOnly(causes) == causes = {}

\* The select takes flight.done: a success or a canceled owner makes the
\* waiter go round the loop, any other failure is the waiter's failure too.
RetriesAfter(causes) == causes = {} \/ "ctx" \in causes

WaitDone(c) ==
    /\ pc[c] = "wait"
    /\ fdone[fl[c]]
    /\ IF RetriesAfter(ferr[fl[c]])
         THEN Goto(c, "check") /\ UNCHANGED err
         ELSE Fail(c, ferr[fl[c]])
    /\ doomed' = [doomed EXCEPT ![c] = cancelled[c]]
    /\ fl' = [fl EXCEPT ![c] = NoFlight]
    /\ UNCHANGED <<db, alive, born, stateVars, flightVars, callVars,
                   cancelled, snap, pos, conns>>

\* Faulty variant: a failed owner leaves without completing its flight.
PublishForgetsFlight(c) ==
    LET s == st[c]  f == fl[c] IN
    /\ pc[c] = "publish"
    /\ IF err[c] = {}
         THEN /\ ready' = [ready EXCEPT ![s] = TRUE]
              /\ cacheVer' = [cacheVer EXCEPT ![s] = snap[c]]
              /\ cacheLen' = [cacheLen EXCEPT ![s] = pos[c]]
              /\ fdone' = [fdone EXCEPT ![f] = TRUE]
              /\ flight' = [flight EXCEPT ![s] = NoFlight]
              /\ UNCHANGED ferr
         ELSE UNCHANGED <<ready, cacheVer, cacheLen, fdone, flight, ferr>>
    /\ fl' = [fl EXCEPT ![c] = NoFlight]
    /\ Goto(c, IF err[c] = {} THEN "clone" ELSE "return")
    /\ UNCHANGED <<db, alive, born, callVars, cancelled, doomed, snap, pos,
                   err, conns>>

\* Faulty variant: an owner that was canceled after its I/O returns its list
\* without publishing it.
PublishUnlessCanceled(c) ==
    LET s == st[c]  f == fl[c] IN
    /\ pc[c] = "publish"
    /\ IF err[c] = {} /\ ~cancelled[c]
         THEN /\ ready' = [ready EXCEPT ![s] = TRUE]
              /\ cacheVer' = [cacheVer EXCEPT ![s] = snap[c]]
              /\ cacheLen' = [cacheLen EXCEPT ![s] = pos[c]]
         ELSE UNCHANGED <<ready, cacheVer, cacheLen>>
    /\ ferr' = [ferr EXCEPT ![f] = err[c]]
    /\ fdone' = [fdone EXCEPT ![f] = TRUE]
    /\ flight' = [flight EXCEPT ![s] = NoFlight]
    /\ fl' = [fl EXCEPT ![c] = NoFlight]
    /\ Goto(c, IF err[c] = {} THEN "clone" ELSE "return")
    /\ UNCHANGED <<db, alive, born, callVars, cancelled, doomed, snap, pos,
                   err, conns>>

\* Under mu: publish a success, complete the flight either way.
Publish(c) ==
    LET s == st[c]  f == fl[c] IN
    /\ pc[c] = "publish"
    /\ IF err[c] = {}
         THEN /\ ready' = [ready EXCEPT ![s] = TRUE]
              /\ cacheVer' = [cacheVer EXCEPT ![s] = snap[c]]
              /\ cacheLen' = [cacheLen EXCEPT ![s] = pos[c]]
         ELSE UNCHANGED <<ready, cacheVer, cacheLen>>
    /\ ferr' = [ferr EXCEPT ![f] = err[c]]
    /\ fdone' = [fdone EXCEPT ![f] = TRUE]
    /\ flight' = [flight EXCEPT ![s] = NoFlight]
    /\ fl' = [fl EXCEPT ![c] = NoFlight]
    /\ Goto(c, IF err[c] = {} THEN "clone" ELSE "return")
    /\ UNCHANGED <<db, alive, born, callVars, cancelled, doomed, snap, pos,
                   err, conns>>

\* cloneModels, outside the lock.
CloneModels(c) ==
    /\ pc[c] = "clone"
    /\ Goto(c, "return")
    /\ UNCHANGED <<db, alive, born, stateVars, flightVars, callVars, fl,
                   cancelled, doomed, snap, pos, err, conns>>

-----------------------------------------------------------------------------
(* Count, Exists and At: a warm cache is reused.                           *)

\* What a terminal takes from a cached list of n models.
TakenFromCache(c, n) ==
    CASE op[c] = "Count"  -> n
      [] op[c] = "Exists" -> IF n # 0 THEN 1 ELSE 0
      [] op[c] = "At"     -> IF idx[c] >= n THEN 0 ELSE idx[c] + 1
      [] OTHER            -> 0

CachedValues(c) ==
    /\ pc[c] = "cached"
    /\ IF ready[st[c]]
         THEN /\ snap' = [snap EXCEPT ![c] = cacheVer[st[c]]]
              /\ pos' = [pos EXCEPT ![c] = TakenFromCache(c, cacheLen[st[c]])]
              /\ Goto(c, "return")
         ELSE Goto(c, "open") /\ UNCHANGED <<snap, pos>>
    /\ UNCHANGED <<db, alive, born, stateVars, flightVars, callVars, fl,
                   cancelled, doomed, err, conns>>

-----------------------------------------------------------------------------
(* Backend I/O, shared by every cold terminal.                             *)

\* Where a call goes when its I/O is over.
AfterIO(c) == IF op[c] = "All" THEN "publish" ELSE "return"

\* openRows with a connection: the statement reads the current version.
OpenRows(c) ==
    /\ pc[c] = "open"
    /\ ~cancelled[c]
    /\ Cardinality(conns) < MaxConns
    /\ conns' = conns \cup {c}
    /\ snap' = [snap EXCEPT ![c] = db]
    /\ pos' = [pos EXCEPT ![c] = 0]
    /\ Goto(c, "rows")
    /\ UNCHANGED <<db, alive, born, stateVars, flightVars, callVars, fl,
                   cancelled, doomed, err>>

\* openRows fails: QueryContext refuses a canceled context, also while it
\* waits for a connection; with a connection the statement may fail.
OpenFails(c) ==
    /\ pc[c] = "open"
    /\ \/ cancelled[c] /\ err' = [err EXCEPT ![c] = {"ctx"}]
       \/ Cardinality(conns) < MaxConns /\ err' = [err EXCEPT ![c] = {"fault"}]
    /\ Goto(c, AfterIO(c))
    /\ UNCHANGED <<db, alive, born, stateVars, flightVars, callVars, fl,
                   cancelled, doomed, snap, pos, conns>>

\* The row at which the terminal stops reading.
LastRow(c) ==
    \/ op[c] = "Exists"
    \/ op[c] = "At" /\ pos[c] = idx[c]

\* rows.Next, and Scan and the callback where the terminal has them.
NextRow(c) ==
    /\ pc[c] = "rows"
    /\ pos[c] < RowsAvailable(c)
    /\ pos' = [pos EXCEPT ![c] = @ + 1]
    /\ Goto(c, IF LastRow(c) THEN "close" ELSE "rows")
    /\ UNCHANGED <<db, alive, born, stateVars, flightVars, callVars, fl,
                   cancelled, doomed, snap, err, conns>>

\* Faulty variant: a scan error returns without closing the rows.
ScanFailsLeaksRows(c) ==
    /\ pc[c] = "rows"
    /\ pos[c] < RowsAvailable(c)
    /\ op[c] \in {"All", "Iterate"} \/ (op[c] = "At" /\ pos[c] = idx[c])
    /\ err' = [err EXCEPT ![c] = {"fault"}]
    /\ Goto(c, AfterIO(c))
    /\ UNCHANGED <<db, alive, born, stateVars, flightVars, callVars, fl,
                   cancelled, doomed, snap, pos, conns>>

\* Scan or the callback fails on the row.
ScanFails(c) ==
    /\ pc[c] = "rows"
    /\ pos[c] < RowsAvailable(c)
    /\ op[c] \in {"All", "Iterate"} \/ (op[c] = "At" /\ pos[c] = idx[c])
    /\ err' = [err EXCEPT ![c] = {"fault"}]
    /\ Goto(c, "close")
    /\ UNCHANGED <<db, alive, born, stateVars, flightVars, callVars, fl,
                   cancelled, doomed, snap, pos, conns>>

\* Faulty variant: rows.Err is not looked at.
RowsEndIgnoresErr(c) ==
    /\ pc[c] = "rows"
    /\ Goto(c, "close")
    /\ UNCHANGED <<db, alive, born, stateVars, flightVars, callVars, fl,
                   cancelled, doomed, snap, pos, conns, err>>

\* rows.Next is false: the rows are exhausted, or the context or the driver
\* ended them early and rows.Err says so.
RowsEnd(c) ==
    /\ pc[c] = "rows"
    /\ \/ pos[c] = RowsAvailable(c) /\ UNCHANGED err
       \/ cancelled[c] /\ err' = [err EXCEPT ![c] = {"ctx"}]
       \/ err' = [err EXCEPT ![c] = {"fault"}]
    /\ Goto(c, "close")
    /\ UNCHANGED <<db, alive, born, stateVars, flightVars, callVars, fl,
                   cancelled, doomed, snap, pos, conns>>

\* joinRowsErr and closeRows: the connection is given back and late errors
\* are joined to the first one.
CloseRows(c) ==
    /\ pc[c] = "close"
    /\ conns' = conns \ {c}
    /\ \E late \in SUBSET ({"fault"} \cup (IF cancelled[c] THEN {"ctx"} ELSE {})) :
          err' = [err EXCEPT ![c] = @ \cup late]
    /\ Goto(c, "postio")
    /\ UNCHANGED <<db, alive, born, stateVars, flightVars, callVars, fl,
                   cancelled, doomed, snap, pos>>

\* The context is checked once more after successful I/O.
PostIO(c) ==
    /\ pc[c] = "postio"
    /\ err' = [err EXCEPT ![c] = IF @ = {} /\ cancelled[c] THEN {"ctx"} ELSE @]
    /\ Goto(c, AfterIO(c))
    /\ UNCHANGED <<db, alive, born, stateVars, flightVars, callVars, fl,
                   cancelled, doomed, snap, pos, conns>>

\* Scan, CloneModel or the callback panics: nothing is deferred, so the rows
\* stay open and the flight of an owner is never completed.
Panic(c) ==
    /\ Panics
    /\ pc[c] = "rows"
    /\ pos[c] < RowsAvailable(c)
    /\ op[c] \in {"All", "Iterate"} \/ (op[c] = "At" /\ pos[c] = idx[c])
    /\ Goto(c, "dead")
    /\ UNCHANGED <<db, alive, born, stateVars, flightVars, callVars, fl,
                   cancelled, doomed, snap, pos, err, conns>>

\* The caller takes its result and is done with this call and its context.
Return(c) ==
    /\ pc[c] = "return"
    /\ Goto(c, "idle")
    /\ err' = [err EXCEPT ![c] = {}]
    /\ snap' = [snap EXCEPT ![c] = 0]
    /\ pos' = [pos EXCEPT ![c] = 0]
    /\ cancelled' = [cancelled EXCEPT ![c] = FALSE]
    /\ doomed' = [doomed EXCEPT ![c] = FALSE]
    /\ op' = [op EXCEPT ![c] = "none"]
    /\ st' = [st EXCEPT ![c] = AnyState]
    /\ idx' = [idx EXCEPT ![c] = 0]
    /\ since' = [since EXCEPT ![c] = 0]
    /\ UNCHANGED <<db, alive, born, stateVars, flightVars, fl, conns, calls>>

-----------------------------------------------------------------------------
\* What a goroutine does inside a call.
Step(c) ==
    \/ Validate(c) \/ CheckContext(c)
    \/ LockReady(c) \/ LockJoin(c) \/ (\E f \in Flights : LockClaim(c, f))
    \/ WaitCanceled(c) \/ WaitDone(c) \/ Publish(c) \/ CloneModels(c)
    \/ CachedValues(c) \/ OpenFails(c) \/ OpenRows(c)
    \/ NextRow(c) \/ ScanFails(c) \/ RowsEnd(c) \/ CloseRows(c) \/ PostIO(c)
    \/ Return(c)

Next ==
    \/ Write
    \/ \E s \in States : Derive(s)
    \/ \E c \in Callers :
          \/ Cancel(c)
          \/ \E o \in Ops, s \in alive, i \in Indexes : Call(c, o, s, i)
          \/ Panic(c)
          \/ Step(c)

Spec == Init /\ [][Next]_vars

(***************************************************************************)
(* Fairness: a goroutine inside a call keeps running, the driver keeps     *)
(* delivering rows, and a goroutine that waits for a connection gets one   *)
(* if connections keep coming back (the pool hands a returned connection   *)
(* to a waiting request).  Nobody has to cancel, to write or to call.      *)
(***************************************************************************)
Fairness ==
    \A c \in Callers : WF_vars(Step(c)) /\ SF_vars(OpenRows(c))

LiveSpec == Spec /\ Fairness

-----------------------------------------------------------------------------
(* Properties.                                                             *)

\* The call holds the flight of its state: it does, or has panicked in, the
\* backend I/O of an All.
Owns(c) ==
    /\ op[c] = "All"
    /\ pc[c] \in {"open", "rows", "close", "postio", "publish", "dead"}

\* Every variable has its type, and a call that waits for or owns a flight has
\* a flight to dereference.
TypeOK ==
    /\ db \in Versions
    /\ alive \subseteq States
    /\ born \in [States -> Versions]
    /\ ready \in [States -> BOOLEAN]
    /\ cacheVer \in [States -> Versions]
    /\ cacheLen \in [States -> Nat]
    /\ flight \in [States -> Flights \cup {NoFlight}]
    /\ fdone \in [Flights -> BOOLEAN]
    /\ ferr \in [Flights -> SUBSET Causes]
    /\ pc \in [Callers -> Labels]
    /\ op \in [Callers -> Ops \cup {"none"}]
    /\ st \in [Callers -> States]
    /\ idx \in [Callers -> Nat]
    /\ fl \in [Callers -> Flights \cup {NoFlight}]
    /\ \A c \in Callers : pc[c] = "wait" \/ Owns(c) => fl[c] # NoFlight
    /\ cancelled \in [Callers -> BOOLEAN]
    /\ doomed \in [Callers -> BOOLEAN]
    /\ since \in [Callers -> Versions]
    /\ snap \in [Callers -> Versions]
    /\ pos \in [Callers -> Nat]
    /\ err \in [Callers -> SUBSET Causes]
    /\ conns \subseteq Callers
    /\ calls \in [Callers -> Nat]

\* A call has its answer in hand and reports success.
Succeeded(c) == pc[c] = "return" /\ err[c] = {}

\* Concurrent All calls on one evaluation state: at most one of them does
\* backend I/O, whatever is canceled, fails or panics (All, ADR 0012).
SingleOwner ==
    \A c, d \in Callers :
        Owns(c) /\ Owns(d) /\ st[c] = st[d] => c = d

\* Every successful All on one evaluation state returns the one snapshot that
\* is cached there: owner, waiters and later callers cannot see two versions.
AllReturnsCache ==
    \A c \in Callers :
        op[c] = "All" /\ (Succeeded(c) \/ pc[c] = "clone") =>
            /\ ready[st[c]]
            /\ snap[c] = cacheVer[st[c]] /\ pos[c] = cacheLen[st[c]]

\* A cached list is complete: no error, cancellation or early end of the rows
\* ever gets a shortened list published (scanAll, All).
CacheComplete ==
    \A s \in States : ready[s] => cacheLen[s] = AllLen(s, cacheVer[s])

\* What a QuerySet answers is never older than the QuerySet itself: after a
\* write, Fresh (or any derivation) sees the write, from cache or from the
\* database.  Iterate bypasses the cache: it reads a version no older than its
\* own call, however stale the cache of its state is.
NotOlderThanState ==
    /\ \A s \in States : ready[s] => born[s] <= cacheVer[s] /\ cacheVer[s] <= db
    /\ \A c \in Callers :
          Succeeded(c) => /\ born[st[c]] <= snap[c] /\ snap[c] <= db
                          /\ op[c] = "Iterate" => since[c] <= snap[c]

\* A call reports a context error only if its own context ended; the
\* cancellation of the owner it waited for is never passed on to it.
NoForeignCancellation ==
    \A c \in Callers : pc[c] = "return" /\ "ctx" \in err[c] => cancelled[c]

\* A waiter whose context was already canceled when it woke up never becomes
\* the next owner (the recheck at the head of the loop in All).
CanceledWaiterNeverOwns ==
    \A c \in Callers : doomed[c] => ~Owns(c)

\* Warm or cold, with LIMIT 0, a small LIMIT or none, every terminal answers
\* what the full result list of the version it read says.
AnswersAgree ==
    \A c \in Callers : Succeeded(c) =>
        LET n == AllLen(st[c], snap[c]) IN
        CASE op[c] = "Exists" -> (pos[c] > 0) = (n > 0)
          [] op[c] = "At"     -> (pos[c] > idx[c]) = (n > idx[c])
          [] OTHER            -> pos[c] = n

\* A goroutine holds a connection only between opening and closing its rows:
\* no waiter holds one (with a pool of one that would stop the owner), and no
\* error path returns with rows open.
RowsReleased ==
    \A c \in conns : pc[c] \in {"rows", "close", "dead"}

\* Once published, the cache of an evaluation state never changes.
CacheStable ==
    [][\A s \in States : ready[s] =>
          ready'[s] /\ cacheVer'[s] = cacheVer[s] /\ cacheLen'[s] = cacheLen[s]]_vars

\* Unless a call panics every call returns, whatever the other calls do: no flight
\* is left open, no waiter is forgotten, no connection is lost.
EveryCallReturns ==
    \A c \in Callers :
        pc[c] # "idle" ~> (pc[c] = "idle" \/ \E d \in Callers : pc[d] = "dead")

\* Even when an owner panicked, so that its flight never completes and its
\* connection is lost, a call whose context ends returns.
CanceledCallReturns ==
    \A c \in Callers : cancelled[c] ~> pc[c] \in {"idle", "dead"}

-----------------------------------------------------------------------------
(* The abstract view: an evaluation state is a cell that is written once.  *)

Phase(c) ==
    IF op[c] # "All" THEN "idle"
    ELSE IF pc[c] # "return" THEN "pending"
    ELSE IF err[c] = {} THEN "answered" ELSE "failed"

Cell == INSTANCE EvaluationCell WITH
    cell   <- [s \in States |-> [set |-> ready[s],
                                 ver |-> IF ready[s] THEN cacheVer[s] ELSE 0]],
    phase  <- [c \in Callers |-> Phase(c)],
    target <- [c \in Callers |-> IF op[c] = "All" THEN st[c] ELSE AnyState],
    answer <- [c \in Callers |->
                  IF Phase(c) = "answered" THEN snap[c] ELSE 0]

\* The cache implements the write-once cell: All calls only ever fail or
\* return the value of the cell of their state.
ImplementsCell == Cell!Spec
=============================================================================
