------------------------ MODULE QuerySetCacheProofs ------------------------
(***************************************************************************)
(* Proofs about QuerySetCache for any number of goroutines, evaluation     *)
(* states, flights, connections, calls, versions and rows.                 *)
(*                                                                         *)
(* The inductive invariant has four parts.  Located says which labels a    *)
(* call can be at, and that a call only touches states that exist.         *)
(* Ownership ties an owner to the flight pointer of its state; it makes    *)
(* SingleOwner inductive.  Contexts follows cancellation.  Snapshots       *)
(* follows the version and the length of a list from the open statement    *)
(* through publication to the callers.  With it, the second part of the    *)
(* module compares warm and cold answers (Answers) and maps the cache to   *)
(* the write-once cell.                                                    *)
(***************************************************************************)
EXTENDS QuerySetCache, TLAPS

\* Labels belong to operations, and calls and caches to derived states.
Located ==
    /\ \A c \in Callers :
          /\ pc[c] # "idle" => st[c] \in alive
          /\ pc[c] \in {"check", "lock", "wait", "publish", "clone"} => op[c] = "All"
          /\ pc[c] = "cached" => op[c] \notin {"All", "Iterate"}
    /\ \A s \in States : ready[s] => s \in alive

\* An owner holds the flight its state points to, and no other call does.
Ownership ==
    /\ \A c \in Callers : Owns(c) =>
          /\ fl[c] \in Flights
          /\ flight[st[c]] = fl[c]
          /\ ~ready[st[c]]
    /\ \A c, d \in Callers : Owns(c) /\ Owns(d) /\ fl[c] = fl[d] => c = d

\* Cancellation causes come from the own context; connections from open rows.
Contexts ==
    /\ \A c \in Callers :
          /\ "ctx" \in err[c] => cancelled[c]
          /\ doomed[c] => cancelled[c] /\ pc[c] \in {"check", "return"}
    /\ \A c \in conns : pc[c] \in {"rows", "close", "dead"}

\* c holds a version that it read itself or took from the cache.
HasSnapshot(c) ==
    \/ pc[c] \in {"rows", "close", "postio", "clone"}
    \/ pc[c] \in {"publish", "return"} /\ err[c] = {}

\* A published list is complete and of a version since the state was derived.
SnapshotOfState(s) ==
    /\ born[s] <= db
    /\ ready[s] => /\ cacheLen[s] = AllLen(s, cacheVer[s])
                   /\ born[s] <= cacheVer[s] /\ cacheVer[s] <= db

\* The list of a call, from the open statement to the return.
SnapshotOfCall(c) ==
    /\ since[c] <= db
    /\ HasSnapshot(c) => /\ born[st[c]] <= snap[c] /\ snap[c] <= db
                         /\ op[c] = "Iterate" => since[c] <= snap[c]
    /\ op[c] = "All" /\ pc[c] \in {"close", "postio", "publish"} /\ err[c] = {} =>
          pos[c] = AllLen(st[c], snap[c])
    /\ op[c] = "All" /\ (Succeeded(c) \/ pc[c] = "clone") =>
          /\ ready[st[c]]
          /\ snap[c] = cacheVer[st[c]] /\ pos[c] = cacheLen[st[c]]

Snapshots ==
    /\ \A s \in States : SnapshotOfState(s)
    /\ \A c \in Callers : SnapshotOfCall(c)

IInv == TypeOK /\ Located /\ Ownership /\ Contexts /\ Snapshots

-----------------------------------------------------------------------------
\* The invariant implies the properties that the runs check.
LEMMA IInvImplies ==
    IInv => /\ SingleOwner /\ AllReturnsCache /\ CacheComplete
            /\ NotOlderThanState
            /\ NoForeignCancellation /\ CanceledWaiterNeverOwns /\ RowsReleased
  <1> SUFFICES ASSUME IInv
               PROVE  /\ SingleOwner /\ AllReturnsCache /\ CacheComplete
                      /\ NotOlderThanState
                      /\ NoForeignCancellation /\ CanceledWaiterNeverOwns
                      /\ RowsReleased
    OBVIOUS
  <1>1. SingleOwner
    BY DEF IInv, Ownership, SingleOwner
  <1>2. AllReturnsCache /\ CacheComplete
    BY DEF IInv, Snapshots, SnapshotOfState, SnapshotOfCall, CacheComplete,
           AllReturnsCache
  <1>3. NotOlderThanState
    BY DEF IInv, Snapshots, SnapshotOfState, SnapshotOfCall, HasSnapshot,
           NotOlderThanState, Succeeded
  <1>4. NoForeignCancellation /\ CanceledWaiterNeverOwns /\ RowsReleased
    BY DEF IInv, Contexts, NoForeignCancellation, CanceledWaiterNeverOwns,
           RowsReleased, Owns
  <1>5. QED
    BY <1>1, <1>2, <1>3, <1>4

\* Nothing has been called and nothing is cached at the start.
LEMMA InitIInv == Init => IInv
  <1> SUFFICES ASSUME Init PROVE IInv
    OBVIOUS
  <1> USE CacheAssumption
  <1>0. 0 \in Versions /\ AnyState \in States
    BY DEF Versions, AnyState
  <1>1. TypeOK
    BY <1>0 DEF Init, TypeOK, Labels, Causes, Owns
  <1>2. Located /\ Ownership /\ Contexts
    BY <1>0 DEF Init, Located, Ownership, Contexts, Owns
  <1>3. Snapshots
    BY <1>0 DEF Init, Snapshots, SnapshotOfState, SnapshotOfCall, HasSnapshot,
                Succeeded
  <1>4. QED
    BY <1>1, <1>2, <1>3 DEF IInv

\* Every step preserves the invariant: one step of the proof per action, and
\* under it one per part of the invariant.
LEMMA NextIInv == IInv /\ [Next]_vars => IInv'
  <1> SUFFICES ASSUME IInv, [Next]_vars PROVE IInv'
    OBVIOUS
  <1> USE CacheAssumption DEF IInv, Goto, Fail, stateVars, flightVars, callVars
  <1>1. ASSUME Write PROVE IInv'
    <2> USE <1>1 DEF Write
    <2>0. db' \in Versions /\ db <= db'
      BY DEF TypeOK, Versions
    <2>1. TypeOK'
      BY <2>0 DEF TypeOK, Owns, Labels, Causes
    <2>2. Located' /\ Ownership'
      BY <2>1 DEF TypeOK, Located, Ownership, Owns
    <2>3. Contexts'
      BY <2>1 DEF TypeOK, Contexts
    <2>4. ASSUME NEW t \in States PROVE SnapshotOfState(t)'
      BY <2>0, <2>1, <2>4 DEF TypeOK, Snapshots, SnapshotOfState, Versions
    <2>5. ASSUME NEW d \in Callers PROVE SnapshotOfCall(d)'
      <3>1. /\ born[st[d]] \in Int /\ snap[d] \in Int /\ since[d] \in Int
            /\ db \in Int /\ db' \in Int
        BY <2>0, <2>5 DEF TypeOK, Versions
      <3> QED BY <2>0, <2>5, <3>1 DEF Snapshots, SnapshotOfCall, HasSnapshot, Succeeded
    <2> QED BY <2>1, <2>2, <2>3, <2>4, <2>5 DEF Snapshots
  <1>2. ASSUME NEW s \in States, Derive(s) PROVE IInv'
    <2> USE <1>2 DEF Derive
    <2>1. TypeOK'
      BY DEF TypeOK, Owns, Labels, Causes
    <2>2. Located' /\ Ownership'
      BY <2>1 DEF TypeOK, Located, Ownership, Owns
    <2>3. Contexts'
      BY <2>1 DEF TypeOK, Contexts
    <2>4. ASSUME NEW t \in States PROVE SnapshotOfState(t)'
      BY <2>1, <2>4 DEF TypeOK, Snapshots, SnapshotOfState, Versions
    <2>5. ASSUME NEW d \in Callers PROVE SnapshotOfCall(d)'
      <3>1. CASE pc[d] = "idle"
        BY <2>5, <3>1 DEF TypeOK, Snapshots, SnapshotOfCall, HasSnapshot, Succeeded
      <3>2. CASE st[d] # s
        BY <2>5, <3>2 DEF TypeOK, Snapshots, SnapshotOfCall, HasSnapshot, Succeeded
      <3> QED BY <2>5, <3>1, <3>2 DEF Located
    <2> QED BY <2>1, <2>2, <2>3, <2>4, <2>5 DEF Snapshots
  <1>3. ASSUME NEW c \in Callers, Cancel(c) PROVE IInv'
    <2> USE <1>3 DEF Cancel
    <2>1. TypeOK'
      BY DEF TypeOK, Owns, Labels, Causes
    <2>2. Located' /\ Ownership'
      BY <2>1 DEF TypeOK, Located, Ownership, Owns
    <2>3. Contexts'
      BY <2>1 DEF TypeOK, Contexts
    <2>4. ASSUME NEW t \in States PROVE SnapshotOfState(t)'
      BY <2>1, <2>4 DEF TypeOK, Snapshots, SnapshotOfState
    <2>5. ASSUME NEW d \in Callers PROVE SnapshotOfCall(d)'
      <3>1. CASE d = c
        BY <2>1, <2>5, <3>1 DEF TypeOK, Located, Snapshots, SnapshotOfState,
            SnapshotOfCall, HasSnapshot, Succeeded
      <3>2. CASE d # c
        BY <2>1, <2>5, <3>2 DEF TypeOK, Snapshots, SnapshotOfState,
            SnapshotOfCall, HasSnapshot, Succeeded
      <3> QED BY <3>1, <3>2
    <2> QED BY <2>1, <2>2, <2>3, <2>4, <2>5 DEF Snapshots
  <1>4. ASSUME NEW c \in Callers, NEW o \in Ops, NEW s \in alive, NEW i \in Indexes,
               Call(c, o, s, i)
        PROVE  IInv'
    <2> USE <1>4 DEF Call
    <2>1. TypeOK'
      BY DEF TypeOK, Owns, Labels, Causes, Located
    <2>2. Located' /\ Ownership'
      BY <2>1 DEF TypeOK, Located, Ownership, Owns
    <2>3. Contexts'
      BY <2>1 DEF TypeOK, Contexts
    <2>4. ASSUME NEW t \in States PROVE SnapshotOfState(t)'
      BY <2>1, <2>4 DEF TypeOK, Snapshots, SnapshotOfState
    <2>5. ASSUME NEW d \in Callers PROVE SnapshotOfCall(d)'
      <3>1. CASE d = c
        BY <2>1, <2>5, <3>1 DEF TypeOK, Located, Snapshots, SnapshotOfState,
            SnapshotOfCall, HasSnapshot, Succeeded, Versions
      <3>2. CASE d # c
        BY <2>1, <2>5, <3>2 DEF TypeOK, Snapshots, SnapshotOfState,
            SnapshotOfCall, HasSnapshot, Succeeded
      <3> QED BY <3>1, <3>2
    <2> QED BY <2>1, <2>2, <2>3, <2>4, <2>5 DEF Snapshots
  <1>5. ASSUME NEW c \in Callers, Validate(c) PROVE IInv'
    <2> USE <1>5 DEF Validate
    <2>1. TypeOK'
      <3>1. CASE cancelled[c] /\ Fail(c, {"ctx"})
        BY <3>1 DEF TypeOK, Owns, Labels, Causes, Located, FirstLabel
      <3>2. CASE ~cancelled[c] /\ Fail(c, {"usage"})
        BY <3>2 DEF TypeOK, Owns, Labels, Causes, Located, FirstLabel
      <3>3. CASE ~cancelled[c] /\ Goto(c, FirstLabel(c)) /\ UNCHANGED err
        BY <3>3 DEF TypeOK, Owns, Labels, Causes, Located, FirstLabel
      <3> QED BY <3>1, <3>2, <3>3
    <2>2. Located' /\ Ownership'
      <3>1. CASE cancelled[c] /\ Fail(c, {"ctx"})
        BY <2>1, <3>1 DEF TypeOK, Located, Ownership, Owns, FirstLabel
      <3>2. CASE ~cancelled[c] /\ Fail(c, {"usage"})
        BY <2>1, <3>2 DEF TypeOK, Located, Ownership, Owns, FirstLabel
      <3>3. CASE ~cancelled[c] /\ Goto(c, FirstLabel(c)) /\ UNCHANGED err
        BY <2>1, <3>3 DEF TypeOK, Located, Ownership, Owns, FirstLabel
      <3> QED BY <3>1, <3>2, <3>3
    <2>3. Contexts'
      <3>1. CASE cancelled[c] /\ Fail(c, {"ctx"})
        BY <2>1, <3>1 DEF TypeOK, Contexts, FirstLabel
      <3>2. CASE ~cancelled[c] /\ Fail(c, {"usage"})
        BY <2>1, <3>2 DEF TypeOK, Contexts, FirstLabel
      <3>3. CASE ~cancelled[c] /\ Goto(c, FirstLabel(c)) /\ UNCHANGED err
        BY <2>1, <3>3 DEF TypeOK, Contexts, FirstLabel
      <3> QED BY <3>1, <3>2, <3>3
    <2>4. ASSUME NEW t \in States PROVE SnapshotOfState(t)'
      BY <2>1, <2>4 DEF TypeOK, Snapshots, SnapshotOfState
    <2>5. ASSUME NEW d \in Callers PROVE SnapshotOfCall(d)'
      <3>1. CASE d = c
        <4>1. CASE cancelled[c] /\ Fail(c, {"ctx"})
          BY <2>1, <2>5, <3>1, <4>1 DEF TypeOK, Located, Snapshots,
              SnapshotOfState, SnapshotOfCall, HasSnapshot, Succeeded, FirstLabel
        <4>2. CASE ~cancelled[c] /\ Fail(c, {"usage"})
          BY <2>1, <2>5, <3>1, <4>2 DEF TypeOK, Located, Snapshots,
              SnapshotOfState, SnapshotOfCall, HasSnapshot, Succeeded, FirstLabel
        <4>3. CASE ~cancelled[c] /\ Goto(c, FirstLabel(c)) /\ UNCHANGED err
          BY <2>1, <2>5, <3>1, <4>3 DEF TypeOK, Located, Snapshots,
              SnapshotOfState, SnapshotOfCall, HasSnapshot, Succeeded, FirstLabel
        <4> QED BY <4>1, <4>2, <4>3
      <3>2. CASE d # c
        BY <2>1, <2>5, <3>2 DEF TypeOK, Snapshots, SnapshotOfState,
            SnapshotOfCall, HasSnapshot, Succeeded
      <3> QED BY <3>1, <3>2
    <2> QED BY <2>1, <2>2, <2>3, <2>4, <2>5 DEF Snapshots
  <1>6. ASSUME NEW c \in Callers, CheckContext(c) PROVE IInv'
    <2> USE <1>6 DEF CheckContext
    <2>1. TypeOK'
      <3>1. CASE cancelled[c]
        BY <3>1 DEF TypeOK, Owns, Labels, Causes
      <3>2. CASE ~cancelled[c]
        BY <3>2 DEF TypeOK, Owns, Labels, Causes
      <3> QED BY <3>1, <3>2
    <2>2. Located' /\ Ownership'
      <3>1. CASE cancelled[c]
        BY <2>1, <3>1 DEF TypeOK, Located, Ownership, Owns
      <3>2. CASE ~cancelled[c]
        BY <2>1, <3>2 DEF TypeOK, Located, Ownership, Owns
      <3> QED BY <3>1, <3>2
    <2>3. Contexts'
      <3>1. CASE cancelled[c]
        BY <2>1, <3>1 DEF TypeOK, Contexts
      <3>2. CASE ~cancelled[c]
        BY <2>1, <3>2 DEF TypeOK, Contexts
      <3> QED BY <3>1, <3>2
    <2>4. ASSUME NEW t \in States PROVE SnapshotOfState(t)'
      BY <2>1, <2>4 DEF TypeOK, Snapshots, SnapshotOfState
    <2>5. ASSUME NEW d \in Callers PROVE SnapshotOfCall(d)'
      <3>1. CASE d = c
        <4>1. CASE cancelled[c]
          <5>0. /\ pc' = [pc EXCEPT ![c] = "return"]
                /\ err' = [err EXCEPT ![c] = {"ctx"}]
            BY <4>1
          <5>1. pc'[d] = "return" /\ "ctx" \in err'[d]
            BY <5>0, <3>1 DEF TypeOK
          <5>2. since'[d] <= db'
            BY <2>5 DEF Snapshots, SnapshotOfCall
          <5> QED BY <5>1, <5>2 DEF Snapshots, SnapshotOfCall, HasSnapshot, Succeeded
        <4>2. CASE ~cancelled[c]
          BY <2>1, <2>5, <3>1, <4>2 DEF TypeOK, Located, Snapshots,
              SnapshotOfState, SnapshotOfCall, HasSnapshot, Succeeded
        <4> QED BY <4>1, <4>2
      <3>2. CASE d # c
        BY <2>1, <2>5, <3>2 DEF TypeOK, Snapshots, SnapshotOfState,
            SnapshotOfCall, HasSnapshot, Succeeded
      <3> QED BY <3>1, <3>2
    <2> QED BY <2>1, <2>2, <2>3, <2>4, <2>5 DEF Snapshots
  <1>7. ASSUME NEW c \in Callers, LockReady(c) PROVE IInv'
    <2> USE <1>7 DEF LockReady
    <2>1. TypeOK'
      BY DEF TypeOK, Owns, Labels, Causes
    <2>2. Located' /\ Ownership'
      BY <2>1 DEF TypeOK, Located, Ownership, Owns
    <2>3. Contexts'
      BY <2>1 DEF TypeOK, Contexts
    <2>4. ASSUME NEW t \in States PROVE SnapshotOfState(t)'
      BY <2>1, <2>4 DEF TypeOK, Snapshots, SnapshotOfState
    <2>5. ASSUME NEW d \in Callers PROVE SnapshotOfCall(d)'
      <3>1. CASE d = c
        BY <2>1, <2>5, <3>1 DEF TypeOK, Located, Snapshots, SnapshotOfState,
            SnapshotOfCall, HasSnapshot, Succeeded
      <3>2. CASE d # c
        BY <2>1, <2>5, <3>2 DEF TypeOK, Snapshots, SnapshotOfState,
            SnapshotOfCall, HasSnapshot, Succeeded
      <3> QED BY <3>1, <3>2
    <2> QED BY <2>1, <2>2, <2>3, <2>4, <2>5 DEF Snapshots
  <1>8. ASSUME NEW c \in Callers, LockJoin(c) PROVE IInv'
    <2> USE <1>8 DEF LockJoin
    <2>1. TypeOK'
      BY DEF TypeOK, Owns, Labels, Causes
    <2>2. Located' /\ Ownership'
      BY <2>1 DEF TypeOK, Located, Ownership, Owns
    <2>3. Contexts'
      BY <2>1 DEF TypeOK, Contexts
    <2>4. ASSUME NEW t \in States PROVE SnapshotOfState(t)'
      BY <2>1, <2>4 DEF TypeOK, Snapshots, SnapshotOfState
    <2>5. ASSUME NEW d \in Callers PROVE SnapshotOfCall(d)'
      <3>1. CASE d = c
        BY <2>1, <2>5, <3>1 DEF TypeOK, Located, Snapshots, SnapshotOfState,
            SnapshotOfCall, HasSnapshot, Succeeded
      <3>2. CASE d # c
        BY <2>1, <2>5, <3>2 DEF TypeOK, Snapshots, SnapshotOfState,
            SnapshotOfCall, HasSnapshot, Succeeded
      <3> QED BY <3>1, <3>2
    <2> QED BY <2>1, <2>2, <2>3, <2>4, <2>5 DEF Snapshots
  <1>9. ASSUME NEW c \in Callers, NEW f \in Flights, LockClaim(c, f) PROVE IInv'
    <2> USE <1>9 DEF LockClaim
    <2>1. TypeOK'
      BY DEF TypeOK, Owns, Labels, Causes
    <2>2. Located' /\ Ownership'
      BY <2>1 DEF TypeOK, Located, Ownership, Owns
    <2>3. Contexts'
      BY <2>1 DEF TypeOK, Contexts
    <2>4. ASSUME NEW t \in States PROVE SnapshotOfState(t)'
      BY <2>1, <2>4 DEF TypeOK, Snapshots, SnapshotOfState
    <2>5. ASSUME NEW d \in Callers PROVE SnapshotOfCall(d)'
      <3>1. CASE d = c
        BY <2>1, <2>5, <3>1 DEF TypeOK, Located, Snapshots, SnapshotOfState,
            SnapshotOfCall, HasSnapshot, Succeeded
      <3>2. CASE d # c
        BY <2>1, <2>5, <3>2 DEF TypeOK, Snapshots, SnapshotOfState,
            SnapshotOfCall, HasSnapshot, Succeeded
      <3> QED BY <3>1, <3>2
    <2> QED BY <2>1, <2>2, <2>3, <2>4, <2>5 DEF Snapshots
  <1>10. ASSUME NEW c \in Callers, WaitCanceled(c) PROVE IInv'
    <2> USE <1>10 DEF WaitCanceled
    <2>1. TypeOK'
      BY DEF TypeOK, Owns, Labels, Causes
    <2>2. Located' /\ Ownership'
      BY <2>1 DEF TypeOK, Located, Ownership, Owns
    <2>3. Contexts'
      BY <2>1 DEF TypeOK, Contexts
    <2>4. ASSUME NEW t \in States PROVE SnapshotOfState(t)'
      BY <2>1, <2>4 DEF TypeOK, Snapshots, SnapshotOfState
    <2>5. ASSUME NEW d \in Callers PROVE SnapshotOfCall(d)'
      <3>1. CASE d = c
        BY <2>1, <2>5, <3>1 DEF TypeOK, Located, Snapshots, SnapshotOfState,
            SnapshotOfCall, HasSnapshot, Succeeded
      <3>2. CASE d # c
        BY <2>1, <2>5, <3>2 DEF TypeOK, Snapshots, SnapshotOfState,
            SnapshotOfCall, HasSnapshot, Succeeded
      <3> QED BY <3>1, <3>2
    <2> QED BY <2>1, <2>2, <2>3, <2>4, <2>5 DEF Snapshots
  <1>11. ASSUME NEW c \in Callers, WaitDone(c) PROVE IInv'
    <2> USE <1>11 DEF WaitDone
    <2>0. fl[c] \in Flights /\ ferr[fl[c]] \subseteq Causes
      BY DEF TypeOK
    <2>1. TypeOK'
      <3>1. CASE RetriesAfter(ferr[fl[c]])
        BY <2>0, <3>1 DEF TypeOK, Owns, Labels, Causes
      <3>2. CASE ~RetriesAfter(ferr[fl[c]])
        <4>1. /\ pc' = [pc EXCEPT ![c] = "return"]
              /\ err' = [err EXCEPT ![c] = ferr[fl[c]]]
          BY <3>2
        <4> QED BY <2>0, <4>1 DEF TypeOK, Owns, Labels
      <3> QED BY <3>1, <3>2
    <2>2. Located' /\ Ownership'
      <3>1. CASE RetriesAfter(ferr[fl[c]])
        BY <2>1, <3>1 DEF TypeOK, Located, Ownership, Owns
      <3>2. CASE ~RetriesAfter(ferr[fl[c]])
        BY <2>1, <3>2 DEF TypeOK, Located, Ownership, Owns
      <3> QED BY <3>1, <3>2
    <2>3. Contexts'
      <3>1. CASE RetriesAfter(ferr[fl[c]])
        BY <2>1, <3>1 DEF TypeOK, Contexts, RetriesAfter
      <3>2. CASE ~RetriesAfter(ferr[fl[c]])
        BY <2>1, <3>2 DEF TypeOK, Contexts, RetriesAfter
      <3> QED BY <3>1, <3>2
    <2>4. ASSUME NEW t \in States PROVE SnapshotOfState(t)'
      BY <2>1, <2>4 DEF TypeOK, Snapshots, SnapshotOfState
    <2>5. ASSUME NEW d \in Callers PROVE SnapshotOfCall(d)'
      <3>1. CASE d = c
        <4>1. CASE RetriesAfter(ferr[fl[c]])
          BY <2>1, <2>5, <3>1, <4>1 DEF TypeOK, Located, Snapshots,
              SnapshotOfState, SnapshotOfCall, HasSnapshot, Succeeded,
              RetriesAfter
        <4>2. CASE ~RetriesAfter(ferr[fl[c]])
          BY <2>1, <2>5, <3>1, <4>2 DEF TypeOK, Located, Snapshots,
              SnapshotOfState, SnapshotOfCall, HasSnapshot, Succeeded,
              RetriesAfter
        <4> QED BY <4>1, <4>2
      <3>2. CASE d # c
        BY <2>1, <2>5, <3>2 DEF TypeOK, Snapshots, SnapshotOfState,
            SnapshotOfCall, HasSnapshot, Succeeded
      <3> QED BY <3>1, <3>2
    <2> QED BY <2>1, <2>2, <2>3, <2>4, <2>5 DEF Snapshots
  <1>12. ASSUME NEW c \in Callers, Publish(c) PROVE IInv'
    <2> USE <1>12 DEF Publish
    <2>0. fl[c] \in Flights
      BY DEF TypeOK, Located, Owns
    <2>1. TypeOK'
      <3>1. CASE err[c] = {}
        <4>1. pc' = [pc EXCEPT ![c] = "clone"] /\ fl' = [fl EXCEPT ![c] = NoFlight]
          BY <3>1
        <4>2. /\ ready' = [ready EXCEPT ![st[c]] = TRUE]
              /\ cacheVer' = [cacheVer EXCEPT ![st[c]] = snap[c]]
              /\ cacheLen' = [cacheLen EXCEPT ![st[c]] = pos[c]]
          BY <3>1
        <4>3. /\ flight' \in [States -> Flights \cup {NoFlight}]
              /\ fdone' \in [Flights -> BOOLEAN]
              /\ ferr' \in [Flights -> SUBSET Causes]
          BY <2>0 DEF TypeOK
        <4> QED BY <4>1, <4>2, <4>3 DEF TypeOK, Owns, Labels
      <3>2. CASE err[c] # {}
        BY <2>0, <3>2 DEF TypeOK, Owns, Labels, Causes
      <3> QED BY <3>1, <3>2
    <2>2. Located' /\ Ownership'
      <3>1. CASE err[c] = {}
        BY <2>1, <3>1 DEF TypeOK, Located, Ownership, Owns
      <3>2. CASE err[c] # {}
        BY <2>1, <3>2 DEF TypeOK, Located, Ownership, Owns
      <3> QED BY <3>1, <3>2
    <2>3. Contexts'
      <3>1. CASE err[c] = {}
        BY <2>1, <3>1 DEF TypeOK, Contexts
      <3>2. CASE err[c] # {}
        BY <2>1, <3>2 DEF TypeOK, Contexts
      <3> QED BY <3>1, <3>2
    <2>4. ASSUME NEW t \in States PROVE SnapshotOfState(t)'
      <3>1. CASE t = st[c] /\ err[c] = {}
        BY <2>1, <2>4, <3>1 DEF TypeOK, Snapshots, SnapshotOfState,
            SnapshotOfCall, HasSnapshot, Located
      <3>2. CASE ~(t = st[c] /\ err[c] = {})
        BY <2>1, <2>4, <3>2 DEF TypeOK, Snapshots, SnapshotOfState
      <3> QED BY <3>1, <3>2
    <2>5. ASSUME NEW d \in Callers PROVE SnapshotOfCall(d)'
      <3>1. CASE d = c
        <4>1. CASE err[c] = {}
          BY <2>1, <2>5, <3>1, <4>1 DEF TypeOK, Located, Snapshots,
              SnapshotOfState, SnapshotOfCall, HasSnapshot, Succeeded
        <4>2. CASE err[c] # {}
          BY <2>1, <2>5, <3>1, <4>2 DEF TypeOK, Located, Snapshots,
              SnapshotOfState, SnapshotOfCall, HasSnapshot, Succeeded
        <4> QED BY <4>1, <4>2
      <3>2. CASE d # c
        <4>1. CASE err[c] = {}
          BY <2>1, <2>5, <3>2, <4>1 DEF TypeOK, Snapshots, SnapshotOfState,
              SnapshotOfCall, HasSnapshot, Succeeded, Located, Ownership, Owns
        <4>2. CASE err[c] # {}
          BY <2>1, <2>5, <3>2, <4>2 DEF TypeOK, Snapshots, SnapshotOfState,
              SnapshotOfCall, HasSnapshot, Succeeded, Located, Ownership, Owns
        <4> QED BY <4>1, <4>2
      <3> QED BY <3>1, <3>2
    <2> QED BY <2>1, <2>2, <2>3, <2>4, <2>5 DEF Snapshots
  <1>13. ASSUME NEW c \in Callers, CloneModels(c) PROVE IInv'
    <2> USE <1>13 DEF CloneModels
    <2>1. TypeOK'
      BY DEF TypeOK, Owns, Labels, Causes
    <2>2. Located' /\ Ownership'
      BY <2>1 DEF TypeOK, Located, Ownership, Owns
    <2>3. Contexts'
      BY <2>1 DEF TypeOK, Contexts
    <2>4. ASSUME NEW t \in States PROVE SnapshotOfState(t)'
      BY <2>1, <2>4 DEF TypeOK, Snapshots, SnapshotOfState
    <2>5. ASSUME NEW d \in Callers PROVE SnapshotOfCall(d)'
      <3>1. CASE d = c
        BY <2>1, <2>5, <3>1 DEF TypeOK, Located, Snapshots, SnapshotOfState,
            SnapshotOfCall, HasSnapshot, Succeeded
      <3>2. CASE d # c
        BY <2>1, <2>5, <3>2 DEF TypeOK, Snapshots, SnapshotOfState,
            SnapshotOfCall, HasSnapshot, Succeeded
      <3> QED BY <3>1, <3>2
    <2> QED BY <2>1, <2>2, <2>3, <2>4, <2>5 DEF Snapshots
  <1>14. ASSUME NEW c \in Callers, CachedValues(c) PROVE IInv'
    <2> USE <1>14 DEF CachedValues
    <2>0. /\ TakenFromCache(c, cacheLen[st[c]]) \in Nat
          /\ cacheVer[st[c]] \in Versions
          /\ op[c] # "All"
      BY DEF TypeOK, TakenFromCache, Located
    <2>1. TypeOK'
      <3>1. CASE ready[st[c]]
        <4> HIDE DEF TakenFromCache
        <4>1. /\ snap' \in [Callers -> Versions] /\ pos' \in [Callers -> Nat]
              /\ pc' \in [Callers -> Labels]
          BY <2>0, <3>1 DEF TypeOK, Labels
        <4>2. \A d \in Callers : pc'[d] = "wait" \/ Owns(d)' => fl'[d] # NoFlight
          BY <2>0, <3>1 DEF TypeOK, Owns
        <4> QED BY <4>1, <4>2, <3>1 DEF TypeOK
      <3>2. CASE ~ready[st[c]]
        BY <2>0, <3>2 DEF TypeOK, Owns, Labels, Causes, Located
      <3> QED BY <3>1, <3>2
    <2>2. Located' /\ Ownership'
      <3>1. CASE ready[st[c]]
        <4>1. pc' = [pc EXCEPT ![c] = "return"]
          BY <3>1
        <4> QED BY <2>0, <4>1 DEF TypeOK, Located, Ownership, Owns
      <3>2. CASE ~ready[st[c]]
        BY <2>1, <3>2 DEF TypeOK, Located, Ownership, Owns
      <3> QED BY <3>1, <3>2
    <2>3. Contexts'
      <3>1. CASE ready[st[c]]
        BY <2>1, <3>1 DEF TypeOK, Contexts
      <3>2. CASE ~ready[st[c]]
        BY <2>1, <3>2 DEF TypeOK, Contexts
      <3> QED BY <3>1, <3>2
    <2>4. ASSUME NEW t \in States PROVE SnapshotOfState(t)'
      BY <2>1, <2>4 DEF TypeOK, Snapshots, SnapshotOfState
    <2>5. ASSUME NEW d \in Callers PROVE SnapshotOfCall(d)'
      <3>1. CASE d = c
        <4>1. CASE ready[st[c]]
          BY <2>1, <2>5, <3>1, <4>1 DEF TypeOK, Located, Snapshots,
              SnapshotOfState, SnapshotOfCall, HasSnapshot, Succeeded
        <4>2. CASE ~ready[st[c]]
          BY <2>1, <2>5, <3>1, <4>2 DEF TypeOK, Located, Snapshots,
              SnapshotOfState, SnapshotOfCall, HasSnapshot, Succeeded
        <4> QED BY <4>1, <4>2
      <3>2. CASE d # c
        BY <2>1, <2>5, <3>2 DEF TypeOK, Snapshots, SnapshotOfState,
            SnapshotOfCall, HasSnapshot, Succeeded
      <3> QED BY <3>1, <3>2
    <2> QED BY <2>1, <2>2, <2>3, <2>4, <2>5 DEF Snapshots
  <1>15. ASSUME NEW c \in Callers, OpenRows(c) PROVE IInv'
    <2> USE <1>15 DEF OpenRows
    <2>1. TypeOK'
      BY DEF TypeOK, Owns, Labels, Causes
    <2>2. Located' /\ Ownership'
      BY <2>1 DEF TypeOK, Located, Ownership, Owns
    <2>3. Contexts'
      BY <2>1 DEF TypeOK, Contexts
    <2>4. ASSUME NEW t \in States PROVE SnapshotOfState(t)'
      BY <2>1, <2>4 DEF TypeOK, Snapshots, SnapshotOfState
    <2>5. ASSUME NEW d \in Callers PROVE SnapshotOfCall(d)'
      <3>1. CASE d = c
        BY <2>1, <2>5, <3>1 DEF TypeOK, Located, Snapshots, SnapshotOfState,
            SnapshotOfCall, HasSnapshot, Succeeded, Versions
      <3>2. CASE d # c
        BY <2>1, <2>5, <3>2 DEF TypeOK, Snapshots, SnapshotOfState,
            SnapshotOfCall, HasSnapshot, Succeeded
      <3> QED BY <3>1, <3>2
    <2> QED BY <2>1, <2>2, <2>3, <2>4, <2>5 DEF Snapshots
  <1>16. ASSUME NEW c \in Callers, OpenFails(c) PROVE IInv'
    <2> USE <1>16 DEF OpenFails
    <2>1. TypeOK'
      <3>1. CASE cancelled[c] /\ err' = [err EXCEPT ![c] = {"ctx"}]
        BY <3>1 DEF TypeOK, Owns, Labels, Causes, Located, AfterIO
      <3>2. CASE err' = [err EXCEPT ![c] = {"fault"}]
        BY <3>2 DEF TypeOK, Owns, Labels, Causes, Located, AfterIO
      <3> QED BY <3>1, <3>2
    <2>2. Located' /\ Ownership'
      <3>1. CASE cancelled[c] /\ err' = [err EXCEPT ![c] = {"ctx"}]
        BY <2>1, <3>1 DEF TypeOK, Located, Ownership, Owns, AfterIO
      <3>2. CASE err' = [err EXCEPT ![c] = {"fault"}]
        BY <2>1, <3>2 DEF TypeOK, Located, Ownership, Owns, AfterIO
      <3> QED BY <3>1, <3>2
    <2>3. Contexts'
      <3>1. CASE cancelled[c] /\ err' = [err EXCEPT ![c] = {"ctx"}]
        BY <2>1, <3>1 DEF TypeOK, Contexts, AfterIO
      <3>2. CASE err' = [err EXCEPT ![c] = {"fault"}]
        BY <2>1, <3>2 DEF TypeOK, Contexts, AfterIO
      <3> QED BY <3>1, <3>2
    <2>4. ASSUME NEW t \in States PROVE SnapshotOfState(t)'
      BY <2>1, <2>4 DEF TypeOK, Snapshots, SnapshotOfState
    <2>5. ASSUME NEW d \in Callers PROVE SnapshotOfCall(d)'
      <3>1. CASE d = c
        <4>1. CASE cancelled[c] /\ err' = [err EXCEPT ![c] = {"ctx"}]
          BY <2>1, <2>5, <3>1, <4>1 DEF TypeOK, Located, Snapshots,
              SnapshotOfState, SnapshotOfCall, HasSnapshot, Succeeded, AfterIO
        <4>2. CASE err' = [err EXCEPT ![c] = {"fault"}]
          BY <2>1, <2>5, <3>1, <4>2 DEF TypeOK, Located, Snapshots,
              SnapshotOfState, SnapshotOfCall, HasSnapshot, Succeeded, AfterIO
        <4> QED BY <4>1, <4>2
      <3>2. CASE d # c
        BY <2>1, <2>5, <3>2 DEF TypeOK, Snapshots, SnapshotOfState,
            SnapshotOfCall, HasSnapshot, Succeeded
      <3> QED BY <3>1, <3>2
    <2> QED BY <2>1, <2>2, <2>3, <2>4, <2>5 DEF Snapshots
  <1>17. ASSUME NEW c \in Callers, NextRow(c) PROVE IInv'
    <2> USE <1>17 DEF NextRow
    <2>1. TypeOK'
      BY DEF TypeOK, Owns, Labels, Causes
    <2>2. Located' /\ Ownership'
      BY <2>1 DEF TypeOK, Located, Ownership, Owns
    <2>3. Contexts'
      BY <2>1 DEF TypeOK, Contexts
    <2>4. ASSUME NEW t \in States PROVE SnapshotOfState(t)'
      BY <2>1, <2>4 DEF TypeOK, Snapshots, SnapshotOfState
    <2>5. ASSUME NEW d \in Callers PROVE SnapshotOfCall(d)'
      <3>1. CASE d = c
        BY <2>1, <2>5, <3>1 DEF TypeOK, Located, Snapshots, SnapshotOfState,
            SnapshotOfCall, HasSnapshot, Succeeded, LastRow
      <3>2. CASE d # c
        BY <2>1, <2>5, <3>2 DEF TypeOK, Snapshots, SnapshotOfState,
            SnapshotOfCall, HasSnapshot, Succeeded
      <3> QED BY <3>1, <3>2
    <2> QED BY <2>1, <2>2, <2>3, <2>4, <2>5 DEF Snapshots
  <1>18. ASSUME NEW c \in Callers, ScanFails(c) PROVE IInv'
    <2> USE <1>18 DEF ScanFails
    <2>1. TypeOK'
      BY DEF TypeOK, Owns, Labels, Causes
    <2>2. Located' /\ Ownership'
      BY <2>1 DEF TypeOK, Located, Ownership, Owns
    <2>3. Contexts'
      BY <2>1 DEF TypeOK, Contexts
    <2>4. ASSUME NEW t \in States PROVE SnapshotOfState(t)'
      BY <2>1, <2>4 DEF TypeOK, Snapshots, SnapshotOfState
    <2>5. ASSUME NEW d \in Callers PROVE SnapshotOfCall(d)'
      <3>1. CASE d = c
        BY <2>1, <2>5, <3>1 DEF TypeOK, Located, Snapshots, SnapshotOfState,
            SnapshotOfCall, HasSnapshot, Succeeded
      <3>2. CASE d # c
        BY <2>1, <2>5, <3>2 DEF TypeOK, Snapshots, SnapshotOfState,
            SnapshotOfCall, HasSnapshot, Succeeded
      <3> QED BY <3>1, <3>2
    <2> QED BY <2>1, <2>2, <2>3, <2>4, <2>5 DEF Snapshots
  <1>19. ASSUME NEW c \in Callers, RowsEnd(c) PROVE IInv'
    <2> USE <1>19 DEF RowsEnd
    <2>1. TypeOK'
      <3>1. CASE pos[c] = RowsAvailable(c) /\ UNCHANGED err
        BY <3>1 DEF TypeOK, Owns, Labels, Causes
      <3>2. CASE cancelled[c] /\ err' = [err EXCEPT ![c] = {"ctx"}]
        BY <3>2 DEF TypeOK, Owns, Labels, Causes
      <3>3. CASE err' = [err EXCEPT ![c] = {"fault"}]
        BY <3>3 DEF TypeOK, Owns, Labels, Causes
      <3> QED BY <3>1, <3>2, <3>3
    <2>2. Located' /\ Ownership'
      <3>1. CASE pos[c] = RowsAvailable(c) /\ UNCHANGED err
        BY <2>1, <3>1 DEF TypeOK, Located, Ownership, Owns
      <3>2. CASE cancelled[c] /\ err' = [err EXCEPT ![c] = {"ctx"}]
        BY <2>1, <3>2 DEF TypeOK, Located, Ownership, Owns
      <3>3. CASE err' = [err EXCEPT ![c] = {"fault"}]
        BY <2>1, <3>3 DEF TypeOK, Located, Ownership, Owns
      <3> QED BY <3>1, <3>2, <3>3
    <2>3. Contexts'
      <3>1. CASE pos[c] = RowsAvailable(c) /\ UNCHANGED err
        BY <2>1, <3>1 DEF TypeOK, Contexts
      <3>2. CASE cancelled[c] /\ err' = [err EXCEPT ![c] = {"ctx"}]
        BY <2>1, <3>2 DEF TypeOK, Contexts
      <3>3. CASE err' = [err EXCEPT ![c] = {"fault"}]
        BY <2>1, <3>3 DEF TypeOK, Contexts
      <3> QED BY <3>1, <3>2, <3>3
    <2>4. ASSUME NEW t \in States PROVE SnapshotOfState(t)'
      BY <2>1, <2>4 DEF TypeOK, Snapshots, SnapshotOfState
    <2>5. ASSUME NEW d \in Callers PROVE SnapshotOfCall(d)'
      <3>1. CASE d = c
        <4>1. CASE pos[c] = RowsAvailable(c) /\ UNCHANGED err
          BY <2>1, <2>5, <3>1, <4>1 DEF TypeOK, Located, Snapshots,
              SnapshotOfState, SnapshotOfCall, HasSnapshot, Succeeded,
              RowsAvailable, EffectiveLimit, AllLen
        <4>2. CASE cancelled[c] /\ err' = [err EXCEPT ![c] = {"ctx"}]
          BY <2>1, <2>5, <3>1, <4>2 DEF TypeOK, Located, Snapshots,
              SnapshotOfState, SnapshotOfCall, HasSnapshot, Succeeded,
              RowsAvailable, EffectiveLimit, AllLen
        <4>3. CASE err' = [err EXCEPT ![c] = {"fault"}]
          BY <2>1, <2>5, <3>1, <4>3 DEF TypeOK, Located, Snapshots,
              SnapshotOfState, SnapshotOfCall, HasSnapshot, Succeeded,
              RowsAvailable, EffectiveLimit, AllLen
        <4> QED BY <4>1, <4>2, <4>3
      <3>2. CASE d # c
        BY <2>1, <2>5, <3>2 DEF TypeOK, Snapshots, SnapshotOfState,
            SnapshotOfCall, HasSnapshot, Succeeded
      <3> QED BY <3>1, <3>2
    <2> QED BY <2>1, <2>2, <2>3, <2>4, <2>5 DEF Snapshots
  <1>20. ASSUME NEW c \in Callers, CloseRows(c) PROVE IInv'
    <2> USE <1>20 DEF CloseRows
    <2>0. PICK late \in SUBSET {"fault", "ctx"} : err' = [err EXCEPT ![c] = @ \cup late]
      OBVIOUS
    <2>1. TypeOK'
      BY <2>0 DEF TypeOK, Owns, Labels, Causes
    <2>2. Located' /\ Ownership'
      BY <2>1 DEF TypeOK, Located, Ownership, Owns
    <2>3. Contexts'
      BY <2>1 DEF TypeOK, Contexts
    <2>4. ASSUME NEW t \in States PROVE SnapshotOfState(t)'
      BY <2>1, <2>4 DEF TypeOK, Snapshots, SnapshotOfState
    <2>5. ASSUME NEW d \in Callers PROVE SnapshotOfCall(d)'
      <3>1. CASE d = c
        BY <2>1, <2>5, <3>1 DEF TypeOK, Located, Snapshots, SnapshotOfState,
            SnapshotOfCall, HasSnapshot, Succeeded
      <3>2. CASE d # c
        BY <2>1, <2>5, <3>2 DEF TypeOK, Snapshots, SnapshotOfState,
            SnapshotOfCall, HasSnapshot, Succeeded
      <3> QED BY <3>1, <3>2
    <2> QED BY <2>1, <2>2, <2>3, <2>4, <2>5 DEF Snapshots
  <1>21. ASSUME NEW c \in Callers, PostIO(c) PROVE IInv'
    <2> USE <1>21 DEF PostIO
    <2>1. TypeOK'
      <3>1. CASE err[c] = {} /\ cancelled[c]
        BY <3>1 DEF TypeOK, Owns, Labels, Causes, Located, AfterIO
      <3>2. CASE ~(err[c] = {} /\ cancelled[c])
        BY <3>2 DEF TypeOK, Owns, Labels, Causes, Located, AfterIO
      <3> QED BY <3>1, <3>2
    <2>2. Located' /\ Ownership'
      <3>1. CASE err[c] = {} /\ cancelled[c]
        BY <2>1, <3>1 DEF TypeOK, Located, Ownership, Owns, AfterIO
      <3>2. CASE ~(err[c] = {} /\ cancelled[c])
        BY <2>1, <3>2 DEF TypeOK, Located, Ownership, Owns, AfterIO
      <3> QED BY <3>1, <3>2
    <2>3. Contexts'
      <3>1. CASE err[c] = {} /\ cancelled[c]
        BY <2>1, <3>1 DEF TypeOK, Contexts, AfterIO
      <3>2. CASE ~(err[c] = {} /\ cancelled[c])
        BY <2>1, <3>2 DEF TypeOK, Contexts, AfterIO
      <3> QED BY <3>1, <3>2
    <2>4. ASSUME NEW t \in States PROVE SnapshotOfState(t)'
      BY <2>1, <2>4 DEF TypeOK, Snapshots, SnapshotOfState
    <2>5. ASSUME NEW d \in Callers PROVE SnapshotOfCall(d)'
      <3>1. CASE d = c
        <4>1. CASE err[c] = {} /\ cancelled[c]
          BY <2>1, <2>5, <3>1, <4>1 DEF TypeOK, Located, Snapshots,
              SnapshotOfState, SnapshotOfCall, HasSnapshot, Succeeded, AfterIO
        <4>2. CASE ~(err[c] = {} /\ cancelled[c])
          BY <2>1, <2>5, <3>1, <4>2 DEF TypeOK, Located, Snapshots,
              SnapshotOfState, SnapshotOfCall, HasSnapshot, Succeeded, AfterIO
        <4> QED BY <4>1, <4>2
      <3>2. CASE d # c
        BY <2>1, <2>5, <3>2 DEF TypeOK, Snapshots, SnapshotOfState,
            SnapshotOfCall, HasSnapshot, Succeeded
      <3> QED BY <3>1, <3>2
    <2> QED BY <2>1, <2>2, <2>3, <2>4, <2>5 DEF Snapshots
  <1>22. ASSUME NEW c \in Callers, Panic(c) PROVE IInv'
    <2> USE <1>22 DEF Panic
    <2>1. TypeOK'
      BY DEF TypeOK, Owns, Labels, Causes
    <2>2. Located' /\ Ownership'
      BY <2>1 DEF TypeOK, Located, Ownership, Owns
    <2>3. Contexts'
      BY <2>1 DEF TypeOK, Contexts
    <2>4. ASSUME NEW t \in States PROVE SnapshotOfState(t)'
      BY <2>1, <2>4 DEF TypeOK, Snapshots, SnapshotOfState
    <2>5. ASSUME NEW d \in Callers PROVE SnapshotOfCall(d)'
      <3>1. CASE d = c
        BY <2>1, <2>5, <3>1 DEF TypeOK, Located, Snapshots, SnapshotOfState,
            SnapshotOfCall, HasSnapshot, Succeeded
      <3>2. CASE d # c
        BY <2>1, <2>5, <3>2 DEF TypeOK, Snapshots, SnapshotOfState,
            SnapshotOfCall, HasSnapshot, Succeeded
      <3> QED BY <3>1, <3>2
    <2> QED BY <2>1, <2>2, <2>3, <2>4, <2>5 DEF Snapshots
  <1>23. ASSUME NEW c \in Callers, Return(c) PROVE IInv'
    <2> USE <1>23 DEF Return
    <2>0. AnyState \in States /\ 0 \in Versions /\ 0 <= db
      BY DEF AnyState, Versions, TypeOK
    <2>1. TypeOK'
      BY <2>0 DEF TypeOK, Owns, Labels, Causes
    <2>2. Located' /\ Ownership'
      BY <2>1 DEF TypeOK, Located, Ownership, Owns
    <2>3. Contexts'
      BY <2>1 DEF TypeOK, Contexts
    <2>4. ASSUME NEW t \in States PROVE SnapshotOfState(t)'
      BY <2>1, <2>4 DEF TypeOK, Snapshots, SnapshotOfState
    <2>5. ASSUME NEW d \in Callers PROVE SnapshotOfCall(d)'
      <3>1. CASE d = c
        BY <2>0, <2>1, <2>5, <3>1 DEF TypeOK, Located, Snapshots, SnapshotOfState,
            SnapshotOfCall, HasSnapshot, Succeeded
      <3>2. CASE d # c
        BY <2>1, <2>5, <3>2 DEF TypeOK, Snapshots, SnapshotOfState,
            SnapshotOfCall, HasSnapshot, Succeeded
      <3> QED BY <3>1, <3>2
    <2> QED BY <2>1, <2>2, <2>3, <2>4, <2>5 DEF Snapshots
  <1>24. ASSUME UNCHANGED vars PROVE IInv'
    BY <1>24 DEF vars, TypeOK, Located, Ownership, Contexts, Snapshots,
        SnapshotOfState, SnapshotOfCall, Owns, Succeeded, HasSnapshot
  <1> QED
    BY <1>1, <1>2, <1>3, <1>4, <1>5, <1>6, <1>7, <1>8, <1>9, <1>10, <1>11, <1>12,
        <1>13, <1>14, <1>15, <1>16, <1>17, <1>18, <1>19, <1>20, <1>21, <1>22,
        <1>23, <1>24 DEF Next, Step, TypeOK

-----------------------------------------------------------------------------
\* The invariant holds in every reachable state.
THEOREM SpecIInv == Spec => []IInv
  BY InitIInv, NextIInv, PTL DEF Spec

\* Type correctness: in particular a waiter or an owner of All never has a nil
\* flight to dereference.
THEOREM SpecTypeOK == Spec => []TypeOK
  <1>1. IInv => TypeOK
    BY DEF IInv
  <1> QED BY <1>1, SpecIInv, PTL

\* At most one All per evaluation state does backend I/O at any time.
THEOREM SpecSingleOwner == Spec => []SingleOwner
  BY IInvImplies, SpecIInv, PTL

\* Successful All calls on one evaluation state all return its cached list.
THEOREM SpecAllReturnsCache == Spec => []AllReturnsCache
  BY IInvImplies, SpecIInv, PTL

\* No error, cancellation or early end of the rows gets a shortened list into
\* the cache of an evaluation state.
THEOREM SpecCacheComplete == Spec => []CacheComplete
  BY IInvImplies, SpecIInv, PTL

\* No answer is older than the evaluation state it was asked of, and Iterate
\* reads a version of its own call.
THEOREM SpecNotOlderThanState == Spec => []NotOlderThanState
  BY IInvImplies, SpecIInv, PTL

\* A call reports only its own cancellation.
THEOREM SpecNoForeignCancellation == Spec => []NoForeignCancellation
  BY IInvImplies, SpecIInv, PTL

\* A waiter that woke up with a canceled context never evaluates.
THEOREM SpecCanceledWaiterNeverOwns == Spec => []CanceledWaiterNeverOwns
  BY IInvImplies, SpecIInv, PTL

\* No connection outlives the rows it was taken for.
THEOREM SpecRowsReleased == Spec => []RowsReleased
  BY IInvImplies, SpecIInv, PTL

\* A step never changes a published cache: owners are the only writers, and an
\* evaluation state that has an owner is not ready.
THEOREM SpecCacheStable == Spec => CacheStable
  <1> DEFINE Stable == \A s \in States : ready[s] =>
          ready'[s] /\ cacheVer'[s] = cacheVer[s] /\ cacheLen'[s] = cacheLen[s]
  <1>1. ASSUME IInv, [Next]_vars PROVE [Stable]_vars
    <2> SUFFICES ASSUME NEW s \in States, ready[s]
                 PROVE  /\ ready'[s] /\ cacheVer'[s] = cacheVer[s]
                        /\ cacheLen'[s] = cacheLen[s]
      OBVIOUS
    <2>1. CASE \E x \in States : Derive(x)
      BY <1>1, <2>1 DEF IInv, TypeOK, Located, Derive
    <2>2. CASE \E c \in Callers : Publish(c)
      <3>1. PICK c \in Callers : Publish(c)
        BY <2>2
      <3>2. s # st[c]
        BY <1>1, <3>1 DEF IInv, Located, Ownership, Owns, Publish
      <3> QED BY <1>1, <3>1, <3>2 DEF IInv, TypeOK, Publish
    <2>3. CASE UNCHANGED <<ready, cacheVer, cacheLen>>
      BY <2>3
    <2> QED
      BY <1>1, <2>1, <2>2, <2>3
      DEF Next, vars, stateVars, Write, Cancel, Call, Panic, Step, Validate,
          CheckContext, LockReady, LockJoin, LockClaim, WaitCanceled, WaitDone,
          CloneModels, CachedValues, OpenRows, OpenFails, NextRow, ScanFails,
          RowsEnd, CloseRows, PostIO, Return
  <1> QED BY <1>1, SpecIInv, PTL DEF Spec, CacheStable

-----------------------------------------------------------------------------
(* What the callers of a QuerySet see: warm and cold terminals agree with  *)
(* the full list of the version they read, and every behaviour of the      *)
(* cache is one of the write-once cell.                                    *)

\* Everything of a call that its answer depends on.
callView(c) == <<pc[c], op[c], st[c], idx[c], snap[c], pos[c], err[c]>>

\* The answer of c is what the full list of the version it read says.
Agrees(c) ==
    LET n == AllLen(st[c], snap[c]) IN
    CASE op[c] = "Exists" -> (pos[c] > 0) = (n > 0)
      [] op[c] = "At"     -> (pos[c] > idx[c]) = (n > idx[c])
      [] OTHER            -> pos[c] = n

\* A call has an operation; while rows are open no more were taken than the
\* terminal asks for; and rows that ended without an error give the answer.
\* What All returns follows from the cache and is left to it.
AnswerOf(c) ==
    /\ pc[c] = "idle" <=> op[c] = "none"
    /\ pc[c] = "rows" => /\ pos[c] <= RowsAvailable(c)
                         /\ op[c] = "Exists" => pos[c] = 0
                         /\ op[c] = "At" => pos[c] <= idx[c]
    /\ op[c] # "All" /\ pc[c] \in {"close", "postio", "return"} /\ err[c] = {} =>
          Agrees(c)

Answers == \A c \in Callers : AnswerOf(c)

-----------------------------------------------------------------------------
\* A step of one goroutine leaves the call of another alone.
LEMMA OtherCalls ==
    ASSUME TypeOK, NEW c \in Callers, NEW d \in Callers, c # d,
           \/ Cancel(c) \/ Panic(c) \/ Step(c)
           \/ \E o \in Ops, s \in alive, i \in Indexes : Call(c, o, s, i)
    PROVE  UNCHANGED callView(d)
  <1> USE DEF callView, TypeOK, callVars, Goto, Fail
  <1>1. CASE Cancel(c) \/ Panic(c)
    BY <1>1 DEF Cancel, Panic
  <1>2. CASE \E o \in Ops, s \in alive, i \in Indexes : Call(c, o, s, i)
    BY <1>2 DEF Call
  <1>3. CASE Validate(c) \/ CheckContext(c) \/ LockReady(c) \/ LockJoin(c)
    BY <1>3 DEF Validate, CheckContext, LockReady, LockJoin
  <1>4. CASE (\E f \in Flights : LockClaim(c, f)) \/ WaitCanceled(c) \/ WaitDone(c)
    BY <1>4 DEF LockClaim, WaitCanceled, WaitDone
  <1>5. CASE Publish(c) \/ CloneModels(c) \/ CachedValues(c)
    BY <1>5 DEF Publish, CloneModels, CachedValues
  <1>6. CASE OpenFails(c) \/ OpenRows(c) \/ NextRow(c) \/ ScanFails(c)
    BY <1>6 DEF OpenFails, OpenRows, NextRow, ScanFails
  <1>7. CASE RowsEnd(c) \/ CloseRows(c) \/ PostIO(c) \/ Return(c)
    BY <1>7 DEF RowsEnd, CloseRows, PostIO, Return
  <1> QED BY <1>1, <1>2, <1>3, <1>4, <1>5, <1>6, <1>7 DEF Step

\* The number of rows a terminal can take, and the length of the full list.
LEMMA Lengths ==
    ASSUME TypeOK, NEW c \in Callers
    PROVE  /\ AllLen(st[c], snap[c]) \in Nat
           /\ RowsAvailable(c) =
                LET n == AllLen(st[c], snap[c]) IN
                CASE op[c] = "Exists" -> PlanWithMaximumRows(n, 1)
                  [] op[c] = "At"     -> PlanWithMaximumRows(n, idx[c] + 1)
                  [] OTHER            -> n
  <1>1. RowsOf[snap[c]] \in Nat /\ PlanLimit[st[c]] \in Nat /\ idx[c] \in Nat
    BY CacheAssumption DEF TypeOK
  <1> QED BY <1>1 DEF AllLen, RowsAvailable, EffectiveLimit, PlanWithMaximumRows

\* Nobody has called yet.
LEMMA InitAnswers == Init => Answers
  BY DEF Init, Answers, AnswerOf

\* Only the call that moves can lose its answer; the row that Exists and At
\* stop at, and the end of the rows, are what decides.
LEMMA NextAnswers == IInv /\ Answers /\ [Next]_vars => Answers'
  <1> SUFFICES ASSUME IInv, Answers, [Next]_vars, NEW d \in Callers
               PROVE  AnswerOf(d)'
    BY DEF Answers
  <1> USE CacheAssumption DEF Goto, Fail, callVars
  <1>0. TypeOK /\ AnswerOf(d)
    BY DEF IInv, Answers
  <1>u. ASSUME UNCHANGED callView(d) PROVE AnswerOf(d)'
    BY <1>u, <1>0 DEF callView, AnswerOf, Agrees, RowsAvailable, EffectiveLimit
  <1>1. CASE Write \/ (\E s \in States : Derive(s)) \/ UNCHANGED vars
    BY <1>1, <1>u DEF Write, Derive, vars, callView
  <1>2. CASE \E c \in Callers :
                /\ c # d
                /\ \/ Cancel(c) \/ Panic(c) \/ Step(c)
                   \/ \E o \in Ops, s \in alive, i \in Indexes : Call(c, o, s, i)
    BY <1>0, <1>2, <1>u, OtherCalls
  <1>3. CASE Cancel(d)
    BY <1>3, <1>u DEF Cancel, callView
  <1>4. CASE \E o \in Ops, s \in alive, i \in Indexes : Call(d, o, s, i)
    BY <1>4, <1>0 DEF Call, TypeOK, AnswerOf
  <1>5. CASE Panic(d) \/ OpenFails(d) \/ ScanFails(d)
    <2>1. /\ pc[d] \notin {"idle", "return"} /\ op' = op
          /\ pc'[d] \in {"dead", "publish", "return", "close"}
      BY <1>5, <1>0 DEF Panic, OpenFails, ScanFails, AfterIO, TypeOK
    <2>2. CASE Panic(d)
      BY <1>0, <2>1, <2>2 DEF Panic, TypeOK, AnswerOf
    <2>3. CASE OpenFails(d) \/ ScanFails(d)
      <3>0. "ctx" \in err'[d] \/ "fault" \in err'[d]
        BY <1>0, <2>3 DEF OpenFails, ScanFails, TypeOK
      <3>1. err'[d] # {}
        BY <3>0
      <3> QED BY <1>0, <2>1, <3>1 DEF AnswerOf
    <2> QED BY <1>5, <2>2, <2>3
  <1>6. CASE Validate(d)
    <2>1. /\ pc[d] = "validate" /\ op' = op
          /\ pc'[d] \in {"return", "check", "open", "cached"}
          /\ pc'[d] = "return" => err'[d] # {}
      <3>1. CASE cancelled[d]
        <4>1. /\ pc[d] = "validate" /\ op' = op
              /\ pc' = [pc EXCEPT ![d] = "return"] /\ err' = [err EXCEPT ![d] = {"ctx"}]
          BY <1>6, <3>1 DEF Validate
        <4>2. pc'[d] = "return" /\ "ctx" \in err'[d]
          BY <1>0, <4>1 DEF TypeOK
        <4> QED BY <4>1, <4>2
      <3>2. CASE ~cancelled[d] /\ Fail(d, {"usage"})
        BY <1>0, <1>6, <3>2 DEF Validate, FirstLabel, TypeOK
      <3>3. CASE ~cancelled[d] /\ Goto(d, FirstLabel(d))
        BY <1>0, <1>6, <3>3 DEF Validate, FirstLabel, TypeOK
      <3> QED BY <1>6, <3>1, <3>2, <3>3 DEF Validate
    <2> QED BY <1>0, <2>1 DEF AnswerOf
  <1>7. CASE \/ CheckContext(d) \/ LockReady(d) \/ LockJoin(d)
             \/ (\E f \in Flights : LockClaim(d, f))
             \/ WaitCanceled(d) \/ WaitDone(d) \/ Publish(d) \/ CloneModels(d)
    <2>1. op[d] = "All" /\ op' = op
      BY <1>7 DEF IInv, Located, CheckContext, LockReady, LockJoin, LockClaim,
         WaitCanceled, WaitDone, Publish, CloneModels
    <2>2. pc'[d] \notin {"idle", "rows"}
      BY <1>7, <1>0 DEF TypeOK, CheckContext, LockReady, LockJoin, LockClaim,
         WaitCanceled, WaitDone, Publish, CloneModels
    <2> QED BY <2>1, <2>2 DEF AnswerOf
  <1>8. CASE CachedValues(d)
    <2>1. op[d] \in {"Count", "Exists", "At"} /\ op' = op /\ st' = st /\ idx' = idx
      BY <1>8, <1>0 DEF CachedValues, IInv, Located, TypeOK, AnswerOf
    <2>2. CASE ready[st[d]]
      <3>1. cacheLen[st[d]] = AllLen(st[d], cacheVer[st[d]])
        BY <1>0, <2>2 DEF IInv, Snapshots, SnapshotOfState, TypeOK
      <3>2. snap'[d] = cacheVer[st[d]] /\ pos'[d] = TakenFromCache(d, cacheLen[st[d]])
        BY <1>8, <1>0, <2>2 DEF CachedValues, TypeOK
      <3>3. idx[d] \in Nat /\ cacheLen[st[d]] \in Nat
        BY <1>0 DEF TypeOK
      <3>4. Agrees(d)'
        BY <2>1, <3>1, <3>2, <3>3 DEF Agrees, TakenFromCache, AllLen
      <3>5. pc'[d] = "return"
        BY <1>8, <1>0, <2>2 DEF CachedValues, TypeOK
      <3> QED BY <2>1, <3>4, <3>5 DEF AnswerOf
    <2>3. CASE ~ready[st[d]]
      BY <1>8, <1>0, <2>1, <2>3 DEF CachedValues, TypeOK, AnswerOf
    <2> QED BY <2>2, <2>3
  <1>9. CASE OpenRows(d)
    <2>1. TypeOK'
      BY NextIInv DEF IInv
    <2>2. pc'[d] = "rows" /\ pos'[d] = 0 /\ op' = op
      BY <1>9, <1>0 DEF OpenRows, TypeOK
    <2>3. RowsAvailable(d)' \in Nat /\ idx'[d] \in Nat
      <3>1. /\ RowsOf[snap'[d]] \in Nat /\ PlanLimit[st'[d]] \in Nat
            /\ idx'[d] \in Nat
        BY <2>1 DEF TypeOK
      <3> QED BY <3>1 DEF RowsAvailable, EffectiveLimit, PlanWithMaximumRows
    <2>4. op'[d] # "none"
      BY <1>9, <1>0, <2>2 DEF OpenRows, AnswerOf
    <2> QED BY <2>2, <2>3, <2>4 DEF AnswerOf
  <1>10. CASE NextRow(d)
    <2>1. pos[d] \in Nat /\ idx[d] \in Nat /\ AllLen(st[d], snap[d]) \in Nat
      BY <1>0, Lengths DEF TypeOK
    <2>2. /\ pos'[d] = pos[d] + 1 /\ pos[d] < RowsAvailable(d)
          /\ pc'[d] = IF LastRow(d) THEN "close" ELSE "rows"
          /\ op' = op /\ idx' = idx /\ st' = st /\ snap' = snap /\ op[d] # "none"
      BY <1>10, <1>0 DEF NextRow, TypeOK, AnswerOf
    <2>3. CASE LastRow(d)
      BY <1>0, <1>10, <2>1, <2>2, <2>3, Lengths
      DEF NextRow, LastRow, AnswerOf, Agrees, AllLen, PlanWithMaximumRows
    <2>4. CASE ~LastRow(d)
      <3>1. RowsAvailable(d)' = RowsAvailable(d)
        BY <2>2 DEF RowsAvailable, EffectiveLimit
      <3>2. RowsAvailable(d) \in Nat
        BY <1>0, <2>1, Lengths DEF PlanWithMaximumRows
      <3> QED BY <1>0, <1>10, <2>1, <2>2, <2>4, <3>1, <3>2
          DEF NextRow, LastRow, AnswerOf
    <2> QED BY <2>3, <2>4
  <1>11. CASE RowsEnd(d)
    <2>1. /\ pos[d] \in Nat /\ idx[d] \in Nat /\ AllLen(st[d], snap[d]) \in Nat
          /\ op[d] # "none"
      BY <1>0, <1>11, Lengths DEF TypeOK, RowsEnd, AnswerOf
    <2>2. /\ pc'[d] = "close"
          /\ op' = op /\ idx' = idx /\ st' = st /\ snap' = snap /\ pos' = pos
      BY <1>11, <1>0 DEF RowsEnd, TypeOK
    <2>3. CASE pos[d] = RowsAvailable(d)
      BY <1>0, <1>11, <2>1, <2>2, <2>3, Lengths
      DEF RowsEnd, AnswerOf, Agrees, AllLen, PlanWithMaximumRows
    <2>4. CASE err'[d] # {}
      BY <2>1, <2>2, <2>4 DEF AnswerOf
    <2>5. CASE err' = [err EXCEPT ![d] = {"ctx"}] \/ err' = [err EXCEPT ![d] = {"fault"}]
      <3>0. "ctx" \in err'[d] \/ "fault" \in err'[d]
        BY <1>0, <2>5 DEF TypeOK
      <3>1. err'[d] # {}
        BY <3>0
      <3> QED BY <2>4, <3>1
    <2> QED BY <1>11, <2>3, <2>5 DEF RowsEnd
  <1>12. CASE CloseRows(d) \/ PostIO(d)
    <2>1. /\ pc[d] \in {"close", "postio"}
          /\ pc'[d] \in {"postio", "publish", "return"}
          /\ op' = op /\ idx' = idx /\ st' = st /\ snap' = snap /\ pos' = pos
          /\ op[d] # "none"
      BY <1>0, <1>12 DEF CloseRows, PostIO, AfterIO, TypeOK, AnswerOf
    <2>2. err'[d] = {} => err[d] = {}
      BY <1>0, <1>12 DEF CloseRows, PostIO, TypeOK
    <2> QED BY <1>0, <2>1, <2>2 DEF AnswerOf, Agrees
  <1>13. CASE Return(d)
    BY <1>0, <1>13 DEF Return, TypeOK, AnswerOf
  <1> QED
    BY <1>1, <1>2, <1>3, <1>4, <1>5, <1>6, <1>7, <1>8, <1>9, <1>10, <1>11, <1>12,
       <1>13 DEF Next, Step

\* The invariant of the cache and that of the answers, together.
THEOREM SpecAnswers == Spec => [](IInv /\ Answers)
  BY InitIInv, NextIInv, InitAnswers, NextAnswers, PTL DEF Spec

\* Count, Exists, At, Iterate and All answer alike, from the cache or from the
\* database, for every LIMIT, index and number of rows.
THEOREM SpecAnswersAgree == Spec => []AnswersAgree
  <1>1. IInv /\ Answers => AnswersAgree
    <2> SUFFICES ASSUME IInv, Answers, NEW c \in Callers, Succeeded(c)
                 PROVE  Agrees(c)
      BY DEF AnswersAgree, Agrees
    <2>1. CASE op[c] = "All"
      <3>1. /\ ready[st[c]] /\ snap[c] = cacheVer[st[c]]
            /\ pos[c] = cacheLen[st[c]]
        BY <2>1 DEF IInv, Snapshots, SnapshotOfCall
      <3>2. pos[c] = AllLen(st[c], snap[c])
        BY <3>1 DEF IInv, TypeOK, Snapshots, SnapshotOfState
      <3> QED BY <2>1, <3>2 DEF Agrees
    <2>2. CASE op[c] # "All"
      BY <2>2 DEF Answers, AnswerOf, Succeeded
    <2> QED BY <2>1, <2>2
  <1> QED BY <1>1, SpecAnswers, PTL

-----------------------------------------------------------------------------
(* The refinement of EvaluationCell.                                       *)

\* The mapping, one caller and one state at a time.
Target(c) == IF op[c] = "All" THEN st[c] ELSE AnyState
Answered(c) == IF Phase(c) = "answered" THEN snap[c] ELSE 0
CellOf(s) == [set |-> ready[s], ver |-> IF ready[s] THEN cacheVer[s] ELSE 0]
CellMap == [s \in States |-> CellOf(s)]
PhaseMap == [c \in Callers |-> Phase(c)]
TargetMap == [c \in Callers |-> Target(c)]
AnswerMap == [c \in Callers |-> Answered(c)]

\* What the cell sees beside the calls.
sharedView == <<db, alive, born, ready, cacheVer>>

\* A step of c changes the mapping at c only.
LEMMA MapOfStep ==
    ASSUME TypeOK, NEW c \in Callers,
           \/ Cancel(c) \/ Panic(c) \/ Step(c)
           \/ \E o \in Ops, s \in alive, i \in Indexes : Call(c, o, s, i)
    PROVE  /\ PhaseMap' = [PhaseMap EXCEPT ![c] = Phase(c)']
           /\ TargetMap' = [TargetMap EXCEPT ![c] = Target(c)']
           /\ AnswerMap' = [AnswerMap EXCEPT ![c] = Answered(c)']
  <1>1. ASSUME NEW d \in Callers, d # c
        PROVE  Phase(d)' = Phase(d) /\ Target(d)' = Target(d) /\ Answered(d)' = Answered(d)
    <2>1. UNCHANGED callView(d)
      BY <1>1, OtherCalls
    <2> QED BY <2>1 DEF callView, Phase, Target, Answered
  <1> QED BY <1>1 DEF PhaseMap, TargetMap, AnswerMap

\* A step of c that the cell cannot see.
LEMMA Invisible ==
    ASSUME TypeOK, NEW c \in Callers,
           Cancel(c) \/ Panic(c) \/ Step(c)
             \/ (\E o \in Ops, s \in alive, i \in Indexes : Call(c, o, s, i)),
           UNCHANGED sharedView,
           Phase(c)' = Phase(c), Target(c)' = Target(c), Answered(c)' = Answered(c)
    PROVE  UNCHANGED Cell!cellVars
  <1>1. CellMap' = CellMap
    BY DEF CellMap, CellOf, sharedView
  <1>2. PhaseMap' = PhaseMap /\ TargetMap' = TargetMap /\ AnswerMap' = AnswerMap
    BY MapOfStep DEF PhaseMap, TargetMap, AnswerMap
  <1> QED
    BY <1>1, <1>2 DEF Cell!cellVars, sharedView, CellMap, CellOf, PhaseMap, TargetMap,
       Target, AnswerMap, Answered

\* A pending All that returns an error is a Refuse of the cell.
LEMMA Refuses ==
    ASSUME TypeOK, NEW c \in Callers, Step(c), UNCHANGED sharedView,
           op[c] = "All", op' = op, st' = st,
           pc[c] # "return", pc'[c] = "return", err'[c] # {}
    PROVE  Cell!Refuse(c)
  <1>1. /\ Phase(c) = "pending" /\ Phase(c)' = "failed"
        /\ Target(c)' = Target(c) /\ Answered(c)' = Answered(c)
    BY DEF Phase, Target, Answered
  <1>2. CellMap' = CellMap
    BY DEF CellMap, CellOf, sharedView
  <1>3. /\ PhaseMap' = [PhaseMap EXCEPT ![c] = "failed"]
        /\ TargetMap' = TargetMap /\ AnswerMap' = AnswerMap
    BY <1>1, MapOfStep DEF PhaseMap, TargetMap, AnswerMap
  <1>4. PhaseMap[c] = "pending"
    BY <1>1 DEF PhaseMap
  <1> QED
    BY <1>2, <1>3, <1>4 DEF Cell!Refuse, sharedView, CellMap, CellOf, PhaseMap,
       TargetMap, Target, AnswerMap, Answered

\* Empty caches are empty cells.
LEMMA InitCell == Init => Cell!Init
  <1> SUFFICES ASSUME Init PROVE Cell!Init
    OBVIOUS
  <1> USE CacheAssumption
  <1>1. /\ CellMap = [s \in States |-> [set |-> FALSE, ver |-> 0]]
        /\ PhaseMap = [c \in Callers |-> "idle"]
        /\ TargetMap = [c \in Callers |-> AnyState]
        /\ AnswerMap = [c \in Callers |-> 0]
    BY DEF Init, CellMap, CellOf, PhaseMap, Phase, TargetMap, Target, AnswerMap, Answered
  <1> QED
    BY <1>1 DEF Init, Cell!Init, Cell!Nowhere, AnyState, CellMap, CellOf, PhaseMap,
       TargetMap, Target, AnswerMap, Answered

\* Every step of the cache is one of the cell or invisible to it.
LEMMA NextCell == IInv /\ Answers /\ [Next]_vars => [Cell!Next]_(Cell!cellVars)
  <1> SUFFICES ASSUME IInv, Answers, [Next]_vars
               PROVE  Cell!Next \/ UNCHANGED Cell!cellVars
    OBVIOUS
  <1> USE CacheAssumption DEF Goto, Fail, callVars, stateVars
  <1>0. TypeOK
    BY DEF IInv
  <1>1. CASE UNCHANGED vars
    BY <1>1 DEF vars, Cell!cellVars, Phase
  <1>2. CASE Write
    BY <1>2 DEF Write, Cell!Next, Cell!Commit, Phase
  <1>3. ASSUME NEW s \in States, Derive(s) PROVE Cell!NewState(s)
    <2>1. CellMap' = CellMap
      BY <1>0, <1>3 DEF Derive, IInv, TypeOK, Located, CellMap, CellOf
    <2>2. UNCHANGED <<PhaseMap, TargetMap, AnswerMap>>
      BY <1>3 DEF Derive, PhaseMap, Phase, TargetMap, Target, AnswerMap, Answered
    <2> QED
      BY <1>3, <2>1, <2>2 DEF Derive, Cell!NewState, CellMap, CellOf, PhaseMap,
         TargetMap, Target, AnswerMap, Answered
  <1>4. ASSUME NEW c \in Callers, Cancel(c) \/ Panic(c) PROVE UNCHANGED Cell!cellVars
    <2>1. UNCHANGED sharedView
      BY <1>4 DEF Cancel, Panic, sharedView
    <2>2. Phase(c)' = Phase(c) /\ Target(c)' = Target(c) /\ Answered(c)' = Answered(c)
      BY <1>0, <1>4 DEF Cancel, Panic, Phase, Target, Answered, TypeOK
    <2> QED BY <1>0, <1>4, <2>1, <2>2, Invisible
  <1>5. ASSUME NEW c \in Callers, NEW o \in Ops, NEW s \in alive, NEW i \in Indexes,
               Call(c, o, s, i)
        PROVE  Cell!Ask(c, s) \/ UNCHANGED Cell!cellVars
    <2>1. /\ UNCHANGED sharedView /\ op[c] = "none" /\ op'[c] = o /\ st'[c] = s
          /\ pc'[c] = "validate"
      BY <1>0, <1>5 DEF Call, sharedView, TypeOK, Answers, AnswerOf
    <2>2. CASE o = "All"
      <3>1. /\ Phase(c) = "idle" /\ Phase(c)' = "pending" /\ Target(c)' = s
            /\ Answered(c)' = Answered(c)
        BY <2>1, <2>2 DEF Phase, Target, Answered
      <3>2. CellMap' = CellMap
        BY <2>1 DEF CellMap, CellOf, sharedView
      <3>3. /\ PhaseMap' = [PhaseMap EXCEPT ![c] = "pending"]
            /\ TargetMap' = [TargetMap EXCEPT ![c] = s] /\ AnswerMap' = AnswerMap
            /\ PhaseMap[c] = "idle"
        BY <1>0, <1>5, <3>1, MapOfStep DEF PhaseMap, TargetMap, AnswerMap
      <3> QED
        BY <2>1, <3>2, <3>3 DEF Cell!Ask, sharedView, CellMap, CellOf, PhaseMap,
           TargetMap, Target, AnswerMap, Answered
    <2>3. CASE o # "All"
      <3>1. Phase(c)' = Phase(c) /\ Target(c)' = Target(c) /\ Answered(c)' = Answered(c)
        BY <2>1, <2>3 DEF Phase, Target, Answered
      <3> QED BY <1>0, <1>5, <2>1, <3>1, Invisible
    <2> QED BY <2>2, <2>3
  <1>6. ASSUME NEW c \in Callers, Step(c), op[c] # "All" PROVE UNCHANGED Cell!cellVars
    <2>0. ~\/ CheckContext(c) \/ LockReady(c) \/ LockJoin(c)
           \/ (\E f \in Flights : LockClaim(c, f))
           \/ WaitCanceled(c) \/ WaitDone(c) \/ Publish(c) \/ CloneModels(c)
      BY <1>6 DEF IInv, Located, CheckContext, LockReady, LockJoin, LockClaim,
         WaitCanceled, WaitDone, Publish, CloneModels
    <2>1. UNCHANGED sharedView /\ op'[c] # "All"
      BY <1>0, <1>6, <2>0 DEF Step, Validate, CachedValues, OpenFails, OpenRows, NextRow,
         ScanFails, RowsEnd, CloseRows, PostIO, Return, sharedView, TypeOK
    <2>2. Phase(c)' = Phase(c) /\ Target(c)' = Target(c) /\ Answered(c)' = Answered(c)
      BY <1>6, <2>1 DEF Phase, Target, Answered
    <2> QED BY <1>0, <1>6, <2>1, <2>2, Invisible
  <1>7. ASSUME NEW c \in Callers, Step(c), op[c] = "All", UNCHANGED sharedView,
               op' = op, st' = st, pc[c] # "return", pc'[c] # "return"
        PROVE  UNCHANGED Cell!cellVars
    <2>1. Phase(c)' = Phase(c) /\ Target(c)' = Target(c) /\ Answered(c)' = Answered(c)
      BY <1>7 DEF Phase, Target, Answered
    <2> QED BY <1>0, <1>7, <2>1, Invisible
  <1>8. ASSUME NEW c \in Callers, op[c] = "All",
               \/ LockReady(c) \/ LockJoin(c) \/ (\E f \in Flights : LockClaim(c, f))
               \/ OpenFails(c) \/ OpenRows(c) \/ NextRow(c) \/ ScanFails(c)
               \/ RowsEnd(c) \/ CloseRows(c) \/ PostIO(c)
        PROVE  UNCHANGED Cell!cellVars
    <2>1. UNCHANGED sharedView /\ op' = op /\ st' = st /\ pc[c] # "return"
      BY <1>8 DEF LockReady, LockJoin, LockClaim, OpenFails, OpenRows, NextRow,
         ScanFails, RowsEnd, CloseRows, PostIO, sharedView
    <2>2. pc'[c] # "return"
      BY <1>0, <1>8 DEF LockReady, LockJoin, LockClaim, OpenFails, OpenRows, NextRow,
         ScanFails, RowsEnd, CloseRows, PostIO, AfterIO, TypeOK
    <2> QED BY <1>7, <1>8, <2>1, <2>2 DEF Step
  <1>9. ASSUME NEW c \in Callers, op[c] = "All",
               Validate(c) \/ CheckContext(c) \/ WaitCanceled(c) \/ WaitDone(c)
        PROVE  Cell!Refuse(c) \/ UNCHANGED Cell!cellVars
    <2>1. UNCHANGED sharedView /\ op' = op /\ st' = st /\ pc[c] # "return" /\ Step(c)
      BY <1>9 DEF Validate, CheckContext, WaitCanceled, WaitDone, sharedView, Step
    <2>2. CASE pc'[c] # "return"
      BY <1>7, <1>9, <2>1, <2>2
    <2>3. CASE pc'[c] = "return"
      <3>1. err'[c] # {}
        <4>1. CASE Validate(c)
          <5>1. pc' # [pc EXCEPT ![c] = FirstLabel(c)]
            BY <1>0, <1>9, <2>3 DEF FirstLabel, TypeOK
          <5>2. "ctx" \in err'[c] \/ "usage" \in err'[c]
            BY <1>0, <4>1, <5>1 DEF Validate, TypeOK
          <5> QED BY <5>2
        <4>2. CASE CheckContext(c) \/ WaitCanceled(c)
          <5>1. "ctx" \in err'[c]
            BY <1>0, <2>3, <4>2 DEF CheckContext, WaitCanceled, TypeOK
          <5> QED BY <5>1
        <4>3. CASE WaitDone(c)
          BY <1>0, <2>3, <4>3 DEF WaitDone, RetriesAfter, TypeOK
        <4> QED BY <1>9, <4>1, <4>2, <4>3
      <3> QED BY <1>0, <1>9, <2>1, <2>3, <3>1, Refuses
    <2> QED BY <2>2, <2>3
  <1>10. ASSUME NEW c \in Callers, op[c] = "All", Publish(c)
         PROVE  Cell!Refuse(c) \/ \E s \in States : Cell!Evaluate(s)
    <2>1. CASE err[c] # {}
      <3>1. UNCHANGED sharedView /\ op' = op /\ st' = st /\ pc[c] # "return" /\ Step(c)
        BY <1>10, <2>1 DEF Publish, sharedView, Step
      <3>2. pc'[c] = "return" /\ err'[c] # {}
        BY <1>0, <1>10, <2>1 DEF Publish, TypeOK
      <3> QED BY <1>0, <1>10, <3>1, <3>2, Refuses
    <2>2. CASE err[c] = {}
      <3>0. PICK s \in States : s = st[c]
        BY <1>0, <1>10 DEF TypeOK
      <3>1. /\ ~ready[s]
            /\ snap[c] \in born[s] .. db
        <4>1. Owns(c) /\ HasSnapshot(c) /\ born[s] \in Int /\ db \in Int /\ snap[c] \in Int
          BY <1>0, <1>10, <2>2, <3>0 DEF Publish, Owns, HasSnapshot, TypeOK, Versions
        <4> QED BY <1>0, <3>0, <4>1 DEF IInv, Ownership, Snapshots, SnapshotOfCall, TypeOK
      <3>2. /\ ready' = [ready EXCEPT ![s] = TRUE]
            /\ cacheVer' = [cacheVer EXCEPT ![s] = snap[c]]
            /\ pc[c] = "publish" /\ pc' = [pc EXCEPT ![c] = "clone"]
            /\ UNCHANGED <<db, alive, born, op, st, snap, err>>
        BY <1>10, <2>2, <3>0 DEF Publish
      <3>3. CellMap' = [CellMap EXCEPT ![s] = [set |-> TRUE, ver |-> snap[c]]]
        BY <1>0, <3>1, <3>2 DEF CellMap, CellOf, TypeOK
      <3>4. /\ Phase(c)' = "pending" /\ Phase(c) = "pending"
            /\ Target(c)' = s /\ Target(c) = s
            /\ Answered(c)' = 0 /\ Answered(c) = 0
        BY <1>0, <1>10, <3>0, <3>2 DEF Phase, Target, Answered, TypeOK
      <3>5. /\ PhaseMap' = PhaseMap /\ TargetMap' = TargetMap /\ AnswerMap' = AnswerMap
            /\ PhaseMap[c] = "pending" /\ TargetMap[c] = s
        <4>1. Step(c)
          BY <1>10 DEF Step
        <4>2. /\ PhaseMap' = [PhaseMap EXCEPT ![c] = "pending"]
              /\ TargetMap' = [TargetMap EXCEPT ![c] = s]
              /\ AnswerMap' = [AnswerMap EXCEPT ![c] = 0]
          BY <1>0, <3>4, <4>1, MapOfStep
        <4>3. PhaseMap[c] = "pending" /\ TargetMap[c] = s /\ AnswerMap[c] = 0
          BY <3>4 DEF PhaseMap, TargetMap, AnswerMap
        <4> QED BY <4>2, <4>3 DEF PhaseMap, TargetMap, AnswerMap
      <3>6. ~CellMap[s].set
        BY <3>1 DEF CellMap, CellOf
      <3> QED
        BY <3>1, <3>2, <3>3, <3>5, <3>6 DEF Cell!Evaluate, CellMap, CellOf, PhaseMap,
           TargetMap, Target, AnswerMap, Answered
    <2> QED BY <2>1, <2>2
  <1>11. ASSUME NEW c \in Callers, op[c] = "All", CloneModels(c)
         PROVE  Cell!Refuse(c) \/ Cell!Answer(c)
    <2>1. /\ UNCHANGED sharedView /\ op' = op /\ st' = st /\ err' = err /\ snap' = snap
          /\ pc[c] = "clone" /\ pc'[c] = "return" /\ Step(c)
      BY <1>0, <1>11 DEF CloneModels, sharedView, Step, TypeOK
    <2>2. CASE err[c] # {}
      BY <1>0, <1>11, <2>1, <2>2, Refuses
    <2>3. CASE err[c] = {}
      <3>1. st[c] \in States /\ ready[st[c]] /\ snap[c] = cacheVer[st[c]]
        BY <1>0, <1>11, <2>1 DEF IInv, Snapshots, SnapshotOfCall, TypeOK
      <3>2. /\ Phase(c) = "pending" /\ Phase(c)' = "answered"
            /\ Target(c)' = st[c] /\ Target(c) = st[c] /\ Answered(c)' = snap[c]
        BY <1>11, <2>1, <2>3 DEF Phase, Target, Answered
      <3>3. CellMap' = CellMap /\ CellMap[st[c]].set /\ CellMap[st[c]].ver = snap[c]
        BY <2>1, <3>1 DEF CellMap, CellOf, sharedView
      <3>4. /\ PhaseMap' = [PhaseMap EXCEPT ![c] = "answered"]
            /\ TargetMap' = TargetMap
            /\ AnswerMap' = [AnswerMap EXCEPT ![c] = snap[c]]
            /\ PhaseMap[c] = "pending" /\ TargetMap[c] = st[c]
        BY <1>0, <2>1, <3>2, MapOfStep DEF PhaseMap, TargetMap, AnswerMap
      <3> QED
        BY <2>1, <3>3, <3>4 DEF Cell!Answer, sharedView, CellMap, CellOf, PhaseMap,
           TargetMap, Target, AnswerMap, Answered
    <2> QED BY <2>2, <2>3
  <1>12. ASSUME NEW c \in Callers, op[c] = "All", Return(c) PROVE Cell!Finish(c)
    <2>1. /\ UNCHANGED sharedView /\ op'[c] = "none" /\ pc[c] = "return" /\ Step(c)
      BY <1>0, <1>12 DEF Return, sharedView, Step, TypeOK
    <2>2. /\ Phase(c) \in {"answered", "failed"} /\ Phase(c)' = "idle"
          /\ Target(c)' = AnyState /\ Answered(c)' = 0
      BY <1>12, <2>1 DEF Phase, Target, Answered
    <2>3. CellMap' = CellMap
      BY <2>1 DEF CellMap, CellOf, sharedView
    <2>4. /\ PhaseMap' = [PhaseMap EXCEPT ![c] = "idle"]
          /\ TargetMap' = [TargetMap EXCEPT ![c] = AnyState]
          /\ AnswerMap' = [AnswerMap EXCEPT ![c] = 0]
          /\ PhaseMap[c] \in {"answered", "failed"}
      BY <1>0, <2>1, <2>2, MapOfStep DEF PhaseMap, TargetMap, AnswerMap
    <2> QED
      BY <2>1, <2>3, <2>4 DEF Cell!Finish, Cell!Nowhere, AnyState, sharedView, CellMap,
         CellOf, PhaseMap, TargetMap, Target, AnswerMap, Answered
  <1>13. ASSUME NEW c \in Callers, Step(c), op[c] = "All"
         PROVE  Cell!Next \/ UNCHANGED Cell!cellVars
    <2>1. ~CachedValues(c)
      BY <1>13 DEF CachedValues, IInv, Located
    <2>2. CASE \/ LockReady(c) \/ LockJoin(c) \/ (\E f \in Flights : LockClaim(c, f))
               \/ OpenFails(c) \/ OpenRows(c) \/ NextRow(c) \/ ScanFails(c)
               \/ RowsEnd(c) \/ CloseRows(c) \/ PostIO(c)
      BY <1>8, <1>13, <2>2
    <2>3. CASE Validate(c) \/ CheckContext(c) \/ WaitCanceled(c) \/ WaitDone(c)
      BY <1>9, <1>13, <2>3 DEF Cell!Next
    <2>4. CASE Publish(c)
      BY <1>10, <1>13, <2>4 DEF Cell!Next
    <2>5. CASE CloneModels(c)
      BY <1>11, <1>13, <2>5 DEF Cell!Next
    <2>6. CASE Return(c)
      BY <1>12, <1>13, <2>6 DEF Cell!Next
    <2> QED BY <1>13, <2>1, <2>2, <2>3, <2>4, <2>5, <2>6 DEF Step
  <1> QED
    BY <1>1, <1>2, <1>3, <1>4, <1>5, <1>6, <1>13 DEF Next, Cell!Next

\* Every behaviour of the evaluation cache is one of the write-once cell: for
\* any number of goroutines and states, an All fails or returns the value
\* that was written to its state once, of a version since it was derived.
THEOREM SpecImplementsCell == Spec => ImplementsCell
  BY InitCell, NextCell, SpecAnswers, PTL DEF Spec, ImplementsCell, Cell!Spec
=============================================================================
