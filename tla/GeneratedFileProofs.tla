------------------------- MODULE GeneratedFileProofs -------------------------
(***************************************************************************)
(* Proofs about GeneratedFile for any number of calls and sources.         *)
(*                                                                         *)
(* The invariant follows one call through its labels: what is on the disk  *)
(* of its candidate, what the compiler has accepted, which names exist,    *)
(* whether it has failed and whether its rename has happened.  What the    *)
(* path has named is the Original, nothing, or the inode of a call that    *)
(* renamed it; such an inode is written, synced and, for m1generate,       *)
(* compiled, and nobody writes to it again.  So a power loss, which goes   *)
(* back to any of them, always finds a whole one.                          *)
(***************************************************************************)
EXTENDS GeneratedFile, TLAPS

\* An inode that may stay under the path.
Whole(i) ==
    /\ data[i].state = "full" /\ i \in synced
    /\ program = "m1generate" => data[i].source \in Compiles

HistoryWhole ==
    /\ Whole(Original)
    /\ \A n \in 1 .. Len(history) : history[n] # NoFile => Whole(history[n])
    /\ \A n \in 2 .. Len(history) : history[n] \in Calls

Renamed(c) == \E n \in 1 .. Len(history) : history[n] = c

Checking == {"open", "read"}
Verifying == {"overlay", "mkdir", "compile", "unmake"}
AfterSync == {"close", "verify", "rename"} \cup Verifying
Writing == {"create", "write", "sync", "defer"} \cup AfterSync

\* A call is asked for what its program offers; only WriteFile checks, and
\* only a verified write gets to the candidate.
ModeOK(c) ==
    /\ pc[c] # "idle" => job[c].mode \in Modes
    /\ pc[c] \in Checking => job[c].mode = "check"
    /\ pc[c] \in Writing => job[c].mode \in {"write", "output"}
    /\ pc[c] \in {"verify"} \cup Verifying => job[c].mode = "write"

\* Sync comes before the verification, and the verification before the rename.
CandidateOK(c) ==
    /\ pc[c] \in {"sync"} \cup AfterSync => data[c].state = "full"
    /\ pc[c] \in AfterSync => c \in synced
    /\ job[c].mode = "write" /\ (pc[c] = "rename" \/ (pc[c] = "unmake" /\ c \notin failed))
          => data[c].source \in Compiles

\* A call that renamed has not failed and says so.
RenameOK(c) ==
    /\ pc[c] \notin {"unmake", "defer", "done", "killed"} => c \notin failed
    /\ Renamed(c) =>
          \/ pc[c] = "defer" /\ c \notin failed
          \/ pc[c] = "done" /\ reply[c] = "ok"
          \/ pc[c] = "killed"
    /\ pc[c] = "defer" /\ c \notin failed => Renamed(c)
    /\ pc[c] = "done" /\ reply[c] = "ok" /\ job[c].mode # "check" /\ ~powerLost => Renamed(c)

\* The inode a check reads was under the path during the call.
CheckOK(c) ==
    /\ pc[c] \in {"start"} \cup Checking => window[c][1] \in 1 .. Len(history)
    /\ pc[c] = "read" =>
          /\ opened[c] # NoFile
          /\ \E n \in window[c][1] .. Len(history) : history[n] = opened[c]
    /\ pc[c] = "done" /\ reply[c] = "ok" /\ job[c].mode = "check" /\ ~powerLost =>
          \E n \in window[c][1] .. window[c][2] :
              /\ n \in 1 .. Len(history) /\ history[n] # NoFile
              /\ data[history[n]] = [source |-> job[c].source, state |-> "full"]

\* Its temporary names exist only while it runs, or was killed.
NamesOK(c) ==
    ~powerLost =>
        /\ Candidate(c) \in names =>
              \/ pc[c] \in {"write", "sync", "killed"} \cup AfterSync
              \/ pc[c] = "defer" /\ c \in failed
        /\ Overlay(c) \in names \/ OutputDirectory(c) \in names =>
              pc[c] \in {"killed"} \cup Verifying

CallOK(c) == ModeOK(c) /\ CandidateOK(c) /\ RenameOK(c) /\ CheckOK(c) /\ NamesOK(c)

Files == TypeOK /\ HistoryWhole /\ \A c \in Calls : CallOK(c)

-----------------------------------------------------------------------------
Moves(c) == Step(c) \/ Cancel(c) \/ Kill(c)

\* The variables but data, synced and history.
CallTypes ==
    /\ program \in {"m1generate", "godjcheck"}
    /\ pc \in [Calls -> {"idle", "start", "open", "read", "create", "write", "sync", "close",
                         "verify", "overlay", "mkdir", "compile", "unmake", "rename", "defer",
                         "done", "killed"}]
    /\ job \in [Calls -> [mode : {"none", "write", "check", "unverified", "output"},
                          source : Sources, nilContext : BOOLEAN]]
    /\ ctxDone \subseteq Calls
    /\ reply \in [Calls -> {"none", "ok", "drift", "error"}]
    /\ failed \subseteq Calls
    /\ opened \in [Calls -> Inodes \union {NoFile}]
    /\ window \in [Calls -> Nat \X Nat]
    /\ names \subseteq {"candidate", "overlay", "output"} \X Calls
    /\ powerLost \in BOOLEAN

FileTypes ==
    /\ data \in [Inodes -> [source : Sources, state : {"empty", "torn", "full"}]]
    /\ synced \subseteq Inodes
    /\ history \in Seq(Inodes \union {NoFile}) /\ history # <<>>

LEMMA TypeParts == TypeOK <=> CallTypes /\ FileTypes
  BY DEF TypeOK, CallTypes, FileTypes

\* The path names the inode that it was last made to name.
LEMMA TargetType ==
    ASSUME FileTypes
    PROVE  Len(history) \in Nat /\ Len(history) >= 1 /\ target = history[Len(history)]
           /\ target \in Inodes \union {NoFile}
  BY DEF FileTypes, target, Last

\* A step of a call changes the files in one of few ways.
LEMMA FileSteps ==
    ASSUME FileTypes, CallTypes, NEW c \in Calls, Moves(c)
    PROVE  /\ UNCHANGED <<program, powerLost>>
           /\ \/ UNCHANGED data
              \/ /\ pc[c] \in {"create", "write"}
                 /\ \E x \in [source : Sources, state : {"empty", "torn", "full"}] :
                       data' = [data EXCEPT ![c] = x]
           /\ synced' = synced \/ synced' = synced \union {c}
           /\ \/ UNCHANGED history
              \/ pc[c] = "rename" /\ history' = Append(history, c)
  <1> USE DEF fileVars, ReturnNow, FailWith, Proceed
  <1>1. CASE Call(c) \/ Enter(c) \/ Open(c) \/ Compare(c) \/ Cancel(c) \/ Kill(c)
    BY <1>1 DEF Call, Enter, Open, Compare, Cancel, Kill
  <1>2. CASE CreateCandidate(c)
    BY <1>2 DEF CreateCandidate, CallTypes
  <1>3. CASE WriteCandidate(c)
    <2>1. ASSUME NEW s \in {"empty", "torn", "full"}, data' = [data EXCEPT ![c].state = s]
          PROVE  \E x \in [source : Sources, state : {"empty", "torn", "full"}] :
                       data' = [data EXCEPT ![c] = x]
      <3>1. data[c] \in [source : Sources, state : {"empty", "torn", "full"}]
        BY DEF FileTypes, Inodes
      <3> QED BY <2>1, <3>1
    <2> QED BY <1>3, <2>1 DEF WriteCandidate
  <1>4. CASE SyncCandidate(c) \/ CloseCandidate(c) \/ CreateOverlay(c) \/ WriteOverlay(c)
             \/ MakeOutputDirectory(c) \/ Compile(c) \/ RemoveVerification(c)
    BY <1>4 DEF SyncCandidate, CloseCandidate, CreateOverlay, WriteOverlay,
       MakeOutputDirectory, Compile, RemoveVerification
  <1>5. CASE Rename(c) \/ ReturnFromWrite(c)
    BY <1>5 DEF Rename, ReturnFromWrite
  <1> QED BY <1>1, <1>2, <1>3, <1>4, <1>5 DEF Moves, Step

\* And keeps what else it finds of the other calls.
LEMMA OtherCalls ==
    ASSUME CallTypes, NEW c \in Calls, Moves(c), NEW d \in Calls, d # c
    PROVE  /\ pc'[d] = pc[d] /\ job'[d] = job[d] /\ reply'[d] = reply[d]
           /\ opened'[d] = opened[d] /\ window'[d] = window[d]
           /\ d \in failed' <=> d \in failed
           /\ Candidate(d) \in names' <=> Candidate(d) \in names
           /\ Overlay(d) \in names' <=> Overlay(d) \in names
           /\ OutputDirectory(d) \in names' <=> OutputDirectory(d) \in names
  <1> USE DEF CallTypes, fileVars, GoTo, ReturnNow, FailWith, Proceed, Candidate, Overlay,
              OutputDirectory
  <1>1. CASE Call(c) \/ Enter(c) \/ Cancel(c) \/ Kill(c)
    BY <1>1 DEF Call, Enter, Cancel, Kill
  <1>2. CASE Open(c) \/ Compare(c)
    BY <1>2 DEF Open, Compare
  <1>3. CASE CreateCandidate(c) \/ WriteCandidate(c) \/ SyncCandidate(c) \/ CloseCandidate(c)
    BY <1>3 DEF CreateCandidate, WriteCandidate, SyncCandidate, CloseCandidate
  <1>4. CASE CreateOverlay(c) \/ WriteOverlay(c) \/ MakeOutputDirectory(c)
    BY <1>4 DEF CreateOverlay, WriteOverlay, MakeOutputDirectory
  <1>5. CASE Compile(c) \/ RemoveVerification(c)
    BY <1>5 DEF Compile, RemoveVerification
  <1>6. CASE Rename(c) \/ ReturnFromWrite(c)
    BY <1>6 DEF Rename, ReturnFromWrite
  <1> QED BY <1>1, <1>2, <1>3, <1>4, <1>5, <1>6 DEF Moves, Step

\* Every step of a call keeps the types.
LEMMA TypesKeep ==
    ASSUME CallTypes, FileTypes, NEW c \in Calls, Moves(c)
    PROVE  CallTypes' /\ FileTypes'
  <1>1. FileTypes'
    BY FileSteps DEF FileTypes, Inodes
  <1>2. CallTypes'
    <2> USE DEF CallTypes, fileVars, GoTo
    <2>1. CASE Call(c)
      <3>1. Modes \subseteq {"none", "write", "check", "unverified", "output"}
        BY DEF Modes
      <3>2. Len(history) \in Nat
        BY TargetType
      <3> QED BY <2>1, <3>1, <3>2 DEF Call
    <2>2. ASSUME NEW a \in {"ok", "drift", "error"}, ReturnNow(c, a) PROVE CallTypes'
      <3>1. Len(history) \in Nat
        BY TargetType
      <3>2. window' \in [Calls -> Nat \X Nat]
        BY <2>2, <3>1 DEF ReturnNow
      <3> QED BY <2>2, <3>2 DEF ReturnNow
    <2>3. CASE Enter(c)
      BY <2>2, <2>3 DEF Enter, Proceed
    <2>4. CASE Open(c) \/ Compare(c)
      <3>1. ASSUME Open(c), target # NoFile, opened' = [opened EXCEPT ![c] = target]
            PROVE  opened' \in [Calls -> Inodes \union {NoFile}]
        BY <3>1, TargetType
      <3>2. CASE Open(c)
        BY <2>2, <3>1, <3>2 DEF Open
      <3>3. CASE Compare(c)
        BY <2>2, <3>3, Zenon DEF Compare
      <3> QED BY <2>4, <3>2, <3>3
    <2>5. CASE CreateCandidate(c) \/ WriteCandidate(c) \/ SyncCandidate(c) \/ CloseCandidate(c)
      <3>1. CASE CreateCandidate(c)
        BY <2>2, <3>1 DEF CreateCandidate, Proceed, Candidate
      <3>2. CASE ~CreateCandidate(c)
        BY <2>5, <3>2 DEF WriteCandidate, SyncCandidate, CloseCandidate, Proceed, FailWith
      <3> QED BY <3>1, <3>2
    <2>6. CASE CreateOverlay(c) \/ WriteOverlay(c) \/ MakeOutputDirectory(c)
      <3>1. Overlay(c) \in {"candidate", "overlay", "output"} \X Calls
        BY DEF Overlay
      <3>2. OutputDirectory(c) \in {"candidate", "overlay", "output"} \X Calls
        BY DEF OutputDirectory
      <3>3. CASE CreateOverlay(c)
        BY <3>1, <3>3 DEF CreateOverlay, Proceed, FailWith
      <3>4. CASE WriteOverlay(c)
        BY <3>4 DEF WriteOverlay, Proceed, FailWith
      <3>5. CASE MakeOutputDirectory(c)
        BY <3>2, <3>5 DEF MakeOutputDirectory, Proceed, FailWith
      <3> QED BY <2>6, <3>3, <3>4, <3>5
    <2>7. CASE Compile(c) \/ RemoveVerification(c) \/ Rename(c) \/ ReturnFromWrite(c)
      BY <2>7 DEF Compile, RemoveVerification, Rename, ReturnFromWrite, Proceed, FailWith
    <2>8. CASE Cancel(c) \/ Kill(c)
      BY <2>8 DEF Cancel, Kill
    <2> QED BY <2>1, <2>3, <2>4, <2>5, <2>6, <2>7, <2>8 DEF Moves, Step
  <1> QED BY <1>1, <1>2

-----------------------------------------------------------------------------
\* Nobody writes to an inode that the path has named.
LEMMA NamedKept ==
    ASSUME Files, NEW c \in Calls, Moves(c)
    PROVE  /\ Len(history) \in Nat /\ Len(history') \in Nat /\ Len(history) <= Len(history')
           /\ \A n \in 1 .. Len(history) :
                 /\ history'[n] = history[n]
                 /\ history[n] # NoFile => data'[history[n]] = data[history[n]]
           /\ data'[Original] = data[Original]
           /\ \A n \in 1 .. Len(history') : n > Len(history) =>
                 history'[n] = c /\ pc[c] = "rename" /\ data' = data
           /\ \A d \in Calls : d # c => (Renamed(d)' <=> Renamed(d))
  <1> USE DEF Files, CallOK
  <1>1. FileTypes /\ CallTypes
    BY TypeParts
  <1>2. Len(history) \in Nat /\ \A n \in 1 .. Len(history) : history[n] \in Inodes \union {NoFile}
    BY <1>1 DEF FileTypes
  <1>3. pc[c] \in {"create", "write"} => \A n \in 1 .. Len(history) : history[n] # c
    BY DEF RenameOK, Renamed
  <1>4. \A i \in Inodes : i # c \/ pc[c] \notin {"create", "write"} => data'[i] = data[i]
    BY <1>1, FileSteps DEF FileTypes
  <1>5. \/ history' = history
        \/ pc[c] = "rename" /\ history' = Append(history, c)
    BY <1>1, FileSteps
  <1>6. /\ Len(history') \in Nat /\ Len(history) <= Len(history')
        /\ \A n \in 1 .. Len(history) : history'[n] = history[n]
        /\ \A n \in 1 .. Len(history') : n > Len(history) =>
                 history'[n] = c /\ pc[c] = "rename"
    BY <1>1, <1>5 DEF FileTypes
  <1>7. pc[c] = "rename" => data' = data
    BY <1>1, FileSteps
  <1>8. Original \in Inodes /\ c \in Inodes /\ Original # c
    BY InodesAssumption DEF Inodes
  <1>9. \A d \in Calls : d # c => (Renamed(d)' <=> Renamed(d))
    BY <1>6 DEF Renamed
  <1> QED BY <1>2, <1>3, <1>4, <1>6, <1>7, <1>8, <1>9

\* What the path has named stays whole, and what it comes to name is.
LEMMA HistoryKeeps ==
    ASSUME Files, NEW c \in Calls, Moves(c)
    PROVE  HistoryWhole'
  <1> USE DEF Files
  <1>1. FileTypes /\ CallTypes
    BY TypeParts
  <1>2. program' = program /\ synced \subseteq synced'
    BY <1>1, FileSteps
  <1>3. ASSUME NEW n \in 1 .. Len(history), NEW i, i = history'[n], i # NoFile
        PROVE  Whole(i)'
    <2>1. i = history[n] /\ data'[i] = data[i]
      BY <1>3, NamedKept
    <2> QED BY <1>2, <1>3, <2>1 DEF HistoryWhole, Whole
  <1>4. ASSUME NEW n \in 1 .. Len(history'), n > Len(history) PROVE Whole(c)' /\ history'[n] = c
    <2>1. history'[n] = c /\ pc[c] = "rename" /\ data' = data
      BY <1>4, NamedKept
    <2>2. c \in synced /\ data[c].state = "full"
      BY <2>1 DEF CallOK, CandidateOK, AfterSync
    <2>3. program = "m1generate" => data[c].source \in Compiles
      BY <2>1 DEF CallOK, CandidateOK, ModeOK, Modes, Writing, AfterSync
    <2> QED BY <1>2, <2>1, <2>2, <2>3 DEF Whole
  <1>5. Whole(Original)'
    BY <1>2, NamedKept DEF HistoryWhole, Whole
  <1>6. \A n \in 1 .. Len(history') : n \in 1 .. Len(history) \/ n > Len(history)
    BY NamedKept
  <1>7. ASSUME NEW n \in 1 .. Len(history'), history'[n] # NoFile
        PROVE  /\ data'[history'[n]].state = "full" /\ history'[n] \in synced'
               /\ program' = "m1generate" => data'[history'[n]].source \in Compiles
    <2>1. PICK i : i = history'[n]
      OBVIOUS
    <2>2. Whole(i)'
      BY <1>3, <1>4, <1>6, <1>7, <2>1
    <2> QED BY <2>1, <2>2 DEF Whole
  <1>8. ASSUME NEW n \in 2 .. Len(history') PROVE history'[n] \in Calls
    <2>1. n \in 1 .. Len(history')
      OBVIOUS
    <2>2. CASE n > Len(history)
      BY <1>4, <2>1, <2>2
    <2>3. CASE n \in 1 .. Len(history)
      <3>1. n \in 2 .. Len(history)
        BY <2>3, NamedKept
      <3> QED BY <2>3, <3>1, NamedKept DEF HistoryWhole
    <2> QED BY <1>6, <2>1, <2>2, <2>3
  <1> QED BY <1>5, <1>7, <1>8 DEF HistoryWhole, Whole

\* A step of another call changes nothing that this one depends on.
LEMMA OthersKeep ==
    ASSUME Files, NEW c \in Calls, Moves(c), NEW d \in Calls, d # c
    PROVE  CallOK(d)'
  <1> USE DEF Files, CallOK
  <1>1. FileTypes /\ CallTypes
    BY TypeParts
  <1>2. /\ pc'[d] = pc[d] /\ job'[d] = job[d] /\ reply'[d] = reply[d]
        /\ opened'[d] = opened[d] /\ window'[d] = window[d]
        /\ d \in failed' <=> d \in failed
        /\ Candidate(d) \in names' <=> Candidate(d) \in names
        /\ Overlay(d) \in names' <=> Overlay(d) \in names
        /\ OutputDirectory(d) \in names' <=> OutputDirectory(d) \in names
    BY <1>1, OtherCalls
  <1>3. /\ program' = program /\ powerLost' = powerLost /\ synced \subseteq synced'
        /\ data'[d] = data[d]
    BY <1>1, FileSteps DEF FileTypes, Inodes
  <1>4. ModeOK(d)' /\ CandidateOK(d)'
    BY <1>2, <1>3 DEF ModeOK, Modes, CandidateOK
  <1>5. RenameOK(d)'
    BY <1>2, <1>3, NamedKept DEF RenameOK
  <1>6. NamesOK(d)'
    BY <1>2, <1>3, Zenon DEF NamesOK, Candidate, Overlay, OutputDirectory
  <1>7. CheckOK(d)'
    <2>1. \A n \in 1 .. Len(history) : n \in 1 .. Len(history')
      BY NamedKept
    <2>2. window[d][1] \in Nat /\ window[d][2] \in Nat
      BY <1>1 DEF CallTypes
    <2>3. pc[d] \in {"start"} \cup Checking => window'[d][1] \in 1 .. Len(history')
      BY <1>2, <2>1 DEF CheckOK
    <2>4. pc[d] = "read" => /\ opened'[d] # NoFile
                            /\ \E n \in window'[d][1] .. Len(history') : history'[n] = opened'[d]
      <3> SUFFICES ASSUME pc[d] = "read"
                   PROVE  \E n \in window[d][1] .. Len(history') : history'[n] = opened[d]
        BY <1>2 DEF CheckOK
      <3>1. PICK n \in window[d][1] .. Len(history) : history[n] = opened[d]
        BY DEF CheckOK
      <3>2. window[d][1] \in 1 .. Len(history)
        BY DEF CheckOK, Checking
      <3>3. Len(history) \in Nat /\ Len(history') \in Nat /\ Len(history) <= Len(history')
        BY NamedKept
      <3>4. n \in 1 .. Len(history) /\ n \in window[d][1] .. Len(history')
        BY <3>2, <3>3
      <3> QED BY <3>1, <3>4, NamedKept
    <2>5. pc[d] = "done" /\ reply[d] = "ok" /\ job[d].mode = "check" /\ ~powerLost =>
          \E n \in window'[d][1] .. window'[d][2] :
              /\ n \in 1 .. Len(history') /\ history'[n] # NoFile
              /\ data'[history'[n]] = [source |-> job'[d].source, state |-> "full"]
      <3> SUFFICES ASSUME pc[d] = "done", reply[d] = "ok", job[d].mode = "check", ~powerLost
                   PROVE  \E n \in window[d][1] .. window[d][2] :
                             /\ n \in 1 .. Len(history') /\ history'[n] # NoFile
                             /\ data'[history'[n]] = [source |-> job[d].source, state |-> "full"]
        BY <1>2
      <3>1. PICK n \in window[d][1] .. window[d][2] :
               /\ n \in 1 .. Len(history) /\ history[n] # NoFile
               /\ data[history[n]] = [source |-> job[d].source, state |-> "full"]
        BY DEF CheckOK
      <3>2. history'[n] = history[n] /\ data'[history[n]] = data[history[n]]
        BY <3>1, NamedKept
      <3> QED BY <2>1, <3>1, <3>2
    <2> QED BY <1>2, <1>3, <2>3, <2>4, <2>5 DEF CheckOK
  <1> QED BY <1>4, <1>5, <1>6, <1>7

-----------------------------------------------------------------------------
\* A call that has not come to its rename has not renamed, and a step other
\* than the rename leaves the path alone.
LEMMA OwnRename ==
    ASSUME Files, NEW c \in Calls, Moves(c)
    PROVE  /\ Renamed(c) => pc[c] \in {"defer", "done", "killed"}
           /\ history' = history => (Renamed(c)' <=> Renamed(c))
           /\ pc[c] # "rename" => history' = history
           /\ history' = Append(history, c) => Renamed(c)'
  <1>1. FileTypes /\ CallTypes
    BY TypeParts DEF Files
  <1>2. Renamed(c) => pc[c] \in {"defer", "done", "killed"}
    BY DEF Files, CallOK, RenameOK
  <1>3. history' = history => (Renamed(c)' <=> Renamed(c))
    BY DEF Renamed
  <1>4. pc[c] # "rename" => history' = history
    BY <1>1, FileSteps
  <1>5. history' = Append(history, c) => Renamed(c)'
    <2> SUFFICES ASSUME history' = Append(history, c) PROVE \E n \in 1 .. Len(history') : history'[n] = c
      BY DEF Renamed
    <2>1. Len(history') \in 1 .. Len(history') /\ history'[Len(history')] = c
      BY <1>1 DEF FileTypes, Inodes
    <2> QED BY <2>1
  <1> QED BY <1>2, <1>3, <1>4, <1>5

\* An answer before anything was created.
LEMMA EarlyReturnKeeps ==
    ASSUME Files, NEW c \in Calls, Moves(c), NEW answer \in {"ok", "drift", "error"},
           ReturnNow(c, answer), pc[c] \in {"start", "create"} \cup Checking,
           answer = "ok" =>
              /\ job[c].mode = "check"
              /\ \E n \in window[c][1] .. Len(history) :
                    /\ n \in 1 .. Len(history) /\ history[n] # NoFile
                    /\ data[history[n]] = [source |-> job[c].source, state |-> "full"]
    PROVE  CallOK(c)'
  <1>1. FileTypes /\ CallTypes /\ CallOK(c)
    BY TypeParts DEF Files
  <1>2. /\ pc'[c] = "done" /\ reply'[c] = answer /\ job' = job /\ failed' = failed
        /\ window'[c][1] = window[c][1] /\ window'[c][2] = Len(history)
        /\ UNCHANGED <<program, data, synced, history, names, powerLost>>
    BY <1>1 DEF CallTypes, ReturnNow, GoTo, fileVars
  <1>3. ModeOK(c)' /\ CandidateOK(c)'
    BY <1>1, <1>2 DEF CallOK, ModeOK, CandidateOK, Modes, Checking, Writing, Verifying, AfterSync
  <1>4. RenameOK(c)'
    <2>1. ~Renamed(c) /\ ~Renamed(c)'
      BY <1>2, OwnRename DEF Checking
    <2> QED BY <1>1, <1>2, <2>1 DEF RenameOK
  <1>5. CheckOK(c)'
    BY <1>2 DEF CheckOK, Checking
  <1>6. NamesOK(c)'
    <2>1. ~powerLost => /\ Candidate(c) \notin names
                        /\ Overlay(c) \notin names /\ OutputDirectory(c) \notin names
      BY <1>1, Zenon DEF CallOK, NamesOK, Checking, AfterSync, Verifying
    <2> QED BY <1>2, <2>1 DEF NamesOK, Candidate, Overlay, OutputDirectory
  <1> QED BY <1>3, <1>4, <1>5, <1>6 DEF CallOK

\* A write that goes on, or fails with its clean-up to run: what is left of
\* its conditions when it has reached its next label and has not renamed.
LEMMA WriteStepKeeps ==
    ASSUME Files, NEW c \in Calls, Moves(c), NEW label \in Writing \ {"create"},
           pc[c] \in Writing \ {"rename", "defer"},
           Proceed(c, label) \/ FailWith(c, label),
           label = "defer" => c \in failed',
           c \in failed' => label \in {"unmake", "defer"},
           CandidateOK(c)', NamesOK(c)',
           label \in {"verify"} \cup Verifying => job[c].mode = "write"
    PROVE  CallOK(c)'
  <1>1. CallTypes /\ CallOK(c)
    BY TypeParts DEF Files
  <1> USE DEF Writing, AfterSync, Verifying
  <1>2. pc'[c] = label /\ UNCHANGED <<program, job, reply, opened, window, powerLost>>
    BY <1>1 DEF CallTypes, Proceed, FailWith, GoTo
  <1>3. ModeOK(c)'
    BY <1>1, <1>2 DEF CallOK, ModeOK, Modes, Checking
  <1>4. RenameOK(c)'
    <2>1. ~Renamed(c) /\ ~Renamed(c)'
      BY OwnRename
    <2> QED BY <1>2, <2>1 DEF RenameOK
  <1>5. CheckOK(c)'
    BY <1>2 DEF CheckOK, Checking
  <1> QED BY <1>3, <1>4, <1>5 DEF CallOK

\* A step of a call keeps its own conditions.
LEMMA OwnKeeps ==
    ASSUME Files, NEW c \in Calls, Moves(c)
    PROVE  CallOK(c)'
  <1>1. FileTypes /\ CallTypes /\ CallOK(c)
    BY TypeParts DEF Files
  <1>2. Len(history) \in Nat /\ Len(history) >= 1 /\ target = history[Len(history)]
    BY <1>1, TargetType
  <1>3. ASSUME NEW label, Proceed(c, label)
        PROVE  pc'[c] = label /\ failed' = failed
               /\ UNCHANGED <<program, job, ctxDone, reply, opened, window, powerLost>>
    BY <1>1, <1>3 DEF CallTypes, Proceed, GoTo
  <1>4. ASSUME NEW label, FailWith(c, label)
        PROVE  pc'[c] = label /\ c \in failed'
               /\ UNCHANGED <<program, job, ctxDone, reply, opened, window, powerLost>>
    BY <1>1, <1>4 DEF CallTypes, FailWith, GoTo
  <1>5. pc[c] \notin {"unmake", "defer", "done", "killed"} => c \notin failed
    BY <1>1 DEF CallOK, RenameOK
  <1> USE DEF Writing, AfterSync, Verifying, Checking
  <1>6. CASE Call(c)
    <2>1. PICK m \in Modes, s \in Sources, n \in BOOLEAN :
             job' = [job EXCEPT ![c] = [mode |-> m, source |-> s, nilContext |-> n]]
      BY <1>6 DEF Call
    <2>2. /\ pc[c] = "idle" /\ pc'[c] = "start" /\ job'[c].mode \in Modes
          /\ window'[c] = <<Len(history), Len(history)>> /\ failed' = failed
          /\ UNCHANGED <<program, data, synced, history, names, powerLost>>
      BY <1>1, <1>6, <2>1 DEF Call, CallTypes, GoTo, fileVars
    <2>3. ModeOK(c)' /\ CandidateOK(c)'
      BY <2>2 DEF ModeOK, CandidateOK, Modes
    <2>4. RenameOK(c)'
      <3>1. ~Renamed(c)'
        BY <2>2, OwnRename
      <3> QED BY <1>5, <2>2, <3>1 DEF RenameOK
    <2>5. CheckOK(c)'
      BY <1>2, <2>2 DEF CheckOK
    <2>6. NamesOK(c)'
      BY <1>1, <2>2, Zenon DEF CallOK, NamesOK, Candidate, Overlay, OutputDirectory
    <2> QED BY <2>3, <2>4, <2>5, <2>6 DEF CallOK
  <1>7. CASE Enter(c)
    <2>1. CASE ReturnNow(c, "error")
      BY <1>7, <2>1, EarlyReturnKeeps DEF Enter
    <2>2. CASE ~Refused(c) /\ job[c].mode = "check" /\ Proceed(c, "open") /\ UNCHANGED fileVars
      <3>1. /\ pc[c] = "start" /\ pc'[c] = "open" /\ failed' = failed
            /\ UNCHANGED <<program, job, window, data, synced, history, names, powerLost>>
        BY <1>3, <1>7, <2>2 DEF Enter, fileVars
      <3>2. ModeOK(c)' /\ CandidateOK(c)' /\ CheckOK(c)'
        BY <1>1, <2>2, <3>1 DEF CallOK, ModeOK, CandidateOK, CheckOK, Modes
      <3>3. ~Renamed(c)'
        BY <3>1, OwnRename
      <3>4. RenameOK(c)'
        BY <1>5, <3>1, <3>3 DEF RenameOK
      <3>5. NamesOK(c)'
        BY <1>1, <3>1, Zenon DEF CallOK, NamesOK, Candidate, Overlay, OutputDirectory
      <3> QED BY <3>2, <3>4, <3>5 DEF CallOK
    <2>3. CASE ~Refused(c) /\ job[c].mode # "check" /\ Proceed(c, "create") /\ UNCHANGED fileVars
      <3>1. /\ pc[c] = "start" /\ pc'[c] = "create" /\ failed' = failed
            /\ UNCHANGED <<program, job, window, data, synced, history, names, powerLost>>
        BY <1>3, <1>7, <2>3 DEF Enter, fileVars
      <3>2. ModeOK(c)'
        BY <1>1, <2>3, <3>1 DEF CallOK, ModeOK, Modes, Refused
      <3>3. ~Renamed(c)'
        BY <3>1, OwnRename
      <3>4. RenameOK(c)' /\ CandidateOK(c)' /\ CheckOK(c)'
        BY <1>5, <3>1, <3>3 DEF RenameOK, CandidateOK, CheckOK
      <3>5. NamesOK(c)'
        BY <1>1, <3>1, Zenon DEF CallOK, NamesOK, Candidate, Overlay, OutputDirectory
      <3> QED BY <3>2, <3>4, <3>5 DEF CallOK
    <2> QED BY <1>7, <2>1, <2>2, <2>3 DEF Enter
  <1>8. CASE Open(c)
    <2>1. CASE ReturnNow(c, "drift")
      BY <1>8, <2>1, EarlyReturnKeeps DEF Open
    <2>2. CASE /\ target # NoFile /\ opened' = [opened EXCEPT ![c] = target] /\ GoTo(c, "read")
               /\ UNCHANGED <<program, job, ctxDone, reply, failed, window, fileVars, powerLost>>
      <3>1. /\ pc[c] = "open" /\ pc'[c] = "read" /\ failed' = failed /\ opened'[c] = target
            /\ UNCHANGED <<program, job, window, data, synced, history, names, powerLost>>
        BY <1>1, <1>8, <2>2 DEF Open, CallTypes, GoTo, fileVars
      <3>2. ModeOK(c)' /\ CandidateOK(c)'
        BY <1>1, <3>1 DEF CallOK, ModeOK, CandidateOK, Modes
      <3>3. RenameOK(c)'
        <4>1. ~Renamed(c)'
          BY <3>1, OwnRename
        <4> QED BY <1>5, <3>1, <4>1 DEF RenameOK
      <3>4. CheckOK(c)'
        <4>1. window[c][1] \in 1 .. Len(history)
          BY <1>1, <3>1 DEF CallOK, CheckOK
        <4>2. Len(history) \in window[c][1] .. Len(history)
          BY <1>2, <4>1
        <4> QED BY <1>2, <2>2, <3>1, <4>1, <4>2 DEF CheckOK
      <3>5. NamesOK(c)'
        BY <1>1, <3>1, Zenon DEF CallOK, NamesOK, Candidate, Overlay, OutputDirectory
      <3> QED BY <3>2, <3>3, <3>4, <3>5 DEF CallOK
    <2> QED BY <1>8, <2>1, <2>2 DEF Open
  <1>9. CASE Compare(c)
    <2>1. CASE ReturnNow(c, "drift")
      BY <1>9, <2>1, EarlyReturnKeeps DEF Compare
    <2>2. CASE data[opened[c]] = [source |-> job[c].source, state |-> "full"] /\ ReturnNow(c, "ok")
      <3>1. pc[c] = "read" /\ job[c].mode = "check"
        BY <1>1, <1>9 DEF Compare, CallOK, ModeOK
      <3>2. window[c][1] \in 1 .. Len(history) /\ opened[c] # NoFile
        BY <1>1, <3>1 DEF CallOK, CheckOK
      <3>3. PICK n \in window[c][1] .. Len(history) : history[n] = opened[c]
        BY <1>1, <3>1 DEF CallOK, CheckOK
      <3>4. n \in 1 .. Len(history)
        BY <1>2, <3>2, <3>3
      <3> QED BY <2>2, <3>1, <3>2, <3>3, <3>4, EarlyReturnKeeps
    <2> QED BY <1>9, <2>1, <2>2 DEF Compare
  <1>10. CASE CreateCandidate(c)
    <2>1. CASE ReturnNow(c, "error")
      BY <1>10, <2>1, EarlyReturnKeeps DEF CreateCandidate
    <2>2. CASE Proceed(c, "write") /\ names' = names \union {Candidate(c)}
      <3>1. pc[c] = "create" /\ pc'[c] = "write" /\ failed' = failed /\ powerLost' = powerLost
        BY <1>3, <1>10, <2>2 DEF CreateCandidate
      <3>2. CandidateOK(c)'
        BY <3>1 DEF CandidateOK
      <3>3. NamesOK(c)'
        <4>1. ~powerLost => Overlay(c) \notin names' /\ OutputDirectory(c) \notin names'
          BY <1>1, <2>2, <3>1 DEF CallOK, NamesOK, Overlay, OutputDirectory, Candidate
        <4> QED BY <3>1, <4>1 DEF NamesOK, Candidate, Overlay, OutputDirectory
      <3> QED BY <1>5, <2>2, <3>1, <3>2, <3>3, WriteStepKeeps
    <2> QED BY <1>10, <2>1, <2>2 DEF CreateCandidate
  <1>11. CASE WriteCandidate(c)
    <2>1. pc[c] = "write" /\ UNCHANGED <<names, synced, history>>
      BY <1>11 DEF WriteCandidate
    <2>2. CASE data' = [data EXCEPT ![c].state = "full"] /\ Proceed(c, "sync")
      <3>1. data'[c].state = "full" /\ pc'[c] = "sync" /\ failed' = failed /\ powerLost' = powerLost
        BY <1>1, <1>3, <2>2 DEF FileTypes, Inodes
      <3>2. CandidateOK(c)'
        BY <3>1 DEF CandidateOK
      <3>3. NamesOK(c)'
        BY <1>1, <2>1, <3>1, Zenon DEF CallOK, NamesOK, Candidate, Overlay, OutputDirectory
      <3> QED BY <1>5, <2>1, <2>2, <3>2, <3>1, <3>3, WriteStepKeeps
    <2>3. CASE FailWith(c, "defer")
      <3>1. pc'[c] = "defer" /\ c \in failed' /\ powerLost' = powerLost
        BY <1>4, <2>3
      <3>2. CandidateOK(c)'
        BY <3>1 DEF CandidateOK
      <3>3. NamesOK(c)'
        BY <1>1, <2>1, <3>1, Zenon DEF CallOK, NamesOK, Candidate, Overlay, OutputDirectory
      <3> QED BY <2>1, <2>3, <3>1, <3>2, <3>3, WriteStepKeeps
    <2> QED BY <1>11, <2>2, <2>3 DEF WriteCandidate
  <1>12. CASE SyncCandidate(c)
    <2>1. pc[c] = "sync" /\ UNCHANGED <<names, data, history>> /\ data[c].state = "full"
      BY <1>1, <1>12 DEF SyncCandidate, CallOK, CandidateOK
    <2>2. CASE synced' = synced \union {c} /\ Proceed(c, "close")
      <3>1. c \in synced' /\ pc'[c] = "close" /\ failed' = failed /\ powerLost' = powerLost
        BY <1>3, <2>2
      <3>2. CandidateOK(c)'
        BY <2>1, <3>1 DEF CandidateOK
      <3>3. NamesOK(c)'
        BY <1>1, <2>1, <3>1, Zenon DEF CallOK, NamesOK, Candidate, Overlay, OutputDirectory
      <3> QED BY <1>5, <2>1, <2>2, <3>2, <3>1, <3>3, WriteStepKeeps
    <2>3. CASE FailWith(c, "defer")
      <3>1. pc'[c] = "defer" /\ c \in failed' /\ powerLost' = powerLost
        BY <1>4, <2>3
      <3>2. CandidateOK(c)'
        BY <3>1 DEF CandidateOK
      <3>3. NamesOK(c)'
        BY <1>1, <2>1, <3>1, Zenon DEF CallOK, NamesOK, Candidate, Overlay, OutputDirectory
      <3> QED BY <2>1, <2>3, <3>1, <3>2, <3>3, WriteStepKeeps
    <2> QED BY <1>12, <2>2, <2>3 DEF SyncCandidate
  \* A failure between the sync and the rename: the clean-up follows, and nothing changes but the label.
  <1>13. ASSUME pc[c] \in AfterSync \ {"rename"}, UNCHANGED <<data, synced, names>>,
                \/ pc[c] \in {"close", "verify"} /\ FailWith(c, "defer")
                \/ pc[c] \in {"overlay", "mkdir", "compile"} /\ FailWith(c, "unmake")
         PROVE  CallOK(c)'
    <2>1. PICK label \in {"defer", "unmake"} :
             /\ FailWith(c, label)
             /\ pc[c] \in {"close", "verify"} <=> label = "defer"
      BY <1>13
    <2>2. pc'[c] = label /\ c \in failed' /\ powerLost' = powerLost /\ job' = job
      BY <1>4, <2>1
    <2>3. CandidateOK(c)'
      BY <1>1, <1>13, <2>1, <2>2 DEF CallOK, CandidateOK
    <2>4. label = "unmake" => job[c].mode = "write"
      BY <1>1, <1>13, <2>1 DEF CallOK, ModeOK
    <2>5. NamesOK(c)'
      BY <1>1, <1>13, <2>1, <2>2, Zenon DEF CallOK, NamesOK, Candidate, Overlay, OutputDirectory
    <2>6. pc[c] \in Writing \ {"rename", "defer"} /\ label \in Writing \ {"create"}
      BY <1>13
    <2> QED BY <2>1, <2>2, <2>3, <2>4, <2>5, <2>6, WriteStepKeeps
  <1>14. CASE CloseCandidate(c)
    <2>1. pc[c] = "close" /\ UNCHANGED <<data, synced, history, names>>
          /\ data[c].state = "full" /\ c \in synced /\ job[c].mode \in {"write", "output"}
      BY <1>1, <1>14 DEF CloseCandidate, fileVars, CallOK, CandidateOK, ModeOK
    <2>2. ASSUME NEW label, label = IF job[c].mode = "write" THEN "verify" ELSE "rename",
                 Proceed(c, label)
          PROVE  CallOK(c)'
      <3>1. pc'[c] = label /\ failed' = failed /\ powerLost' = powerLost /\ job' = job
        BY <1>3, <2>2
      <3>2. CandidateOK(c)'
        BY <2>1, <2>2, <3>1 DEF CandidateOK
      <3>3. NamesOK(c)'
        BY <1>1, <2>1, <2>2, <3>1, Zenon DEF CallOK, NamesOK, Candidate, Overlay, OutputDirectory
      <3> QED BY <1>5, <2>1, <2>2, <3>1, <3>2, <3>3, WriteStepKeeps
    <2> QED BY <1>13, <1>14, <2>1, <2>2 DEF CloseCandidate
  <1>15. CASE CreateOverlay(c)
    <2>1. /\ pc[c] = "verify" /\ UNCHANGED <<data, synced, history>>
          /\ data[c].state = "full" /\ c \in synced /\ job[c].mode = "write"
      BY <1>1, <1>15 DEF CreateOverlay, CallOK, CandidateOK, ModeOK
    <2>2. CASE names' = names \union {Overlay(c)} /\ Proceed(c, "overlay")
      <3>1. pc'[c] = "overlay" /\ failed' = failed /\ powerLost' = powerLost
        BY <1>3, <2>2
      <3>2. CandidateOK(c)'
        BY <2>1, <3>1 DEF CandidateOK
      <3>3. NamesOK(c)'
        BY <3>1 DEF NamesOK, Candidate, Overlay, OutputDirectory
      <3> QED BY <1>5, <2>1, <2>2, <3>1, <3>2, <3>3, WriteStepKeeps
    <2> QED BY <1>13, <1>15, <2>1, <2>2 DEF CreateOverlay
  <1>16. CASE WriteOverlay(c)
    <2>1. /\ pc[c] = "overlay" /\ UNCHANGED <<data, synced, history, names>>
          /\ data[c].state = "full" /\ c \in synced /\ job[c].mode = "write"
      BY <1>1, <1>16 DEF WriteOverlay, fileVars, CallOK, CandidateOK, ModeOK
    <2>2. CASE Proceed(c, "mkdir")
      <3>1. pc'[c] = "mkdir" /\ failed' = failed /\ powerLost' = powerLost
        BY <1>3, <2>2
      <3>2. CandidateOK(c)'
        BY <2>1, <3>1 DEF CandidateOK
      <3>3. NamesOK(c)'
        BY <3>1 DEF NamesOK
      <3> QED BY <1>5, <2>1, <2>2, <3>1, <3>2, <3>3, WriteStepKeeps
    <2> QED BY <1>13, <1>16, <2>1, <2>2 DEF WriteOverlay
  <1>17. CASE MakeOutputDirectory(c)
    <2>1. /\ pc[c] = "mkdir" /\ UNCHANGED <<data, synced, history>>
          /\ data[c].state = "full" /\ c \in synced /\ job[c].mode = "write"
      BY <1>1, <1>17 DEF MakeOutputDirectory, CallOK, CandidateOK, ModeOK
    <2>2. CASE names' = names \union {OutputDirectory(c)} /\ Proceed(c, "compile")
      <3>1. pc'[c] = "compile" /\ failed' = failed /\ powerLost' = powerLost
        BY <1>3, <2>2
      <3>2. CandidateOK(c)'
        BY <2>1, <3>1 DEF CandidateOK
      <3>3. NamesOK(c)'
        BY <3>1 DEF NamesOK, Candidate, Overlay, OutputDirectory
      <3> QED BY <1>5, <2>1, <2>2, <3>1, <3>2, <3>3, WriteStepKeeps
    <2> QED BY <1>13, <1>17, <2>1, <2>2 DEF MakeOutputDirectory
  <1>18. CASE Compile(c)
    <2>1. /\ pc[c] = "compile" /\ UNCHANGED <<data, synced, history, names>>
          /\ data[c].state = "full" /\ c \in synced /\ job[c].mode = "write"
      BY <1>1, <1>18 DEF Compile, fileVars, CallOK, CandidateOK, ModeOK
    <2>2. CASE CompileSucceeds(c) /\ Proceed(c, "unmake")
      <3>1. pc'[c] = "unmake" /\ failed' = failed /\ powerLost' = powerLost
        BY <1>3, <2>2
      <3>2. CandidateOK(c)'
        BY <2>1, <2>2, <3>1 DEF CandidateOK, CompileSucceeds
      <3>3. NamesOK(c)'
        BY <3>1 DEF NamesOK
      <3> QED BY <1>5, <2>1, <2>2, <3>1, <3>2, <3>3, WriteStepKeeps
    <2> QED BY <1>13, <1>18, <2>1, <2>2 DEF Compile
  <1>19. CASE RemoveVerification(c)
    <2> DEFINE label == IF c \in failed THEN "defer" ELSE "rename"
    <2>1. /\ pc[c] = "unmake" /\ UNCHANGED <<data, synced, history>>
          /\ names' = names \ {Overlay(c), OutputDirectory(c)} /\ Proceed(c, label)
      BY <1>19 DEF RemoveVerification
    <2>2. pc'[c] = label /\ failed' = failed /\ powerLost' = powerLost /\ job' = job
      BY <1>3, <2>1
    <2>3. CandidateOK(c)'
      BY <1>1, <2>1, <2>2 DEF CallOK, CandidateOK
    <2>4. NamesOK(c)'
      BY <2>1, <2>2 DEF NamesOK, Candidate, Overlay, OutputDirectory
    <2> QED BY <2>1, <2>2, <2>3, <2>4, WriteStepKeeps
  <1>20. CASE Rename(c)
    <2>1. pc[c] = "rename" /\ UNCHANGED <<data, synced>> /\ c \notin failed
          /\ (~powerLost => Overlay(c) \notin names /\ OutputDirectory(c) \notin names)
      BY <1>1, <1>5, <1>20 DEF Rename, CallOK, NamesOK
    <2>2. pc'[c] = "defer" /\ UNCHANGED <<program, job, powerLost>>
          /\ \/ history' = Append(history, c) /\ names' = names \ {Candidate(c)} /\ c \notin failed'
             \/ UNCHANGED <<history, names>> /\ c \in failed'
      BY <1>3, <1>4, <1>20, <2>1 DEF Rename
    <2>3. ModeOK(c)' /\ CandidateOK(c)' /\ CheckOK(c)'
      BY <1>1, <2>1, <2>2 DEF CallOK, ModeOK, Modes, CandidateOK, CheckOK
    <2>4. RenameOK(c)'
      <3>1. c \notin failed' <=> Renamed(c)'
        BY <2>1, <2>2, OwnRename
      <3> QED BY <2>2, <3>1 DEF RenameOK
    <2>5. NamesOK(c)'
      <3>1. Overlay(c) # Candidate(c) /\ OutputDirectory(c) # Candidate(c)
        BY DEF Overlay, OutputDirectory, Candidate
      <3>2. Candidate(c)' = Candidate(c) /\ Overlay(c)' = Overlay(c)
            /\ OutputDirectory(c)' = OutputDirectory(c)
        BY DEF Candidate, Overlay, OutputDirectory
      <3>3. Candidate(c) \in names' => c \in failed'
        BY <2>2
      <3>4. ~powerLost => Overlay(c) \notin names' /\ OutputDirectory(c) \notin names'
        BY <2>1, <2>2, <3>1
      <3> QED BY <2>2, <3>2, <3>3, <3>4, Zenon DEF NamesOK
    <2> QED BY <2>3, <2>4, <2>5 DEF CallOK
  <1>21. CASE ReturnFromWrite(c)
    <2>1. /\ pc[c] = "defer" /\ pc'[c] = "done"
          /\ reply'[c] = IF c \in failed THEN "error" ELSE "ok"
          /\ names' = IF c \in failed THEN names \ {Candidate(c)} ELSE names
          /\ UNCHANGED <<program, job, failed, window, data, synced, history, powerLost>>
      BY <1>1, <1>21 DEF ReturnFromWrite, CallTypes, GoTo
    <2>2. job[c].mode \in {"write", "output"} /\ (c \notin failed <=> Renamed(c))
          /\ (~powerLost => Overlay(c) \notin names /\ OutputDirectory(c) \notin names)
          /\ (~powerLost /\ Candidate(c) \in names => c \in failed)
      BY <1>1, <2>1 DEF CallOK, ModeOK, RenameOK, NamesOK
    <2>3. ModeOK(c)' /\ CandidateOK(c)' /\ CheckOK(c)'
      BY <1>1, <2>1, <2>2 DEF CallOK, ModeOK, Modes, CandidateOK, CheckOK
    <2>4. RenameOK(c)'
      <3>1. Renamed(c)' <=> Renamed(c)
        BY <2>1, OwnRename
      <3> QED BY <2>1, <2>2, <3>1 DEF RenameOK
    <2>5. NamesOK(c)'
      BY <2>1, <2>2 DEF NamesOK, Candidate, Overlay, OutputDirectory
    <2> QED BY <2>3, <2>4, <2>5 DEF CallOK
  <1>22. CASE Cancel(c)
    <2>1. UNCHANGED <<program, pc, job, reply, failed, opened, window, data, synced, history, names, powerLost>>
      BY <1>22 DEF Cancel, fileVars
    <2>2. Renamed(c)' <=> Renamed(c)
      BY <2>1, OwnRename
    <2>3. ModeOK(c)' /\ CandidateOK(c)' /\ CheckOK(c)'
      BY <1>1, <2>1 DEF CallOK, ModeOK, Modes, CandidateOK, CheckOK
    <2>4. RenameOK(c)'
      BY <1>1, <2>1, <2>2 DEF CallOK, RenameOK
    <2>5. NamesOK(c)'
      BY <1>1, <2>1, Zenon DEF CallOK, NamesOK, Candidate, Overlay, OutputDirectory
    <2> QED BY <2>3, <2>4, <2>5 DEF CallOK
  <1>23. CASE Kill(c)
    <2>1. Running(c) /\ pc'[c] = "killed"
          /\ UNCHANGED <<program, job, reply, failed, opened, window, data, synced, history, names, powerLost>>
      BY <1>1, <1>23 DEF Kill, CallTypes, GoTo, fileVars
    <2>2. ModeOK(c)' /\ CandidateOK(c)' /\ CheckOK(c)' /\ RenameOK(c)' /\ NamesOK(c)'
      BY <1>1, <2>1 DEF CallOK, ModeOK, Modes, CandidateOK, CheckOK, RenameOK, NamesOK, Running
    <2> QED BY <2>2 DEF CallOK
  <1> QED BY <1>6, <1>7, <1>8, <1>9, <1>10, <1>11, <1>12, <1>14, <1>15, <1>16, <1>17, <1>18,
             <1>19, <1>20, <1>21, <1>22, <1>23 DEF Moves, Step

\* A power loss goes back to an inode the path has named, and that one was synced.
LEMMA PowerLossKeeps ==
    ASSUME Files, PowerLoss
    PROVE  Files'
  <1>1. FileTypes /\ CallTypes
    BY TypeParts DEF Files
  <1>2. Len(history) \in Nat /\ Len(history) >= 1
    BY <1>1, TargetType
  <1>3. PICK k \in 1 .. Len(history) :
           /\ history' = <<history[k]>>
           /\ names' = names \union {Candidate(history[i]) : i \in (k + 1) .. Len(history)}
    BY DEF PowerLoss
  <1>4. PICK left \in [Inodes -> {"empty", "torn", "full"}] :
           /\ \A i \in Inodes : left[i] \in Remains(i)
           /\ data' = [i \in Inodes |-> [data[i] EXCEPT !.state = left[i]]]
    BY DEF PowerLoss
  <1>5. /\ \A c \in Calls : pc'[c] = (IF Running(c) THEN "killed" ELSE pc[c])
        /\ powerLost' /\ synced' = Inodes /\ UNCHANGED <<program, job, ctxDone, reply, failed, opened, window>>
        /\ pc' = [c \in Calls |-> IF Running(c) THEN "killed" ELSE pc[c]]
    BY DEF PowerLoss
  <1>6. history[k] \in Inodes \union {NoFile} /\ Len(history') = 1 /\ history'[1] = history[k]
    BY <1>1, <1>3 DEF FileTypes
  <1>7. TypeOK'
    <2>1. FileTypes'
      <3>1. \A i \in Inodes : data[i] \in [source : Sources, state : {"empty", "torn", "full"}]
        BY <1>1 DEF FileTypes
      <3>2. data' \in [Inodes -> [source : Sources, state : {"empty", "torn", "full"}]]
        BY <1>4, <3>1
      <3> QED BY <1>3, <1>5, <1>6, <3>2 DEF FileTypes, Inodes
    <2>2. names' \subseteq {"candidate", "overlay", "output"} \X Calls
      <3>1. ASSUME NEW i \in (k + 1) .. Len(history)
            PROVE  Candidate(history[i]) \in {"candidate", "overlay", "output"} \X Calls
        <4>1. i \in 2 .. Len(history)
          BY <1>2
        <4> QED BY <4>1 DEF Files, HistoryWhole, Candidate
      <3> QED BY <1>1, <1>3, <3>1 DEF CallTypes
    <2>3. pc' \in [Calls -> {"idle", "start", "open", "read", "create", "write", "sync", "close",
                             "verify", "overlay", "mkdir", "compile", "unmake", "rename", "defer",
                             "done", "killed"}]
      BY <1>1, <1>5 DEF CallTypes
    <2>4. CallTypes'
      BY <1>1, <1>5, <2>2, <2>3, Zenon DEF CallTypes, Inodes
    <2> QED BY <2>1, <2>4, TypeParts, PTL
  <1>8. ASSUME NEW i \in Inodes, Whole(i) PROVE Whole(i)'
    <2>1. left[i] = "full"
      BY <1>4, <1>8 DEF Whole, Remains
    <2>2. data[i] \in [source : Sources, state : {"empty", "torn", "full"}]
      BY <1>1 DEF FileTypes
    <2>3. data'[i].state = "full" /\ data'[i].source = data[i].source
      BY <1>4, <2>1, <2>2
    <2> QED BY <1>5, <1>8, <2>3 DEF Whole
  <1>9. HistoryWhole'
    <2>1. Whole(Original)'
      BY <1>8 DEF Inodes, Files, HistoryWhole
    <2>2. PICK i : i = history[k]
      OBVIOUS
    <2>3. i # NoFile => Whole(i)'
      BY <1>6, <1>8, <2>2 DEF Files, HistoryWhole
    <2>4. \A n \in 1 .. Len(history') : history'[n] = i
      BY <1>6, <2>2
    <2>5. \A n \in 2 .. Len(history') : history'[n] \in Calls
      BY <1>6
    <2> QED BY <2>1, <2>3, <2>4, <2>5 DEF HistoryWhole, Whole
  <1>10. ASSUME NEW c \in Calls PROVE CallOK(c)'
    <2>1. pc'[c] = "killed" \/ (pc[c] \in {"idle", "done", "killed"} /\ pc'[c] = pc[c])
      BY <1>5 DEF Running
    <2>2. CallOK(c)
      BY DEF Files
    <2>3. Renamed(c)' => Renamed(c)
      BY <1>6 DEF Renamed
    <2>4. pc[c] = "idle" => pc'[c] \in {"idle", "killed"} /\ (pc'[c] = "idle" => c \notin failed)
      BY <2>1, <2>2 DEF CallOK, RenameOK
    <2>5. pc'[c] # "idle" => pc[c] # "idle"
      BY <1>5 DEF Running
    <2>6. ModeOK(c)' /\ CandidateOK(c)'
      BY <1>5, <2>1, <2>2, <2>5 DEF CallOK, ModeOK, Modes, CandidateOK, Checking, Writing, AfterSync, Verifying
    <2>7. RenameOK(c)'
      BY <1>5, <2>1, <2>2, <2>3 DEF CallOK, RenameOK
    <2>8. CheckOK(c)' /\ NamesOK(c)'
      BY <1>5, <2>1 DEF CheckOK, NamesOK, Checking
    <2> QED BY <2>6, <2>7, <2>8 DEF CallOK
  <1> QED BY <1>7, <1>9, <1>10 DEF Files

LEMMA InitFiles == Init => Files
  <1> SUFFICES ASSUME Init PROVE Files
    OBVIOUS
  <1>1. PICK s \in Compiles :
           data = [i \in Inodes |-> [source |-> s, state |-> IF i = Original THEN "full" ELSE "empty"]]
    BY DEF Init
  <1>2. s \in Sources /\ Original \in Inodes
    BY SourcesAssumption DEF Inodes
  <1>3. Idle \in [mode : {"none", "write", "check", "unverified", "output"},
                  source : Sources, nilContext : BOOLEAN]
    BY <1>2 DEF Idle
  <1>4. CallTypes
    BY <1>3 DEF Init, CallTypes
  <1>5. FileTypes /\ Len(history) = 1 /\ history[1] \in {Original, NoFile}
    <2>1. data \in [Inodes -> [source : Sources, state : {"empty", "torn", "full"}]]
      BY <1>1, <1>2
    <2>2. CASE history = <<Original>>
      BY <1>2, <2>1, <2>2 DEF Init, FileTypes
    <2>3. CASE history = <<NoFile>>
      BY <1>2, <2>1, <2>3 DEF Init, FileTypes
    <2> QED BY <2>2, <2>3 DEF Init
  <1>6. TypeOK
    BY <1>4, <1>5, TypeParts
  <1>7. Whole(Original)
    BY <1>1, <1>2 DEF Whole, Init
  <1>8. HistoryWhole
    BY <1>5, <1>7 DEF HistoryWhole
  <1>9. ASSUME NEW c \in Calls PROVE CallOK(c)
    <2>1. ~Renamed(c)
      BY <1>5, InodesAssumption DEF Renamed
    <2> QED BY <2>1 DEF Init, CallOK, ModeOK, CandidateOK, RenameOK, CheckOK, NamesOK, Checking, Writing,
                        AfterSync, Verifying
  <1> QED BY <1>6, <1>8, <1>9 DEF Files

LEMMA NextFiles == Files /\ [Next]_vars => Files'
  <1> SUFFICES ASSUME Files, [Next]_vars PROVE Files'
    OBVIOUS
  <1>1. ASSUME NEW c \in Calls, Moves(c) PROVE Files'
    <2>1. CallTypes' /\ FileTypes'
      BY <1>1, TypesKeep, TypeParts DEF Files
    <2>2. TypeOK'
      BY <2>1, TypeParts, PTL
    <2>3. \A d \in Calls : CallOK(d)'
      BY <1>1, OwnKeeps, OthersKeep
    <2> QED BY <1>1, <2>2, <2>3, HistoryKeeps DEF Files
  <1>2. CASE UNCHANGED vars
    <2> USE <1>2 DEF vars, callVars, fileVars
    <2>1. TypeOK'
      BY DEF Files, TypeOK, Inodes
    <2>2. HistoryWhole'
      BY DEF Files, HistoryWhole, Whole
    <2>3. ASSUME NEW c \in Calls PROVE CallOK(c)'
      <3>1. CallOK(c)
        BY DEF Files
      <3>2. ModeOK(c)' /\ CandidateOK(c)' /\ CheckOK(c)'
        BY <3>1 DEF CallOK, ModeOK, Modes, CandidateOK, CheckOK
      <3>3. RenameOK(c)' /\ NamesOK(c)'
        BY <3>1 DEF CallOK, RenameOK, Renamed, NamesOK, Candidate, Overlay, OutputDirectory
      <3> QED BY <3>2, <3>3 DEF CallOK
    <2> QED BY <2>1, <2>2, <2>3 DEF Files
  <1> QED BY <1>1, <1>2, PowerLossKeeps DEF Next, Moves

-----------------------------------------------------------------------------
(***************************************************************************)
(* The invariant itself: for any number of calls of either program, with   *)
(* contexts that end, failing file operations, kills and a power loss.     *)
(***************************************************************************)
THEOREM SpecFiles == Spec => []Files
  BY InitFiles, NextFiles, PTL DEF Spec

(***************************************************************************)
(* Every variable keeps its type.                                          *)
(***************************************************************************)
THEOREM SpecTypeOK == Spec => []TypeOK
  <1>1. Files => TypeOK
    BY DEF Files
  <1> QED BY <1>1, SpecFiles, PTL

(***************************************************************************)
(* Whoever opens the path, after a crash or a power loss too, finds a      *)
(* complete source; and for m1generate one that the package compiled with. *)
(***************************************************************************)
THEOREM SpecTargetWhole == Spec => []TargetWhole
  <1>1. Files => TargetWhole
    <2>1. FileTypes => Len(history) \in 1 .. Len(history) /\ target = history[Len(history)]
      BY TargetType
    <2> QED BY <2>1, TypeParts DEF Files, HistoryWhole, Whole, TargetWhole
  <1> QED BY <1>1, SpecFiles, PTL

(***************************************************************************)
(* An error of a write means that its rename never happened, nil that it   *)
(* did; nil of a check means that the path held the wanted source at some  *)
(* moment of the call.                                                     *)
(***************************************************************************)
THEOREM SpecAnswersTrue == Spec => []AnswersTrue
  <1>1. ASSUME NEW c \in Calls PROVE Contains(history, c) <=> Renamed(c)
    BY DEF Contains, Renamed
  <1>2. Files => AnswersTrue
    <2> SUFFICES ASSUME Files, NEW c \in Calls, pc[c] = "done"
                 PROVE  /\ reply[c] = "error" => ~Renamed(c)
                        /\ reply[c] = "ok" /\ ~powerLost =>
                              IF job[c].mode = "check"
                              THEN \E i \in HeldDuring(c) :
                                      i # NoFile /\ data[i] = [source |-> job[c].source, state |-> "full"]
                              ELSE Renamed(c)
      BY <1>1 DEF AnswersTrue
    <2>1. CallOK(c)
      BY DEF Files
    <2>2. reply[c] = "error" => ~Renamed(c)
      BY <2>1 DEF CallOK, RenameOK
    <2>3. reply[c] = "ok" /\ ~powerLost /\ job[c].mode # "check" => Renamed(c)
      BY <2>1 DEF CallOK, RenameOK
    <2>4. ASSUME reply[c] = "ok", ~powerLost, job[c].mode = "check"
          PROVE  \E i \in HeldDuring(c) :
                    i # NoFile /\ data[i] = [source |-> job[c].source, state |-> "full"]
      BY <2>1, <2>4 DEF CallOK, CheckOK, HeldDuring
    <2> QED BY <2>2, <2>3, <2>4
  <1> QED BY <1>2, SpecFiles, PTL

(***************************************************************************)
(* A call that returned leaves no candidate, overlay or output directory,  *)
(* whatever failed on the way.                                             *)
(***************************************************************************)
THEOREM SpecNothingLeftBehind == Spec => []NothingLeftBehind
  <1>1. Files => NothingLeftBehind
    <2> SUFFICES ASSUME Files, ~powerLost, NEW c \in Calls, pc[c] = "done"
                 PROVE  Candidate(c) \notin names /\ Overlay(c) \notin names /\ OutputDirectory(c) \notin names
      BY DEF NothingLeftBehind
    <2> QED BY DEF Files, CallOK, NamesOK, AfterSync, Verifying
  <1> QED BY <1>1, SpecFiles, PTL
=============================================================================
