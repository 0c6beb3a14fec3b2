---------------------------- MODULE GeneratedFile ----------------------------
(***************************************************************************)
(* Replacing a file that others read: codegen.WriteFile as m1generate      *)
(* calls it, with its compile check of the candidate, and the writeAtomic  *)
(* of godjcheck.  Several processes work on one path at once; their        *)
(* contexts end, every file operation may fail, a process may be killed    *)
(* and the machine may lose power.                                         *)
(*                                                                         *)
(* The file system is external.  A file is an inode; a name is a directory *)
(* entry.  Rename is atomic.  What was not synced is lost or torn after a  *)
(* power loss, and the newest renames of the directory may be undone, in   *)
(* the reverse of their order: nobody syncs the directory.                 *)
(***************************************************************************)
EXTENDS Naturals, Sequences, SequencesExt

CONSTANTS
    Calls,      \* invocations of one program; each runs at most once
    Sources,    \* file contents a generator may come up with
    Parses,     \* the sources that are syntactically valid Go
    Compiles,   \* the sources the target package compiles with
    Original,   \* the inode the path names at the start
    NoFile      \* the path names nothing

ASSUME SourcesAssumption == Compiles \subseteq Parses /\ Parses \subseteq Sources
ASSUME InodesAssumption == Original \notin Calls /\ NoFile \notin Calls \union {Original}

VARIABLES
    program,    \* which program the calls belong to
    pc,         \* where each call is
    job,        \* what each call was asked to do
    ctxDone,    \* the calls whose context has ended
    reply,      \* what each call returned
    failed,     \* the calls whose deferred clean-up follows an error
    opened,     \* the inode a checking call has open
    window,     \* the part of the target's history a checking call ran in
    data,       \* the contents of every inode
    synced,     \* the inodes whose contents are on the medium
    history,    \* the inodes the path has named since the machine started
    names,      \* the temporary names that exist
    powerLost   \* the machine has been restarted

callVars == <<pc, job, ctxDone, reply, failed, opened, window>>
fileVars == <<data, synced, history, names>>
vars == <<program, callVars, fileVars, powerLost>>

Inodes == Calls \union {Original}
target == Last(history)

Candidate(c) == <<"candidate", c>>
Overlay(c) == <<"overlay", c>>
OutputDirectory(c) == <<"output", c>>

\* WriteOptions: a write with a verifier, a write without one, a check; and the plain write of godjcheck.
Modes == IF program = "m1generate" THEN {"write", "check", "unverified"} ELSE {"output"}
Idle == [mode |-> "none", source |-> CHOOSE s \in Sources : TRUE, nilContext |-> FALSE]

TypeOK ==
    /\ program \in {"m1generate", "godjcheck"}
    /\ pc \in [Calls -> {"idle", "start", "open", "read", "create", "write", "sync", "close", "verify",
                         "overlay", "mkdir", "compile", "unmake", "rename", "defer", "done", "killed"}]
    /\ job \in [Calls -> [mode : {"none", "write", "check", "unverified", "output"},
                          source : Sources, nilContext : BOOLEAN]]
    /\ ctxDone \subseteq Calls
    /\ reply \in [Calls -> {"none", "ok", "drift", "error"}]
    /\ failed \subseteq Calls
    /\ opened \in [Calls -> Inodes \union {NoFile}]
    /\ window \in [Calls -> Nat \X Nat]
    /\ data \in [Inodes -> [source : Sources, state : {"empty", "torn", "full"}]]
    /\ synced \subseteq Inodes
    /\ history \in Seq(Inodes \union {NoFile}) /\ history # <<>>
    /\ names \subseteq {"candidate", "overlay", "output"} \X Calls
    /\ powerLost \in BOOLEAN

Init ==
    /\ program \in {"m1generate", "godjcheck"}
    /\ pc = [c \in Calls |-> "idle"]
    /\ job = [c \in Calls |-> Idle]
    /\ ctxDone = {}
    /\ reply = [c \in Calls |-> "none"]
    /\ failed = {}
    /\ opened = [c \in Calls |-> NoFile]
    /\ window = [c \in Calls |-> <<0, 0>>]
    /\ data \in {[i \in Inodes |-> [source |-> s, state |-> IF i = Original THEN "full" ELSE "empty"]] :
                     s \in Compiles}
    /\ synced = {Original}
    /\ history \in {<<Original>>, <<NoFile>>}
    /\ names = {}
    /\ powerLost = FALSE

----------------------------------------------------------------------------
\* Control flow of one call

GoTo(c, label) == pc' = [pc EXCEPT ![c] = label]

Running(c) == pc[c] \notin {"idle", "done", "killed"}

\* Return before there is anything to clean up.
ReturnNow(c, answer) ==
    /\ GoTo(c, "done")
    /\ reply' = [reply EXCEPT ![c] = answer]
    /\ window' = [window EXCEPT ![c][2] = Len(history)]
    /\ UNCHANGED <<program, job, ctxDone, failed, opened, fileVars, powerLost>>

\* An error return with the deferred clean-up still to run.
FailWith(c, label) ==
    /\ GoTo(c, label)
    /\ failed' = failed \union {c}
    /\ UNCHANGED <<program, job, ctxDone, reply, opened, window, powerLost>>

Proceed(c, label) ==
    /\ GoTo(c, label)
    /\ UNCHANGED <<program, job, ctxDone, reply, failed, opened, window, powerLost>>

\* The generator has produced a source and calls WriteFile or writeAtomic; runs of m1generate need not agree.
Call(c) ==
    /\ pc[c] = "idle"
    /\ \E m \in Modes, s \in Sources, n \in BOOLEAN :
          job' = [job EXCEPT ![c] = [mode |-> m, source |-> s, nilContext |-> n]]
    /\ window' = [window EXCEPT ![c] = <<Len(history), Len(history)>>]
    /\ GoTo(c, "start")
    /\ UNCHANGED <<program, ctxDone, reply, failed, opened, fileVars, powerLost>>

\* What WriteFile looks at before it touches the file system: context, syntax, verifier.
Refused(c) ==
    \/ job[c].nilContext
    \/ c \in ctxDone
    \/ program = "m1generate" /\ job[c].source \notin Parses
    \/ job[c].mode = "unverified"

Enter(c) ==
    /\ pc[c] = "start"
    /\ IF Refused(c)
       THEN ReturnNow(c, "error")
       ELSE Proceed(c, IF job[c].mode = "check" THEN "open" ELSE "create") /\ UNCHANGED fileVars

\* A plausible slip: a file that does not exist has not drifted.
OpenToleratesMissing(c) ==
    /\ pc[c] = "open"
    /\ \/ ReturnNow(c, IF target = NoFile THEN "ok" ELSE "drift")
       \/ /\ target # NoFile
          /\ opened' = [opened EXCEPT ![c] = target]
          /\ GoTo(c, "read")
          /\ UNCHANGED <<program, job, ctxDone, reply, failed, window, fileVars, powerLost>>

\* os.ReadFile in check mode opens what the path names now and reads that inode to its end.
Open(c) ==
    /\ pc[c] = "open"
    /\ \/ ReturnNow(c, "drift")
       \/ /\ target # NoFile
          /\ opened' = [opened EXCEPT ![c] = target]
          /\ GoTo(c, "read")
          /\ UNCHANGED <<program, job, ctxDone, reply, failed, window, fileVars, powerLost>>

Compare(c) ==
    /\ pc[c] = "read"
    /\ \/ ReturnNow(c, IF data[opened[c]] = [source |-> job[c].source, state |-> "full"]
                       THEN "ok" ELSE "drift")
       \/ ReturnNow(c, "drift")

\* os.CreateTemp next to the target: a name nobody else has.
CreateCandidate(c) ==
    /\ pc[c] = "create"
    /\ \/ ReturnNow(c, "error")
       \/ /\ data' = [data EXCEPT ![c] = [source |-> job[c].source, state |-> "empty"]]
          /\ names' = names \union {Candidate(c)}
          /\ Proceed(c, "write")
          /\ UNCHANGED <<synced, history>>

\* Chmod and Write; Write may stop half-way.
WriteCandidate(c) ==
    /\ pc[c] = "write"
    /\ \/ /\ data' = [data EXCEPT ![c].state = "full"]
          /\ Proceed(c, "sync")
       \/ /\ \E d \in {"empty", "torn"} : data' = [data EXCEPT ![c].state = d]
          /\ FailWith(c, "defer")
    /\ UNCHANGED <<synced, history, names>>

\* A plausible slip: Close writes everything out, so Sync looks superfluous.
SyncCandidateSkipped(c) ==
    /\ pc[c] = "sync"
    /\ Proceed(c, "close")
    /\ UNCHANGED fileVars

SyncCandidate(c) ==
    /\ pc[c] = "sync"
    /\ \/ synced' = synced \union {c} /\ Proceed(c, "close")
       \/ UNCHANGED synced /\ FailWith(c, "defer")
    /\ UNCHANGED <<data, history, names>>

\* Close, then the context once more before the slow part.
CloseCandidate(c) ==
    /\ pc[c] = "close"
    /\ \/ c \notin ctxDone /\ Proceed(c, IF job[c].mode = "write" THEN "verify" ELSE "rename")
       \/ FailWith(c, "defer")
    /\ UNCHANGED fileVars

\* verifyTargetPackage: the context, the canonical paths, and the overlay file.
CreateOverlay(c) ==
    /\ pc[c] = "verify"
    /\ \/ /\ c \notin ctxDone
          /\ names' = names \union {Overlay(c)}
          /\ Proceed(c, "overlay")
       \/ UNCHANGED names /\ FailWith(c, "defer")
    /\ UNCHANGED <<data, synced, history>>

\* The overlay is encoded, written and closed; only its Remove is deferred so far.
WriteOverlay(c) ==
    /\ pc[c] = "overlay"
    /\ Proceed(c, "mkdir") \/ FailWith(c, "unmake")
    /\ UNCHANGED fileVars

MakeOutputDirectory(c) ==
    /\ pc[c] = "mkdir"
    /\ \/ names' = names \union {OutputDirectory(c)} /\ Proceed(c, "compile")
       \/ UNCHANGED names /\ FailWith(c, "unmake")
    /\ UNCHANGED <<data, synced, history>>

\* go test -c reads the candidate through the overlay; it fails when the context ends or for reasons of its own.
CompileSucceeds(c) ==
    /\ c \notin ctxDone
    /\ {Candidate(c), Overlay(c), OutputDirectory(c)} \subseteq names
    /\ data[c].state = "full"
    /\ data[c].source \in Compiles

\* A plausible slip: the exit status of the compiler is logged and not returned.
CompileIgnoresStatus(c) ==
    /\ pc[c] = "compile"
    /\ Proceed(c, "unmake") \/ FailWith(c, "unmake")
    /\ UNCHANGED fileVars

Compile(c) ==
    /\ pc[c] = "compile"
    /\ (CompileSucceeds(c) /\ Proceed(c, "unmake")) \/ FailWith(c, "unmake")
    /\ UNCHANGED fileVars

\* The deferred calls of verifyTargetPackage; WriteFile then renames or cleans up itself.
RemoveVerification(c) ==
    /\ pc[c] = "unmake"
    /\ names' = names \ {Overlay(c), OutputDirectory(c)}
    /\ Proceed(c, IF c \in failed THEN "defer" ELSE "rename")
    /\ UNCHANGED <<data, synced, history>>

\* os.Rename: the path names the candidate's inode from now on, and keepCandidate is set.
Rename(c) ==
    /\ pc[c] = "rename"
    /\ \/ /\ history' = Append(history, c)
          /\ names' = names \ {Candidate(c)}
          /\ Proceed(c, "defer")
       \/ UNCHANGED <<history, names>> /\ FailWith(c, "defer")
    /\ UNCHANGED <<data, synced>>

\* A plausible slip: the context is looked at once more, after the rename.
ReturnFromWriteChecksContext(c) ==
    /\ pc[c] = "defer"
    /\ names' = IF c \in failed THEN names \ {Candidate(c)} ELSE names
    /\ GoTo(c, "done")
    /\ reply' = [reply EXCEPT ![c] = IF c \in failed \union ctxDone THEN "error" ELSE "ok"]
    /\ UNCHANGED <<program, job, ctxDone, failed, opened, window, data, synced, history, powerLost>>

\* A plausible slip: the clean-up only looks at errors before the verification.
ReturnFromWriteKeepsCandidate(c) ==
    /\ pc[c] = "defer"
    /\ names' = IF c \in failed /\ c \notin synced THEN names \ {Candidate(c)} ELSE names
    /\ GoTo(c, "done")
    /\ reply' = [reply EXCEPT ![c] = IF c \in failed THEN "error" ELSE "ok"]
    /\ UNCHANGED <<program, job, ctxDone, failed, opened, window, data, synced, history, powerLost>>

\* The deferred Close and Remove of WriteFile and writeAtomic, then the return.
ReturnFromWrite(c) ==
    /\ pc[c] = "defer"
    /\ names' = IF c \in failed THEN names \ {Candidate(c)} ELSE names
    /\ GoTo(c, "done")
    /\ reply' = [reply EXCEPT ![c] = IF c \in failed THEN "error" ELSE "ok"]
    /\ UNCHANGED <<program, job, ctxDone, failed, opened, window, data, synced, history, powerLost>>

----------------------------------------------------------------------------
\* The environment

Cancel(c) ==
    /\ Running(c) /\ c \notin ctxDone
    /\ ctxDone' = ctxDone \union {c}
    /\ UNCHANGED <<program, pc, job, reply, failed, opened, window, fileVars, powerLost>>

\* A process dies: nothing deferred runs, its names stay.
Kill(c) ==
    /\ Running(c)
    /\ GoTo(c, "killed")
    /\ UNCHANGED <<program, job, ctxDone, reply, failed, opened, window, fileVars, powerLost>>

\* What may be left of an inode that was never synced.
Remains(i) ==
    IF i \in synced THEN {data[i].state}
    ELSE CASE data[i].state = "empty" -> {"empty"}
           [] data[i].state = "torn" -> {"empty", "torn"}
           [] data[i].state = "full" -> {"empty", "torn", "full"}

\* Every process dies; the last renames are undone, and the candidates they consumed are back.
PowerLoss ==
    /\ ~powerLost /\ powerLost' = TRUE
    /\ pc' = [c \in Calls |-> IF Running(c) THEN "killed" ELSE pc[c]]
    /\ \E k \in 1..Len(history) :
          /\ history' = <<history[k]>>
          /\ names' = names \union {Candidate(history[i]) : i \in (k + 1)..Len(history)}
    /\ \E left \in [Inodes -> {"empty", "torn", "full"}] :
          /\ \A i \in Inodes : left[i] \in Remains(i)
          /\ data' = [i \in Inodes |-> [data[i] EXCEPT !.state = left[i]]]
    /\ synced' = Inodes
    /\ UNCHANGED <<program, job, ctxDone, reply, failed, opened, window>>

Step(c) ==
    \/ Call(c) \/ Enter(c) \/ Open(c) \/ Compare(c)
    \/ CreateCandidate(c) \/ WriteCandidate(c) \/ SyncCandidate(c) \/ CloseCandidate(c)
    \/ CreateOverlay(c) \/ WriteOverlay(c) \/ MakeOutputDirectory(c) \/ Compile(c)
    \/ RemoveVerification(c) \/ Rename(c) \/ ReturnFromWrite(c)

Next == PowerLoss \/ \E c \in Calls : Step(c) \/ Cancel(c) \/ Kill(c)

Spec == Init /\ [][Next]_vars

----------------------------------------------------------------------------
\* Properties

(***************************************************************************)
(* Whoever opens the generated path, also after a crash or a power loss    *)
(* and with several generators at work, finds the file that was there      *)
(* before or one complete source; and what m1generate leaves there was     *)
(* compiled with its package first (WriteFile: sync, close, verify,        *)
(* rename, in that order).                                                 *)
(***************************************************************************)
TargetWhole ==
    target # NoFile =>
        /\ data[target].state = "full"
        /\ program = "m1generate" => data[target].source \in Compiles

\* The inodes the path named at some moment of a call.
HeldDuring(c) == {history[i] : i \in window[c][1]..window[c][2]}

(***************************************************************************)
(* The answer of WriteFile is the truth, with any number of calls at work. *)
(* For a write, nil means that this call's own rename happened and an      *)
(* error that it never did, so that it may be repeated.  For a check, nil  *)
(* means that at some moment of the call the path held exactly the wanted  *)
(* source, never a mixture of two versions (keepCandidate and the order of *)
(* rename and return; ReadFile of one inode and bytes.Equal).              *)
(***************************************************************************)
AnswersTrue ==
    \A c \in {x \in Calls : pc[x] = "done"} :
        /\ reply[c] = "error" => ~Contains(history, c)
        /\ (reply[c] = "ok" /\ ~powerLost) =>
              IF job[c].mode = "check"
              THEN \E i \in HeldDuring(c) :
                      i # NoFile /\ data[i] = [source |-> job[c].source, state |-> "full"]
              ELSE Contains(history, c)

(***************************************************************************)
(* A call that returned has left nothing behind: no candidate next to the  *)
(* target, no overlay and no output directory, whatever failed on the way  *)
(* (the deferred Remove and RemoveAll of WriteFile, writeAtomic and        *)
(* verifyTargetPackage).  Only a kill or a power loss may.                 *)
(***************************************************************************)
NothingLeftBehind ==
    ~powerLost =>
        \A c \in Calls : pc[c] = "done" =>
            {Candidate(c), Overlay(c), OutputDirectory(c)} \intersect names = {}

=============================================================================
