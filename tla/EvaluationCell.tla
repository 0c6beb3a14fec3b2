-------------------------- MODULE EvaluationCell ---------------------------
(***************************************************************************)
(* What QuerySet.All promises, without flights, locks or rows: the result  *)
(* of an evaluation state is a cell that is written at most once, with a   *)
(* version of the table between the birth of the state and now; a call     *)
(* that succeeds returns the value of the cell, any call may fail.         *)
(***************************************************************************)
EXTENDS Integers

CONSTANTS Callers, States, MaxVersion

VARIABLES
    db,      \* committed version
    alive,   \* states that a QuerySet points to
    born,    \* version at which a state was derived
    cell,    \* the write-once cell of each state
    phase, target, answer   \* each caller's All

cellVars == <<db, alive, born, cell, phase, target, answer>>

\* The target of a caller that has not asked.
Nowhere == CHOOSE s \in States : TRUE

Init ==
    /\ db = 0
    /\ alive = {}
    /\ born = [s \in States |-> 0]
    /\ cell = [s \in States |-> [set |-> FALSE, ver |-> 0]]
    /\ phase = [c \in Callers |-> "idle"]
    /\ target = [c \in Callers |-> Nowhere]
    /\ answer = [c \in Callers |-> 0]

Commit ==
    /\ db < MaxVersion
    /\ db' = db + 1
    /\ UNCHANGED <<alive, born, cell, phase, target, answer>>

NewState(s) ==
    /\ s \notin alive
    /\ alive' = alive \cup {s}
    /\ born' = [born EXCEPT ![s] = db]
    /\ UNCHANGED <<db, cell, phase, target, answer>>

Ask(c, s) ==
    /\ phase[c] = "idle"
    /\ phase' = [phase EXCEPT ![c] = "pending"]
    /\ target' = [target EXCEPT ![c] = s]
    /\ UNCHANGED <<db, alive, born, cell, answer>>

\* Some pending call evaluates the query, once.
Evaluate(s) ==
    /\ ~cell[s].set
    /\ \E c \in Callers : phase[c] = "pending" /\ target[c] = s
    /\ \E v \in born[s] .. db : cell' = [cell EXCEPT ![s] = [set |-> TRUE, ver |-> v]]
    /\ UNCHANGED <<db, alive, born, phase, target, answer>>

Answer(c) ==
    /\ phase[c] = "pending"
    /\ cell[target[c]].set
    /\ phase' = [phase EXCEPT ![c] = "answered"]
    /\ answer' = [answer EXCEPT ![c] = cell[target[c]].ver]
    /\ UNCHANGED <<db, alive, born, cell, target>>

Refuse(c) ==
    /\ phase[c] = "pending"
    /\ phase' = [phase EXCEPT ![c] = "failed"]
    /\ UNCHANGED <<db, alive, born, cell, target, answer>>

Finish(c) ==
    /\ phase[c] \in {"answered", "failed"}
    /\ phase' = [phase EXCEPT ![c] = "idle"]
    /\ target' = [target EXCEPT ![c] = Nowhere]
    /\ answer' = [answer EXCEPT ![c] = 0]
    /\ UNCHANGED <<db, alive, born, cell>>

Next ==
    \/ Commit
    \/ \E s \in States : NewState(s) \/ Evaluate(s)
    \/ \E c \in Callers :
          \/ \E s \in alive : Ask(c, s)
          \/ Answer(c) \/ Refuse(c) \/ Finish(c)

Spec == Init /\ [][Next]_cellVars
=============================================================================
