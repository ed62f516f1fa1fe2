----------------------------- MODULE DurableSteps -----------------------------
(***************************************************************************)
(* What durable steps promise the handler of a workflow, whatever number of *)
(* executions it takes to finish it: the outcome of a call is decided once, *)
(* and every execution that is given a value is given that one.             *)
(***************************************************************************)
CONSTANTS
  Calls,        \* the step calls of the handler
  Executions,   \* its executions
  Values,       \* what an operation may return
  Failure,      \* the outcome of an operation that answered an error
  None

VARIABLES
  decided,      \* the outcome of each call, None while it has none
  seen          \* the value each execution was given for each call

vars == <<decided, seen>>

Outcomes == Values \cup {Failure}

Init ==
  /\ decided = [c \in Calls |-> None]
  /\ seen = [e \in Executions |-> [c \in Calls |-> None]]

Show(e, c, o) == seen' = [seen EXCEPT ![e][c] = o]

\* A call is performed.  The execution is told the value unless the operation or
\* the answer of the database failed.
Perform(e, c) ==
  /\ decided[c] = None
  /\ decided'[c] \in Outcomes
  /\ decided' = [decided EXCEPT ![c] = decided'[c]]
  /\ \/ UNCHANGED seen
     \/ decided'[c] \in Values /\ Show(e, c, decided'[c])

\* A call already performed is answered with its value.
Replay(e, c) ==
  /\ decided[c] \in Values
  /\ seen[e][c] = None
  /\ Show(e, c, decided[c])
  /\ UNCHANGED decided

Next == \E e \in Executions, c \in Calls : Perform(e, c) \/ Replay(e, c)

Spec == Init /\ [][Next]_vars
=============================================================================
