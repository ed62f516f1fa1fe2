----------------------------- MODULE MCStepReplay -----------------------------
(***************************************************************************)
(* Handlers for StepReplay, for TLC.                                        *)
(***************************************************************************)
EXTENDS StepReplay, TLC

CONSTANTS n1, n2, n3

Call(kind, name) ==
  [kind |-> kind, name |-> name, retries |-> 0, fixed |-> None, inside |-> 0,
   waits |-> {}, strict |-> TRUE, nullable |-> FALSE]

\* Four steps: one is retried, the error of one is handled, one is given its number.
Sequential ==
  <<[Call("run", n1) EXCEPT !.retries = 1], [Call("run", n2) EXCEPT !.strict = FALSE],
    [Call("run", n1) EXCEPT !.fixed = 9], Call("run", n3)>>

\* Steps that return nothing, the first of them allowed to fail.
Units ==
  <<[Call("run", n1) EXCEPT !.strict = FALSE, !.nullable = TRUE], Call("run", n2)>>

\* A spawned step with a step inside races with a step of the handler for numbers, and
\* is awaited; a select waits for another one.
Concurrent ==
  <<Call("spawn", n1), [Call("run", n2) EXCEPT !.retries = 1, !.strict = FALSE],
    [Call("join", n1) EXCEPT !.waits = {1}], Call("spawn", n2),
    [Call("run", n3) EXCEPT !.waits = {4}], [Call("run", n3) EXCEPT !.inside = 1]>>

BudgetOf(crashes, aborts, faults) == "crash" :> crashes @@ "abort" :> aborts @@ "fault" :> faults
NoEvents == BudgetOf(0, 0, 0)
OneCrash == BudgetOf(1, 0, 0)
CrashAndFault == BudgetOf(1, 0, 1)
AllEvents == BudgetOf(1, 1, 1)
=============================================================================
