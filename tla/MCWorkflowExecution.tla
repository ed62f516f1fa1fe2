-------------------------- MODULE MCWorkflowExecution --------------------------
(***************************************************************************)
(* Values for the constants of WorkflowExecution, for TLC.                 *)
(***************************************************************************)
EXTENDS WorkflowExecution, TLC

CONSTANTS p1, p2, e1, e2, n1, n2, q1, d1

OwnIds == p1 :> e1 @@ p2 :> e2
OneId == p1 :> e1

AllHandle == [p \in Processes |-> Names]
FirstLacksOne == [p \in Processes |-> IF p = p1 THEN {n1} ELSE Names]
AllPoll == [p \in Processes |-> Queues]

Shape(queue, dedup, wait) == [name |-> n1, queue |-> queue, dedup |-> dedup, wait |-> wait]
Direct == {Shape(None, None, None)}
AnyName == Direct \cup {[r EXCEPT !.name = n2] : r \in Direct}
Queued == {Shape(q1, None, None)}
DelayedQueued == {Shape(q1, None, 1)}
QueuedBoth == Queued \cup DelayedQueued
AnyStart == Direct \cup QueuedBoth
Deduplicated == {Shape(q1, d1, None)}

Interchangeable == Permutations(Workflows)

BudgetOf(f) == f @@ [k \in Kinds |-> 0]

CrashBudget == BudgetOf("submit" :> 1 @@ "crash" :> 1 @@ "recovery" :> 1 @@ "resume" :> 1)
SupervisorsBudget == BudgetOf("submit" :> 1 @@ "postpone" :> 1 @@ "resume" :> 1)
ManageBudget == BudgetOf("submit" :> 2 @@ "fork" :> 1 @@ "fault" :> 1 @@ "shutdown" :> 1)
EndsBudget == BudgetOf("submit" :> 1 @@ "crash" :> 1 @@ "cancel" :> 1 @@ "delete" :> 1)
OneSubmit == BudgetOf("submit" :> 1)
=============================================================================
