----------------------------- MODULE WorkflowStore -----------------------------
(***************************************************************************)
(* The workflow table of the system database (store.rs, MemoryStore) and   *)
(* the operations on one row that the trait SystemDatabase promises to be  *)
(* atomic: conditional insert, conditional claim, and the unconditional    *)
(* save.  A table is a function from workflow ids to rows; operators take  *)
(* the table, or the row, they read and return what the store answers or   *)
(* the row it writes.                                                      *)
(*                                                                         *)
(* A row keeps the columns the protocol decides on.  name stands for the   *)
(* pair (name, serialized input), which identifies what is to be executed; *)
(* executor and execution are the claim; delay is delay_until.             *)
(*                                                                         *)
(* Here and in the other modules an operator whose name has an underscore, *)
(* X_Why, is a mutated form of X that nothing uses: it shows, put in the   *)
(* place of X, that some property does depend on X.                        *)
(***************************************************************************)
EXTENDS Naturals, FiniteSets

CONSTANTS
  Workflows,    \* workflow_uuid values
  Names,        \* identities: a registered name with its serialized input
  ExecutorIds,  \* executor_id values
  Executions,   \* execution_id values, the fresh uuids offered to a claim
  Queues,       \* queue names
  DedupIds,     \* deduplication ids
  MaxTime,      \* the last instant of the model's clock
  None          \* the absent optional value

Time == 0 .. MaxTime

ASSUME StoreAssumption ==
  /\ MaxTime \in Nat
  /\ None \notin Names \cup ExecutorIds \cup Executions \cup Queues \cup DedupIds
  /\ None \notin Time
-----------------------------------------------------------------------------
Unfinished == {"Pending", "Enqueued", "Delayed"}
Terminal == {"Success", "Error", "Cancelled"}

Row == [status    : Unfinished \cup Terminal \cup {"absent"},
        name      : Names \cup {None},
        executor  : ExecutorIds \cup {None},
        execution : Executions \cup {None},
        queue     : Queues \cup {None},
        dedup     : DedupIds \cup {None},
        delay     : Time \cup {None}]

\* No row is stored under the id.
Absent == [status |-> "absent", name |-> None, executor |-> None,
           execution |-> None, queue |-> None, dedup |-> None, delay |-> None]

\* The row run_workflow_value builds: a delay wins over a queue.
NewRow(name, queue, dedup, delay) ==
  [status    |-> IF delay # None THEN "Delayed"
                 ELSE IF queue # None THEN "Enqueued" ELSE "Pending",
   name      |-> name,
   executor  |-> None,
   execution |-> None,
   queue     |-> queue,
   dedup     |-> dedup,
   delay     |-> delay]
-----------------------------------------------------------------------------
(* insert_workflow_with_result.                                            *)

Duplicate_Enqueued(table, row) ==
  /\ row.queue # None
  /\ row.dedup # None
  /\ \E w \in Workflows : /\ table[w].status = "Enqueued"
                          /\ table[w].queue = row.queue
                          /\ table[w].dedup = row.dedup
Duplicate(table, row) ==
  /\ row.queue # None
  /\ row.dedup # None
  /\ \E w \in Workflows : /\ table[w].status \in Unfinished
                          /\ table[w].queue = row.queue
                          /\ table[w].dedup = row.dedup

IdentityMatches(existing, row) == existing.name = row.name

InsertResult(table, w, row) ==
  IF table[w] # Absent
  THEN IF IdentityMatches(table[w], row) THEN "ExistingExact" ELSE "ConflictingWorkflow"
  ELSE IF Duplicate(table, row) THEN "QueueDeduplicated" ELSE "Inserted"
-----------------------------------------------------------------------------
(* claim_workflow_execution.                                               *)

Claimable_Again(row) == row.status \in {"Pending", "Enqueued"}
Claimable_Pending(row) == row.status = "Pending" /\ row.executor = None
Claimable(row) == /\ row.status \in {"Pending", "Enqueued"}
                  /\ row.executor = None

ClaimedRow_Swapped(row, executor, execution) ==
  [row EXCEPT !.status = "Pending", !.executor = execution, !.execution = executor]
ClaimedRow(row, executor, execution) ==
  [row EXCEPT !.status = "Pending", !.executor = executor, !.execution = execution]

\* A row that is waiting to be claimed, now or after its delay.
Unclaimed(row) == /\ row.status \in Unfinished
                  /\ row.executor = None
=============================================================================
