--------------------------- MODULE WorkflowExecution ---------------------------
(***************************************************************************)
(* How dbos-rust decides which tokio task runs which workflow.             *)
(*                                                                         *)
(* Several processes, each with one DbosContext, share a system database.  *)
(* In each of them run client calls (run, cancel, resume, delay, fork,     *)
(* delete), the queue supervisor, recovery, and one task per spawned       *)
(* execution (execute_workflow).  Every store call is one step; a value    *)
(* read by one call and used by a later one is kept in snap, moving or     *)
(* call, and may be stale by then: save_workflow writes the whole row.     *)
(***************************************************************************)
EXTENDS WorkflowStore

CONSTANTS
  Processes,         \* operating-system processes
  IdOf,              \* the executor_id each is configured with
  Handles,           \* the names registered in each
  Polled,            \* the registered queues each listens to
  BatchSize,         \* max_tasks_per_iteration
  Requests,          \* the argument shapes of run_workflow
  Clients,           \* concurrent management calls
  Budget             \* how many events of each kind the environment may cause

\* What the environment may do to the system, each kind a bounded number of times.
Kinds == {"submit", "cancel", "resume", "postpone", "fork", "delete",
          "crash", "shutdown", "recovery", "fault"}

ASSUME ExecutionAssumption ==
  /\ IdOf \in [Processes -> ExecutorIds]
  /\ Handles \in [Processes -> SUBSET Names]
  /\ Polled \in [Processes -> SUBSET Queues]
  /\ BatchSize \in Nat \ {0}
  /\ Requests \subseteq [name : Names, queue : Queues \cup {None},
                         dedup : DedupIds \cup {None}, wait : Time \cup {None}]
  /\ Budget \in [Kinds -> Nat]
  /\ None \notin Processes \cup Workflows
  /\ IsFiniteSet(Workflows) /\ IsFiniteSet(Executions)

\* A task is named by its workflow and by the uuid it would offer to a claim.
Tasks == Workflows \X Executions
WorkflowOf(t) == t[1]
ExecutionOf(t) == t[2]

VARIABLES
  rows,        \* the workflow table
  now,         \* the clock
  pc,          \* per task: where execute_workflow stands
  host,        \* per task: the process it runs in
  recovered,   \* per task: resume_existing_claim
  claimed,     \* per task: its uuid was granted a claim
  snap,        \* per task: the row it last read
  doomed,      \* per task: a shutdown under way will abort it
  life,        \* per process: dead, idle (context built), launching, launched, stopping
  supervisor,  \* per process: where transition_and_run_queued_workflows stands
  moving,      \* per process: delayed rows read and not yet saved
  unpolled,    \* per process: queues the iteration has yet to list
  call,        \* per client: the management call in flight
  left,        \* what remains of Budget
  opened,      \* history: writes that made the row wait for a claim
  overlapped,  \* history: recovered for an executor that was still executing it
  promised     \* history: the delay the last caller was promised, if any

taskVars == <<pc, host, recovered, claimed, snap, doomed>>
supervisorVars == <<supervisor, moving, unpolled>>
processVars == <<life, supervisorVars>>
historyVars == <<opened, overlapped, promised>>
vars == <<rows, now, pc, host, recovered, claimed, snap, doomed, life, supervisor,
          moving, unpolled, call, left, opened, overlapped, promised>>

PCs == {"free", "read", "claim", "reload", "start", "run", "latest", "finish", "done"}
NoCall == [kind |-> "none", at |-> None, of |-> None, row |-> Absent]
Call == {NoCall} \cup [kind : {"cancel", "resume", "postpone", "fork"},
                      at : Processes, of : Workflows, row : Row]

TypeOK ==
  /\ rows \in [Workflows -> Row]
  /\ now \in Time
  /\ pc \in [Tasks -> PCs]
  /\ host \in [Tasks -> Processes \cup {None}]
  /\ recovered \in [Tasks -> BOOLEAN]
  /\ claimed \in [Tasks -> BOOLEAN]
  /\ snap \in [Tasks -> Row]
  /\ doomed \in [Tasks -> BOOLEAN]
  /\ life \in [Processes -> {"dead", "idle", "launching", "launched", "stopping"}]
  /\ supervisor \in [Processes -> {"off", "list", "move"}]
  /\ moving \in [Processes -> SUBSET (Workflows \X Row)]
  /\ unpolled \in [Processes -> SUBSET Queues]
  /\ call \in [Clients -> Call]
  /\ left \in [Kinds -> Nat]
  /\ opened \in [Workflows -> Nat]
  /\ overlapped \in [Workflows -> BOOLEAN]
  /\ promised \in [Workflows -> Time \cup {None}]

Live(t) == pc[t] \notin {"free", "done"}
\* A live task that owns a claim or was told to take one over.
Holder(t) == Live(t) /\ (claimed[t] \/ recovered[t])
\* A task past the gate: it will run, is running or has run the handler.
Running(t) == pc[t] \in {"reload", "start", "run", "latest", "finish"}
TasksOf(w) == {t \in Tasks : WorkflowOf(t) = w}
-----------------------------------------------------------------------------
Init ==
  /\ rows = [w \in Workflows |-> Absent]
  /\ now = 0
  /\ pc = [t \in Tasks |-> "free"]
  /\ host = [t \in Tasks |-> None]
  /\ recovered = [t \in Tasks |-> FALSE]
  /\ claimed = [t \in Tasks |-> FALSE]
  /\ snap = [t \in Tasks |-> Absent]
  /\ doomed = [t \in Tasks |-> FALSE]
  /\ life = [p \in Processes |-> "idle"]
  /\ supervisor = [p \in Processes |-> "off"]
  /\ moving = [p \in Processes |-> {}]
  /\ unpolled = [p \in Processes |-> {}]
  /\ call = [c \in Clients |-> NoCall]
  /\ left = Budget
  /\ opened = [w \in Workflows |-> 0]
  /\ overlapped = [w \in Workflows |-> FALSE]
  /\ promised = [w \in Workflows |-> None]

Spend(k) == /\ left[k] > 0
            /\ left' = [left EXCEPT ![k] = @ - 1]

\* save_workflow, and the write of a granted claim or insert.
Save(w, row) ==
  /\ rows' = [rows EXCEPT ![w] = row]
  /\ opened' = [opened EXCEPT ![w] =
                  IF Unclaimed(row) /\ ~Unclaimed(rows[w]) THEN @ + 1 ELSE @]

\* Whoever asked for it was told that w will not start before delay.
Promise(w, delay) == promised' = [promised EXCEPT ![w] = delay]

FreeTask(w) == CHOOSE t \in TasksOf(w) : pc[t] = "free"

\* tokio::spawn of execute_workflow in p, once for each workflow of ws; those
\* in again are started with resume_existing_claim.
Spawn(p, ws, again) ==
  LET new == {FreeTask(w) : w \in ws}
  IN  /\ \A w \in ws : \E t \in TasksOf(w) : pc[t] = "free"
      /\ pc' = [t \in Tasks |-> IF t \in new THEN "read" ELSE pc[t]]
      /\ host' = [t \in Tasks |-> IF t \in new THEN p ELSE host[t]]
      /\ recovered' = [t \in Tasks |->
                         IF t \in new THEN WorkflowOf(t) \in again ELSE recovered[t]]
      /\ UNCHANGED <<claimed, snap, doomed>>

\* The tasks of ts return, or are dropped at an await.  A uuid that was never
\* granted is known to nobody, so its name may serve another task; a task that
\* was granted one keeps its host, as a record of who claimed.
End(ts) ==
  /\ pc' = [t \in Tasks |-> IF t \notin ts THEN pc[t]
                            ELSE IF claimed[t] THEN "done" ELSE "free"]
  /\ host' = [t \in Tasks |-> IF t \in ts /\ ~claimed[t] THEN None ELSE host[t]]
  /\ recovered' = [t \in Tasks |-> IF t \in ts THEN FALSE ELSE recovered[t]]
  /\ snap' = [t \in Tasks |-> IF t \in ts THEN Absent ELSE snap[t]]
  /\ doomed' = [t \in Tasks |-> IF t \in ts THEN FALSE ELSE doomed[t]]
  /\ UNCHANGED claimed
-----------------------------------------------------------------------------
(* execute_workflow, one action per store call.                            *)

Goto(t, from, to) == /\ pc[t] = from
                     /\ pc' = [pc EXCEPT ![t] = to]

Keep(t, row) == snap' = [snap EXCEPT ![t] = row]

\* A claimed row is taken over only by recovery, only under the same executor id.
TakesOver_Unrecovered(t, row) == row.executor = IdOf[host[t]]
TakesOver_AnyExecutor(t, row) == recovered[t]
TakesOver(t, row) == recovered[t] /\ row.executor = IdOf[host[t]]

\* get_workflow, and what the row decides: nothing to do, claim it, or go on
\* under the claim it has.
TaskRead(t) ==
  LET row == rows[WorkflowOf(t)]
  IN  /\ pc[t] = "read"
      /\ \/ /\ Unclaimed(row)
            /\ Goto(t, "read", "claim")
            /\ UNCHANGED <<host, recovered, claimed, snap, doomed>>
         \/ /\ row.status \in Unfinished
            /\ row.executor # None
            /\ TakesOver(t, row)
            /\ Goto(t, "read", "start")
            /\ Keep(t, row)
            /\ UNCHANGED <<host, recovered, claimed, doomed>>
         \/ /\ \/ row.status \notin Unfinished
               \/ row.executor # None /\ ~TakesOver(t, row)
            /\ End({t})
      /\ UNCHANGED <<rows, now, processVars, call, left, historyVars>>

TaskClaim(t) ==
  LET w == WorkflowOf(t)
  IN  /\ pc[t] = "claim"
      /\ \/ /\ Claimable(rows[w])
            /\ Save(w, ClaimedRow(rows[w], IdOf[host[t]], ExecutionOf(t)))
            /\ claimed' = [claimed EXCEPT ![t] = TRUE]
            /\ Goto(t, "claim", "reload")
            /\ UNCHANGED <<host, recovered, snap, doomed, overlapped, promised>>
         \/ /\ ~Claimable(rows[w])
            /\ End({t})
            /\ UNCHANGED <<rows, historyVars>>
      /\ UNCHANGED <<now, processVars, call, left>>

\* The row is read again after the claim, which answers only a boolean.
TaskReload(t) ==
  LET row == rows[WorkflowOf(t)]
  IN  /\ pc[t] = "reload"
      /\ \/ /\ row.status \in Unfinished
            /\ Goto(t, "reload", "start")
            /\ Keep(t, row)
            /\ UNCHANGED <<host, recovered, claimed, doomed>>
         \/ /\ row.status \notin Unfinished
            /\ End({t})
      /\ UNCHANGED <<rows, now, processVars, call, left, historyVars>>

\* resolve_workflow, then the save that marks the start.
TaskStart(t) ==
  /\ pc[t] = "start"
  /\ \/ /\ snap[t].name \in Handles[host[t]]
        /\ Save(WorkflowOf(t), [snap[t] EXCEPT !.status = "Pending"])
        /\ Goto(t, "start", "run")
        /\ UNCHANGED <<host, recovered, claimed, snap, doomed, overlapped, promised>>
     \/ /\ snap[t].name \notin Handles[host[t]]
        /\ End({t})
        /\ UNCHANGED <<rows, historyVars>>
  /\ UNCHANGED <<now, processVars, call, left>>

\* The registered handler runs to its end.
TaskRun(t) ==
  /\ Goto(t, "run", "latest")
  /\ UNCHANGED <<rows, now, host, recovered, claimed, snap, doomed, processVars,
                 call, left, historyVars>>

\* The row is read once more: a cancelled workflow keeps its status.
TaskLatest(t) ==
  LET row == rows[WorkflowOf(t)]
  IN  /\ pc[t] = "latest"
      /\ \/ /\ row.status \notin {"absent", "Cancelled"}
            /\ Goto(t, "latest", "finish")
            /\ Keep(t, row)
            /\ UNCHANGED <<host, recovered, claimed, doomed>>
         \/ /\ row.status \in {"absent", "Cancelled"}
            /\ End({t})
      /\ UNCHANGED <<rows, now, processVars, call, left, historyVars>>

TaskFinish(t) ==
  /\ pc[t] = "finish"
  /\ \E result \in {"Success", "Error"} :
        Save(WorkflowOf(t), [snap[t] EXCEPT !.status = result])
  /\ End({t})
  /\ UNCHANGED <<now, processVars, call, left, overlapped, promised>>

\* A store call or a codec answers an error: execute_workflow returns it.
TaskFail(t) ==
  /\ Live(t)
  /\ Spend("fault")
  /\ End({t})
  /\ UNCHANGED <<rows, now, processVars, call, historyVars>>

Task(t) == TaskRead(t) \/ TaskClaim(t) \/ TaskReload(t) \/ TaskStart(t)
           \/ TaskRun(t) \/ TaskLatest(t) \/ TaskFinish(t)
-----------------------------------------------------------------------------
(* Lifecycle and recovery of a process.                                    *)

TasksIn(p) == {t \in Tasks : Live(t) /\ host[t] = p}

\* What recover_pending_workflows selects from one listing: unclaimed pending
\* workflows, to be started, and those claimed by one of ids, to be taken over.
Startable == {w \in Workflows : rows[w].status = "Pending" /\ rows[w].executor = None}
ClaimedBy_Enqueued(ids) ==
  {w \in Workflows : rows[w].status = "Enqueued" /\ rows[w].executor \in ids}
ClaimedBy(ids) ==
  {w \in Workflows : /\ rows[w].status \in {"Pending", "Enqueued"}
                     /\ rows[w].executor \in ids}

RecoverPending(p, ids) ==
  LET ours == ClaimedBy(ids)
  IN  /\ Spawn(p, Startable \cup ours, ours)
      /\ overlapped' = [w \in Workflows |->
           \/ overlapped[w]
           \/ /\ w \in ours
              /\ rows[w].executor = IdOf[p]
              /\ \E t \in TasksOf(w) : Holder(t) /\ IdOf[host[t]] = IdOf[p]]

\* A process starts and builds its context.
Boot(p) ==
  /\ life[p] = "dead"
  /\ life' = [life EXCEPT ![p] = "idle"]
  /\ UNCHANGED <<rows, now, taskVars, supervisorVars, call, left, historyVars>>

\* The first half of launch: the supervisors run before recovery has listed.
Launch(p) ==
  /\ life[p] = "idle"
  /\ life' = [life EXCEPT ![p] = "launching"]
  /\ supervisor' = [supervisor EXCEPT ![p] = "list"]
  /\ UNCHANGED <<rows, now, taskVars, moving, unpolled, call, left, historyVars>>

\* The second half: recovery for the process's own executor id.
FinishLaunch(p) ==
  /\ life[p] = "launching"
  /\ RecoverPending(p, {IdOf[p]})
  /\ life' = [life EXCEPT ![p] = "launched"]
  /\ UNCHANGED <<rows, now, supervisorVars, call, left, opened, promised>>

\* A recovery request of the Conductor, or a call by the application.
Recovery(p, ids) ==
  /\ life[p] # "dead"
  /\ Spend("recovery")
  /\ RecoverPending(p, ids)
  /\ UNCHANGED <<rows, now, processVars, call, opened, promised>>

SupervisorStops(p) ==
  /\ supervisor' = [supervisor EXCEPT ![p] = "off"]
  /\ moving' = [moving EXCEPT ![p] = {}]
  /\ unpolled' = [unpolled EXCEPT ![p] = {}]

\* shutdown, also by a launch that fails.  The tasks there are by now are taken
\* off the list; a task spawned from here on is not, and survives.
Shutdown(p) ==
  /\ life[p] \in {"launching", "launched"}
  /\ Spend("shutdown")
  /\ life' = [life EXCEPT ![p] = "stopping"]
  /\ doomed' = [t \in Tasks |-> doomed[t] \/ t \in TasksIn(p)]
  /\ UNCHANGED <<rows, now, pc, host, recovered, claimed, snap, supervisorVars, call,
                 historyVars>>

\* The tasks taken are aborted one after the other, the supervisor like the rest.
Abort(t) ==
  /\ doomed[t]
  /\ End({t})
  /\ UNCHANGED <<rows, now, processVars, call, left, historyVars>>

AbortSupervisor(p) ==
  /\ life[p] = "stopping"
  /\ supervisor[p] # "off"
  /\ SupervisorStops(p)
  /\ UNCHANGED <<rows, now, taskVars, life, call, left, historyVars>>

FinishShutdown(p) ==
  /\ life[p] = "stopping"
  /\ supervisor[p] = "off"
  /\ \A t \in TasksIn(p) : ~doomed[t]
  /\ life' = [life EXCEPT ![p] = "idle"]
  /\ UNCHANGED <<rows, now, taskVars, supervisorVars, call, left, historyVars>>

\* The process dies, and everything in it that was under way.
Crash(p) ==
  /\ life[p] # "dead"
  /\ Spend("crash")
  /\ life' = [life EXCEPT ![p] = "dead"]
  /\ End(TasksIn(p))
  /\ SupervisorStops(p)
  /\ call' = [c \in Clients |-> IF call[c].at = p THEN NoCall ELSE call[c]]
  /\ UNCHANGED <<rows, now, historyVars>>
-----------------------------------------------------------------------------
(* transition_and_run_queued_workflows.                                    *)

Due_AnyDelay(w) == rows[w].status = "Delayed" /\ rows[w].delay # None
Due(w) == /\ rows[w].status = "Delayed"
          /\ rows[w].delay # None
          /\ rows[w].delay <= now

\* The delayed rows that are due are read, all at once.
SupervisorList(p) ==
  /\ supervisor[p] = "list"
  /\ supervisor' = [supervisor EXCEPT ![p] = "move"]
  /\ moving' = [moving EXCEPT ![p] = {<<w, rows[w]>> : w \in {v \in Workflows : Due(v)}}]
  /\ unpolled' = [unpolled EXCEPT ![p] = Polled[p]]
  /\ UNCHANGED <<rows, now, taskVars, life, call, left, historyVars>>

\* One of the rows read is saved as enqueued.
SupervisorMove(p) ==
  /\ supervisor[p] = "move"
  /\ \E m \in moving[p] :
        /\ Save(m[1], [m[2] EXCEPT !.status = "Enqueued"])
        /\ moving' = [moving EXCEPT ![p] = @ \ {m}]
  /\ UNCHANGED <<now, taskVars, life, supervisor, unpolled, call, left, overlapped,
                 promised>>

EnqueuedOn(q) == {w \in Workflows : rows[w].status = "Enqueued" /\ rows[w].queue = q}

\* Up to BatchSize workflows of a queue; which are the oldest is left open.
IsBatch(ws, q) ==
  /\ Cardinality(ws) <= BatchSize
  /\ Cardinality(ws) < BatchSize => ws = EnqueuedOn(q)

\* A batch of one of the queues p listens to is listed and spawned.
SupervisorDequeue(p) ==
  /\ supervisor[p] = "move"
  /\ moving[p] = {}
  /\ \E q \in unpolled[p] :
        /\ \E ws \in SUBSET EnqueuedOn(q) : IsBatch(ws, q) /\ Spawn(p, ws, {})
        /\ unpolled' = [unpolled EXCEPT ![p] = @ \ {q}]
  /\ UNCHANGED <<rows, now, life, supervisor, moving, call, left, historyVars>>

\* The supervisor sleeps, and iterates again unless a shutdown has begun.
SupervisorSleep(p) ==
  /\ supervisor[p] = "move"
  /\ moving[p] = {} /\ unpolled[p] = {}
  /\ supervisor' = [supervisor EXCEPT ![p] =
                      IF life[p] = "stopping" THEN "off" ELSE "list"]
  /\ UNCHANGED <<rows, now, taskVars, life, moving, unpolled, call, left, historyVars>>

\* A store call of the iteration fails: the next one starts afresh.
SupervisorFail(p) ==
  /\ supervisor[p] # "off"
  /\ Spend("fault")
  /\ supervisor' = [supervisor EXCEPT ![p] = "list"]
  /\ moving' = [moving EXCEPT ![p] = {}]
  /\ unpolled' = [unpolled EXCEPT ![p] = {}]
  /\ UNCHANGED <<rows, now, taskVars, life, call, historyVars>>

Supervise(p) == SupervisorList(p) \/ SupervisorMove(p) \/ SupervisorDequeue(p)
                \/ SupervisorSleep(p)

Tick ==
  /\ now < MaxTime
  /\ now' = now + 1
  /\ UNCHANGED <<rows, taskVars, processVars, call, left, historyVars>>
-----------------------------------------------------------------------------
(* Calls of the application, the admin server and the Conductor.           *)

\* run_workflow_value: insert, and spawn unless a queue or a delay is asked for.
Submit(p, w, r) ==
  LET delay == IF r.wait = None THEN None ELSE now + r.wait
      row == NewRow(r.name, r.queue, r.dedup, delay)
      result == InsertResult(rows, w, row)
  IN  /\ life[p] # "dead"
      /\ Spend("submit")
      /\ delay # None => delay <= MaxTime
      /\ \/ result = "Inserted" /\ Save(w, row) /\ Promise(w, delay)
         \/ result = "ExistingExact" /\ UNCHANGED <<rows, opened, promised>>
      /\ IF r.queue = None /\ r.wait = None
         THEN Spawn(p, {w}, {})
         ELSE UNCHANGED taskVars
      /\ UNCHANGED <<now, processVars, call, overlapped>>

\* The get_workflow of a management call that will write what it read.
Begin(c, p, w, kind) ==
  /\ life[p] # "dead"
  /\ call[c] = NoCall
  /\ rows[w].status # "absent"
  /\ kind = "cancel" => rows[w].status \in Unfinished
  /\ kind = "postpone" => rows[w].status = "Delayed"
  /\ Spend(kind)
  /\ call' = [call EXCEPT ![c] = [kind |-> kind, at |-> p, of |-> w, row |-> rows[w]]]
  /\ UNCHANGED <<rows, now, taskVars, processVars, historyVars>>

Return(c, kind) ==
  /\ call[c].kind = kind
  /\ call' = [call EXCEPT ![c] = NoCall]

FinishCancel(c) ==
  /\ Return(c, "cancel")
  /\ Save(call[c].of, [call[c].row EXCEPT !.status = "Cancelled"])
  /\ UNCHANGED <<now, taskVars, processVars, left, overlapped, promised>>

\* The row that resume and fork write, to be claimed anew, at once or by a queue.
Reopened(row, queue) ==
  [row EXCEPT !.status = IF queue = None THEN "Pending" ELSE "Enqueued",
              !.queue = IF queue = None THEN @ ELSE queue,
              !.executor = None, !.execution = None]

\* resume_workflow gives the workflow up to a new claim.
FinishResume(c, queue) ==
  /\ Return(c, "resume")
  /\ Save(call[c].of, Reopened(call[c].row, queue))
  /\ Promise(call[c].of, None)
  /\ IF queue = None
     THEN Spawn(call[c].at, {call[c].of}, {})
     ELSE UNCHANGED taskVars
  /\ UNCHANGED <<now, processVars, left, overlapped>>

\* Some supervisor holds a copy of the row, which it will save.
Copied(w) == \E p \in Processes : \E m \in moving[p] : m[1] = w

\* set_workflow_delay.  What it answers is worth nothing if a supervisor then saves the
\* delay there was before.
FinishPostpone(c, delay) ==
  /\ Return(c, "postpone")
  /\ Save(call[c].of, [call[c].row EXCEPT !.delay = delay])
  /\ Promise(call[c].of, IF Copied(call[c].of) THEN None ELSE delay)
  /\ UNCHANGED <<now, taskVars, processVars, left, overlapped>>

\* fork_workflow inserts a copy of the row it read under the id w.
FinishFork(c, w) ==
  LET fork == Reopened(call[c].row, None)
      result == InsertResult(rows, w, fork)
  IN  /\ Return(c, "fork")
      /\ \/ /\ result = "Inserted"
            /\ Save(w, fork)
            /\ Promise(w, None)
            /\ Spawn(call[c].at, {w}, {})
         \/ /\ result = "ExistingExact"
            /\ UNCHANGED <<rows, opened, promised>>
            /\ Spawn(call[c].at, {w}, {})
         \/ /\ result \in {"ConflictingWorkflow", "QueueDeduplicated"}
            /\ UNCHANGED <<rows, opened, promised, taskVars>>
      /\ UNCHANGED <<now, processVars, left, overlapped>>

\* delete_workflows does not look at what is running.
Delete(p, w) ==
  /\ life[p] # "dead"
  /\ rows[w].status # "absent"
  /\ Spend("delete")
  /\ Save(w, Absent)
  /\ UNCHANGED <<now, taskVars, processVars, call, overlapped, promised>>

FinishCall(c) ==
  \/ FinishCancel(c)
  \/ \E q \in Queues \cup {None} : FinishResume(c, q)
  \/ \E d \in Time : FinishPostpone(c, d)
  \/ \E w \in Workflows : FinishFork(c, w)
-----------------------------------------------------------------------------
Next ==
  \/ \E t \in Tasks : Task(t) \/ TaskFail(t) \/ Abort(t)
  \/ \E p \in Processes :
        \/ Boot(p) \/ Launch(p) \/ FinishLaunch(p) \/ Crash(p)
        \/ Shutdown(p) \/ AbortSupervisor(p) \/ FinishShutdown(p)
        \/ \E ids \in SUBSET ExecutorIds : Recovery(p, ids)
        \/ Supervise(p) \/ SupervisorFail(p)
        \/ \E w \in Workflows : Delete(p, w) \/ \E r \in Requests : Submit(p, w, r)
        \/ \E c \in Clients, w \in Workflows,
              kind \in {"cancel", "resume", "postpone", "fork"} : Begin(c, p, w, kind)
  \/ \E c \in Clients : FinishCall(c)
  \/ Tick

Spec == Init /\ [][Next]_vars

\* The runtime polls every task and supervisor it has spawned, handlers return,
\* a call or a shutdown that has begun goes on, the clock moves, and whoever runs a process
\* restarts and launches it.  The environment's other events may never come.
Fairness ==
  /\ \A t \in Tasks : WF_vars(Task(t)) /\ WF_vars(Abort(t))
  /\ \A p \in Processes : /\ WF_vars(Supervise(p))
                          /\ WF_vars(Boot(p))
                          /\ WF_vars(Launch(p))
                          /\ WF_vars(FinishLaunch(p))
                          /\ WF_vars(AbortSupervisor(p))
                          /\ WF_vars(FinishShutdown(p))
  /\ \A c \in Clients : WF_vars(FinishCall(c))
  /\ WF_vars(Tick)

FairSpec == Spec /\ Fairness
-----------------------------------------------------------------------------
(* Properties.                                                             *)

\* The tasks whose offer of a uuid the store accepted for w.
Claimers(w) == {t \in TasksOf(w) : claimed[t]}

\* A claim is granted at most once for each time the workflow was made to wait
\* for one, whatever stale rows are saved in between: claim_workflow_execution
\* "assigns one executor the right to start" (store.rs), and the saves of
\* resume, postponing and the supervisor are the only ways to a second grant.
GrantsBounded ==
  \A w \in Workflows :
    Cardinality(Claimers(w)) + (IF Unclaimed(rows[w]) THEN 1 ELSE 0) <= opened[w]

\* A workflow that was made to wait only once, and never recovered for an
\* executor that was still at it, is executed by one task at a time: claims,
\* the gate of execute_workflow, crashes, restarts and recovery by any process
\* for any ids never let two tasks past the gate together.
ExclusiveExecution ==
  \A w \in Workflows :
    opened[w] <= 1 /\ ~overlapped[w] =>
      \A t, u \in TasksOf(w) : Running(t) /\ Running(u) => t = u

\* The environment has caused nothing of these kinds.
Unused(kinds) == \A k \in kinds : left[k] = Budget[k]

\* No claim is forgotten: when every process with the claimant's id is launched
\* and knows the workflow, no call failed, and the workflow was made to wait only
\* once, an unfinished claimed workflow has a live task that will go on with it.
\* What recover_pending_workflows at launch is for.
NoForgottenClaim ==
  \A w \in Workflows :
    LET row == rows[w]
        owners == {p \in Processes : IdOf[p] = row.executor}
    IN  /\ row.status \in Unfinished
        /\ row.executor # None
        /\ opened[w] <= 1
        /\ Unused({"fault"})
        /\ \A p \in owners : life[p] = "launched" /\ row.name \in Handles[p]
        => \E t \in TasksOf(w) : Holder(t) /\ host[t] \in owners

\* A workflow made to wait once does not start before the delay that the last caller was
\* promised, at its submission or by set_workflow_delay, though supervisors, tasks and calls
\* save rows they read long before.  A resume and a fork give the delay up.  Nothing
\* is promised by a set_workflow_delay that saves while a supervisor holds a copy of the
\* row: transition_and_run_queued_workflows puts the old delay back and starts it.
NotBeforeDue ==
  \A w \in Workflows :
    /\ opened[w] <= 1
    /\ promised[w] # None
    /\ rows[w].status \in {"Pending", "Enqueued", "Success", "Error"}
    => promised[w] <= now

\* Two unfinished workflows of one queue never share a deduplication id, as
\* insert_workflow_with_result promises with its error QueueDeduplicated, as
\* long as each was made to wait only once and executed by one task at a time.
\* A resume moves a workflow to a queue unchecked, and the save of a task can undo a
\* cancel or a delete after another workflow has taken the id.
DedupUnique ==
  \A v, w \in Workflows :
    /\ v # w
    /\ \A u \in {v, w} : opened[u] <= 1 /\ ~overlapped[u]
    /\ Unused({"cancel", "delete", "resume"})
    /\ rows[v].status \in Unfinished /\ rows[w].status \in Unfinished
    /\ rows[v].queue = rows[w].queue
    /\ rows[v].queue # None /\ rows[v].dedup # None
    => rows[v].dedup # rows[w].dedup

\* Every accepted workflow comes to an end: crashes, restarts, lost claim races
\* and stale saves may delay it but not leave it pending for ever.
EveryWorkflowEnds ==
  \A w \in Workflows : rows[w].status \in Unfinished ~> rows[w].status \notin Unfinished

\* A handler is never entered while another task is past the gate of the same
\* workflow: "one executor the right to start", "rather than allowing duplicate
\* execution" (the trait's comment on claim_workflow_execution).
NoDuplicateExecution ==
  \A w \in Workflows :
    \A t, u \in TasksOf(w) : pc[t] = "run" /\ pc[u] = "run" => t = u
=============================================================================
